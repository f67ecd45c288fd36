--------------------------- MODULE InterfaceLists ---------------------------
(***************************************************************************)
(* Who owns a list of interfaces (InterfaceInventoryMitigation.c).  A list *)
(* with rows of tunnels is replaced by a clone without them, the original  *)
(* goes back to the system, and the clone is remembered in a table, so     *)
(* that freeifaddrs can tell it from a list of the system: a clone is many *)
(* blocks, a list of the system one.  Threads of the app get and free      *)
(* lists at any moment; the table has no lock, and an address is used      *)
(* again as soon as it is free.                                            *)
(*                                                                         *)
(* Left out: what is rewritten in the rows a list keeps, and a getifaddrs  *)
(* that fails, which changes nothing.                                      *)
(***************************************************************************)
EXTENDS Naturals, FiniteSets

CONSTANTS
  Threads,    \* threads of the app
  Addresses,  \* where a list may begin
  Slots,      \* the entries of LHInterfaceInventoryOwnedLists (64 in the code)
  Nil,        \* no list
  MayFail     \* may memory for a clone run out (BOOLEAN)

ASSUME ListsAssumption ==
  /\ Slots \in Nat \ {0}
  /\ Nil \notin Addresses
  /\ IsFiniteSet(Addresses)
  /\ MayFail \in BOOLEAN

VARIABLES
  heap,       \* what begins at an address
  table,      \* LHInterfaceInventoryOwnedLists
  held,       \* the lists the app has
  calls,      \* what each thread is doing
  crowded,    \* history: were there more clones at once than entries?
  starved,    \* history: has memory for a clone run out?
  raced,      \* history: have two calls overlapped?
  leaked      \* history: was a clone given to the deallocator of the system?

listVars == <<heap, table, held, calls, crowded, starved, raced, leaked>>
histories == <<crowded, starved, raced, leaked>>

-----------------------------------------------------------------------------
Free == [owner |-> "nobody", rows |-> {}]
System(rows) == [owner |-> "system", rows |-> rows]
Clone == [owner |-> "clone", rows |-> {"plain"}]
Shapes == (SUBSET {"plain", "tunnel"}) \ {{}}
Blocks == {System(rows) : rows \in Shapes} \cup {Clone}

FreeAddresses == {a \in Addresses : heap[a] = Free}

Idle == [stage |-> "idle", list |-> Nil, clone |-> Nil, slot |-> 1]
At(stage, list, clone, slot) ==
  [stage |-> stage, list |-> list, clone |-> clone, slot |-> slot]

Init ==
  /\ heap = [a \in Addresses |-> Free]
  /\ table = [i \in 1..Slots |-> Nil]
  /\ held = {}
  /\ calls = [t \in Threads |-> Idle]
  /\ crowded = FALSE /\ starved = FALSE /\ raced = FALSE /\ leaked = FALSE

Step(t, call) == calls' = [calls EXCEPT ![t] = call]

Enter(t, call) ==
  /\ calls[t] = Idle
  /\ Step(t, call)
  /\ raced' = (raced \/ \E u \in Threads \ {t} : calls[u] # Idle)

(* The call ends and hands the app a list, or none. *)
Return(t, list) ==
  /\ Step(t, Idle)
  /\ held' = held \cup ({list} \ {Nil})

-----------------------------------------------------------------------------
(* LHInterfaceInventoryGetIfAddrsReplacement: the system makes a list. *)
GetIfAddrs(t) ==
  \E a \in FreeAddresses, rows \in Shapes :
    /\ Enter(t, At("clone", a, Nil, 1))
    /\ heap' = [heap EXCEPT ![a] = System(rows)]
    /\ UNCHANGED <<table, held, crowded, starved, leaked>>

Tunnels(t) == "tunnel" \in heap[calls[t].list].rows

(* LHInterfaceInventoryCloneVisibleList.  A clone of a list that has no    *)
(* tunnels is freed again at once, and so is one that fails halfway.  Only *)
(* rows that are not of tunnels take memory.                               *)
CloneUnused(t) ==
  /\ calls[t].stage = "clone"
  /\ \/ ~Tunnels(t) /\ UNCHANGED starved
     \/ MayFail /\ "plain" \in heap[calls[t].list].rows /\ starved' = TRUE
  /\ Return(t, calls[t].list)
  /\ UNCHANGED <<heap, table, crowded, raced, leaked>>

(* Of a list of tunnels nothing is left to clone. *)
CloneEmpty(t) ==
  /\ calls[t].stage = "clone"
  /\ heap[calls[t].list].rows = {"tunnel"}
  /\ heap' = [heap EXCEPT ![calls[t].list] = Free]
  /\ Return(t, Nil)
  /\ UNCHANGED <<table, histories>>

CloneVisible(t) ==
  /\ calls[t].stage = "clone"
  /\ heap[calls[t].list].rows = {"plain", "tunnel"}
  /\ \E a \in FreeAddresses :
       /\ heap' = [heap EXCEPT ![a] = Clone]
       /\ Step(t, At("remember", calls[t].list, a, 1))
  /\ crowded' = (crowded \/ Cardinality({a \in Addresses : heap'[a] = Clone}) > Slots)
  /\ UNCHANGED <<table, held, starved, raced, leaked>>

(* LHInterfaceInventoryRememberOwnedList finds an empty entry first and    *)
(* takes it after.                                                         *)
MutantLookForSlot(t) ==
  LET call == calls[t] IN
  /\ call.stage = "remember"
  /\ Step(t, IF call.slot <= Slots /\ table[call.slot] # Nil
             THEN [call EXCEPT !.slot = @ + 1] ELSE [call EXCEPT !.stage = "take"])
  /\ UNCHANGED <<heap, table, held, histories>>

LookForSlot(t) ==
  LET call == calls[t] IN
  /\ call.stage = "remember" /\ call.slot <= Slots
  /\ Step(t, IF table[call.slot] = Nil
             THEN [call EXCEPT !.stage = "take"] ELSE [call EXCEPT !.slot = @ + 1])
  /\ UNCHANGED <<heap, table, held, histories>>

MutantTakeSlot(t) ==
  LET call == calls[t] IN
  /\ call.stage = "take"
  /\ table' = [table EXCEPT ![call.slot] = call.clone]
  /\ Return(t, call.clone)
  /\ UNCHANGED <<heap, histories>>

(* The clone is the app's, and the list of the system is freed. *)
TakeSlot(t) ==
  LET call == calls[t] IN
  /\ call.stage = "take"
  /\ table' = [table EXCEPT ![call.slot] = call.clone]
  /\ heap' = [heap EXCEPT ![call.list] = Free]
  /\ Return(t, call.clone)
  /\ UNCHANGED histories

MutantTableFull(t) ==
  LET call == calls[t] IN
  /\ call.stage = "remember"
  /\ call.slot >= Slots
  /\ heap' = [heap EXCEPT ![call.clone] = Free]
  /\ Return(t, call.list)
  /\ UNCHANGED <<table, histories>>

(* A clone that cannot be remembered is dropped for the list of the system. *)
TableFull(t) ==
  LET call == calls[t] IN
  /\ call.stage = "remember"
  /\ call.slot > Slots
  /\ heap' = [heap EXCEPT ![call.clone] = Free]
  /\ Return(t, call.list)
  /\ UNCHANGED <<table, histories>>

-----------------------------------------------------------------------------
(* LHInterfaceInventoryFreeIfAddrsReplacement: the app frees a list it has. *)
FreeIfAddrs(t) ==
  \E a \in held :
    /\ Enter(t, At("forget", a, Nil, 1))
    /\ held' = held \ {a}
    /\ UNCHANGED <<heap, table, crowded, starved, leaked>>

(* LHInterfaceInventoryForgetOwnedList compares an entry and clears it     *)
(* after.                                                                  *)
LookForList(t) ==
  LET call == calls[t] IN
  /\ call.stage = "forget" /\ call.slot <= Slots
  /\ Step(t, IF table[call.slot] = call.list
             THEN [call EXCEPT !.stage = "clear"] ELSE [call EXCEPT !.slot = @ + 1])
  /\ UNCHANGED <<heap, table, held, histories>>

MutantClearSlot(t) ==
  LET call == calls[t] IN
  /\ call.stage = "clear"
  /\ heap' = [heap EXCEPT ![call.list] = Free]
  /\ Step(t, Idle)
  /\ UNCHANGED <<table, held, histories>>

(* The list is the module's own, and every block of it is freed. *)
ClearSlot(t) ==
  LET call == calls[t] IN
  /\ call.stage = "clear"
  /\ table' = [table EXCEPT ![call.slot] = Nil]
  /\ heap' = [heap EXCEPT ![call.list] = Free]
  /\ Step(t, Idle)
  /\ UNCHANGED <<held, histories>>

(* A list that is not in the table goes to the system, which frees one     *)
(* block: of a clone the others are lost.                                  *)
NotOwned(t) ==
  LET call == calls[t] IN
  /\ call.stage = "forget" /\ call.slot > Slots
  /\ leaked' = (leaked \/ heap[call.list] = Clone)
  /\ heap' = [heap EXCEPT ![call.list] = Free]
  /\ Step(t, Idle)
  /\ UNCHANGED <<table, held, crowded, starved, raced>>

Next ==
  \E t \in Threads :
    \/ GetIfAddrs(t) \/ CloneUnused(t) \/ CloneEmpty(t) \/ CloneVisible(t)
    \/ LookForSlot(t) \/ TakeSlot(t) \/ TableFull(t)
    \/ FreeIfAddrs(t) \/ LookForList(t) \/ ClearSlot(t) \/ NotOwned(t)

Spec == Init /\ [][Next]_listVars

-----------------------------------------------------------------------------
Stages == {"idle", "clone", "remember", "take", "forget", "clear"}

TypeOK ==
  /\ heap \in [Addresses -> Blocks \cup {Free}]
  /\ table \in [1..Slots -> Addresses \cup {Nil}]
  /\ held \subseteq Addresses
  /\ calls \in [Threads -> [stage : Stages, list : Addresses \cup {Nil},
                            clone : Addresses \cup {Nil}, slot : 1..Slots + 1]]
  /\ \A t \in Threads : calls[t].stage \in {"take", "clear"} => calls[t].slot <= Slots
  /\ {crowded, starved, raced, leaked} \subseteq BOOLEAN

(* The lists calls are still busy with. *)
InHand == {calls[t].list : t \in Threads} \cup {calls[t].clone : t \in Threads}

(* "The mitigation hooks getifaddrs/freeifaddrs" as a pair                 *)
(* (network-interface-inventory.md:26), so that one never frees what the   *)
(* other did not make: whatever threads race, the table names live clones  *)
(* only, and a list of the system that got the address of a freed clone is *)
(* never taken apart as one.                                               *)
OwnedAreClones ==
  /\ \A i \in 1..Slots : table[i] # Nil =>
       heap[table[i]] = Clone /\ table[i] \in held \cup InHand
  /\ \A t \in Threads : calls[t].stage = "clear" => heap[calls[t].list] = Clone
  /\ \A a \in held : heap[a] # Free

(* As long as calls do not overlap, nothing is lost: a clone the app has   *)
(* is in the table once, each is freed as what it is, and no list is left  *)
(* behind.                                                                 *)
SerialKeepsTrack ==
  ~raced =>
    /\ ~leaked
    /\ \A a \in Addresses : heap[a] # Free => a \in held \cup InHand
    /\ \A a \in held : heap[a] = Clone => Cardinality({i \in 1..Slots : table[i] = a}) = 1

(* The rows of tunnels are "absent from the returned getifaddrs list"      *)
(* (network-interface-inventory.md:57) unless memory ran out, or there     *)
(* were at some moment more clones than the table has entries.             *)
TunnelsHidden ==
  ~starved /\ ~crowded => \A a \in held : "tunnel" \notin heap[a].rows
=============================================================================
