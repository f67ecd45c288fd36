------------------------ MODULE InterfaceListsProofs ------------------------
(***************************************************************************)
(* Who owns a list of interfaces, for any number of threads, addresses and *)
(* entries of the table, and whatever calls overlap.                       *)
(***************************************************************************)
EXTENDS InterfaceLists, FiniteSetTheorems, TLAPS

Busy(t) == calls[t].stage # "idle"
Getting(t) == calls[t].stage \in {"clone", "remember", "take"}
Cloned(t) == calls[t].stage \in {"remember", "take"}
Freeing(t) == calls[t].stage \in {"forget", "clear"}
Holds(t, a) == calls[t].list = a \/ calls[t].clone = a

(* What a call holds is allocated, and neither the app nor another call    *)
(* holds it: a list of the system and its clone, or a list to be freed.    *)
HandsInv ==
  \A t \in Threads :
    /\ ~Busy(t) => calls[t] = Idle
    /\ Busy(t) => calls[t].list \in Addresses \ held /\ heap[calls[t].list] # Free
    /\ Getting(t) => heap[calls[t].list].owner = "system"
    /\ Cloned(t) => calls[t].clone \in Addresses \ held /\ heap[calls[t].clone] = Clone
    /\ ~Cloned(t) => calls[t].clone = Nil

ApartInv ==
  /\ \A t, u \in Threads : Busy(t) /\ Busy(u) /\ calls[t].list = calls[u].list => t = u
  /\ \A t, u \in Threads : Cloned(t) /\ Cloned(u) /\ calls[t].clone = calls[u].clone => t = u
  /\ \A t, u \in Threads : Busy(t) /\ Cloned(u) => calls[t].list # calls[u].clone

(* What is allocated somebody holds, and what the app holds is allocated.  *)
KeptInv ==
  /\ \A a \in held : heap[a] # Free
  /\ \A a \in Addresses : heap[a] # Free => a \in held \/ \E t \in Threads : Holds(t, a)

(* An entry of the table is a clone nobody but the app or a call that is   *)
(* freeing it holds, and no other entry has it.                            *)
EntriesInv ==
  \A i \in 1..Slots : table[i] # Nil =>
    /\ heap[table[i]] = Clone
    /\ table[i] \in held \/ \E t \in Threads : Freeing(t) /\ calls[t].list = table[i]
    /\ \A j \in 1..Slots : table[j] = table[i] => j = i

(* The entries a call has passed do not have its list, nor do others than  *)
(* the one it has found.                                                   *)
PassedInv ==
  \A t \in Threads :
    /\ calls[t].stage = "forget" =>
         \A i \in 1..Slots : i < calls[t].slot => table[i] # calls[t].list
    /\ calls[t].stage = "clear" =>
         /\ heap[calls[t].list] = Clone
         /\ \A i \in 1..Slots : table[i] = calls[t].list => i = calls[t].slot

OwnInv == HandsInv /\ ApartInv /\ KeptInv /\ EntriesInv /\ PassedInv

(* Of calls that do not overlap one runs at a time, and the entry it looks *)
(* for or has found is still as it was.                                    *)
SerialInv ==
  ~raced =>
    /\ ~leaked
    /\ \A t, u \in Threads : Busy(t) /\ Busy(u) => t = u
    /\ \A a \in held : heap[a] = Clone => \E i \in 1..Slots : table[i] = a
    /\ \A t \in Threads :
         /\ calls[t].stage = "take" => table[calls[t].slot] = Nil
         /\ calls[t].stage = "clear" => table[calls[t].slot] = calls[t].list
         /\ calls[t].stage = "forget" /\ heap[calls[t].list] = Clone =>
              \E i \in calls[t].slot..Slots : table[i] = calls[t].list

(* The clones that entry j and those after it have, or that a call that    *)
(* has come as far as entry j wants to have remembered.                    *)
Ahead(j) ==
  {a \in Addresses :
     \/ \E i \in j..Slots : table[i] = a
     \/ \E t \in Threads : Cloned(t) /\ calls[t].slot >= j /\ calls[t].clone = a}

(* With no more clones than entries there is room ahead for every one.     *)
RoomInv ==
  ~crowded => \A j \in 1..Slots + 1 : Cardinality(Ahead(j)) <= (Slots + 1) - j

ListsInv == TypeOK /\ OwnInv /\ SerialInv /\ RoomInv /\ TunnelsHidden

-----------------------------------------------------------------------------
(* What begins at an address is told apart by its owner. *)
LEMMA Kinds ==
  /\ Clone # Free /\ Clone.owner = "clone" /\ Clone.rows = {"plain"}
  /\ Free.owner = "nobody" /\ Free.rows = {}
  /\ Clone \in Blocks /\ Free \notin Blocks
  /\ \A rows : /\ System(rows) # Free /\ System(rows) # Clone
               /\ System(rows).owner = "system" /\ System(rows).rows = rows
  /\ \A rows \in Shapes : System(rows) \in Blocks
  BY DEF Clone, Free, System, Blocks

(* The stage, list, clone and entry of a call that has been set up. *)
LEMMA CallFields ==
  /\ Idle.stage = "idle" /\ Idle.list = Nil /\ Idle.clone = Nil /\ Idle.slot = 1
  /\ \A stage, list, clone, slot :
       /\ At(stage, list, clone, slot).stage = stage
       /\ At(stage, list, clone, slot).list = list
       /\ At(stage, list, clone, slot).clone = clone
       /\ At(stage, list, clone, slot).slot = slot
  BY DEF Idle, At

(* The call of a thread is a record with an entry of the table or the one  *)
(* past its end.                                                           *)
LEMMA CallTypes ==
  ASSUME TypeOK, NEW t \in Threads
  PROVE  /\ calls[t].stage \in Stages
         /\ calls[t].list \in Addresses \cup {Nil}
         /\ calls[t].clone \in Addresses \cup {Nil}
         /\ calls[t].slot \in 1..Slots + 1 /\ calls[t].slot \in Nat
         /\ calls[t].stage \in {"take", "clear"} => calls[t].slot \in 1..Slots
         /\ \A n : [calls[t] EXCEPT !.slot = n] = At(calls[t].stage, calls[t].list, calls[t].clone, n)
         /\ \A s : [calls[t] EXCEPT !.stage = s] = At(s, calls[t].list, calls[t].clone, calls[t].slot)
  <1>1. calls[t] \in [stage : Stages, list : Addresses \cup {Nil},
                      clone : Addresses \cup {Nil}, slot : 1..Slots + 1]
    BY DEF TypeOK
  <1>2. \A n : [calls[t] EXCEPT !.slot = n] = At(calls[t].stage, calls[t].list, calls[t].clone, n)
    BY <1>1 DEF At
  <1>3. \A s : [calls[t] EXCEPT !.stage = s] = At(s, calls[t].list, calls[t].clone, calls[t].slot)
    BY <1>1 DEF At
  <1>4. QED
    BY <1>1, <1>2, <1>3, ListsAssumption DEF TypeOK, ListsAssumption

(* A step of one thread leaves the calls of the others. *)
LEMMA StepEffect ==
  ASSUME TypeOK, NEW t \in Threads, NEW call, Step(t, call)
  PROVE  /\ calls'[t] = call
         /\ \A u \in Threads : u # t => calls'[u] = calls[u]
         /\ call \in [stage : Stages, list : Addresses \cup {Nil},
                      clone : Addresses \cup {Nil}, slot : 1..Slots + 1]
              /\ (call.stage \in {"take", "clear"} => call.slot <= Slots)
            => /\ calls' \in [Threads -> [stage : Stages, list : Addresses \cup {Nil},
                                          clone : Addresses \cup {Nil}, slot : 1..Slots + 1]]
               /\ \A u \in Threads :
                    calls'[u].stage \in {"take", "clear"} => calls'[u].slot <= Slots
  <1>1. calls' = [calls EXCEPT ![t] = call] /\ DOMAIN calls = Threads
    BY DEF Step, TypeOK
  <1>2. calls'[t] = call /\ \A u \in Threads : u # t => calls'[u] = calls[u]
    BY <1>1
  <1>3. QED
    BY <1>1, <1>2 DEF TypeOK

(* A call set up with fields of the right types is a call. *)
LEMMA CallMade ==
  ASSUME NEW s \in Stages, NEW l \in Addresses \cup {Nil},
         NEW c \in Addresses \cup {Nil}, NEW n \in 1..Slots + 1
  PROVE  At(s, l, c, n) \in [stage : Stages, list : Addresses \cup {Nil},
                             clone : Addresses \cup {Nil}, slot : 1..Slots + 1]
  BY DEF At

(* And so is the call of a thread that is idle. *)
LEMMA IdleMade ==
  Idle \in [stage : Stages, list : Addresses \cup {Nil},
            clone : Addresses \cup {Nil}, slot : 1..Slots + 1]
  BY ListsAssumption DEF Idle, Stages, ListsAssumption

(* The heap, table and lists held stay well typed as a step changes them. *)
LEMMA StatesMade ==
  ASSUME TypeOK
  PROVE  /\ \A a : [heap EXCEPT ![a] = Free] \in [Addresses -> Blocks \cup {Free}]
         /\ \A a, b : b \in Blocks => [heap EXCEPT ![a] = b] \in [Addresses -> Blocks \cup {Free}]
         /\ \A i, a : a \in Addresses \cup {Nil} =>
              [table EXCEPT ![i] = a] \in [1..Slots -> Addresses \cup {Nil}]
         /\ \A a : a \in Addresses \cup {Nil} => held \cup ({a} \ {Nil}) \subseteq Addresses
  BY DEF TypeOK

-----------------------------------------------------------------------------
(* Nothing is allocated, remembered or called at the start. *)
LEMMA InitTypeOK == Init => TypeOK
  <1> SUFFICES ASSUME Init PROVE TypeOK
    OBVIOUS
  <1>1. calls \in [Threads -> [stage : Stages, list : Addresses \cup {Nil},
                               clone : Addresses \cup {Nil}, slot : 1..Slots + 1]]
    BY IdleMade DEF Init
  <1>2. QED
    BY <1>1, CallFields, Kinds DEF Init, TypeOK

(* Every step of a thread keeps the variables well typed. *)
LEMMA NextTypeOK == TypeOK /\ [Next]_listVars => TypeOK'
  <1> SUFFICES ASSUME TypeOK, [Next]_listVars PROVE TypeOK'
    OBVIOUS
  <1> DEFINE Calls == [stage : Stages, list : Addresses \cup {Nil},
                       clone : Addresses \cup {Nil}, slot : 1..Slots + 1]
             CallsOK == /\ calls' \in [Threads -> Calls]
                        /\ \A u \in Threads :
                             calls'[u].stage \in {"take", "clear"} => calls'[u].slot <= Slots
  <1> USE ListsAssumption DEF ListsAssumption
  <1>h. \A n \in Nat : n <= Slots => n + 1 <= Slots + 1
    OBVIOUS
  <1>1. ASSUME NEW t \in Threads, GetIfAddrs(t) PROVE TypeOK'
    <2>1. PICK a \in FreeAddresses, rows \in Shapes :
            /\ Enter(t, At("clone", a, Nil, 1))
            /\ heap' = [heap EXCEPT ![a] = System(rows)]
            /\ UNCHANGED <<table, held, crowded, starved, leaked>>
      BY <1>1 DEF GetIfAddrs
    <2>2. At("clone", a, Nil, 1) \in Calls
      BY CallMade DEF FreeAddresses, Stages
    <2>3. CallsOK
      BY <2>1, <2>2, StepEffect, CallFields DEF Enter
    <2>4. QED
      BY <2>1, <2>3, StatesMade, Kinds DEF TypeOK, Enter
  <1>2. ASSUME NEW t \in Threads, CloneUnused(t) PROVE TypeOK'
    <2>1. CallsOK
      BY <1>2, StepEffect, IdleMade, CallFields DEF CloneUnused, Return
    <2>2. QED
      BY <1>2, <2>1, StatesMade, CallTypes DEF TypeOK, CloneUnused, Return
  <1>3. ASSUME NEW t \in Threads, CloneEmpty(t) PROVE TypeOK'
    <2>1. CallsOK
      BY <1>3, StepEffect, IdleMade, CallFields DEF CloneEmpty, Return
    <2>2. QED
      BY <1>3, <2>1, StatesMade DEF TypeOK, CloneEmpty, Return, histories
  <1>4. ASSUME NEW t \in Threads, CloneVisible(t) PROVE TypeOK'
    <2>1. PICK a \in FreeAddresses :
            /\ heap' = [heap EXCEPT ![a] = Clone]
            /\ Step(t, At("remember", calls[t].list, a, 1))
      BY <1>4 DEF CloneVisible
    <2>2. At("remember", calls[t].list, a, 1) \in Calls
      BY CallMade, CallTypes DEF FreeAddresses, Stages
    <2>3. CallsOK
      BY <2>1, <2>2, StepEffect, CallFields
    <2>4. heap' \in [Addresses -> Blocks \cup {Free}]
      BY <2>1, StatesMade, Kinds
    <2>5. QED
      BY <1>4, <2>3, <2>4 DEF TypeOK, CloneVisible
  <1>5. ASSUME NEW t \in Threads, LookForSlot(t) PROVE TypeOK'
    <2>1. At("take", calls[t].list, calls[t].clone, calls[t].slot) \in Calls
      BY CallMade, CallTypes DEF Stages
    <2>2. At("remember", calls[t].list, calls[t].clone, calls[t].slot + 1) \in Calls
      BY <1>5, <1>h, CallMade, CallTypes DEF Stages, LookForSlot
    <2>3. CallsOK
      BY <1>5, <2>1, <2>2, StepEffect, CallFields, CallTypes DEF LookForSlot
    <2>4. QED
      BY <1>5, <2>3 DEF TypeOK, LookForSlot, histories
  <1>6. ASSUME NEW t \in Threads, TakeSlot(t) PROVE TypeOK'
    <2>1. CallsOK
      BY <1>6, StepEffect, IdleMade, CallFields DEF TakeSlot, Return
    <2>2. QED
      BY <1>6, <2>1, StatesMade, CallTypes DEF TypeOK, TakeSlot, Return, histories
  <1>7. ASSUME NEW t \in Threads, TableFull(t) PROVE TypeOK'
    <2>1. CallsOK
      BY <1>7, StepEffect, IdleMade, CallFields DEF TableFull, Return
    <2>2. QED
      BY <1>7, <2>1, StatesMade, CallTypes DEF TypeOK, TableFull, Return, histories
  <1>8. ASSUME NEW t \in Threads, FreeIfAddrs(t) PROVE TypeOK'
    <2>1. PICK a \in held :
            /\ Enter(t, At("forget", a, Nil, 1))
            /\ held' = held \ {a}
            /\ UNCHANGED <<heap, table, crowded, starved, leaked>>
      BY <1>8 DEF FreeIfAddrs
    <2>2. At("forget", a, Nil, 1) \in Calls
      BY CallMade DEF TypeOK, Stages
    <2>3. CallsOK
      BY <2>1, <2>2, StepEffect, CallFields DEF Enter
    <2>4. QED
      BY <2>1, <2>3 DEF TypeOK, Enter
  <1>9. ASSUME NEW t \in Threads, LookForList(t) PROVE TypeOK'
    <2>1. At("clear", calls[t].list, calls[t].clone, calls[t].slot) \in Calls
      BY CallMade, CallTypes DEF Stages
    <2>2. At("forget", calls[t].list, calls[t].clone, calls[t].slot + 1) \in Calls
      BY <1>9, <1>h, CallMade, CallTypes DEF Stages, LookForList
    <2>3. CallsOK
      BY <1>9, <2>1, <2>2, StepEffect, CallFields, CallTypes DEF LookForList
    <2>4. QED
      BY <1>9, <2>3 DEF TypeOK, LookForList, histories
  <1>10. ASSUME NEW t \in Threads, ClearSlot(t) PROVE TypeOK'
    <2>1. CallsOK
      BY <1>10, StepEffect, IdleMade, CallFields DEF ClearSlot
    <2>2. QED
      BY <1>10, <2>1, StatesMade DEF TypeOK, ClearSlot, histories
  <1>11. ASSUME NEW t \in Threads, NotOwned(t) PROVE TypeOK'
    <2>1. CallsOK
      BY <1>11, StepEffect, IdleMade, CallFields DEF NotOwned
    <2>2. QED
      BY <1>11, <2>1, StatesMade DEF TypeOK, NotOwned
  <1>12. CASE UNCHANGED listVars
    BY <1>12 DEF listVars, TypeOK
  <1>13. QED
    BY <1>1, <1>2, <1>3, <1>4, <1>5, <1>6, <1>7, <1>8, <1>9, <1>10, <1>11, <1>12 DEF Next

-----------------------------------------------------------------------------
(* The list is new, and no other call is concerned.                         *)
LEMMA GetIfAddrsEffect ==
  ASSUME TypeOK, NEW t \in Threads, GetIfAddrs(t)
  PROVE  \E a \in Addresses, rows \in Shapes :
           /\ heap[a] = Free /\ calls[t] = Idle
           /\ calls'[t] = At("clone", a, Nil, 1)
           /\ \A u \in Threads : u # t => calls'[u] = calls[u]
           /\ \A b \in Addresses : heap'[b] = IF b = a THEN System(rows) ELSE heap[b]
           /\ UNCHANGED <<table, held, crowded, starved, leaked>>
           /\ raced' = (raced \/ \E u \in Threads \ {t} : calls[u] # Idle)
  <1>1. PICK a \in FreeAddresses, rows \in Shapes :
            /\ Enter(t, At("clone", a, Nil, 1))
            /\ heap' = [heap EXCEPT ![a] = System(rows)]
            /\ UNCHANGED <<table, held, crowded, starved, leaked>>
    BY DEF GetIfAddrs
  <1>2. QED
    BY <1>1, StepEffect DEF GetIfAddrs, Enter, FreeAddresses, TypeOK

(* The list of the system is the app's, tunnels or not.                     *)
LEMMA CloneUnusedEffect ==
  ASSUME TypeOK, NEW t \in Threads, CloneUnused(t)
  PROVE  /\ calls[t].stage = "clone"
         /\ starved' \/ ~Tunnels(t)
         /\ starved => starved'
         /\ calls'[t] = Idle
         /\ \A u \in Threads : u # t => calls'[u] = calls[u]
         /\ held' = held \cup ({calls[t].list} \ {Nil})
         /\ UNCHANGED <<heap, table, crowded, raced, leaked>>
  BY StepEffect, CallTypes, ListsAssumption DEF CloneUnused, Return, TypeOK, ListsAssumption

(* A list of tunnels is freed.                                              *)
LEMMA CloneEmptyEffect ==
  ASSUME TypeOK, NEW t \in Threads, CloneEmpty(t)
  PROVE  /\ calls[t].stage = "clone"
         /\ calls'[t] = Idle
         /\ \A u \in Threads : u # t => calls'[u] = calls[u]
         /\ \A b \in Addresses : heap'[b] = IF b = calls[t].list THEN Free ELSE heap[b]
         /\ UNCHANGED <<table, held>> /\ UNCHANGED histories
  BY StepEffect, CallTypes, ListsAssumption DEF CloneEmpty, Return, TypeOK, ListsAssumption

(* The clone is new.                                                        *)
LEMMA CloneVisibleEffect ==
  ASSUME TypeOK, NEW t \in Threads, CloneVisible(t)
  PROVE  \E a \in Addresses :
           /\ heap[a] = Free /\ calls[t].stage = "clone"
           /\ calls'[t] = At("remember", calls[t].list, a, 1)
           /\ \A u \in Threads : u # t => calls'[u] = calls[u]
           /\ \A b \in Addresses : heap'[b] = IF b = a THEN Clone ELSE heap[b]
           /\ crowded' = (crowded \/ Cardinality({b \in Addresses : heap'[b] = Clone}) > Slots)
           /\ UNCHANGED <<table, held, starved, raced, leaked>>
  <1>1. PICK a \in FreeAddresses :
            /\ heap' = [heap EXCEPT ![a] = Clone]
            /\ Step(t, At("remember", calls[t].list, a, 1))
            /\ crowded' = (crowded \/ Cardinality({b \in Addresses : heap'[b] = Clone}) > Slots)
    BY DEF CloneVisible
  <1>2. /\ \A u \in Threads : u # t => calls'[u] = calls[u]
        /\ calls'[t] = At("remember", calls[t].list, a, 1)
    BY <1>1, StepEffect
  <1>3. \A b \in Addresses : heap'[b] = IF b = a THEN Clone ELSE heap[b]
    BY <1>1 DEF TypeOK
  <1>4. a \in Addresses /\ heap[a] = Free
    BY DEF FreeAddresses
  <1>5. calls[t].stage = "clone" /\ UNCHANGED <<table, held, starved, raced, leaked>>
    BY DEF CloneVisible
  <1>6. QED
    BY <1>1, <1>2, <1>3, <1>4, <1>5

(* An entry is found, or the next is looked at.                             *)
LEMMA LookForSlotEffect ==
  ASSUME TypeOK, NEW t \in Threads, LookForSlot(t)
  PROVE  /\ calls[t].stage = "remember" /\ calls[t].slot \in 1..Slots
         /\ \/ /\ calls'[t] = At("take", calls[t].list, calls[t].clone, calls[t].slot)
               /\ table[calls[t].slot] = Nil
            \/ /\ calls'[t] = At("remember", calls[t].list, calls[t].clone, calls[t].slot + 1)
               /\ table[calls[t].slot] # Nil
         /\ \A u \in Threads : u # t => calls'[u] = calls[u]
         /\ UNCHANGED <<heap, table, held>> /\ UNCHANGED histories
  BY StepEffect, CallTypes, ListsAssumption DEF LookForSlot, ListsAssumption

(* The clone is the app's and in the table.                                 *)
LEMMA TakeSlotEffect ==
  ASSUME TypeOK, NEW t \in Threads, TakeSlot(t)
  PROVE  /\ calls[t].stage = "take" /\ calls[t].slot \in 1..Slots
         /\ calls'[t] = Idle
         /\ \A u \in Threads : u # t => calls'[u] = calls[u]
         /\ held' = held \cup ({calls[t].clone} \ {Nil})
         /\ \A b \in Addresses : heap'[b] = IF b = calls[t].list THEN Free ELSE heap[b]
         /\ \A i \in 1..Slots : table'[i] = IF i = calls[t].slot THEN calls[t].clone ELSE table[i]
         /\ UNCHANGED histories
  BY StepEffect, CallTypes, ListsAssumption DEF TakeSlot, Return, TypeOK, ListsAssumption

(* The clone is freed and the list of the system is the app's.              *)
LEMMA TableFullEffect ==
  ASSUME TypeOK, NEW t \in Threads, TableFull(t)
  PROVE  /\ calls[t].stage = "remember" /\ calls[t].slot > Slots
         /\ calls'[t] = Idle
         /\ \A u \in Threads : u # t => calls'[u] = calls[u]
         /\ held' = held \cup ({calls[t].list} \ {Nil})
         /\ \A b \in Addresses : heap'[b] = IF b = calls[t].clone THEN Free ELSE heap[b]
         /\ UNCHANGED table /\ UNCHANGED histories
  BY StepEffect, CallTypes, ListsAssumption DEF TableFull, Return, TypeOK, ListsAssumption

(* The list is no longer the app's.                                         *)
LEMMA FreeIfAddrsEffect ==
  ASSUME TypeOK, NEW t \in Threads, FreeIfAddrs(t)
  PROVE  \E a \in held :
           /\ calls[t] = Idle
           /\ calls'[t] = At("forget", a, Nil, 1)
           /\ \A u \in Threads : u # t => calls'[u] = calls[u]
           /\ held' = held \ {a}
           /\ UNCHANGED <<heap, table, crowded, starved, leaked>>
           /\ raced' = (raced \/ \E u \in Threads \ {t} : calls[u] # Idle)
  <1>1. PICK a \in held :
            /\ Enter(t, At("forget", a, Nil, 1))
            /\ held' = held \ {a}
            /\ UNCHANGED <<heap, table, crowded, starved, leaked>>
    BY DEF FreeIfAddrs
  <1>2. QED
    BY <1>1, StepEffect DEF FreeIfAddrs, Enter, TypeOK

(* The entry of the list is found, or the next is looked at.                *)
LEMMA LookForListEffect ==
  ASSUME TypeOK, NEW t \in Threads, LookForList(t)
  PROVE  /\ calls[t].stage = "forget" /\ calls[t].slot \in 1..Slots
         /\ \/ /\ calls'[t] = At("clear", calls[t].list, calls[t].clone, calls[t].slot)
               /\ table[calls[t].slot] = calls[t].list
            \/ /\ calls'[t] = At("forget", calls[t].list, calls[t].clone, calls[t].slot + 1)
               /\ table[calls[t].slot] # calls[t].list
         /\ \A u \in Threads : u # t => calls'[u] = calls[u]
         /\ UNCHANGED <<heap, table, held>> /\ UNCHANGED histories
  BY StepEffect, CallTypes, ListsAssumption DEF LookForList, ListsAssumption

(* The entry is cleared and the clone freed.                                *)
LEMMA ClearSlotEffect ==
  ASSUME TypeOK, NEW t \in Threads, ClearSlot(t)
  PROVE  /\ calls[t].stage = "clear" /\ calls[t].slot \in 1..Slots
         /\ calls'[t] = Idle
         /\ \A u \in Threads : u # t => calls'[u] = calls[u]
         /\ \A b \in Addresses : heap'[b] = IF b = calls[t].list THEN Free ELSE heap[b]
         /\ \A i \in 1..Slots : table'[i] = IF i = calls[t].slot THEN Nil ELSE table[i]
         /\ UNCHANGED held /\ UNCHANGED histories
  BY StepEffect, CallTypes, ListsAssumption DEF ClearSlot, TypeOK, ListsAssumption

(* The list is freed, and a clone leaks.                                    *)
LEMMA NotOwnedEffect ==
  ASSUME TypeOK, NEW t \in Threads, NotOwned(t)
  PROVE  /\ calls[t].stage = "forget" /\ calls[t].slot > Slots
         /\ calls'[t] = Idle
         /\ \A u \in Threads : u # t => calls'[u] = calls[u]
         /\ \A b \in Addresses : heap'[b] = IF b = calls[t].list THEN Free ELSE heap[b]
         /\ leaked' = (leaked \/ heap[calls[t].list] = Clone)
         /\ UNCHANGED <<table, held, crowded, starved, raced>>
  BY StepEffect, CallTypes, ListsAssumption DEF NotOwned, TypeOK, ListsAssumption

-----------------------------------------------------------------------------
(* Nobody holds anything and nothing is allocated at the start. *)
LEMMA InitOwnInv == Init => OwnInv
  <1> SUFFICES ASSUME Init PROVE OwnInv
    OBVIOUS
  <1>1. \A t \in Threads : calls[t] = Idle
    BY DEF Init
  <1>2. HandsInv /\ ApartInv
    BY <1>1, CallFields DEF HandsInv, ApartInv, Busy, Getting, Cloned
  <1>3. KeptInv
    BY DEF Init, KeptInv
  <1>4. EntriesInv /\ PassedInv
    BY <1>1, CallFields DEF Init, EntriesInv, PassedInv
  <1>5. QED
    BY <1>2, <1>3, <1>4 DEF OwnInv

(* Who holds what stays clear in every step of every thread, whatever the  *)
(* others are doing.                                                       *)
LEMMA NextOwnInv == TypeOK /\ OwnInv /\ [Next]_listVars => OwnInv'
  <1> SUFFICES ASSUME TypeOK, OwnInv, [Next]_listVars PROVE OwnInv'
    OBVIOUS
  <1>inv. /\ HandsInv /\ ApartInv /\ KeptInv /\ EntriesInv /\ PassedInv
          /\ held \subseteq Addresses
          /\ \A i \in 1..Slots : table[i] \in Addresses \cup {Nil}
    BY DEF OwnInv, TypeOK
  <1> USE ListsAssumption DEF ListsAssumption, Busy, Getting, Cloned, Freeing, Holds
  <1>1. ASSUME NEW t \in Threads, GetIfAddrs(t) PROVE OwnInv'
    <2>1. PICK a \in Addresses, rows \in Shapes :
            /\ heap[a] = Free /\ calls[t] = Idle
            /\ calls'[t] = At("clone", a, Nil, 1)
            /\ \A u \in Threads : u # t => calls'[u] = calls[u]
            /\ \A b \in Addresses : heap'[b] = IF b = a THEN System(rows) ELSE heap[b]
            /\ UNCHANGED <<table, held, crowded, starved, leaked>>
            /\ raced' = (raced \/ \E u \in Threads \ {t} : calls[u] # Idle)
      BY <1>1, GetIfAddrsEffect
    <2>2. HandsInv'
      BY <1>inv, <2>1, CallFields, CallTypes, Kinds
         DEF HandsInv, KeptInv, ApartInv
    <2>3. ApartInv'
      BY <1>inv, <2>1, CallFields, CallTypes, Kinds
         DEF HandsInv, ApartInv, KeptInv
    <2>4. KeptInv'
      BY <1>inv, <2>1, CallFields, CallTypes, Kinds
         DEF HandsInv, KeptInv
    <2>5. EntriesInv'
      BY <1>inv, <2>1, CallFields, CallTypes, Kinds
         DEF HandsInv, ApartInv, KeptInv, EntriesInv, PassedInv
    <2>6. PassedInv'
      BY <1>inv, <2>1, CallFields, CallTypes, Kinds
         DEF HandsInv, ApartInv, KeptInv, EntriesInv, PassedInv
    <2>7. QED
      BY <2>2, <2>3, <2>4, <2>5, <2>6 DEF OwnInv
  <1>2. ASSUME NEW t \in Threads, CloneUnused(t) PROVE OwnInv'
    <2>1. HandsInv'
      BY <1>inv, <1>2, CloneUnusedEffect, CallFields, CallTypes, Kinds
         DEF HandsInv, KeptInv, ApartInv
    <2>2. ApartInv'
      BY <1>inv, <1>2, CloneUnusedEffect, CallFields, CallTypes, Kinds
         DEF HandsInv, ApartInv, KeptInv
    <2>3. KeptInv'
      BY <1>inv, <1>2, CloneUnusedEffect, CallFields, CallTypes, Kinds
         DEF HandsInv, KeptInv
    <2>4. EntriesInv'
      BY <1>inv, <1>2, CloneUnusedEffect, CallFields, CallTypes, Kinds
         DEF HandsInv, ApartInv, KeptInv, EntriesInv, PassedInv
    <2>5. PassedInv'
      BY <1>inv, <1>2, CloneUnusedEffect, CallFields, CallTypes, Kinds
         DEF HandsInv, ApartInv, KeptInv, EntriesInv, PassedInv
    <2>6. QED
      BY <2>1, <2>2, <2>3, <2>4, <2>5 DEF OwnInv
  <1>3. ASSUME NEW t \in Threads, CloneEmpty(t) PROVE OwnInv'
    <2>1. HandsInv'
      BY <1>inv, <1>3, CloneEmptyEffect, CallFields, CallTypes, Kinds
         DEF HandsInv, KeptInv, ApartInv
    <2>2. ApartInv'
      BY <1>inv, <1>3, CloneEmptyEffect, CallFields, CallTypes, Kinds
         DEF HandsInv, ApartInv, KeptInv
    <2>3. KeptInv'
      BY <1>inv, <1>3, CloneEmptyEffect, CallFields, CallTypes, Kinds
         DEF HandsInv, KeptInv
    <2>4. EntriesInv'
      BY <1>inv, <1>3, CloneEmptyEffect, CallFields, CallTypes, Kinds
         DEF HandsInv, ApartInv, KeptInv, EntriesInv, PassedInv
    <2>5. PassedInv'
      BY <1>inv, <1>3, CloneEmptyEffect, CallFields, CallTypes, Kinds
         DEF HandsInv, ApartInv, KeptInv, EntriesInv, PassedInv
    <2>6. QED
      BY <2>1, <2>2, <2>3, <2>4, <2>5 DEF OwnInv
  <1>4. ASSUME NEW t \in Threads, CloneVisible(t) PROVE OwnInv'
    <2>1. PICK a \in Addresses :
            /\ heap[a] = Free /\ calls[t].stage = "clone"
            /\ calls'[t] = At("remember", calls[t].list, a, 1)
            /\ \A u \in Threads : u # t => calls'[u] = calls[u]
            /\ \A b \in Addresses : heap'[b] = IF b = a THEN Clone ELSE heap[b]
            /\ crowded' = (crowded \/ Cardinality({b \in Addresses : heap'[b] = Clone}) > Slots)
            /\ UNCHANGED <<table, held, starved, raced, leaked>>
      BY <1>4, CloneVisibleEffect
    <2>2. HandsInv'
      BY <1>inv, <2>1, CallFields, CallTypes, Kinds
         DEF HandsInv, KeptInv, ApartInv
    <2>3. ApartInv'
      BY <1>inv, <2>1, CallFields, CallTypes, Kinds
         DEF HandsInv, ApartInv, KeptInv
    <2>4. KeptInv'
      BY <1>inv, <2>1, CallFields, CallTypes, Kinds
         DEF HandsInv, KeptInv
    <2>5. EntriesInv'
      BY <1>inv, <2>1, CallFields, CallTypes, Kinds
         DEF HandsInv, ApartInv, KeptInv, EntriesInv, PassedInv
    <2>6. PassedInv'
      BY <1>inv, <2>1, CallFields, CallTypes, Kinds
         DEF HandsInv, ApartInv, KeptInv, EntriesInv, PassedInv
    <2>7. QED
      BY <2>2, <2>3, <2>4, <2>5, <2>6 DEF OwnInv
  <1>5. ASSUME NEW t \in Threads, LookForSlot(t) PROVE OwnInv'
    <2>1. HandsInv'
      BY <1>inv, <1>5, LookForSlotEffect, CallFields, CallTypes, Kinds
         DEF HandsInv, KeptInv, ApartInv
    <2>2. ApartInv'
      BY <1>inv, <1>5, LookForSlotEffect, CallFields, CallTypes, Kinds
         DEF HandsInv, ApartInv, KeptInv
    <2>3. KeptInv'
      BY <1>inv, <1>5, LookForSlotEffect, CallFields, CallTypes, Kinds
         DEF HandsInv, KeptInv
    <2>4. EntriesInv'
      BY <1>inv, <1>5, LookForSlotEffect, CallFields, CallTypes, Kinds
         DEF HandsInv, ApartInv, KeptInv, EntriesInv, PassedInv
    <2>5. PassedInv'
      BY <1>inv, <1>5, LookForSlotEffect, CallFields, CallTypes, Kinds
         DEF HandsInv, ApartInv, KeptInv, EntriesInv, PassedInv
    <2>6. QED
      BY <2>1, <2>2, <2>3, <2>4, <2>5 DEF OwnInv
  <1>6. ASSUME NEW t \in Threads, TakeSlot(t) PROVE OwnInv'
    <2>1. HandsInv'
      BY <1>inv, <1>6, TakeSlotEffect, CallFields, CallTypes, Kinds
         DEF HandsInv, KeptInv, ApartInv
    <2>2. ApartInv'
      BY <1>inv, <1>6, TakeSlotEffect, CallFields, CallTypes, Kinds
         DEF HandsInv, ApartInv, KeptInv
    <2>3. KeptInv'
      BY <1>inv, <1>6, TakeSlotEffect, CallFields, CallTypes, Kinds
         DEF HandsInv, KeptInv
    <2>4. EntriesInv'
      BY <1>inv, <1>6, TakeSlotEffect, CallFields, CallTypes, Kinds
         DEF HandsInv, ApartInv, KeptInv, EntriesInv, PassedInv
    <2>5. PassedInv'
      BY <1>inv, <1>6, TakeSlotEffect, CallFields, CallTypes, Kinds
         DEF HandsInv, ApartInv, KeptInv, EntriesInv, PassedInv
    <2>6. QED
      BY <2>1, <2>2, <2>3, <2>4, <2>5 DEF OwnInv
  <1>7. ASSUME NEW t \in Threads, TableFull(t) PROVE OwnInv'
    <2>1. HandsInv'
      BY <1>inv, <1>7, TableFullEffect, CallFields, CallTypes, Kinds
         DEF HandsInv, KeptInv, ApartInv
    <2>2. ApartInv'
      BY <1>inv, <1>7, TableFullEffect, CallFields, CallTypes, Kinds
         DEF HandsInv, ApartInv, KeptInv
    <2>3. KeptInv'
      BY <1>inv, <1>7, TableFullEffect, CallFields, CallTypes, Kinds
         DEF HandsInv, KeptInv
    <2>4. EntriesInv'
      BY <1>inv, <1>7, TableFullEffect, CallFields, CallTypes, Kinds
         DEF HandsInv, ApartInv, KeptInv, EntriesInv, PassedInv
    <2>5. PassedInv'
      BY <1>inv, <1>7, TableFullEffect, CallFields, CallTypes, Kinds
         DEF HandsInv, ApartInv, KeptInv, EntriesInv, PassedInv
    <2>6. QED
      BY <2>1, <2>2, <2>3, <2>4, <2>5 DEF OwnInv
  <1>8. ASSUME NEW t \in Threads, FreeIfAddrs(t) PROVE OwnInv'
    <2>1. PICK a \in held :
            /\ calls[t] = Idle
            /\ calls'[t] = At("forget", a, Nil, 1)
            /\ \A u \in Threads : u # t => calls'[u] = calls[u]
            /\ held' = held \ {a}
            /\ UNCHANGED <<heap, table, crowded, starved, leaked>>
            /\ raced' = (raced \/ \E u \in Threads \ {t} : calls[u] # Idle)
      BY <1>8, FreeIfAddrsEffect
    <2>2. HandsInv'
      BY <1>inv, <2>1, CallFields, CallTypes, Kinds
         DEF HandsInv, KeptInv, ApartInv
    <2>3. ApartInv'
      BY <1>inv, <2>1, CallFields, CallTypes, Kinds
         DEF HandsInv, ApartInv, KeptInv
    <2>4. KeptInv'
      BY <1>inv, <2>1, CallFields, CallTypes, Kinds
         DEF HandsInv, KeptInv
    <2>5. EntriesInv'
      BY <1>inv, <2>1, CallFields, CallTypes, Kinds
         DEF HandsInv, ApartInv, KeptInv, EntriesInv, PassedInv
    <2>6. PassedInv'
      BY <1>inv, <2>1, CallFields, CallTypes, Kinds
         DEF HandsInv, ApartInv, KeptInv, EntriesInv, PassedInv
    <2>7. QED
      BY <2>2, <2>3, <2>4, <2>5, <2>6 DEF OwnInv
  <1>9. ASSUME NEW t \in Threads, LookForList(t) PROVE OwnInv'
    <2>1. HandsInv'
      BY <1>inv, <1>9, LookForListEffect, CallFields, CallTypes, Kinds
         DEF HandsInv, KeptInv, ApartInv
    <2>2. ApartInv'
      BY <1>inv, <1>9, LookForListEffect, CallFields, CallTypes, Kinds
         DEF HandsInv, ApartInv, KeptInv
    <2>3. KeptInv'
      BY <1>inv, <1>9, LookForListEffect, CallFields, CallTypes, Kinds
         DEF HandsInv, KeptInv
    <2>4. EntriesInv'
      BY <1>inv, <1>9, LookForListEffect, CallFields, CallTypes, Kinds
         DEF HandsInv, ApartInv, KeptInv, EntriesInv, PassedInv
    <2>5. PassedInv'
      BY <1>inv, <1>9, LookForListEffect, CallFields, CallTypes, Kinds
         DEF HandsInv, ApartInv, KeptInv, EntriesInv, PassedInv
    <2>6. QED
      BY <2>1, <2>2, <2>3, <2>4, <2>5 DEF OwnInv
  <1>10. ASSUME NEW t \in Threads, ClearSlot(t) PROVE OwnInv'
    <2>1. HandsInv'
      BY <1>inv, <1>10, ClearSlotEffect, CallFields, CallTypes, Kinds
         DEF HandsInv, KeptInv, ApartInv
    <2>2. ApartInv'
      BY <1>inv, <1>10, ClearSlotEffect, CallFields, CallTypes, Kinds
         DEF HandsInv, ApartInv, KeptInv
    <2>3. KeptInv'
      BY <1>inv, <1>10, ClearSlotEffect, CallFields, CallTypes, Kinds
         DEF HandsInv, KeptInv
    <2>4. EntriesInv'
      BY <1>inv, <1>10, ClearSlotEffect, CallFields, CallTypes, Kinds
         DEF HandsInv, ApartInv, KeptInv, EntriesInv, PassedInv
    <2>5. PassedInv'
      BY <1>inv, <1>10, ClearSlotEffect, CallFields, CallTypes, Kinds
         DEF HandsInv, ApartInv, KeptInv, EntriesInv, PassedInv
    <2>6. QED
      BY <2>1, <2>2, <2>3, <2>4, <2>5 DEF OwnInv
  <1>11. ASSUME NEW t \in Threads, NotOwned(t) PROVE OwnInv'
    <2>1. HandsInv'
      BY <1>inv, <1>11, NotOwnedEffect, CallFields, CallTypes, Kinds
         DEF HandsInv, KeptInv, ApartInv
    <2>2. ApartInv'
      BY <1>inv, <1>11, NotOwnedEffect, CallFields, CallTypes, Kinds
         DEF HandsInv, ApartInv, KeptInv
    <2>3. KeptInv'
      BY <1>inv, <1>11, NotOwnedEffect, CallFields, CallTypes, Kinds
         DEF HandsInv, KeptInv
    <2>4. EntriesInv'
      BY <1>inv, <1>11, NotOwnedEffect, CallFields, CallTypes, Kinds
         DEF HandsInv, ApartInv, KeptInv, EntriesInv, PassedInv
    <2>5. PassedInv'
      BY <1>inv, <1>11, NotOwnedEffect, CallFields, CallTypes, Kinds
         DEF HandsInv, ApartInv, KeptInv, EntriesInv, PassedInv
    <2>6. QED
      BY <2>1, <2>2, <2>3, <2>4, <2>5 DEF OwnInv
  <1>12. CASE UNCHANGED listVars
    BY <1>12, <1>inv DEF listVars, OwnInv, HandsInv, ApartInv, KeptInv, EntriesInv, PassedInv
  <1>13. QED
    BY <1>1, <1>2, <1>3, <1>4, <1>5, <1>6, <1>7, <1>8, <1>9, <1>10, <1>11, <1>12 DEF Next

-----------------------------------------------------------------------------
(* No call has overlapped another at the start. *)
LEMMA InitSerialInv == Init => SerialInv
  BY CallFields DEF Init, SerialInv, Busy

(* While calls do not overlap, each finds the table as it expects. *)
LEMMA NextSerialInv == TypeOK /\ OwnInv /\ SerialInv /\ [Next]_listVars => SerialInv'
  <1> SUFFICES ASSUME TypeOK, OwnInv, SerialInv, [Next]_listVars PROVE SerialInv'
    OBVIOUS
  <1>inv. /\ HandsInv /\ KeptInv /\ EntriesInv /\ SerialInv
          /\ held \subseteq Addresses
          /\ \A i \in 1..Slots : table[i] \in Addresses \cup {Nil}
    BY DEF OwnInv, TypeOK
  <1> USE ListsAssumption DEF ListsAssumption, Busy, Getting, Cloned, Freeing
  <1>1. ASSUME NEW t \in Threads, GetIfAddrs(t) PROVE SerialInv'
    <2>1. PICK a \in Addresses, rows \in Shapes :
            /\ heap[a] = Free /\ calls[t] = Idle
            /\ calls'[t] = At("clone", a, Nil, 1)
            /\ \A u \in Threads : u # t => calls'[u] = calls[u]
            /\ \A b \in Addresses : heap'[b] = IF b = a THEN System(rows) ELSE heap[b]
            /\ UNCHANGED <<table, held, crowded, starved, leaked>>
            /\ raced' = (raced \/ \E u \in Threads \ {t} : calls[u] # Idle)
      BY <1>1, GetIfAddrsEffect
    <2>2. ~raced' => ~raced /\ \A u \in Threads \ {t} : calls'[u] = Idle
      BY <2>1
    <2>3. ~raced' => ~leaked' /\ \A u, v \in Threads : Busy(u)' /\ Busy(v)' => u = v
      BY <1>inv, <2>1, <2>2, CallFields DEF SerialInv
    <2>4. ~raced' => \A b \in held' : heap'[b] = Clone => \E i \in 1..Slots : table'[i] = b
      BY <1>inv, <2>1, <2>2, Kinds DEF SerialInv, KeptInv
    <2>5. ~raced' => \A u \in Threads \ {t} : calls'[u].stage = "idle"
      BY <2>2, CallFields
    <2>6. ~raced' => calls'[t].stage = "clone"
      BY <1>inv, <2>1, <2>2, CallFields, Kinds DEF SerialInv
    <2>7. QED
      BY <2>3, <2>4, <2>5, <2>6, <2>1, CallFields DEF SerialInv
  <1>2. ASSUME NEW t \in Threads, CloneUnused(t) PROVE SerialInv'
    BY <1>inv, <1>2, CloneUnusedEffect, CallFields, CallTypes, Kinds
       DEF SerialInv, HandsInv, KeptInv, EntriesInv, histories
  <1>3. ASSUME NEW t \in Threads, CloneEmpty(t) PROVE SerialInv'
    BY <1>inv, <1>3, CloneEmptyEffect, CallFields, CallTypes, Kinds
       DEF SerialInv, HandsInv, KeptInv, EntriesInv, histories
  <1>4. ASSUME NEW t \in Threads, CloneVisible(t) PROVE SerialInv'
    <2>1. PICK a \in Addresses :
            /\ heap[a] = Free /\ calls[t].stage = "clone"
            /\ calls'[t] = At("remember", calls[t].list, a, 1)
            /\ \A u \in Threads : u # t => calls'[u] = calls[u]
            /\ \A b \in Addresses : heap'[b] = IF b = a THEN Clone ELSE heap[b]
            /\ crowded' = (crowded \/ Cardinality({b \in Addresses : heap'[b] = Clone}) > Slots)
            /\ UNCHANGED <<table, held, starved, raced, leaked>>
      BY <1>4, CloneVisibleEffect
    <2>2. QED
      BY <1>inv, <2>1, CallFields, CallTypes, Kinds
         DEF SerialInv, HandsInv, KeptInv, EntriesInv, histories
  <1>5. ASSUME NEW t \in Threads, LookForSlot(t) PROVE SerialInv'
    BY <1>inv, <1>5, LookForSlotEffect, CallFields, CallTypes, Kinds
       DEF SerialInv, HandsInv, KeptInv, EntriesInv, histories
  <1>6. ASSUME NEW t \in Threads, TakeSlot(t) PROVE SerialInv'
    BY <1>inv, <1>6, TakeSlotEffect, CallFields, CallTypes, Kinds
       DEF SerialInv, HandsInv, KeptInv, EntriesInv, histories
  <1>7. ASSUME NEW t \in Threads, TableFull(t) PROVE SerialInv'
    BY <1>inv, <1>7, TableFullEffect, CallFields, CallTypes, Kinds
       DEF SerialInv, HandsInv, KeptInv, EntriesInv, histories
  <1>8. ASSUME NEW t \in Threads, FreeIfAddrs(t) PROVE SerialInv'
    <2>1. PICK a \in held :
            /\ calls[t] = Idle
            /\ calls'[t] = At("forget", a, Nil, 1)
            /\ \A u \in Threads : u # t => calls'[u] = calls[u]
            /\ held' = held \ {a}
            /\ UNCHANGED <<heap, table, crowded, starved, leaked>>
            /\ raced' = (raced \/ \E u \in Threads \ {t} : calls[u] # Idle)
      BY <1>8, FreeIfAddrsEffect
    <2>2. ~raced' => ~raced /\ \A u \in Threads \ {t} : calls'[u] = Idle
      BY <2>1
    <2>3. ~raced' => ~leaked' /\ \A u, v \in Threads : Busy(u)' /\ Busy(v)' => u = v
      BY <1>inv, <2>1, <2>2, CallFields DEF SerialInv
    <2>4. ~raced' => \A b \in held' : heap'[b] = Clone => \E i \in 1..Slots : table'[i] = b
      BY <1>inv, <2>1, <2>2, Kinds DEF SerialInv, KeptInv
    <2>5. ~raced' => \A u \in Threads \ {t} : calls'[u].stage = "idle"
      BY <2>2, CallFields
    <2>6. ~raced' /\ heap'[calls'[t].list] = Clone =>
               \E i \in 1..Slots : table'[i] = calls'[t].list
      BY <1>inv, <2>1, <2>2, CallFields, Kinds DEF SerialInv
    <2>7. QED
      BY <2>3, <2>4, <2>5, <2>6, <2>1, CallFields DEF SerialInv
  <1>9. ASSUME NEW t \in Threads, LookForList(t) PROVE SerialInv'
    BY <1>inv, <1>9, LookForListEffect, CallFields, CallTypes, Kinds
       DEF SerialInv, HandsInv, KeptInv, EntriesInv, histories
  <1>10. ASSUME NEW t \in Threads, ClearSlot(t) PROVE SerialInv'
    <2>1. \A b \in held : b # calls[t].list
      BY <1>inv, <1>10, ClearSlotEffect DEF HandsInv
    <2>2. ~raced => \A b \in held : heap'[b] = Clone => \E i \in 1..Slots : table'[i] = b
      <3>1. ~raced => table[calls[t].slot] = calls[t].list
        BY <1>inv, <1>10, ClearSlotEffect DEF SerialInv
      <3>2. \A b \in held : heap'[b] = Clone => heap[b] = Clone
        BY <1>inv, <1>10, <2>1, ClearSlotEffect
      <3>3. QED
        BY <1>inv, <1>10, <2>1, <3>1, <3>2, ClearSlotEffect DEF SerialInv
    <2>3. ~raced => \A u \in Threads : calls'[u].stage = "idle"
      BY <1>inv, <1>10, ClearSlotEffect, CallFields DEF SerialInv
    <2>4. (~raced' => ~raced) /\ (leaked' => leaked) /\ held' = held
      BY <1>10, ClearSlotEffect DEF histories
    <2>5. ~raced' => ~leaked'
      BY <1>inv, <2>4 DEF SerialInv
    <2>6. QED
      BY <2>2, <2>3, <2>4, <2>5 DEF SerialInv
  <1>11. ASSUME NEW t \in Threads, NotOwned(t) PROVE SerialInv'
    <2>1. ~raced => heap[calls[t].list] # Clone
      <3>1. calls[t].slot..Slots = {}
        BY <1>11, NotOwnedEffect, CallTypes
      <3>2. QED
        BY <1>inv, <1>11, <3>1, NotOwnedEffect DEF SerialInv
    <2>2. ~raced => \A b \in held : heap'[b] = Clone => \E i \in 1..Slots : table'[i] = b
      BY <1>inv, <1>11, NotOwnedEffect, Kinds DEF SerialInv
    <2>3. ~raced => \A u \in Threads : calls'[u].stage = "idle"
      BY <1>inv, <1>11, NotOwnedEffect, CallFields DEF SerialInv
    <2>4. (~raced' => ~raced) /\ held' = held
      BY <1>11, NotOwnedEffect
    <2>5. ~raced' => ~leaked'
      BY <1>inv, <1>11, <2>1, <2>4, NotOwnedEffect DEF SerialInv
    <2>6. QED
      BY <2>2, <2>3, <2>4, <2>5 DEF SerialInv
  <1>12. CASE UNCHANGED listVars
    BY <1>12, <1>inv DEF listVars, SerialInv
  <1>13. QED
    BY <1>1, <1>2, <1>3, <1>4, <1>5, <1>6, <1>7, <1>8, <1>9, <1>10, <1>11, <1>12 DEF Next

-----------------------------------------------------------------------------
(* A part of what is ahead is no more than all of it. *)
LEMMA AheadFinite ==
  ASSUME NEW j
  PROVE  /\ IsFiniteSet(Ahead(j)) /\ Cardinality(Ahead(j)) \in Nat
         /\ \A S \in SUBSET Ahead(j) : /\ IsFiniteSet(S) /\ Cardinality(S) \in Nat
                                       /\ Cardinality(S) <= Cardinality(Ahead(j))
  <1>1. Ahead(j) \subseteq Addresses
    BY DEF Ahead
  <1>2. IsFiniteSet(Ahead(j))
    BY <1>1, ListsAssumption, FS_Subset DEF ListsAssumption
  <1>3. QED
    BY <1>2, FS_Subset, FS_CardinalityType

(* A step after which no more is ahead than before leaves enough room. *)
LEMMA RoomKept ==
  ASSUME RoomInv, crowded => crowded',
         \A j \in 1..Slots + 1 : Ahead(j)' \subseteq Ahead(j)
  PROVE  RoomInv'
  <1> SUFFICES ASSUME ~crowded', NEW j \in 1..Slots + 1
               PROVE  Cardinality(Ahead(j)') <= (Slots + 1) - j
    BY DEF RoomInv
  <1>1. Cardinality(Ahead(j)) <= (Slots + 1) - j
    BY DEF RoomInv
  <1>2. /\ Cardinality(Ahead(j)') <= Cardinality(Ahead(j))
        /\ Cardinality(Ahead(j)') \in Nat /\ Cardinality(Ahead(j)) \in Nat
    BY AheadFinite
  <1>3. QED
    BY <1>1, <1>2, ListsAssumption DEF ListsAssumption

(* There is nothing to be remembered at the start. *)
LEMMA InitRoomInv == Init => RoomInv
  <1> SUFFICES ASSUME Init, NEW j \in 1..Slots + 1
               PROVE  Cardinality(Ahead(j)) <= (Slots + 1) - j
    BY DEF RoomInv
  <1>1. Ahead(j) = {}
    BY CallFields, ListsAssumption DEF Init, Ahead, Cloned, ListsAssumption
  <1>2. QED
    BY <1>1, FS_EmptySet, ListsAssumption DEF ListsAssumption

(* A new clone has the whole table ahead, and more room than there are     *)
(* clones at all.  A call that passes an entry leaves the clone of the     *)
(* entry behind.                                                           *)
LEMMA NextRoomInv == TypeOK /\ OwnInv /\ RoomInv /\ [Next]_listVars => RoomInv'
  <1> SUFFICES ASSUME TypeOK, OwnInv, RoomInv, [Next]_listVars PROVE RoomInv'
    OBVIOUS
  <1>inv. /\ HandsInv /\ ApartInv /\ EntriesInv /\ RoomInv
          /\ held \subseteq Addresses
          /\ \A i \in 1..Slots : table[i] \in Addresses \cup {Nil}
    BY DEF OwnInv, TypeOK
  <1> USE ListsAssumption DEF ListsAssumption
  <1>1. ASSUME NEW t \in Threads, GetIfAddrs(t) PROVE RoomInv'
    <2>1. PICK a \in Addresses, rows \in Shapes :
            /\ heap[a] = Free /\ calls[t] = Idle
            /\ calls'[t] = At("clone", a, Nil, 1)
            /\ \A u \in Threads : u # t => calls'[u] = calls[u]
            /\ \A b \in Addresses : heap'[b] = IF b = a THEN System(rows) ELSE heap[b]
            /\ UNCHANGED <<table, held, crowded, starved, leaked>>
            /\ raced' = (raced \/ \E u \in Threads \ {t} : calls[u] # Idle)
      BY <1>1, GetIfAddrsEffect
    <2>2. \A j \in 1..Slots + 1 : Ahead(j)' \subseteq Ahead(j)
      BY <1>inv, <2>1, CallFields, CallTypes DEF Ahead, Cloned
    <2>3. QED
      BY <2>1, <2>2, RoomKept DEF histories
  <1>2. ASSUME NEW t \in Threads, CloneUnused(t) PROVE RoomInv'
    <2>1. \A j \in 1..Slots + 1 : Ahead(j)' \subseteq Ahead(j)
      BY <1>inv, <1>2, CloneUnusedEffect, CallFields, CallTypes DEF Ahead, Cloned
    <2>2. QED
      BY <1>2, CloneUnusedEffect, <2>1, RoomKept DEF histories
  <1>3. ASSUME NEW t \in Threads, CloneEmpty(t) PROVE RoomInv'
    <2>1. \A j \in 1..Slots + 1 : Ahead(j)' \subseteq Ahead(j)
      BY <1>inv, <1>3, CloneEmptyEffect, CallFields, CallTypes DEF Ahead, Cloned
    <2>2. QED
      BY <1>3, CloneEmptyEffect, <2>1, RoomKept DEF histories
  <1>4. ASSUME NEW t \in Threads, CloneVisible(t) PROVE RoomInv'
    <2>1. PICK a \in Addresses :
            /\ heap[a] = Free /\ calls[t].stage = "clone"
            /\ calls'[t] = At("remember", calls[t].list, a, 1)
            /\ \A u \in Threads : u # t => calls'[u] = calls[u]
            /\ \A b \in Addresses : heap'[b] = IF b = a THEN Clone ELSE heap[b]
            /\ crowded' = (crowded \/ Cardinality({b \in Addresses : heap'[b] = Clone}) > Slots)
            /\ UNCHANGED <<table, held, starved, raced, leaked>>
      BY <1>4, CloneVisibleEffect
    <2>2. ASSUME NEW j \in 2..Slots + 1
          PROVE  Ahead(j)' \subseteq Ahead(j)
      BY <1>inv, <2>1, CallFields, CallTypes DEF Ahead, Cloned
    <2>3. Ahead(1)' \subseteq {b \in Addresses : heap'[b] = Clone}
      <3>1. \A i \in 1..Slots : table[i] # Nil => heap[table[i]] = Clone
        BY <1>inv DEF EntriesInv
      <3>2. \A u \in Threads : Cloned(u) => heap[calls[u].clone] = Clone
        BY <1>inv DEF HandsInv
      <3>3. heap[a] # Clone
        BY <2>1, Kinds
      <3>4. QED
        BY <1>inv, <2>1, <3>1, <3>2, <3>3, CallFields DEF Ahead, Cloned
    <2>4. SUFFICES ASSUME ~crowded', NEW j \in 1..Slots + 1
                   PROVE  Cardinality(Ahead(j)') <= (Slots + 1) - j
      BY DEF RoomInv
    <2>5. CASE j = 1
      <3> DEFINE L == {b \in Addresses : heap'[b] = Clone}
      <3>1. IsFiniteSet(L) /\ Cardinality(L) \in Nat
        <4>1. L \subseteq Addresses
          OBVIOUS
        <4>2. IsFiniteSet(L)
          BY <4>1, FS_Subset
        <4>3. QED
          BY <4>2, FS_CardinalityType
      <3>2. Cardinality(L) <= Slots
        <4>1. ~(Cardinality(L) > Slots)
          BY <2>1, <2>4
        <4>2. QED
          BY <3>1, <4>1
      <3>3. Cardinality(Ahead(1)') \in Nat /\ Cardinality(Ahead(1)') <= Cardinality(L)
        BY <2>3, <3>1, FS_Subset, FS_CardinalityType
      <3>4. QED
        BY <2>5, <3>1, <3>2, <3>3
    <2>6. CASE j # 1
      <3>1. Cardinality(Ahead(j)) <= (Slots + 1) - j
        BY <2>1, <2>4, <1>inv DEF RoomInv
      <3>2. Ahead(j)' \subseteq Ahead(j)
        BY <2>2, <2>6
      <3>3. /\ Cardinality(Ahead(j)') <= Cardinality(Ahead(j))
            /\ Cardinality(Ahead(j)') \in Nat /\ Cardinality(Ahead(j)) \in Nat
        BY <3>2, AheadFinite
      <3>4. QED
        BY <3>1, <3>3
    <2>7. QED
      BY <2>5, <2>6
  <1>5. ASSUME NEW t \in Threads, LookForSlot(t) PROVE RoomInv'
    <2>0. PICK p \in 1..Slots : p = calls[t].slot
      BY <1>5, LookForSlotEffect
    <2>1. CASE calls'[t] = At("take", calls[t].list, calls[t].clone, p)
      <3>1. \A j \in 1..Slots + 1 : Ahead(j)' \subseteq Ahead(j)
        BY <1>5, <2>0, <2>1, LookForSlotEffect, CallFields DEF Ahead, Cloned
      <3>2. QED
        BY <1>5, <3>1, RoomKept, LookForSlotEffect DEF histories
    <2>2. CASE /\ calls'[t] = At("remember", calls[t].list, calls[t].clone, p + 1)
               /\ table[p] # Nil
      <3>1. p = calls[t].slot /\ calls[t].stage = "remember"
        BY <1>5, <2>0, LookForSlotEffect
      <3>2. \A j \in 1..Slots + 1 : j # p + 1 => Ahead(j)' \subseteq Ahead(j)
        BY <1>5, <2>2, <3>1, LookForSlotEffect, CallFields DEF Ahead, Cloned
      <3>3. Ahead(p + 1)' \subseteq Ahead(p) \ {table[p]}
        <4>1. Ahead(p + 1)' \subseteq Ahead(p)
          BY <1>5, <2>2, <3>1, LookForSlotEffect, CallFields, CallTypes DEF Ahead, Cloned
        <4>2. \A i \in (p + 1)..Slots : table[i] # table[p]
          BY <1>inv, <2>2, <3>1 DEF EntriesInv
        <4>3. \A u \in Threads : Cloned(u) => calls[u].clone # table[p]
          BY <1>inv, <2>2, <3>1 DEF EntriesInv, HandsInv, ApartInv, Cloned, Freeing, Busy
        <4>4. \A u \in Threads : Cloned(u)' => calls'[u].clone # table[p]
          BY <1>5, <2>2, <3>1, <4>3, LookForSlotEffect, CallFields DEF Cloned
        <4>5. \A a \in Ahead(p + 1)' : a # table[p]
          BY <1>5, <3>1, <4>2, <4>4, LookForSlotEffect DEF Ahead, Cloned
        <4>6. QED
          BY <4>1, <4>5
      <3>4. table[p] \in Ahead(p)
        BY <1>inv, <2>2, <3>1 DEF Ahead
      <3>5. SUFFICES ASSUME ~crowded', NEW j \in 1..Slots + 1
                     PROVE  Cardinality(Ahead(j)') <= (Slots + 1) - j
        BY DEF RoomInv
      <3>6. \A i \in 1..Slots + 1 : Cardinality(Ahead(i)) <= (Slots + 1) - i
        BY <1>5, <1>inv, <3>5, LookForSlotEffect DEF RoomInv, histories
      <3>7. CASE j # p + 1
        <4>1. /\ Cardinality(Ahead(j)') <= Cardinality(Ahead(j))
              /\ Cardinality(Ahead(j)') \in Nat /\ Cardinality(Ahead(j)) \in Nat
          BY <3>2, <3>7, AheadFinite
        <4>2. QED
          BY <3>6, <4>1
      <3>8. CASE j = p + 1
        <4> DEFINE R == Ahead(p) \ {table[p]}
        <4>1. Cardinality(R) = Cardinality(Ahead(p)) - 1 /\ IsFiniteSet(R)
          BY <3>4, AheadFinite, FS_RemoveElement
        <4>2. /\ Cardinality(Ahead(p + 1)') <= Cardinality(R)
              /\ Cardinality(Ahead(p + 1)') \in Nat /\ Cardinality(R) \in Nat
              /\ Cardinality(Ahead(p)) \in Nat
          BY <3>3, <4>1, AheadFinite, FS_Subset, FS_CardinalityType
        <4>3. Cardinality(Ahead(p)) <= (Slots + 1) - p
          BY <3>1, <3>6
        <4>4. p \in Nat /\ Slots \in Nat
          BY <3>1
        <4>5. Cardinality(Ahead(p + 1)') <= (Slots + 1) - (p + 1)
          BY <4>1, <4>2, <4>3, <4>4
        <4>6. QED
          BY <3>8, <4>5
      <3>9. QED
        BY <3>7, <3>8
    <2>3. QED
      BY <1>5, <2>0, <2>1, <2>2, LookForSlotEffect
  <1>6. ASSUME NEW t \in Threads, TakeSlot(t) PROVE RoomInv'
    <2>1. \A j \in 1..Slots + 1 : Ahead(j)' \subseteq Ahead(j)
      BY <1>inv, <1>6, TakeSlotEffect, CallFields, CallTypes DEF Ahead, Cloned
    <2>2. QED
      BY <1>6, TakeSlotEffect, <2>1, RoomKept DEF histories
  <1>7. ASSUME NEW t \in Threads, TableFull(t) PROVE RoomInv'
    <2>1. \A j \in 1..Slots + 1 : Ahead(j)' \subseteq Ahead(j)
      BY <1>inv, <1>7, TableFullEffect, CallFields, CallTypes DEF Ahead, Cloned
    <2>2. QED
      BY <1>7, TableFullEffect, <2>1, RoomKept DEF histories
  <1>8. ASSUME NEW t \in Threads, FreeIfAddrs(t) PROVE RoomInv'
    <2>1. PICK a \in held :
            /\ calls[t] = Idle
            /\ calls'[t] = At("forget", a, Nil, 1)
            /\ \A u \in Threads : u # t => calls'[u] = calls[u]
            /\ held' = held \ {a}
            /\ UNCHANGED <<heap, table, crowded, starved, leaked>>
            /\ raced' = (raced \/ \E u \in Threads \ {t} : calls[u] # Idle)
      BY <1>8, FreeIfAddrsEffect
    <2>2. \A j \in 1..Slots + 1 : Ahead(j)' \subseteq Ahead(j)
      BY <1>inv, <2>1, CallFields, CallTypes DEF Ahead, Cloned
    <2>3. QED
      BY <2>1, <2>2, RoomKept DEF histories
  <1>9. ASSUME NEW t \in Threads, LookForList(t) PROVE RoomInv'
    <2>1. \A j \in 1..Slots + 1 : Ahead(j)' \subseteq Ahead(j)
      BY <1>inv, <1>9, LookForListEffect, CallFields, CallTypes DEF Ahead, Cloned
    <2>2. QED
      BY <1>9, LookForListEffect, <2>1, RoomKept DEF histories
  <1>10. ASSUME NEW t \in Threads, ClearSlot(t) PROVE RoomInv'
    <2>1. \A j \in 1..Slots + 1 : Ahead(j)' \subseteq Ahead(j)
      BY <1>inv, <1>10, ClearSlotEffect, CallFields, CallTypes DEF Ahead, Cloned
    <2>2. QED
      BY <1>10, ClearSlotEffect, <2>1, RoomKept DEF histories
  <1>11. ASSUME NEW t \in Threads, NotOwned(t) PROVE RoomInv'
    <2>1. \A j \in 1..Slots + 1 : Ahead(j)' \subseteq Ahead(j)
      BY <1>inv, <1>11, NotOwnedEffect, CallFields, CallTypes DEF Ahead, Cloned
    <2>2. QED
      BY <1>11, NotOwnedEffect, <2>1, RoomKept DEF histories
  <1>12. CASE UNCHANGED listVars
    <2>1. \A j \in 1..Slots + 1 : Ahead(j)' \subseteq Ahead(j)
      BY <1>12 DEF listVars, Ahead, Cloned
    <2>2. QED
      BY <1>12, <2>1, RoomKept DEF listVars
  <1>13. QED
    BY <1>1, <1>2, <1>3, <1>4, <1>5, <1>6, <1>7, <1>8, <1>9, <1>10, <1>11, <1>12 DEF Next

-----------------------------------------------------------------------------
(* The app has no list with rows of tunnels at the start: it has none. *)
LEMMA InitTunnelsHidden == Init => TunnelsHidden
  BY DEF Init, TunnelsHidden

(* A call that finds the table full has a clone left over past its end.    *)
LEMMA FullIsCrowded ==
  ASSUME TypeOK, OwnInv, RoomInv, NEW t \in Threads,
         calls[t].stage = "remember", calls[t].slot > Slots
  PROVE  crowded
  <1>1. SUFFICES ASSUME ~crowded PROVE FALSE
    OBVIOUS
  <1>2. Slots + 1 \in 1..Slots + 1
    BY ListsAssumption DEF ListsAssumption
  <1>3. calls[t].clone \in Ahead(Slots + 1)
    BY CallTypes, ListsAssumption DEF ListsAssumption, Ahead, OwnInv, HandsInv, Cloned
  <1>4. Cardinality(Ahead(Slots + 1)) <= (Slots + 1) - (Slots + 1)
    BY <1>1, <1>2 DEF RoomInv
  <1>5. Cardinality(Ahead(Slots + 1)) = 0
    BY <1>4, AheadFinite, ListsAssumption DEF ListsAssumption
  <1>6. Ahead(Slots + 1) = {}
    BY <1>5, AheadFinite, FS_EmptySet
  <1>7. QED
    BY <1>3, <1>6

(* A list the app is given has no rows of tunnels, unless memory has run   *)
(* out or the table has.                                                   *)
LEMMA NextTunnelsHidden ==
  TypeOK /\ OwnInv /\ RoomInv /\ TunnelsHidden /\ [Next]_listVars => TunnelsHidden'
  <1> SUFFICES ASSUME TypeOK, OwnInv, RoomInv, TunnelsHidden, [Next]_listVars
               PROVE  TunnelsHidden'
    OBVIOUS
  <1>inv. HandsInv /\ ApartInv /\ KeptInv /\ TunnelsHidden /\ held \subseteq Addresses
    BY DEF OwnInv, TypeOK
  <1> USE ListsAssumption DEF ListsAssumption, Busy, Cloned, Getting
  <1>1. ASSUME NEW t \in Threads, GetIfAddrs(t) PROVE TunnelsHidden'
    <2>1. PICK a \in Addresses, rows \in Shapes :
            /\ heap[a] = Free /\ calls[t] = Idle
            /\ calls'[t] = At("clone", a, Nil, 1)
            /\ \A u \in Threads : u # t => calls'[u] = calls[u]
            /\ \A b \in Addresses : heap'[b] = IF b = a THEN System(rows) ELSE heap[b]
            /\ UNCHANGED <<table, held, crowded, starved, leaked>>
            /\ raced' = (raced \/ \E u \in Threads \ {t} : calls[u] # Idle)
      BY <1>1, GetIfAddrsEffect
    <2>2. QED
      BY <1>inv, <2>1, CallFields, CallTypes, Kinds
         DEF TunnelsHidden, HandsInv, ApartInv, KeptInv, histories
  <1>2. ASSUME NEW t \in Threads, CloneUnused(t) PROVE TunnelsHidden'
    BY <1>inv, <1>2, CloneUnusedEffect, CallFields, CallTypes, Kinds
       DEF TunnelsHidden, HandsInv, ApartInv, KeptInv, histories, Tunnels
  <1>3. ASSUME NEW t \in Threads, CloneEmpty(t) PROVE TunnelsHidden'
    BY <1>inv, <1>3, CloneEmptyEffect, CallFields, CallTypes, Kinds
       DEF TunnelsHidden, HandsInv, ApartInv, KeptInv, histories
  <1>4. ASSUME NEW t \in Threads, CloneVisible(t) PROVE TunnelsHidden'
    <2>1. PICK a \in Addresses :
            /\ heap[a] = Free /\ calls[t].stage = "clone"
            /\ calls'[t] = At("remember", calls[t].list, a, 1)
            /\ \A u \in Threads : u # t => calls'[u] = calls[u]
            /\ \A b \in Addresses : heap'[b] = IF b = a THEN Clone ELSE heap[b]
            /\ crowded' = (crowded \/ Cardinality({b \in Addresses : heap'[b] = Clone}) > Slots)
            /\ UNCHANGED <<table, held, starved, raced, leaked>>
      BY <1>4, CloneVisibleEffect
    <2>2. crowded => crowded'
      BY <2>1
    <2>3. \A b \in held : heap'[b] = heap[b]
      BY <1>inv, <2>1 DEF KeptInv
    <2>4. UNCHANGED <<held, starved>>
      BY <2>1
    <2>5. QED
      BY <1>inv, <2>2, <2>3, <2>4 DEF TunnelsHidden
  <1>5. ASSUME NEW t \in Threads, LookForSlot(t) PROVE TunnelsHidden'
    BY <1>inv, <1>5, LookForSlotEffect, CallFields, CallTypes, Kinds
       DEF TunnelsHidden, HandsInv, ApartInv, KeptInv, histories
  <1>6. ASSUME NEW t \in Threads, TakeSlot(t) PROVE TunnelsHidden'
    BY <1>inv, <1>6, TakeSlotEffect, CallFields, CallTypes, Kinds
       DEF TunnelsHidden, HandsInv, ApartInv, KeptInv, histories
  <1>7. ASSUME NEW t \in Threads, TableFull(t) PROVE TunnelsHidden'
    BY <1>inv, <1>7, TableFullEffect, FullIsCrowded, CallFields, CallTypes, Kinds
       DEF TunnelsHidden, HandsInv, ApartInv, KeptInv, histories
  <1>8. ASSUME NEW t \in Threads, FreeIfAddrs(t) PROVE TunnelsHidden'
    <2>1. PICK a \in held :
            /\ calls[t] = Idle
            /\ calls'[t] = At("forget", a, Nil, 1)
            /\ \A u \in Threads : u # t => calls'[u] = calls[u]
            /\ held' = held \ {a}
            /\ UNCHANGED <<heap, table, crowded, starved, leaked>>
            /\ raced' = (raced \/ \E u \in Threads \ {t} : calls[u] # Idle)
      BY <1>8, FreeIfAddrsEffect
    <2>2. QED
      BY <1>inv, <2>1, CallFields, CallTypes, Kinds
         DEF TunnelsHidden, HandsInv, ApartInv, KeptInv, histories
  <1>9. ASSUME NEW t \in Threads, LookForList(t) PROVE TunnelsHidden'
    BY <1>inv, <1>9, LookForListEffect, CallFields, CallTypes, Kinds
       DEF TunnelsHidden, HandsInv, ApartInv, KeptInv, histories
  <1>10. ASSUME NEW t \in Threads, ClearSlot(t) PROVE TunnelsHidden'
    BY <1>inv, <1>10, ClearSlotEffect, CallFields, CallTypes, Kinds
       DEF TunnelsHidden, HandsInv, ApartInv, KeptInv, histories
  <1>11. ASSUME NEW t \in Threads, NotOwned(t) PROVE TunnelsHidden'
    BY <1>inv, <1>11, NotOwnedEffect, CallFields, CallTypes, Kinds
       DEF TunnelsHidden, HandsInv, ApartInv, KeptInv, histories
  <1>12. CASE UNCHANGED listVars
    BY <1>12, <1>inv DEF listVars, TunnelsHidden
  <1>13. QED
    BY <1>1, <1>2, <1>3, <1>4, <1>5, <1>6, <1>7, <1>8, <1>9, <1>10, <1>11, <1>12 DEF Next

-----------------------------------------------------------------------------
(* What the calls hold is in the hands of some call. *)
LEMMA HeldInHand ==
  ASSUME NEW t \in Threads, NEW a, Holds(t, a)
  PROVE  a \in InHand
  BY DEF Holds, InHand

(* What the table names are clones that somebody holds. *)
LEMMA OwnInvOwned == TypeOK /\ OwnInv => OwnedAreClones
  <1> SUFFICES ASSUME TypeOK, OwnInv PROVE OwnedAreClones
    OBVIOUS
  <1>1. ASSUME NEW i \in 1..Slots, table[i] # Nil
        PROVE  heap[table[i]] = Clone /\ table[i] \in held \cup InHand
    <2>1. heap[table[i]] = Clone /\ table[i] \in Addresses
      BY <1>1 DEF OwnInv, EntriesInv, TypeOK
    <2>2. table[i] \in held \/ \E t \in Threads : Holds(t, table[i])
      BY <1>1 DEF OwnInv, EntriesInv, Holds
    <2>3. QED
      BY <2>1, <2>2, HeldInHand
  <1>2. QED
    BY <1>1 DEF OwnedAreClones, OwnInv, PassedInv, KeptInv

(* A clone the app has is in one entry: in some, and in no two. *)
LEMMA SerialInvTracks == TypeOK /\ OwnInv /\ SerialInv => SerialKeepsTrack
  <1> SUFFICES ASSUME TypeOK, OwnInv, SerialInv, ~raced
               PROVE  /\ ~leaked
                      /\ \A a \in Addresses : heap[a] # Free => a \in held \cup InHand
                      /\ \A a \in held : heap[a] = Clone =>
                           Cardinality({i \in 1..Slots : table[i] = a}) = 1
    BY DEF SerialKeepsTrack
  <1>1. ~leaked
    BY DEF SerialInv
  <1>2. ASSUME NEW a \in Addresses, heap[a] # Free
        PROVE  a \in held \cup InHand
    BY <1>2, HeldInHand DEF OwnInv, KeptInv
  <1>3. ASSUME NEW a \in held, heap[a] = Clone
        PROVE  Cardinality({i \in 1..Slots : table[i] = a}) = 1
    <2>1. PICK k \in 1..Slots : table[k] = a
      BY <1>3 DEF SerialInv
    <2>2. a # Nil
      BY ListsAssumption DEF TypeOK, ListsAssumption
    <2>3. {i \in 1..Slots : table[i] = a} = {k}
      BY <2>1, <2>2 DEF OwnInv, EntriesInv
    <2>4. QED
      BY <2>3, FS_Singleton
  <1>4. QED
    BY <1>1, <1>2, <1>3

-----------------------------------------------------------------------------
(* Every part of the invariant holds at the start and after each step. *)
LEMMA ListsInvHolds == Spec => []ListsInv
  <1>1. Init => ListsInv
    BY InitTypeOK, InitOwnInv, InitSerialInv, InitRoomInv, InitTunnelsHidden DEF ListsInv
  <1>2. ListsInv /\ [Next]_listVars => ListsInv'
    BY NextTypeOK, NextOwnInv, NextSerialInv, NextRoomInv, NextTunnelsHidden DEF ListsInv
  <1>3. QED
    BY <1>1, <1>2, PTL DEF Spec

(* Type correctness for every number of threads, addresses and entries. *)
THEOREM ListsTypeCorrect == Spec => []TypeOK
  BY ListsInvHolds, PTL DEF ListsInv

(* However calls race on the table, which has no lock, it names clones     *)
(* that live and are the app's or being freed, and no list of the system   *)
(* is taken apart as a clone.                                              *)
THEOREM OwnedAlwaysClones == Spec => []OwnedAreClones
  BY ListsInvHolds, OwnInvOwned, PTL DEF ListsInv

(* As long as no two calls overlap nothing is lost or leaked, for tables   *)
(* and lists of every number.                                              *)
THEOREM SerialNeverLoses == Spec => []SerialKeepsTrack
  BY ListsInvHolds, SerialInvTracks, PTL DEF ListsInv

(* The app sees no tunnel unless memory ran out or there were at some      *)
(* moment more clones than entries: races for entries do not matter.       *)
THEOREM TunnelsStayHidden == Spec => []TunnelsHidden
  BY ListsInvHolds, PTL DEF ListsInv
=============================================================================
