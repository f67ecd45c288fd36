---------------------------- MODULE LiveAnswers ----------------------------
(***************************************************************************)
(* An app reads what changes while the device runs: memory counters, free  *)
(* space, levels and motion, the interface list, proxies and paths, the    *)
(* boot time by sysctl.  The hooks keep no state and share none, so one    *)
(* behaviour reads one "surface"; what an answer must not do is contradict *)
(* the device, an earlier answer, or the caller's buffer.  "seed" is what  *)
(* active seed, policy seed and scope derive for the contexts asked: any   *)
(* number, the same for the life of the process.                           *)
(***************************************************************************)
EXTENDS MemoryCounters, InterfaceRows, NetworkPaths, BootSysctl, FiniteSets

CONSTANTS
  Surfaces,             \* the surfaces read in this run
  SeedsOf,              \* SeedsOf[surface]: numbers derived on it
  Positions,            \* Positions[surface]: values of a level
  RawCounters, RawFill, \* memory counters; what the caller's buffer held before
  Counts, WholeCount,   \* words a host_statistics64 call fills, most of all
  Threads, StartTime, MaxTime, BootTimes,
  MaxPath               \* interfaces of a path

VARIABLES
  surface, seed,
  told,    \* the latest answer with the question it answers, or none yet
  now, boot, calls, floors

vars == <<surface, seed, told, now, boot, calls, floors>>

Levels == {"battery", "brightness", "volume", "motion", "latency", "capacity"}
List == <<"lo0", "en0">>
Rows == {List[i] : i \in DOMAIN List}
Traffic == {"ibytes", "obytes", "ipackets", "opackets"}
NoTraffic == [field \in Traffic |-> 0]

(* Derived and mixed numbers are unsigned, a device's counters not         *)
(* negative, its battery, brightness and volume hundredths, the loopback's *)
(* own counters, of 32 bits, hold the whole run, and a call that fills all *)
(* of struct vm_statistics fills each of its fields.                       *)
ASSUME LiveAssumption ==
  /\ RawCounters \cup {RawFill} \subseteq Nat
  /\ \A value \in RawCounters \cup {RawFill} : Mixed(value) \in Nat
  /\ \A kind \in Surfaces : \A s \in SeedsOf[kind] :
       /\ \A field \in Fields64 : Derived(s, field) \in Nat /\ Derived(s, <<field, "64">>) \in Nat
       /\ \A row \in Rows, field \in Traffic : Derived(s, <<row, field>>) \in Nat
       /\ \A name \in {"battery", "brightness", "outputVolume", "motion", "latency",
                       "os_proc_available_memory"} : Derived(s, name) \in Nat
  /\ "capacity" \in Surfaces => Positions["capacity"] \subseteq Nat
  /\ \A kind \in Surfaces \cap {"battery", "brightness", "volume"} : Positions[kind] \subseteq 0..100
  /\ \A kind \in Surfaces \cap {"motion", "latency"} : Positions[kind] \subseteq Int
  /\ StartTime \in Nat /\ MaxTime \in StartTime..MaxCounter
  /\ BootTimes \subseteq Nat
  /\ Counts \subseteq Nat /\ WholeCount \in Nat
  /\ \A field \in Fields : EndOf[field] <= WholeCount

(* Threads read the list a step at a time: "idle", "boot" once the boot    *)
(* time is read, "rows" once the uptime is known.  "floor" is what lists   *)
(* returned before the call began have shown.                              *)
Idle == [at |-> "idle", uptime |-> 0, began |-> 0, original |-> NoTraffic,
         rows |-> << >>, floor |-> [row \in Rows |-> NoTraffic]]

Init ==
  /\ surface \in Surfaces
  /\ seed \in SeedsOf[surface]
  /\ told = {}
  /\ now = StartTime
  /\ boot \in IF surface = "interfaces" THEN BootTimes ELSE {0}
  /\ calls = [thread \in Threads |-> Idle]
  /\ floors = [row \in Rows |-> NoTraffic]

Tell(answer) ==
  /\ told' = {answer}
  /\ UNCHANGED <<surface, seed, now, boot, calls, floors>>

(* The app is done with an answer, and with the buffer it came in. *)
Discard ==
  /\ told # {}
  /\ told' = {}
  /\ UNCHANGED <<surface, seed, now, boot, calls, floors>>

-----------------------------------------------------------------------------
(* Levels, free space and motion: the device is anywhere at each reading,  *)
(* and the app compares with the reading before.                           *)
Shown(x) ==
  CASE surface = "battery" -> BatteryLevel(seed, x)
    [] surface = "brightness" -> Brightness(seed, x)
    [] surface = "volume" -> OutputVolume(seed, x)
    [] surface = "motion" -> Motion(seed, x)
    [] surface = "latency" -> Latency(seed, x)
    [] surface = "capacity" -> Bucketed(x)

ReadLevel ==
  /\ surface \in Levels
  /\ \E x \in Positions[surface] : Tell([real |-> x, shown |-> Shown(x)])

(* Memory.  The original fills the first "count" words of the caller's     *)
(* buffer, or fails, or another flavor was asked for.                      *)
ReadStatistics64 ==
  /\ surface = "memory" /\ told = {}
  /\ \E raw \in RawCounters, count \in Counts, shaped \in BOOLEAN :
       LET filled == [field \in Fields64 |-> IF count >= EndOf[field] THEN raw ELSE RawFill]
       IN Tell([asked |-> filled, count |-> count, shaped |-> shaped,
                shown |-> HostStatistics64(seed, filled, count, shaped)])

ReadStatistics ==
  /\ surface = "memory" /\ told = {}
  /\ \E raw \in RawCounters, whole, shaped \in BOOLEAN :
       LET filled == [field \in Fields |-> raw]
       IN Tell([asked |-> filled, count |-> IF whole THEN WholeCount ELSE 0, shaped |-> shaped,
                shown |-> HostStatistics(seed, filled, whole, shaped)])

ReadAvailableMemory ==
  /\ surface = "memory" /\ told = {}
  /\ \E raw \in RawCounters :
       Tell([asked |-> [available |-> raw], count |-> WholeCount, shaped |-> TRUE,
             shown |-> [available |-> AvailableMemory(seed, raw)]])

-----------------------------------------------------------------------------
(* The interface list, read by threads while the clock runs.  The          *)
(* loopback's own traffic grows with it, here by one a second.             *)
Update(thread, call) ==
  /\ calls' = [calls EXCEPT ![thread] = call]
  /\ UNCHANGED <<surface, seed, told, now, boot, floors>>

Begin(thread) ==
  /\ surface = "interfaces"
  /\ calls[thread].at = "idle"
  /\ Update(thread, [Idle EXCEPT !.at = "boot", !.floor = floors,
                                 !.original = [field \in Traffic |-> now]])

ReadUptime(thread) ==
  /\ calls[thread].at = "boot"
  /\ Update(thread, [calls[thread] EXCEPT !.at = "rows", !.began = now,
                                          !.uptime = UptimeSeconds(boot, now)])

WithRow(call, row) ==
  [call EXCEPT !.rows =
     [name \in DOMAIN @ \cup {row} |->
        IF name = row THEN CounterData(seed, row, call.original, call.uptime, now) ELSE @[name]]]

ShapeRow(thread) ==
  LET call == calls[thread]
  IN /\ call.at = "rows" /\ DOMAIN call.rows # Rows
     /\ Update(thread, WithRow(call, List[Cardinality(DOMAIN call.rows) + 1]))

Return(thread) ==
  LET call == calls[thread]
  IN /\ DOMAIN call.rows = Rows
     /\ calls' = [calls EXCEPT ![thread] = Idle]
     /\ floors' = [row \in Rows |->
                     [field \in Traffic |-> Most(floors[row][field], call.rows[row].traffic[field])]]
     /\ UNCHANGED <<surface, seed, told, now, boot>>

Tick ==
  /\ surface = "interfaces"
  /\ now < MaxTime
  /\ now' = now + 1
  /\ UNCHANGED <<surface, seed, told, boot, calls, floors>>

-----------------------------------------------------------------------------
(* Proxies and paths: what one pass of the app finds out.                  *)
CopyProxies ==
  /\ surface = "proxies" /\ told = {}
  /\ \E settings \in Settings, failed \in SUBSET Allocations :
       Tell([asked |-> settings, failed |-> failed,
             shown |-> CopyFilteredProxySettings(settings, failed)])

PathFound(path, wanted, installed, originals) ==
  LET given == Enumerated(path, wanted, installed, originals)
  IN [path |-> path, wanted |-> wanted, installed |-> installed, originals |-> originals,
      given |-> given,
      names |-> {AskName(given[i], installed, originals) : i \in DOMAIN given},
      types |-> {AskType(given[i], installed, originals) : i \in DOMAIN given},
      uses |-> {type \in Types : AskUses(path, type, installed, originals)}]

ReadPath ==
  /\ surface = "paths" /\ told = {}
  /\ \E path \in SeqOf(Interfaces, MaxPath), wanted \in 1..MaxPath,
        originals \in SUBSET PathHooks : \E installed \in SUBSET originals :
       Tell(PathFound(path, wanted, installed, originals))

(* The boot time by sysctl, with a buffer of any room and the length it    *)
(* claims, which is the room.                                              *)
AskBootTime ==
  /\ surface = "sysctl" /\ told = {}
  /\ \E room \in 0..Required, write, synthetic, public, private \in BOOLEAN :
       LET call == Query(room, room, write)
       IN Tell([room |-> room, write |-> write,
                shown |-> IF public THEN Public(call, synthetic, private)
                          ELSE Private(call, synthetic, private)])

Next ==
  \/ Discard
  \/ ReadLevel
  \/ ReadStatistics64
  \/ ReadStatistics
  \/ ReadAvailableMemory
  \/ \E thread \in Threads :
       Begin(thread) \/ ReadUptime(thread) \/ ShapeRow(thread) \/ Return(thread)
  \/ Tick
  \/ CopyProxies
  \/ ReadPath
  \/ AskBootTime

Spec == Init /\ [][Next]_vars

-----------------------------------------------------------------------------
(* Each answer has its shape, and counters stay in 32 bits. *)
TypeOK ==
  /\ surface \in Surfaces /\ seed \in SeedsOf[surface]
  /\ now \in StartTime..MaxTime /\ boot \in Nat
  /\ Cardinality(told) <= 1
  /\ surface = "memory" => \A answer \in told : DOMAIN answer.shown = DOMAIN answer.asked
  /\ \A thread \in Threads : /\ calls[thread].at \in {"idle", "boot", "rows"}
                             /\ calls[thread].uptime \in 0..MaxTime
  /\ floors \in [Rows -> [Traffic -> 0..MaxCounter]]

(* A counter is never shown higher than it is, nor lower by more than a    *)
(* 64th of it, or one, nor by more than its cap, and free space never      *)
(* above what there is: the apps that size their work by it never          *)
(* overcommit (MemoryCountersMitigation.c:45-61,                           *)
(* AvailableCapacityMitigation.m:38-63).                                   *)
NeverMore ==
  /\ surface = "memory" =>
       \A answer \in told : \A field \in DOMAIN answer.asked :
         LET value == answer.asked[field]
             cap == IF field = "available" THEN 32 * 1024 * 1024 ELSE Cap(field)
         IN answer.shown[field] \in value - Least(Most(value \div 64, 1), cap)..value
            /\ (value > 0 => answer.shown[field] > 0)
  /\ surface = "capacity" =>
       \A answer \in told : answer.shown \in answer.real - (answer.real \div 2)..answer.real

(* What the original did not fill of a host_statistics64 buffer is as the  *)
(* caller left it, and so is all of it when the call failed or read        *)
(* something else (MemoryCountersMitigation.c:85-160, 174-184).            *)
BufferKept ==
  surface = "memory" =>
    \A answer \in told : \A field \in DOMAIN answer.asked :
      ~answer.shaped \/ (field \in Fields64 /\ answer.count < EndOf[field])
        => answer.shown[field] = answer.asked[field]

(* A value that rises or stays is never shown falling, whichever of the    *)
(* finite family of curves the seed picks, and full and empty are shown    *)
(* exactly then (LHValueQuantizer.c:17-103, PowerBatteryState:50-79).      *)
OrderKept ==
  [][/\ \A before \in told, after \in told' :
          surface \in Levels /\ before.real <= after.real => before.shown <= after.shown
     /\ \A after \in told' :
          surface \in {"battery", "brightness", "volume"}
            => /\ (after.real = 0) = (after.shown = 0)
               /\ (after.real = 100) = (after.shown = 1000000)]_vars

(* A list read after another was returned never shows less traffic, on     *)
(* whatever threads and however long the rows took                         *)
(* (InterfaceInventoryMitigation.c:231-280).                               *)
CountersGrow ==
  \A thread \in Threads : \A row \in DOMAIN calls[thread].rows : \A field \in Traffic :
    calls[thread].rows[row].traffic[field] >= calls[thread].floor[row][field]

(* A row changed last at the boot time the app can read, late at most by   *)
(* what passed since its uptime was read; 0 without one (:298-319).        *)
LastChangeAtBoot ==
  \A thread \in Threads : \A row \in DOMAIN calls[thread].rows :
    LET call == calls[thread]
        lastchange == call.rows[row].lastchange
    IN IF boot = 0 \/ call.began <= boot THEN lastchange = 0
       ELSE lastchange \in boot..boot + (now - call.began)

(* Whatever allocation fails, the caller gets one dictionary with one      *)
(* reference, the original or the new one that holds the new scopes, and   *)
(* nothing else stays behind (:321-380).                                   *)
ProxiesBalanced ==
  surface = "proxies" =>
    \A answer \in told :
      LET refs == answer.shown
      IN /\ refs.original + refs.filtered = 1
         /\ refs.filteredScoped = refs.filtered

(* No scope tells of a tunnel unless an allocation failed (:321-372).  On  *)
(* a path (:583-647) each hook that is installed keeps its own promise     *)
(* whichever of the others are not: get_name tells no tunnel's name,       *)
(* uses_interface_type and get_type tell no tunnel's type, and the         *)
(* enumeration, which needs only the original of get_type, hides tunnels   *)
(* even from a get_type that is not hooked.  Hiding one interface loses no *)
(* other: the app gets every one that is not hidden up to those it wanted. *)
TunnelsUntold ==
  /\ surface = "proxies" =>
       \A answer \in told :
         answer.failed = {} => answer.shown.scopes = answer.asked.scopes \ {"tunnel"}
  /\ surface = "paths" =>
       \A answer \in told :
         LET ordinary == {i \in DOMAIN answer.path : ~PathTypeLooksSensitive(answer.path[i].type)}
             filtering == "enumerate_interfaces" \in answer.installed
                            /\ "get_type" \in answer.originals
         IN /\ "get_name" \in answer.installed => "tunnel" \notin answer.names
            /\ ("get_type" \in answer.installed \/ filtering)
                 => answer.types \cap {"other", "loopback"} = {}
            /\ "uses_interface_type" \in answer.installed
                 => answer.uses \cap {"other", "loopback"} = {}
            /\ Len(answer.given) =
                 Least(answer.wanted,
                       Cardinality(IF filtering THEN ordinary ELSE DOMAIN answer.path))

(* The usual size query of a sysctl: a buffer shorter than the value is    *)
(* refused, and nothing is written past its end                            *)
(* (docs/mitigations/system-boot-time.md:40).                              *)
ShortBufferRefused ==
  surface = "sysctl" =>
    \A answer \in told :
      answer.room \in 1..Required - 1 =>
        answer.shown.result # "success" /\ answer.shown.written <= answer.room
=============================================================================
