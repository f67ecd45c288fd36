--------------------------- MODULE MemoryCounters ---------------------------
(***************************************************************************)
(* The noise taken from the memory counters (MemoryCountersMitigation.c):  *)
(* the shaping of one counter, and what the hooks of host_statistics and   *)
(* host_statistics64 leave in the caller's buffer.                         *)
(***************************************************************************)
EXTENDS ShapedValues

CONSTANTS
  Mixed(_),   \* Mixed(v): v ^ (v >> 7) ^ (v >> 17)
  EndOf       \* the word of struct vm_statistics64 in which a field ends

Gauges == {"free_count", "active_count", "inactive_count", "wire_count",
           "purgeable_count", "speculative_count"}
Transfers == {"pageins", "pageouts", "purges"}
Faults == {"faults", "cow_faults"}
Fields == Gauges \cup Transfers \cup Faults

(* The fields only struct vm_statistics64 has; it counts the same.         *)
Gauges64 == {"compressor_page_count", "throttled_count", "external_page_count",
             "internal_page_count", "total_uncompressed_pages_in_compressor",
             "swapped_count"}
Transfers64 == {"decompressions", "compressions", "swapins", "swapouts"}
Fields64 == Fields \cup Gauges64 \cup Transfers64

ASSUME EndAssumption == EndOf \in [Fields64 -> Nat \ {0}]

Cap(field) ==
  IF field \in Transfers \cup Transfers64 THEN 4095
  ELSE IF field \in Faults THEN 8191 ELSE 255

-----------------------------------------------------------------------------
MutantNoise(seed, field, value, maxNoise) ==
  DeriveBounded(seed, field, maxNoise + 1) - (Mixed(value) % (maxNoise + 1))

(* LHMemoryDeriveNoise: what the seed derives for the field, and the value *)
(* itself, wrapped at the bound.                                           *)
Noise(seed, field, value, maxNoise) ==
  (DeriveBounded(seed, field, maxNoise + 1) + (Mixed(value) % (maxNoise + 1)))
    % (maxNoise + 1)

MaxNoise(value, cap) == Least(Most(value \div 64, 1), cap)

ShapeU64(seed, field, value, cap) ==
  LET noise == Noise(seed, field, value, MaxNoise(value, cap))
  IN IF value < 8 \/ cap = 0 \/ noise >= value THEN value ELSE value - noise

(* 32 MiB at most. *)
AvailableMemory(seed, value) ==
  ShapeU64(seed, "os_proc_available_memory", value, 32 * 1024 * 1024)

-----------------------------------------------------------------------------
MutantIncludesField(count, field) == count >= EndOf[field] - 2

(* The words the call filled reach the end of the field, not only its start. *)
IncludesField(count, field) == count >= EndOf[field]

(* LHMemoryHostStatistics64Replacement after an original call that filled  *)
(* "count" words of "stats".  A failure, or another flavor, is not "shaped".*)
HostStatistics64(seed, stats, count, shaped) ==
  [field \in Fields64 |->
     IF shaped /\ IncludesField(count, field)
     THEN ShapeU64(seed, <<field, "64">>, stats[field], Cap(field)) ELSE stats[field]]

(* LHMemoryHostStatisticsReplacement: all of struct vm_statistics or nothing. *)
HostStatistics(seed, stats, whole, shaped) ==
  [field \in Fields |->
     IF shaped /\ whole THEN ShapeU64(seed, field, stats[field], Cap(field)) ELSE stats[field]]
=============================================================================
