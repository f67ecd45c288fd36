--------------------------- MODULE MCLiveAnswers ---------------------------
EXTENDS LiveAnswers, Bitwise

ThreadSymmetry == Permutations(Threads)

MCDerived(derived, context) == derived

(* Around the steps of the noise and of the caps, and as far as the xor of *)
(* 32-bit integers goes.                                                   *)
MCRawCounters ==
  0..20 \cup 60..70 \cup 120..130 \cup 510..515 \cup 16315..16325
    \cup {65535, 65536, 262079, 262080, 524160, 524225, 1000003, 536870912, 1073741823}
MCRawFill == 1000

MixTable == [value \in MCRawCounters \cup {MCRawFill} |->
               (value ^^ (value \div 128)) ^^ (value \div 131072)]
MCMixed(value) == MixTable[value]

(* struct vm_statistics64 of the SDK, in 32-bit words. *)
MCEndOf ==
  [free_count |-> 1, active_count |-> 2, inactive_count |-> 3, wire_count |-> 4,
   pageins |-> 10, pageouts |-> 12, faults |-> 14, cow_faults |-> 16, purges |-> 22,
   purgeable_count |-> 23, speculative_count |-> 24, decompressions |-> 26,
   compressions |-> 28, swapins |-> 30, swapouts |-> 32, compressor_page_count |-> 33,
   throttled_count |-> 34, external_page_count |-> 35, internal_page_count |-> 36,
   total_uncompressed_pages_in_compressor |-> 38, swapped_count |-> 40]

(* Rounded sines of i/400 of a turn, in 1/10000. *)
MCSine ==
  LET quarter == <<
    0, 157, 314, 471, 628, 785, 941, 1097, 1253, 1409, 1564, 1719, 1874,
    2028, 2181, 2334, 2487, 2639, 2790, 2940, 3090, 3239, 3387, 3535, 3681, 3827,
    3971, 4115, 4258, 4399, 4540, 4679, 4818, 4955, 5090, 5225, 5358, 5490, 5621,
    5750, 5878, 6004, 6129, 6252, 6374, 6494, 6613, 6730, 6845, 6959, 7071, 7181,
    7290, 7396, 7501, 7604, 7705, 7804, 7902, 7997, 8090, 8181, 8271, 8358, 8443,
    8526, 8607, 8686, 8763, 8838, 8910, 8980, 9048, 9114, 9178, 9239, 9298, 9354,
    9409, 9461, 9511, 9558, 9603, 9646, 9686, 9724, 9759, 9792, 9823, 9851, 9877,
    9900, 9921, 9940, 9956, 9969, 9980, 9989, 9995, 9999, 10000 >>
  IN [i \in 0..100 |-> quarter[i + 1]]

MCSeedsOf ==
  [battery |-> 0..47, brightness |-> 0..47, volume |-> 0..47, motion |-> 0..63,
   latency |-> 0..63, capacity |-> {0},
   memory |-> {0, 1, 2, 63, 255, 256, 4095, 8191, 16777216},
   interfaces |-> {1, 5}, proxies |-> {0}, paths |-> {0}, sysctl |-> {0}]

MCPositions ==
  LET levels == 0..100
      capacities == {64 * i : i \in 0..48} \cup {500, 511, 513, 767, 769, 2047, 2049}
                      \cup {GiB * i + d : i \in {15, 16, 17, 18, 62, 63, 64, 65, 68, 72}, d \in {-1, 0, 1}}
  IN [battery |-> levels, brightness |-> levels, volume |-> levels,
      motion |-> {8 * i - 200 : i \in 0..50} \cup -10..10,
      latency |-> 0..20 \cup {10 * i : i \in 3..40}, capacity |-> capacities]
=============================================================================
