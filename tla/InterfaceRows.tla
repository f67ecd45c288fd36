---------------------------- MODULE InterfaceRows ----------------------------
(***************************************************************************)
(* The counters of one row of the interface list                           *)
(* (InterfaceInventoryMitigation.c): they grow with the uptime from what a *)
(* seed derives for the interface.                                         *)
(***************************************************************************)
EXTENDS ShapedValues

CONSTANTS
  ByteBase, ByteSpread,       \* 16 MiB and 240 MiB in the code
  RateBase, RateSpread,       \* 64 and 449 bytes per second
  WobbleEvery, WobbleSpread,  \* 300 seconds and 4096
  PacketBase, PacketSpread,   \* 720 and 640
  MaxCounter                  \* UINT32_MAX

ASSUME RowsAssumption ==
  /\ {ByteSpread, RateBase, RateSpread, WobbleEvery, WobbleSpread,
      PacketBase, PacketSpread, MaxCounter} \subseteq Nat \ {0}
  /\ ByteBase \in Nat

MutantUptimeSeconds(boot, now) == IF boot <= 0 THEN 0 ELSE now - boot

(* LHInterfaceInventoryUptimeSeconds: a boot time that cannot be read, or  *)
(* is not past, is an uptime of 0.                                         *)
UptimeSeconds(boot, now) == IF boot <= 0 \/ now <= boot THEN 0 ELSE now - boot

DeriveCounterBounded(seed, name, field, upperBound) ==
  DeriveBounded(seed, <<name, field>>, upperBound)

MutantClampU32(value) == value % (MaxCounter + 1)

ClampU32(value) == Least(value, MaxCounter)

(* Base, rate and wobble are reduced from the same derived number. *)
SyntheticBytes(seed, name, field, uptime) ==
  LET some(upperBound) == DeriveCounterBounded(seed, name, field, upperBound)
  IN ClampU32(ByteBase + some(ByteSpread)
                + ((RateBase + some(RateSpread)) * uptime)
                + ((uptime \div WobbleEvery) * (1 + some(WobbleSpread))))

SyntheticPackets(seed, name, field, bytes) ==
  bytes \div (PacketBase + DeriveCounterBounded(seed, name, field, PacketSpread))

MutantLastChange(uptime, now) == now

(* The boot time again, from a second reading of the clock. *)
LastChange(uptime, now) == IF uptime = 0 THEN 0 ELSE now - uptime

(* LHInterfaceInventoryShapeCounterData for one row: the loopback's        *)
(* traffic is the original's.                                              *)
CounterData(seed, name, original, uptime, now) ==
  LET bytes(field) == SyntheticBytes(seed, name, field, uptime)
      traffic ==
        [ibytes |-> bytes("ibytes"), obytes |-> bytes("obytes"),
         ipackets |-> SyntheticPackets(seed, name, "ipackets", bytes("ibytes")),
         opackets |-> SyntheticPackets(seed, name, "opackets", bytes("obytes"))]
  IN [traffic |-> IF name = "lo0" THEN original ELSE traffic,
      lastchange |-> LastChange(uptime, now)]
=============================================================================
