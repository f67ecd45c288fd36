SPECIFICATION Spec
CONSTANTS
  Surfaces = {"battery", "brightness", "volume", "motion", "latency", "capacity", "memory", "interfaces", "proxies", "paths", "sysctl"}
  Derived <- MCDerived
  Mixed <- MCMixed
  Sine <- MCSine
  EndOf <- MCEndOf
  SeedsOf <- MCSeedsOf
  Positions <- MCPositions
  RawCounters <- MCRawCounters
  RawFill <- MCRawFill
  Counts = {0, 1, 9, 10, 16, 24, 25, 38, 39, 40}
  WholeCount = 40
  Threads = {t1, t2}
  StartTime = 10
  MaxTime = 15
  BootTimes = {0, 4, 12}
  ByteBase = 4
  ByteSpread = 6
  RateBase = 2
  RateSpread = 3
  WobbleEvery = 3
  WobbleSpread = 4
  PacketBase = 3
  PacketSpread = 4
  MaxCounter = 45
  MaxPath = 2
  Required = 2
SYMMETRY ThreadSymmetry
INVARIANTS
  TypeOK
  NeverMore
  BufferKept
  CountersGrow
  LastChangeAtBoot
  ProxiesBalanced
  TunnelsUntold
PROPERTY
  OrderKept
