SPECIFICATION Spec
CONSTANTS
  Nil = Nil
  Threads = {t1, t2, t3}
  Addresses = {a1, a2, a3, a4, a5}
  Slots = 2
  MayFail = TRUE
SYMMETRY ListSymmetry
INVARIANTS TypeOK OwnedAreClones SerialKeepsTrack TunnelsHidden
