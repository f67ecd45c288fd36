SPECIFICATION Spec
CONSTANTS
  t1 = t1  t2 = t2
  app = app  ext = ext
  NoValue = NoValue
  Threads = {t1, t2}
  Processes = {app, ext}
  ProcessOf <- MCProcessOf
  Media = {"readonly", "locked"}
  Removable = TRUE
  Start = 21
  MaxClock = 25
  RaceClock = 22
  ClockStepsBack = TRUE
  MaxTroubles = 1
  CallSpan = 1
  Second = 2
  UnitCount = 2
  Seeds <- AnySeed
  RaceSeeds <- SkewedSeed
  Asked = {"volume", "install", "boot", "uptime"}
  RaceAsked = {"volume", "install", "boot"}
  VolumeMinAge = 12
  VolumeMaxAge = 16
  BootMinAge = 2
  BootLookback = 11
  BootAfterVolume = 4
  InstallMinAge = 2
  InstallLookback = 14
  InstallAfterVolume = 4
SYMMETRY AppSymmetry
INVARIANTS TypeOK AlwaysSynthetic StableAnswers VolumeFirst AnsweredInPast AnswersClose
