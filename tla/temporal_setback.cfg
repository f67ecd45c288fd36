SPECIFICATION Spec
CONSTANTS
  t1 = t1  t2 = t2
  app = app  ext = ext
  NoValue = NoValue
  Threads = {t1, t2}
  Processes = {app, ext}
  ProcessOf <- MCProcessOf
  Media = {}
  Removable = FALSE
  Start = 20
  MaxClock = 26
  RaceClock = 20
  ClockStepsBack = TRUE
  MaxTroubles = 1
  CallSpan = 1
  Second = 1
  UnitCount = 4
  Seeds <- AlikeSeeds
  RaceSeeds = {}
  Asked = {"volume", "install", "boot", "uptime"}
  RaceAsked = {}
  VolumeMinAge = 12
  VolumeMaxAge = 16
  BootMinAge = 2
  BootLookback = 11
  BootAfterVolume = 4
  InstallMinAge = 2
  InstallLookback = 14
  InstallAfterVolume = 4
INVARIANT InstallBeforeNow
