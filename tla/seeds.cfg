SPECIFICATION Spec
CONSTANTS
  mail = mail  game = game  acme = acme  red = red
  NoSeed = NoSeed  BuildSeed = BuildSeed  StaticId = StaticId
  Apps = {mail, game}
  Untargetable = {}
  LongNamed = {game}
  Vendors = {acme}
  VendorOf <- MCVendorOf
  Customs = {red}
  Policies <- AllPolicies
  Kinds = {"package", "local"}
  LocalMode = "install"
  Devices = {TRUE, FALSE}
  MaxDraws = 4
  MaxInstalls = 1
  MaxSeen = 1
INVARIANTS TypeOK RelaunchStable LinkedAppsShare OnlyLinkedAppsShare ResetRotates ReinstallUnlinks
