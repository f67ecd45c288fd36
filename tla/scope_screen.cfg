SPECIFICATION ScreenSpec
CONSTANTS
  mail = mail  game = game  red = red  blue = blue
  NoSeed = NoSeed  DefaultRow = DefaultRow  UIKit = UIKit
  Torn = Torn  NoFilter = NoFilter
  Apps = {mail, game}
  System = {}
  LongNamed = {}
  Rank <- MCRank
  Customs = {red, blue}
  Failures = {"policy", "filter", "read", "kill"}
  Lifecycle = FALSE
  Screens = {mail, game}
INVARIANTS ScreenOK LeftAsShown
PROPERTIES ImplementsPolicyStore ScopeKeepsSwitches
SYMMETRY SeedSymmetry
