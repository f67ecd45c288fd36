SPECIFICATION Spec
CONSTANTS
  mail = mail  game = game  system = system  red = red  blue = blue
  NoSeed = NoSeed  DefaultRow = DefaultRow  UIKit = UIKit
  Torn = Torn  NoFilter = NoFilter
  Apps = {mail, game, system}
  System = {system}
  LongNamed = {}
  Rank <- MCRank
  Customs = {red, blue}
  Failures = {"policy", "filter", "read", "kill"}
  Lifecycle = TRUE
INVARIANTS TypeOK SavedMeansEffective HookedAsShown
PROPERTY GroupMovesTogether
