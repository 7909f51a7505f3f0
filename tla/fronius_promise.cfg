SPECIFICATION Spec
CONSTANTS
  Commands <- OneTarget
  Settings <- OnePower
  UserRules <- OwnersRules
  Fates <- Reliable
  ConfigFloor = 10
  MaxCharge = 90
PROPERTY KeepsPromise
