SPECIFICATION Spec
CONSTANTS
  Commands <- OneTarget
  Settings <- OnePower
  UserRules <- MorningOnly
  Fates <- AnyFate
  ConfigFloor = 10
  MaxCharge = 90
PROPERTY AlreadyAligned
