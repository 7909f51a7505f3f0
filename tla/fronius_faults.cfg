SPECIFICATION FairSpec
CONSTANTS
  Commands <- FewCommands
  Settings <- Reconfigured
  UserRules <- OwnersRules
  Fates <- AnyFate
  ConfigFloor = 10
  MaxCharge = 90
INVARIANTS
  BeliefIsTrue
  UserRulesKept
PROPERTIES
  FirstSyncIsExact
  Recovers
