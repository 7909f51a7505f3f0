SPECIFICATION FairSpec
CONSTANTS
  Callers <- MCCallers
  Series <- MCSeries
  Asks <- MCAsks
  Windows <- MCWindows
  Limits <- MCLimits
  RefusedFor = 2
  LimitedFor = 1
  Horizon = 2
INVARIANTS
  WithinBudget
  WholeUnlessFailed
PROPERTIES
  QuietAfterRefusal
  CooldownEnds
