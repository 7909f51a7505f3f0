SPECIFICATION FairSpec
CONSTANTS
  Requests <- Windows
  Variants <- TwoVariants
  Configured = "awattar-sunny"
  DryRun = TRUE
INVARIANTS
  OneRunAtATime
  NeverSilent
  MessageIsShown
PROPERTY VariantTakesEffect
