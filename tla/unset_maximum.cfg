SPECIFICATION Spec
CONSTANTS
  Horizon = 3
  Top = 4
  StepEnergy = 4
  Bus <- Losses
  Offsets = {0, 1, 2}
  Advantage = 2
  Threshold = 2
  Parts = 2
  Contexts <- AllContexts
INVARIANTS UnsetMaximumIsFull
