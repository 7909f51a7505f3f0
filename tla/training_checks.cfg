SPECIFICATION TrainingFairSpec
CONSTANTS
  Enabled <- BothModels
  Verdicts <- AllVerdicts
  MaxOpen = 2
INVARIANTS
  AtMostOneTrainer
  StartedIsUnderWay
PROPERTY Bootstrapped
