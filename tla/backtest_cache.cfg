SPECIFICATION MCSpec
CONSTANTS
  MaxDay = 4
  FirstDay = 3
  Configs <- TwoConfigs
  Tariffs <- TwoTariffs
  TariffDays = {2}
  Snapshots <- OnePlan
  PageLength = 2
  MaxRestarts = 2
  MaxTariffs = 1
INVARIANTS
  CarriesSoc
  Settled
PROPERTIES
  SummaryIsFinal
  Materialized
CHECK_DEADLOCK FALSE
