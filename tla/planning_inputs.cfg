SPECIFICATION Spec
CONSTANTS
  Configs <- MCConfigs
  LegacyArea = "wien"
  Times <- MCTimes
  Horizon = 4
  MonthOf <- MCMonthOf
  YearStart <- MCYearStart
  SnapTimes <- MCSnapTimes
  Providers <- MCProviders
  Priority <- MCPriority
  Position <- MCPosition
  Published <- MCPublished
  EvccStates <- MCEvccStates
  FromEvcc = "from_evcc"
  Entsoe = "entsoe"
  Guessing = {"guess"}
  GuessHours = 2
  SolarRows <- MCSolarRows
  Calibrations <- MCCalibrations
  HourStart <- MCHourStart
  Hour = 2
  Reach = 4
INVARIANTS
  TariffIsCurrent
  MergedForecastIsBest
  PlanPaysTheTariff
  SunIsSharedOut
