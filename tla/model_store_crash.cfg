SPECIFICATION FairDemandSpec
CONSTANTS
  m1 = m1
  m2 = m2
  m3 = m3
  starter = starter
  Missing = Missing
  Nothing = Nothing
  Bundled = starter
  Candidates <- Trained
  Builds <- ThreeBuilds
  Target <- Targets
  Inputs <- FewInputs
  HourTicks = 2
  DayHours = 2
  WeekDays = 2
  Weekend = {1}
  Season <- TwoSeasons
  Scale <- Scales
  LoadScale = 25
  BaselineWeight <- Fading
  NearbyWeight <- FadingFast
  MaxNeighbors = 3
  LeastLoad = 2
  MostLoad = 60
  DefaultLoad = 11
  EnoughReadings = 2
  RecentDays = 2
  EnoughHours = 3
  EnoughSlots = 3
  MaxSpread <- ElevenTenths
INVARIANTS
  RenamesSucceed
  OneModelThroughout
  ToldAsMade
  ShapeIsKept
  HistoryIsFollowed
PROPERTIES
  CurrentIsWhole
  SwitchHasSpare
  ServesAgain
