SPECIFICATION MCSpec
CONSTANTS
  Nil = Nil
  Codes <- MCCodes
  Truck <- MCTruck
  Yards <- MCYards
  Now <- MCNow
  DefaultDuration = 45
  distanceKm = 48
  arrivingKm = 40
  checkpointKm = 16
  Cruise = 8
  SlowedBy <- MCSlowedBy
  speedMultiplier = 2
  Reports <- MCReports
  Beat = 32
  Horizon = 7
INVARIANTS
  RanksThoseThatCanTake
  ScoreIsPercentage
  SoonerIsNoWorse
  UrgentWaitsNoLonger
  JourneyTypeOK
  NeverTeleports
  DelaysLeaveNoTrace
PROPERTIES
  EtaIsKept
