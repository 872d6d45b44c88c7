SPECIFICATION ServerSpec
CONSTANTS
  t1 = t1
  c1 = c1
  c2 = c2
  rain = rain
  Nil = Nil
  Ticker = Ticker
  Boot = Boot
  Term = Term
  Clients = {c1, c2}
  Reqs = {c1, c2, Boot, Term}
  Trucks = {t1}
  World <- MCWorld
  Booted = TRUE
  Commands = {"start", "stop", "docked", "arrived", "location", "delay"}
  MaxSeq = 1
  MayFail = FALSE
  GivesUp = TRUE
  Scenarios = {rain}
  Far = 2
  ArrivingAt = 1
  CheckpointStep = 2
SYMMETRY ClientSymmetry
INVARIANTS
  ServerTypeOK
  StoppedForGood
  CleanExitOwesNothing
  StoppedIsSaved
  OneStory
