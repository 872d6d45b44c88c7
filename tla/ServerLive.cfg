SPECIFICATION FairServerSpec
CONSTANTS
  t1 = t1
  c1 = c1
  c2 = c2
  rain = rain
  Nil = Nil
  Ticker = Ticker
  Boot = Boot
  Term = Term
  Clients = {c1}
  Reqs = {c1, Boot, Term}
  Trucks = {t1}
  World <- MCWorld
  Booted = FALSE
  Commands = {"start", "stop", "reset", "delay", "arrived", "docked"}
  MaxSeq = 1
  MayFail = TRUE
  GivesUp = TRUE
  Scenarios = {rain}
  Far = 2
  ArrivingAt = 1
  CheckpointStep = 2
PROPERTIES
  GracefulExit
  EveryCommandEnds
