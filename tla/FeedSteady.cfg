SPECIFICATION ServerSpec
CONSTANTS
  t1 = t1
  c1 = c1
  c2 = c2
  rain = rain
  Nil = Nil
  Ticker = Ticker
  Boot = Boot
  Term = Term
  Clients = {c1, c2}
  Reqs = {c1, c2, Boot, Term}
  Trucks = {t1}
  World <- MCDelayed
  Booted = TRUE
  Commands = {"status", "arrived", "delay", "start", "stop"}
  MaxSeq = 2
  MayFail = FALSE
  GivesUp = FALSE
  Scenarios = {rain}
  Far = 3
  ArrivingAt = 2
  CheckpointStep = 2
SYMMETRY ClientSymmetry
INVARIANTS
  NoDelayInYard
  RowsKeepUp
PROPERTIES
  InYardStays
