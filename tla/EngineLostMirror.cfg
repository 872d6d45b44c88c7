SPECIFICATION Spec
CONSTANTS
  t1 = t1
  t2 = t2
  r1 = r1
  r2 = r2
  rain = rain
  Nil = Nil
  Ticker = Ticker
  Reqs = {r1, r2}
  Trucks = {t1}
  World <- MCWorld
  Booted = TRUE
  Commands = {"stop"}
  MaxSeq = 3
  MayFail = TRUE
  Scenarios = {rain}
  Far = 3
  ArrivingAt = 2
  CheckpointStep = 2
INVARIANTS
  ShipmentFollows
