SPECIFICATION FairSpec
CONSTANTS
  d1 = d1
  d2 = d2
  d3 = d3
  t1 = t1
  t2 = t2
  broken = broken
  Nil = Nil
  Docks = {d1, d2}
  Trucks = {t1}
  Reasons = {broken}
  Reqs = {r1, r2}
  Slots <- MCSlots
  SlotsOf <- MCSoleSlot
  Supports <- MCSoleSupports
  SeedDoors <- MCPairDoors
  SeedRows <- MCPairRows
  Commands = {"assign", "release", "takeDown", "docked"}
  MaxRows = 2
  MayCrash = FALSE
  MayFail = TRUE
PROPERTIES
  EveryCallReturns
