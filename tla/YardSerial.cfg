SPECIFICATION Spec
CONSTANTS
  d1 = d1
  d2 = d2
  d3 = d3
  t1 = t1
  t2 = t2
  broken = broken
  Nil = Nil
  Docks = {d1, d2, d3}
  Trucks = {t1, t2}
  Reasons = {broken}
  Reqs = {r1}
  Slots <- MCSlots
  SlotsOf <- MCSlotsOf
  Supports <- MCSupports
  SeedDoors <- MCSeedDoors
  SeedRows <- MCSeedRows
  Commands = {"assign", "release", "takeDown", "putBack", "docked", "occupied"}
  MaxRows = 4
  MayCrash = FALSE
  MayFail = TRUE
INVARIANTS
  TypeOK
  StatusTellsBookings
  NoSilentStranding
PROPERTIES
  OutOfServiceStays
