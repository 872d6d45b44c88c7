SPECIFICATION Spec
CONSTANTS
  t1 = t1
  t2 = t2
  ref = ref
  s1 = s1
  track = track
  lost = lost
  c1 = c1
  q1 = q1
  Nil = Nil
  Trucks = {t1, t2}
  Shipments = {s1}
  TruckOf <- MCTruckOf
  ShipmentOf <- MCShipmentOf
  Carrier <- MCCarrier
  OnRoad = {t1}
  Reported = {t2}
  Sockets = {c1}
  Reqs = {q1}
  Booted = TRUE
  Commands = {}
  Pages <- MCTruckPage
  MaxStory <- MCStories
  Patient = TRUE
  MaxWire = 1
  MayFail = FALSE
INVARIANTS
  LeftIsLeft
