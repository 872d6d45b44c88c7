----------------------------- MODULE SeedWorld ------------------------------
(***************************************************************************)
(* The demo world that seed-world.ts writes, and that a rewind restores:   *)
(* eight doors, twelve trucks with a shipment and an appointment each, and *)
(* six dock assignments.  Times are minutes from the seed's base, shifted  *)
(* so that the earliest of them is a natural number other than 0, which    *)
(* stands for an absent time.                                              *)
(***************************************************************************)
EXTENDS Integers, Sequences, TLC

CONSTANT Nil       \* "nothing": no reason

NoTime == 0

minutes(n) == 201 + n

-----------------------------------------------------------------------------
(* The seed's tables *)

Door(status, loads, free, reason) ==
  [status |-> status, loads |-> loads, availableFrom |-> free, reason |-> reason]

docks ==
     "D1" :> Door("OCCUPIED", {"GENERAL"}, minutes(15), Nil)
  @@ "D2" :> Door("RESERVED", {"REFRIGERATED", "GENERAL"}, NoTime, Nil)
  @@ "D3" :> Door("AVAILABLE", {"GENERAL"}, NoTime, Nil)
  @@ "D4" :> Door("AVAILABLE", {"REFRIGERATED", "GENERAL"}, NoTime, Nil)
  @@ "D5" :> Door("AVAILABLE", {"HAZARDOUS", "GENERAL"}, NoTime, Nil)
  @@ "D6" :> Door("OCCUPIED", {"OVERSIZED", "GENERAL"}, minutes(90), Nil)
  @@ "D7" :> Door("UNAVAILABLE", {"GENERAL", "REFRIGERATED"}, NoTime, "leveler")
  @@ "D8" :> Door("RESERVED", {"GENERAL"}, NoTime, Nil)

OnRoute(status, delay, progress, eta) ==
  [status |-> status, delay |-> delay, progress |-> progress, eta |-> eta]

trucks ==
     "TRK-101" :> OnRoute("IN_TRANSIT", "NORMAL", 62, minutes(55))
  @@ "TRK-102" :> OnRoute("IN_TRANSIT", "NORMAL", 41, minutes(240))
  @@ "TRK-103" :> OnRoute("DELAYED", "RAIN", 28, minutes(690))
  @@ "TRK-104" :> OnRoute("ARRIVING", "NORMAL", 94, minutes(18))
  @@ "TRK-105" :> OnRoute("IN_TRANSIT", "NORMAL", 55, minutes(165))
  @@ "TRK-106" :> OnRoute("DELAYED", "TRAFFIC", 66, minutes(300))
  @@ "TRK-107" :> OnRoute("ARRIVING", "NORMAL", 96, minutes(12))
  @@ "TRK-108" :> OnRoute("IN_TRANSIT", "NORMAL", 18, minutes(585))
  @@ "TRK-109" :> OnRoute("ARRIVED", "NORMAL", 100, minutes(-10))
  @@ "TRK-110" :> OnRoute("DOCKED", "NORMAL", 100, minutes(-45))
  @@ "TRK-111" :> OnRoute("COMPLETED", "NORMAL", 100, minutes(-190))
  @@ "TRK-112" :> OnRoute("IN_TRANSIT", "NORMAL", 73, minutes(95))

(* A truck's shipment, with its appointment. *)
Shipment(status, priority, load, start, end, duration) ==
  [status |-> status, priority |-> priority, load |-> load,
   appointment |-> [start |-> start, end |-> end, minutes |-> duration]]

shipments ==
     "TRK-101" :> Shipment("IN_TRANSIT", "HIGH", "REFRIGERATED", minutes(45), minutes(105), 60)
  @@ "TRK-102" :> Shipment("IN_TRANSIT", "MEDIUM", "GENERAL", minutes(240), minutes(300), 45)
  @@ "TRK-103" :> Shipment("DELAYED", "CRITICAL", "REFRIGERATED", minutes(660), minutes(720), 60)
  @@ "TRK-104" :> Shipment("ARRIVING", "HIGH", "HAZARDOUS", minutes(15), minutes(75), 90)
  @@ "TRK-105" :> Shipment("IN_TRANSIT", "LOW", "GENERAL", minutes(165), minutes(240), 30)
  @@ "TRK-106" :> Shipment("DELAYED", "MEDIUM", "OVERSIZED", minutes(300), minutes(420), 90)
  @@ "TRK-107" :> Shipment("ARRIVING", "HIGH", "GENERAL", minutes(10), minutes(70), 45)
  @@ "TRK-108" :> Shipment("IN_TRANSIT", "MEDIUM", "REFRIGERATED", minutes(585), minutes(660), 60)
  @@ "TRK-109" :> Shipment("ARRIVED", "CRITICAL", "OVERSIZED", minutes(-30), minutes(30), 90)
  @@ "TRK-110" :> Shipment("DOCKED", "MEDIUM", "GENERAL", minutes(-30), minutes(15), 45)
  @@ "TRK-111" :> Shipment("DELIVERED", "LOW", "GENERAL", minutes(-180), minutes(-120), 30)
  @@ "TRK-112" :> Shipment("IN_TRANSIT", "LOW", "HAZARDOUS", minutes(95), minutes(180), 90)

Assignment(id, truck, dock, status, start, end, prev) ==
  [id |-> id, truck |-> truck, dock |-> dock, status |-> status,
   slot |-> [start |-> start, end |-> end], prev |-> prev]

assignments ==
  << Assignment("DA-3001", "TRK-110", "D1", "ASSIGNED", minutes(-30), minutes(15), Nil),
     Assignment("DA-3002", "TRK-101", "D2", "ASSIGNED", minutes(45), minutes(105), Nil),
     Assignment("DA-3003", "TRK-111", "D3", "COMPLETED", minutes(-180), minutes(-150), Nil),
     Assignment("DA-3004", "TRK-104", "D5", "RECOMMENDED", minutes(20), minutes(110), Nil),
     Assignment("DA-3005", "TRK-107", "D7", "REASSIGNED", minutes(10), minutes(55), Nil),
     Assignment("DA-3006", "TRK-107", "D8", "ASSIGNED", minutes(10), minutes(55), "DA-3005") >>

-----------------------------------------------------------------------------
(* What seedWorld writes of a part of them *)

(* Chained rows go last, so that the row they replace is there before them. *)
Written(as) ==
  LET Unchained(a) == a.prev = Nil
      Chained(a)   == a.prev # Nil
  IN  SelectSeq(as, Unchained) \o SelectSeq(as, Chained)

(* The rows of some trucks and doors; a link to another row is its place   *)
(* among them, 0 if there is none.                                         *)
RowsOf(ts, ds) ==
  LET Kept(a)  == a.truck \in ts /\ a.dock \in ds
      as       == Written(SelectSeq(assignments, Kept))
      Place(i) == IF as[i].prev = Nil THEN 0
                  ELSE CHOOSE j \in DOMAIN as : as[j].id = as[i].prev
  IN  [i \in DOMAIN as |-> [truck |-> as[i].truck, dock |-> as[i].dock, slot |-> as[i].slot,
                            status |-> as[i].status, prev |-> Place(i)]]

DoorsOf(ds) ==
  [d \in ds |-> [status |-> docks[d].status, reason |-> docks[d].reason,
                 availableFrom |-> docks[d].availableFrom]]
=============================================================================
