--------------------------- MODULE CalculationsMC ---------------------------
(***************************************************************************)
(* The calculations for TLC.  Requests are those of the seeded trucks      *)
(* against the seeded yard, and against yards in which the two reefer      *)
(* doors are in every state that bookings, outages and the feed can leave  *)
(* them in around the slot of TRK-101 (minutes 55 to 115 of the seed).     *)
(* A trip shares nothing with a request, and begins once it is answered.   *)
(***************************************************************************)
EXTENDS Recommend, Journey

S == INSTANCE SeedWorld

MCCodes == <<"D2", "D3", "D4", "D6", "D7">>

SeedDoor(d) ==
  [status |-> S!docks[d].status, loads |-> S!docks[d].loads,
   availableFrom |-> S!docks[d].availableFrom,
   booked |-> {[truck |-> a.truck, slot |-> a.slot] :
                 a \in {x \in Range(S!assignments) : x.dock = d /\ x.status = "ASSIGNED"}}]

SeedYard == [d \in Range(MCCodes) |-> SeedDoor(d)]

Request(id, s) == [id |-> id, eta |-> S!trucks[id].eta, shipment |-> s]

(* TRK-101 as seeded, with a general load that is not urgent and takes less *)
(* than its window, and late for its window; TRK-106 with a refrigerated    *)
(* load; the oversized TRK-109; one with no shipment, there already.        *)
MCTruck ==
  {Request("TRK-101", S!shipments["TRK-101"]),
   Request("TRK-101", [S!shipments["TRK-101"] EXCEPT !.priority = "LOW", !.load = "GENERAL",
                                                      !.appointment.minutes = 30]),
   [Request("TRK-101", S!shipments["TRK-101"]) EXCEPT !.eta = S!minutes(110)],
   Request("TRK-106", [S!shipments["TRK-106"] EXCEPT !.load = "REFRIGERATED"]),
   Request("TRK-109", S!shipments["TRK-109"]),
   [id |-> "TRK-102", eta |-> NoTime, shipment |-> Nil]}

MCSlowedBy == [NORMAL |-> 1, RAIN |-> 2, ROAD_CLOSURE |-> 4]

(* A position further on with the speed it has in the rain, and one at     *)
(* which the truck stands still.                                           *)
MCReports == {[km |-> 16, speed |-> 4], [km |-> 8, speed |-> 0]}

MCInit == Init /\ Departs

MCNext == \/ Departs /\ Next /\ UNCHANGED journey
          \/ truck = Nil /\ Drives /\ UNCHANGED vars

MCSpec == MCInit /\ [][MCNext]_<<vars, journey>>

MCNow == S!minutes(60)

Booking(t, a, b) == [truck |-> t, slot |-> [start |-> S!minutes(a), end |-> S!minutes(b)]]

Mine   == Booking("TRK-101", 45, 105)
Clash  == Booking("TRK-108", 114, 174)
Behind == Booking("TRK-108", 115, 175)

DoorStates(d) ==
  {[SeedDoor(d) EXCEPT !.status = st, !.availableFrom = free, !.booked = bs] :
     st \in {"AVAILABLE", "RESERVED", "OCCUPIED", "UNAVAILABLE"},
     free \in {NoTime, S!minutes(70), S!minutes(114), S!minutes(115)},
     bs \in {{}, {Mine}, {Clash}, {Behind}, {Mine, Behind}}}

(* Two doors that free up late for TRK-106 (due at minute 300), D2 later    *)
(* than D4 and with the better status.  Freed at 311 and 306, with D4       *)
(* RESERVED, urgency makes them equal once rounded; at 318 and 307, with   *)
(* D4 OCCUPIED, it decides between them.                                   *)
CloseCall(m2, m4, st) ==
  [SeedYard EXCEPT !["D2"].status = "AVAILABLE", !["D2"].availableFrom = S!minutes(m2),
                   !["D4"].status = st, !["D4"].availableFrom = S!minutes(m4)]

MCYards ==
  {SeedYard, [SeedYard EXCEPT !["D2"].status = "UNAVAILABLE"],
   CloseCall(311, 306, "RESERVED"), CloseCall(318, 307, "OCCUPIED")}
    \cup {[SeedYard EXCEPT !["D2"] = x, !["D4"] = y] :
            x \in {z \in DoorStates("D2") : z.booked \in {{}, {Behind}, {Mine}}},
            y \in DoorStates("D4")}
=============================================================================
