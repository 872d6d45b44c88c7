------------------------------ MODULE Bookings ------------------------------
(***************************************************************************)
(* What the yard promises about dock bookings, with no database, no lock   *)
(* and no intermediate state: a truck holds at most one booking, a booking *)
(* is a door for a slot of time, and no two trucks hold the same door for  *)
(* overlapping slots.  Yard.tla is shown to implement this module.         *)
(***************************************************************************)
EXTENDS Naturals

CONSTANTS Docks,    \* dock doors
          Trucks,   \* trucks
          Slots     \* windows of time, records [start, end]

VARIABLE booking    \* booking[t]: the <<door, slot>> pairs truck t holds

Overlaps(a, b) == a.start < b.end /\ a.end > b.start

(* Truck t may be booked on door d for slot s: no other truck is in the way. *)
Takes(t, d, s) ==
  \A u \in Trucks \ {t} : \A b \in booking[u] : b[1] = d => ~Overlaps(b[2], s)

Init == /\ booking \in [Trucks -> SUBSET (Docks \X Slots)]
        /\ \A t \in Trucks : \A b, c \in booking[t] : b = c
        /\ \A t \in Trucks : \A b \in booking[t] : Takes(t, b[1], b[2])

(* Booking a truck replaces whatever it held. *)
Book(t, d, s) == /\ Takes(t, d, s)
                 /\ booking' = [booking EXCEPT ![t] = {<<d, s>>}]

(* The yard gives a truck's booking up: no door is left for it. *)
Drop(t) == booking' = [booking EXCEPT ![t] = {}]

(* A door is handed back: every booking on it is finished. *)
HandBack(d) ==
  booking' = [t \in Trucks |-> {b \in booking[t] : b[1] # d}]

Next == \/ \E t \in Trucks, d \in Docks, s \in Slots : Book(t, d, s)
        \/ \E t \in Trucks : Drop(t)
        \/ \E d \in Docks : HandBack(d)

Spec == Init /\ [][Next]_booking
=============================================================================
