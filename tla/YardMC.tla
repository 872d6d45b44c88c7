------------------------------- MODULE YardMC -------------------------------
(***************************************************************************)
(* A small yard for TLC.  The seed mirrors seed-world.ts: a door out of    *)
(* service whose truck was reassigned (D7, DA-3005), the door it went to   *)
(* (D8, DA-3006), and a free door.                                         *)
(***************************************************************************)
EXTENDS Yard, TLC

CONSTANTS d1, d2, d3, t1, t2, broken

S1 == [start |-> 1, end |-> 3]
S2 == [start |-> 2, end |-> 4]
S3 == [start |-> 3, end |-> 5]

MCSlots == {S1, S2, S3}
(* t2 can follow t1's first slot on a door, and overlaps its second. *)
MCSlotsOf == (t1 :> {S1, S2}) @@ (t2 :> {S3})
MCSoleSlot == (t1 :> {S1})
MCSupports == (t1 :> Docks) @@ (t2 :> Docks \ {d3})
MCSoleSupports == (t1 :> Docks)

Free == [status |-> "AVAILABLE", reason |-> Nil, availableFrom |-> NoTime]

MCSeedDoors == (d1 :> [status |-> "UNAVAILABLE", reason |-> broken, availableFrom |-> NoTime])
            @@ (d2 :> [status |-> "RESERVED", reason |-> Nil, availableFrom |-> 3])
            @@ (d3 :> Free)

MCSeedRows ==
  << [truck |-> t1, dock |-> d1, slot |-> S1, status |-> "REASSIGNED", prev |-> NoRow],
     [truck |-> t1, dock |-> d2, slot |-> S1, status |-> "ASSIGNED", prev |-> 1] >>

(* Two doors and one booking, for runs with handlers in flight together.   *)
MCPairDoors == (d1 :> [status |-> "RESERVED", reason |-> Nil, availableFrom |-> 3])
            @@ (d2 :> Free)

MCPairRows ==
  << [truck |-> t1, dock |-> d1, slot |-> S1, status |-> "ASSIGNED", prev |-> NoRow] >>

ReqSymmetry == Permutations(Reqs)
=============================================================================
