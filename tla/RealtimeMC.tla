----------------------------- MODULE RealtimeMC -----------------------------
(***************************************************************************)
(* A dashboard and its feed for TLC: a truck on the road with a shipment   *)
(* that is tracked by its number, and a truck in the yard that goes by its *)
(* id and its reference.                                                   *)
(***************************************************************************)
EXTENDS Realtime, TLC

CONSTANTS t1, t2, ref, s1, track, lost, c1, q1

MCTruckOf    == (t1 :> t1) @@ (t2 :> t2) @@ (ref :> t2)
MCShipmentOf == (s1 :> s1) @@ (track :> s1) @@ (lost :> Nil)
MCCarrier    == (s1 :> t1)
MCStories    == (t1 :> 2) @@ (t2 :> 1)

(* A dashboard that opens a truck, a truck's page by either name, and a    *)
(* customer's tracking page.                                               *)
MCPages == {{<<"operations", Nil>>, <<"truck", t2>>},
            {<<"truck", t1>>},
            {<<"truck", t2>>, <<"truck", ref>>},
            {<<"shipment", s1>>, <<"shipment", track>>, <<"shipment", lost>>}}

(* A truck's page alone. *)
MCTruckPage == {{<<"truck", t2>>, <<"truck", ref>>}}
=============================================================================
