------------------------------ MODULE EngineMC ------------------------------
(***************************************************************************)
(* A small fleet for TLC, as seed-world.ts writes it: a truck on its way,  *)
(* one delayed by rain.                                                    *)
(***************************************************************************)
EXTENDS WmsFeed, TLC

CONSTANTS t1, t2, r1, r2, rain

OnItsWay == [status |-> "IN_TRANSIT", delay |-> "NORMAL", progress |-> 0, ship |-> "IN_TRANSIT"]
InRain   == [status |-> "DELAYED", delay |-> rain, progress |-> 1, ship |-> "DELAYED"]

MCWorld == (t1 :> OnItsWay)
MCPair  == (t1 :> OnItsWay) @@ (t2 :> InRain)

ReqSymmetry == Permutations(Reqs)
=============================================================================
