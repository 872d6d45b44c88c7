------------------------------ MODULE ServerMC ------------------------------
(***************************************************************************)
(* A process with one truck, on its way or delayed by rain, and two        *)
(* connections for TLC.                                                    *)
(***************************************************************************)
EXTENDS Server, TLC

CONSTANTS t1, c1, c2, rain

OnItsWay == [status |-> "IN_TRANSIT", delay |-> "NORMAL", progress |-> 0, ship |-> "IN_TRANSIT"]
InRain   == [status |-> "DELAYED", delay |-> rain, progress |-> 0, ship |-> "DELAYED"]

MCWorld   == (t1 :> OnItsWay)
MCDelayed == (t1 :> InRain)

ClientSymmetry == Permutations(Clients)
=============================================================================
