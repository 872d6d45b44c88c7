------------------------------- MODULE Journey -------------------------------
(***************************************************************************)
(* One truck on its route against the clock: distance, speed and arrival   *)
(* time (truck-simulator.ts, route-engine.ts, eta-engine.ts,               *)
(* delay-scenarios.ts) under the loop's ticks, delay commands, location    *)
(* reports, stops, and restarts that find only the row                     *)
(* (simulation-manager.ts).                                                *)
(*                                                                         *)
(* Progress is counted in kilometres of the route's declared distance, an  *)
(* ETA in fractions 1/Beat of the clock's unit, so that both are exact:    *)
(* Beat is a multiple of every effective speed.  No write fails here, and  *)
(* nothing is between a change and its write: Engine has those.            *)
(***************************************************************************)
EXTENDS Integers

CONSTANTS distanceKm, arrivingKm, checkpointKm,
          Cruise,           \* the speed without a delay
          SlowedBy,         \* SlowedBy[s]: 1 / the multiplier of scenario s
          speedMultiplier,  \* SIMULATION_SPEED_MULTIPLIER
          Reports,          \* positions and speeds the WMS reports
          Beat,
          Horizon           \* bound: the clock stops here

VARIABLES clock,
          timer,    \* whether the loop runs
          loaded,   \* whether the truck is in the live map
          trip,     \* its live state
          row,      \* its row
          tickAt,   \* lastTickAt
          since     \* what the properties compare with; no code reads it

journey == <<clock, timer, loaded, trip, row, tickAt, since>>

NoEta == 0 - 1
Delays == DOMAIN SlowedBy
Moving(t) == t.status \in {"IN_TRANSIT", "DELAYED", "ARRIVING"}

ASSUME JourneyAssumption ==
  /\ distanceKm \in Nat \ {0} /\ arrivingKm \in 1 .. distanceKm
  /\ "NORMAL" \in Delays /\ SlowedBy["NORMAL"] = 1
  /\ \A s \in Delays : SlowedBy[s] \in Nat \ {0} /\ Cruise % SlowedBy[s] = 0
  /\ Cruise \in Nat /\ speedMultiplier \in Nat \ {0} /\ Beat \in Nat \ {0}
  /\ Reports \subseteq [km : 0 .. distanceKm, speed : Nat]
  /\ Horizon \in Nat

-----------------------------------------------------------------------------
(* Distance and time *)

effectiveSpeed(base, s) == base \div SlowedBy[s]

(* Mutant: the row's speed is taken for the truck's own.                   *)
baseSpeedUndivided(speed, s) == speed

(* A row keeps the effective speed and the scenario it comes from. *)
baseSpeed(speed, s) == speed * SlowedBy[s]

(* Mutant: progress is not clamped.                                        *)
clampProgressBelow(km) == IF km < 0 THEN 0 ELSE km

clampProgress(km) == IF km > distanceKm THEN distanceKm ELSE IF km < 0 THEN 0 ELSE km

(* The base speeds a truck can have: its own, none, or a reported speed as  *)
(* a restart under some scenario reads it back.                            *)
BaseSpeeds == {0, Cruise} \cup {baseSpeed(r.speed, s) : r \in Reports, s \in Delays}

(* What makes the fractions exact. *)
ASSUME ExactAssumption ==
  \A b \in BaseSpeeds, s \in Delays :
    LET speed == effectiveSpeed(b, s)
    IN  /\ b % SlowedBy[s] = 0
        /\ speed > 0 => Beat % (speed * speedMultiplier) = 0

remainingKm(km) == distanceKm - clampProgress(km)

distanceTravelledKm(speed, elapsed) ==
  IF speed <= 0 \/ elapsed <= 0 THEN 0 ELSE speed * elapsed * speedMultiplier

(* Mutant: real time, though the trip is sped up.                          *)
calculateEtaUnscaled(km, speed, now) ==
  IF speed <= 0 THEN NoEta ELSE now * Beat + (remainingKm(km) * Beat) \div speed

(* Never a countdown: what is left to drive at the speed it is driven.     *)
calculateEta(km, speed, now) ==
  IF speed <= 0 THEN NoEta
  ELSE now * Beat + (remainingKm(km) * Beat) \div (speed * speedMultiplier)

-----------------------------------------------------------------------------

Trip == [km : 0 .. distanceKm, speed : Nat, base : Nat, delay : Delays,
         status : {"IN_TRANSIT", "DELAYED", "ARRIVING", "ARRIVED"},
         eta : Int,
         told : Nat]       \* not in the code: when the ETA was worked out

Departed == [km |-> 0, speed |-> Cruise, base |-> Cruise, delay |-> "NORMAL",
             status |-> "IN_TRANSIT", eta |-> calculateEta(0, Cruise, 0), told |-> 0]

(* Kilometre and running time since the position was last given, the top   *)
(* speed since, and whether a speed was ever reported.                     *)
Given(km, speed, reported) ==
  [km |-> km, ran |-> 0, top |-> speed, reported |-> reported]

Departs == /\ clock = 0 /\ tickAt = 0
           /\ timer = FALSE /\ loaded = FALSE
           /\ trip = Departed /\ row = Departed
           /\ since = Given(0, Cruise, FALSE)

Faster(speed) == IF speed > since.top THEN speed ELSE since.top

Wait ==
  /\ clock < Horizon
  /\ clock' = clock + 1
  /\ since' = IF timer THEN [since EXCEPT !.ran = @ + 1] ELSE since
  /\ UNCHANGED <<timer, loaded, trip, row, tickAt>>

(* advanceTruck: nothing is reported of a truck that covers no ground.     *)
Advanced(t, elapsed) ==
  LET km      == clampProgress(t.km + distanceTravelledKm(t.speed, elapsed))
      arrived == km >= distanceKm
  IN  IF ~Moving(t) \/ distanceTravelledKm(t.speed, elapsed) <= 0 THEN t
      ELSE [t EXCEPT
              !.km     = km,
              !.speed  = IF arrived THEN 0 ELSE @,
              !.eta    = IF arrived THEN clock * Beat ELSE calculateEta(km, t.speed, clock),
              !.told   = clock,
              !.status = IF arrived THEN "ARRIVED"
                         ELSE IF km >= arrivingKm /\ t.delay = "NORMAL" THEN "ARRIVING"
                         ELSE @,
              !.delay  = IF arrived THEN "NORMAL" ELSE @]

(* Written on a change of status and at every checkpoint.                  *)
Checkpoint(t) == trip.status # t.status \/ t.km - row.km >= checkpointKm

(* Elapsed time, not a count of ticks: one that was skipped is made up for. *)
Tick ==
  /\ timer /\ loaded
  /\ tickAt' = clock
  /\ trip' = Advanced(trip, clock - tickAt)
  /\ row' = IF Checkpoint(trip') THEN trip' ELSE row
  /\ UNCHANGED <<clock, timer, loaded, since>>

(* changeDelay: refused unless the loop runs and the truck is on the road. *)
Delay(s) ==
  /\ timer /\ loaded /\ Moving(trip) /\ trip.delay # s
  /\ LET speed == effectiveSpeed(trip.base, s)
     IN  /\ trip' = [trip EXCEPT
              !.speed  = speed,
              !.eta    = calculateEta(trip.km, speed, clock),
              !.told   = clock,
              !.delay  = s,
              !.status = IF s # "NORMAL" THEN "DELAYED"
                         ELSE IF trip.km >= arrivingKm THEN "ARRIVING" ELSE "IN_TRANSIT"]
         /\ since' = [since EXCEPT !.top = Faster(speed)]
  /\ row' = trip'
  /\ UNCHANGED <<clock, timer, loaded, tickAt>>

(* applyExternalUpdate with a position and a speed.  The truck's own clock *)
(* is rebased: what it drove before the report is in the report.           *)
Report(r) ==
  /\ loaded
  /\ LET given == r.speed > 0 /\ Moving(trip)
     IN  trip' = [trip EXCEPT !.km    = r.km,
                              !.speed = r.speed,
                              !.eta   = IF given THEN calculateEta(r.km, r.speed, clock) ELSE @,
                              !.told  = IF given THEN clock ELSE @]
  /\ row' = trip'
  /\ tickAt' = clock
  /\ since' = Given(r.km, r.speed, TRUE)
  /\ UNCHANGED <<clock, timer, loaded>>

(* stop() flushes. *)
Stop ==
  /\ timer
  /\ timer' = FALSE
  /\ row' = IF loaded THEN trip ELSE row
  /\ UNCHANGED <<clock, loaded, trip, tickAt, since>>

(* toLiveState, if the row is still that of a truck on the road.           *)
Load ==
  /\ loaded' = Moving(row)
  /\ trip' = [row EXCEPT !.base = baseSpeed(row.speed, row.delay)]
  /\ since' = Given(row.km, row.speed, since.reported)

(* Mutant: the tick clock is not rebased.                                  *)
StartUnrebased ==
  /\ ~timer
  /\ timer' = TRUE
  /\ IF loaded THEN UNCHANGED <<loaded, trip, since, tickAt>> ELSE Load /\ tickAt' = clock
  /\ UNCHANGED <<clock, row>>

(* start() loads the live map if it is empty, and rebases the tick clock.  *)
Start ==
  /\ ~timer
  /\ timer' = TRUE
  /\ IF loaded THEN UNCHANGED <<loaded, trip, since>> ELSE Load
  /\ tickAt' = clock
  /\ UNCHANGED <<clock, row>>

(* The process ends; another finds the row.                                *)
Restart ==
  /\ loaded
  /\ timer' = FALSE /\ loaded' = FALSE
  /\ trip' = row
  /\ UNCHANGED <<clock, row, tickAt, since>>

Drives == \/ Wait \/ Tick \/ Stop \/ Start \/ Restart
          \/ \E s \in Delays : Delay(s)
          \/ \E r \in Reports : Report(r)

JourneySpec == Departs /\ [][Drives]_journey

-----------------------------------------------------------------------------
(* Properties *)

JourneyTypeOK ==
  /\ clock \in 0 .. Horizon /\ tickAt \in 0 .. clock
  /\ timer \in BOOLEAN /\ loaded \in BOOLEAN
  /\ trip \in Trip /\ row \in Trip
  /\ trip.status = "ARRIVED" => trip.delay = "NORMAL"

(* "A countdown against it stays honest": however ticks are spaced or      *)
(* skipped, the ETA a truck was given is the ETA it drives by.  A tick     *)
(* moves it only by the time between working it out and the last billing   *)
(* (time that was stopped, or counted twice by a command between two       *)
(* ticks), and the truck has arrived at the first tick after it, not one   *)
(* before.                                                                 *)
EtaIsKept ==
  [][LET due == trip.eta + Beat * (tickAt - trip.told)
     IN  Tick /\ trip'.km > trip.km =>
           /\ trip'.status # "ARRIVED" => trip'.eta = due
           /\ trip'.status = "ARRIVED" <=> due <= Beat * clock]_journey

(* "Without this the first tick after a stop/start would bill the truck    *)
(* for the whole paused interval and teleport it down the route", and a    *)
(* report is not undone by a tick: a truck is never further than its top   *)
(* speed takes it in the time the loop has run since it was last placed.   *)
NeverTeleports ==
  loaded => trip.km <= since.km + since.top * speedMultiplier * since.ran

(* "Dividing recovers the base": through any order of delays, clears and   *)
(* restarts, a truck whose speed nobody has reported goes at its cruising  *)
(* speed slowed by its scenario, and at its cruising speed once that is    *)
(* cleared.                                                                *)
DelaysLeaveNoTrace ==
  loaded /\ Moving(trip) /\ ~since.reported =>
    /\ trip.base = Cruise
    /\ trip.speed * SlowedBy[trip.delay] = Cruise
=============================================================================
