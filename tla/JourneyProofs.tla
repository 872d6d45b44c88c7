---------------------------- MODULE JourneyProofs ----------------------------
(***************************************************************************)
(* Theorems about a trip, for any route, any scenarios and reports, any    *)
(* speed multiplier and any length of time.                                *)
(***************************************************************************)
EXTENDS Journey, TLAPS

-----------------------------------------------------------------------------
(* The inductive invariant *)

Since == [km : Nat, ran : Nat, top : Nat, reported : BOOLEAN]

(* A restart makes the row the truck's state. *)
TypeInv == /\ JourneyTypeOK
           /\ since \in Since
           /\ row.status = "ARRIVED" => row.delay = "NORMAL"

(* The speed of a truck on the road is its cruising speed, slowed by its   *)
(* scenario; of the row it also holds, as a restart reads it back.         *)
Honest(t) == Moving(t) => t.base = Cruise /\ t.speed * SlowedBy[t.delay] = Cruise

TraceInv == ~since.reported => Honest(trip) /\ Honest(row)

(* The running time that has been billed: all of it, but for the time      *)
(* since the last tick while the loop runs.                                *)
Owed   == IF timer THEN clock - tickAt ELSE 0
Billed == since.ran - Owed

PlaceInv == loaded => /\ trip.speed <= since.top
                      /\ Billed >= 0
                      /\ trip.km <= since.km + since.top * speedMultiplier * Billed

-----------------------------------------------------------------------------
(* Arithmetic *)

(* A product of naturals is one, and grows with each factor. *)
LEMMA Product == ASSUME NEW a \in Nat, NEW b \in Nat PROVE a * b \in Nat
OBVIOUS

LEMMA Grows ==
  ASSUME NEW a \in Nat, NEW b \in Nat, NEW c \in Nat, a <= b
  PROVE  a * c <= b * c
OBVIOUS

LEMMA Distributes ==
  ASSUME NEW a \in Int, NEW b \in Int, NEW c \in Int
  PROVE  a * (b + c) = a * b + a * c
OBVIOUS

(* What divides a speed can be multiplied back. *)
LEMMA DividesBack ==
  ASSUME NEW a \in Nat, NEW b \in Nat \ {0}, a % b = 0
  PROVE  (a \div b) * b = a /\ a \div b \in Nat
OBVIOUS

(* A share of a natural is an integer. *)
LEMMA Quotient == ASSUME NEW a \in Nat, NEW b \in Nat \ {0} PROVE a \div b \in Nat
OBVIOUS

-----------------------------------------------------------------------------
(* The operators *)

LEMMA Clamps ==
  ASSUME NEW km \in Int
  PROVE  clampProgress(km) \in 0 .. distanceKm /\ (km >= 0 => clampProgress(km) <= km)
BY JourneyAssumption DEF clampProgress

LEMMA EtaIsInt ==
  ASSUME NEW km \in Int, NEW speed \in Nat, NEW now \in Nat
  PROVE  calculateEta(km, speed, now) \in Int
<1> DEFINE left == remainingKm(km) * Beat
           rate == speed * speedMultiplier
<1>1. remainingKm(km) \in Nat
  BY Clamps, JourneyAssumption DEF remainingKm
<1>2. left \in Nat /\ now * Beat \in Nat
  BY <1>1, Product, JourneyAssumption
<1>3. CASE speed <= 0
  BY <1>3 DEF calculateEta, NoEta
<1>4. CASE speed > 0
  <2>1. rate \in Nat \ {0}
    BY <1>4, JourneyAssumption
  <2>2. left \div rate \in Nat
    BY <2>1, <1>2, Quotient
  <2>3. calculateEta(km, speed, now) = now * Beat + left \div rate
    BY <1>4 DEF calculateEta
  <2> QED BY <2>2, <2>3, <1>2
<1> QED BY <1>3, <1>4

LEMMA TravelledIsNat ==
  ASSUME NEW speed \in Nat, NEW elapsed \in Nat
  PROVE  distanceTravelledKm(speed, elapsed) \in Nat
         /\ distanceTravelledKm(speed, elapsed) <= speed * elapsed * speedMultiplier
<1>1. speed * elapsed * speedMultiplier \in Nat
  BY Product, JourneyAssumption
<1> QED BY <1>1 DEF distanceTravelledKm

LEMMA AdvancedIsTrip ==
  ASSUME NEW t \in Trip, NEW elapsed \in Nat, clock \in Nat,
         t.status = "ARRIVED" => t.delay = "NORMAL"
  PROVE  /\ Advanced(t, elapsed) \in Trip
         /\ Advanced(t, elapsed).status = "ARRIVED" => Advanced(t, elapsed).delay = "NORMAL"
<1> DEFINE km == clampProgress(t.km + distanceTravelledKm(t.speed, elapsed))
<1>0. t.km + distanceTravelledKm(t.speed, elapsed) \in Int
  <2>1. t.km \in Nat /\ t.speed \in Nat
    BY JourneyAssumption DEF Trip
  <2>2. distanceTravelledKm(t.speed, elapsed) \in Nat
    BY <2>1, TravelledIsNat, Zenon
  <2> QED BY <2>1, <2>2
<1>1. km \in 0 .. distanceKm
  BY <1>0, Clamps
<1>2. calculateEta(km, t.speed, clock) \in Int
  BY <1>1, EtaIsInt DEF Trip
<1>3. clock * Beat \in Int /\ "NORMAL" \in Delays
  BY Product, JourneyAssumption
<1> HIDE DEF km
<1> QED BY <1>1, <1>2, <1>3 DEF Advanced, Trip, Moving, km

LEMMA AdvancedIsHonest ==
  ASSUME NEW t \in Trip, NEW elapsed, Honest(t)
  PROVE  Honest(Advanced(t, elapsed))
<1> DEFINE km == clampProgress(t.km + distanceTravelledKm(t.speed, elapsed))
<1>1. CASE km >= distanceKm
  BY <1>1 DEF Advanced, Honest, Moving, Trip
<1>2. CASE ~(km >= distanceKm)
  BY <1>2 DEF Advanced, Honest, Moving, Trip
<1> QED BY <1>1, <1>2

(* A tick bills the elapsed time at the truck's speed, and no more. *)
LEMMA AdvancedIsNear ==
  ASSUME NEW t \in Trip, NEW elapsed \in Nat
  PROVE  /\ Advanced(t, elapsed).km <= t.km + t.speed * elapsed * speedMultiplier
         /\ Advanced(t, elapsed).speed <= t.speed
<1> DEFINE far == distanceTravelledKm(t.speed, elapsed)
<1>1. far \in Nat /\ far <= t.speed * elapsed * speedMultiplier
  BY TravelledIsNat DEF Trip
<1>2. clampProgress(t.km + far) <= t.km + far /\ clampProgress(t.km + far) \in Nat
  BY <1>1, Clamps, JourneyAssumption DEF Trip
<1>3. t.speed * elapsed * speedMultiplier \in Nat
  BY Product, JourneyAssumption DEF Trip
<1> HIDE DEF far
<1> QED BY <1>1, <1>2, <1>3 DEF Advanced, Trip, far

LEMMA SlowedIsHonest ==
  ASSUME NEW s \in Delays
  PROVE  /\ effectiveSpeed(Cruise, s) \in Nat
         /\ effectiveSpeed(Cruise, s) * SlowedBy[s] = Cruise
BY DividesBack, JourneyAssumption DEF effectiveSpeed

-----------------------------------------------------------------------------
(* Types *)

LEMMA TypeInit == Departs => TypeInv
<1> SUFFICES ASSUME Departs PROVE TypeInv
  OBVIOUS
<1>1. calculateEta(0, Cruise, 0) \in Int
  BY EtaIsInt, JourneyAssumption
<1>2. Departed \in Trip
  BY <1>1, JourneyAssumption DEF Departed, Trip
<1>3. Departed.status = "IN_TRANSIT"
  BY DEF Departed
<1>4. trip = Departed /\ row = Departed /\ since \in Since
  BY JourneyAssumption DEF Departs, Since, Given
<1>5. clock \in 0 .. Horizon /\ tickAt \in 0 .. clock
  BY JourneyAssumption DEF Departs
<1>6. timer \in BOOLEAN /\ loaded \in BOOLEAN
  BY DEF Departs
<1> QED BY <1>6, <1>2, <1>3, <1>4, <1>5 DEF TypeInv, JourneyTypeOK

LEMMA TypeStep == TypeInv /\ [Drives]_journey => TypeInv'
<1> SUFFICES ASSUME TypeInv, [Drives]_journey PROVE TypeInv'
  OBVIOUS
<1> USE DEF TypeInv, JourneyTypeOK
<1>0. clock \in Nat /\ clock - tickAt \in Nat /\ Horizon \in Nat
  BY JourneyAssumption
<1>1. CASE Wait
  BY <1>0, <1>1 DEF Wait, Since
<1>2. CASE Tick
  <2>1. trip' \in Trip /\ (trip'.status = "ARRIVED" => trip'.delay = "NORMAL")
    BY <1>0, <1>2, AdvancedIsTrip DEF Tick
  <2> QED BY <1>0, <1>2, <2>1 DEF Tick
<1>3. CASE Stop
  BY <1>3 DEF Stop
<1>4. CASE Start
  <2>1. row.speed * SlowedBy[row.delay] \in Nat
    BY Product, JourneyAssumption DEF Trip
  <2>2. CASE loaded
    BY <1>0, <1>4, <2>2 DEF Start
  <2>3. CASE ~loaded
    <3>1. trip' \in Trip /\ since' \in Since /\ loaded' \in BOOLEAN
      BY <1>4, <2>1, <2>3 DEF Start, Load, Trip, baseSpeed, Given, Since, Moving
    <3>2. trip'.status = row.status /\ trip'.delay = row.delay
      BY <1>4, <2>3 DEF Start, Load, Trip
    <3> QED BY <1>0, <1>4, <3>1, <3>2 DEF Start
  <2> QED BY <2>2, <2>3
<1>5. CASE Restart
  BY <1>5 DEF Restart
<1>6. ASSUME NEW s \in Delays, Delay(s) PROVE TypeInv'
  <2>1. effectiveSpeed(trip.base, s) \in Nat
    BY Quotient, JourneyAssumption DEF effectiveSpeed, Trip
  <2>2. calculateEta(trip.km, effectiveSpeed(trip.base, s), clock) \in Int
    BY <1>0, <2>1, EtaIsInt, JourneyAssumption DEF Trip
  <2>3. trip' \in Trip /\ trip'.status # "ARRIVED"
    BY <1>0, <1>6, <2>1, <2>2 DEF Delay, Trip
  <2>4. since' \in Since
    BY <1>6, <2>1 DEF Delay, Since, Faster
  <2> QED BY <1>6, <2>3, <2>4 DEF Delay
<1>7. ASSUME NEW r \in Reports, Report(r) PROVE TypeInv'
  <2>1. r.km \in 0 .. distanceKm /\ r.speed \in Nat
    BY JourneyAssumption
  <2>2. calculateEta(r.km, r.speed, clock) \in Int
    BY <1>0, <2>1, EtaIsInt, JourneyAssumption
  <2>3. trip' \in Trip /\ trip'.status = trip.status /\ trip'.delay = trip.delay
    BY <1>0, <1>7, <2>1, <2>2 DEF Report, Trip
  <2>4. since' \in Since
    BY <1>7, <2>1, JourneyAssumption DEF Report, Since, Given
  <2>5. row' = trip' /\ tickAt' = clock /\ clock' = clock /\ timer' = timer /\ loaded' = loaded
    BY <1>7 DEF Report
  <2>6. tickAt' \in 0 .. clock'
    BY <1>0, <2>5
  <2> QED BY <2>3, <2>4, <2>5, <2>6
<1>8. CASE UNCHANGED journey
  BY <1>8 DEF journey
<1> QED BY <1>1, <1>2, <1>3, <1>4, <1>5, <1>6, <1>7, <1>8 DEF Drives

(* JourneyTypeOK: every variable keeps its type, and a truck that has      *)
(* arrived keeps no delay, whatever the route and the commands.            *)
THEOREM TripTypeCorrect == JourneySpec => []JourneyTypeOK
<1>1. TypeInv => JourneyTypeOK
  BY DEF TypeInv
<1> QED BY TypeInit, TypeStep, <1>1, PTL DEF JourneySpec

-----------------------------------------------------------------------------
(* Delays leave no trace *)

LEMMA TraceInit == Departs => TraceInv
BY JourneyAssumption DEF Departs, Departed, Given, TraceInv, Honest

LEMMA TraceStep == TypeInv /\ TraceInv /\ [Drives]_journey => TraceInv'
<1> SUFFICES ASSUME TypeInv, TraceInv, [Drives]_journey,
                    ~since'.reported
             PROVE  Honest(trip)' /\ Honest(row)'
  BY DEF TraceInv
<1> USE DEF TypeInv, JourneyTypeOK
<1>0. clock \in Nat /\ clock - tickAt \in Nat
  BY JourneyAssumption
<1>1. CASE Wait
  BY <1>1 DEF Wait, TraceInv, Honest, Moving, Since
<1>2. CASE Tick
  <2>1. Honest(trip) /\ Honest(row) /\ Honest(Advanced(trip, clock - tickAt))
    BY <1>2, AdvancedIsHonest DEF Tick, TraceInv
  <2> QED BY <1>2, <2>1 DEF Tick, Honest, Moving
<1>3. CASE Stop
  BY <1>3 DEF Stop, TraceInv, Honest, Moving
<1>4. CASE Start
  <2>1. CASE loaded
    BY <1>4, <2>1 DEF Start, TraceInv, Honest, Moving
  <2>2. CASE ~loaded
    <3>1. Honest(row) /\ row' = row
      BY <1>4, <2>2 DEF Start, Load, Given, TraceInv
    <3>2. /\ trip'.base = row.speed * SlowedBy[row.delay] /\ trip'.status = row.status
          /\ trip'.speed = row.speed /\ trip'.delay = row.delay
      BY <1>4, <2>2 DEF Start, Load, baseSpeed, Trip
    <3> QED BY <3>1, <3>2 DEF Honest, Moving
  <2> QED BY <2>1, <2>2
<1>5. CASE Restart
  BY <1>5 DEF Restart, TraceInv, Honest, Moving
<1>6. ASSUME NEW s \in Delays, Delay(s) PROVE Honest(trip)' /\ Honest(row)'
  <2>1. since'.reported = since.reported
    BY <1>6 DEF Delay, Since
  <2>2. trip.base = Cruise
    BY <1>6, <2>1 DEF Delay, TraceInv, Honest
  <2>3. /\ trip'.base = Cruise /\ trip'.delay = s
        /\ trip'.speed = effectiveSpeed(Cruise, s) /\ row' = trip'
    BY <1>6, <2>2 DEF Delay, Trip
  <2> QED BY <2>3, SlowedIsHonest DEF Honest
<1>7. ASSUME NEW r \in Reports, Report(r) PROVE Honest(trip)' /\ Honest(row)'
  BY <1>7 DEF Report, Given
<1>8. CASE UNCHANGED journey
  BY <1>8 DEF journey, TraceInv, Honest, Moving
<1> QED BY <1>1, <1>2, <1>3, <1>4, <1>5, <1>6, <1>7, <1>8 DEF Drives

(* DelaysLeaveNoTrace: clearing a delay gives a truck its cruising speed   *)
(* back, through any order of delays, clears, stops and restarts.          *)
THEOREM BaseSpeedSurvives == JourneySpec => []DelaysLeaveNoTrace
<1>1. TraceInv => DelaysLeaveNoTrace
  BY DEF TraceInv, Honest, DelaysLeaveNoTrace
<1> QED BY TypeInit, TypeStep, TraceInit, TraceStep, <1>1, PTL DEF JourneySpec

-----------------------------------------------------------------------------
(* No truck is teleported *)

(* What a tick adds fits in the time it bills. *)
LEMMA BillFits ==
  ASSUME NEW speed \in Nat, NEW top \in Nat, speed <= top,
         NEW e \in Nat, NEW before \in Nat
  PROVE  top * speedMultiplier * before + speed * e * speedMultiplier
           <= top * speedMultiplier * (before + e)
<1> DEFINE rate == top * speedMultiplier
<1>1. rate \in Nat /\ e * speedMultiplier \in Nat
  BY Product, JourneyAssumption
<1>2. speed * (e * speedMultiplier) <= top * (e * speedMultiplier)
  BY <1>1, Grows
<1>3. speed * e * speedMultiplier = speed * (e * speedMultiplier)
  BY JourneyAssumption
<1>4. top * (e * speedMultiplier) = rate * e
  BY JourneyAssumption
<1>5. rate * (before + e) = rate * before + rate * e
  BY <1>1, Distributes
<1>6. rate * before \in Nat /\ rate * e \in Nat /\ speed * e * speedMultiplier \in Nat
  BY <1>1, Product, JourneyAssumption
<1> QED BY <1>2, <1>3, <1>4, <1>5, <1>6

(* The reach of a truck grows with its top speed and with the time. *)
LEMMA ReachGrows ==
  ASSUME NEW top \in Nat, NEW top2 \in Nat, top <= top2,
         NEW ran \in Nat, NEW ran2 \in Nat, ran <= ran2
  PROVE  /\ top * speedMultiplier * ran \in Nat
         /\ top * speedMultiplier * ran <= top2 * speedMultiplier * ran2
<1>1. top * speedMultiplier \in Nat /\ top2 * speedMultiplier \in Nat
  BY Product, JourneyAssumption
<1>2. top * speedMultiplier <= top2 * speedMultiplier
  BY Grows, JourneyAssumption
<1>3. (top * speedMultiplier) * ran <= (top2 * speedMultiplier) * ran
  BY <1>1, <1>2, Grows
<1>4. (top2 * speedMultiplier) * ran <= (top2 * speedMultiplier) * ran2
  <2>1. ran * (top2 * speedMultiplier) <= ran2 * (top2 * speedMultiplier)
    BY <1>1, Grows
  <2> QED BY <1>1, <2>1
<1>5. (top * speedMultiplier) * ran \in Nat /\ (top2 * speedMultiplier) * ran \in Nat
      /\ (top2 * speedMultiplier) * ran2 \in Nat
  BY <1>1, Product
<1> QED BY <1>3, <1>4, <1>5

LEMMA PlaceStep == TypeInv /\ PlaceInv /\ [Drives]_journey => PlaceInv'
<1> SUFFICES ASSUME TypeInv, PlaceInv, [Drives]_journey, loaded' PROVE
             /\ (trip.speed <= since.top)'
             /\ (Billed >= 0)'
             /\ (trip.km <= since.km + since.top * speedMultiplier * Billed)'
  BY DEF PlaceInv
<1> DEFINE Goal == /\ (trip.speed <= since.top)'
                   /\ (Billed >= 0)'
                   /\ (trip.km <= since.km + since.top * speedMultiplier * Billed)'
<1>0. /\ clock \in Nat /\ tickAt \in Nat /\ clock - tickAt \in Nat
      /\ since.km \in Nat /\ since.ran \in Nat /\ since.top \in Nat
      /\ trip.km \in Nat /\ trip.speed \in Nat
      /\ row.km \in Nat /\ row.speed \in Nat
  BY JourneyAssumption DEF TypeInv, JourneyTypeOK, Since, Trip
<1>1. CASE Wait
  <2>1. loaded /\ trip' = trip /\ since'.km = since.km /\ since'.top = since.top
    BY <1>1 DEF Wait, TypeInv, Since
  <2>2. Billed' = Billed
    BY <1>0, <1>1 DEF Wait, Billed, Owed, TypeInv, Since
  <2> QED BY <2>1, <2>2 DEF PlaceInv
<1>2. CASE Tick
  <2> DEFINE e == clock - tickAt
  <2>1. /\ loaded /\ timer /\ since' = since /\ trip' = Advanced(trip, e)
        /\ tickAt' = clock /\ clock' = clock /\ timer' = timer
    BY <1>2 DEF Tick
  <2>2. Billed = since.ran - e /\ Billed' = since.ran /\ Billed \in Nat
    BY <1>0, <2>1 DEF Billed, Owed, PlaceInv
  <2>3. trip'.speed <= trip.speed /\ trip'.km <= trip.km + trip.speed * e * speedMultiplier
    BY <1>0, <2>1, AdvancedIsNear DEF TypeInv, JourneyTypeOK
  <2>4. trip'.speed \in Nat /\ trip'.km \in Nat
    <3>1. Advanced(trip, e) \in Trip
      BY <1>0, AdvancedIsTrip DEF TypeInv, JourneyTypeOK
    <3> QED BY <2>1, <3>1, JourneyAssumption DEF Trip
  <2>5. trip.speed <= since.top
        /\ trip.km <= since.km + since.top * speedMultiplier * Billed
    BY <2>1 DEF PlaceInv
  <2>6. since.top * speedMultiplier * Billed + trip.speed * e * speedMultiplier
          <= since.top * speedMultiplier * (Billed + e)
    BY <1>0, <2>2, <2>5, BillFits
  <2>7. Billed + e = since.ran
    BY <1>0, <2>2
  <2>8. /\ since.top * speedMultiplier * Billed \in Nat
        /\ since.top * speedMultiplier * since.ran \in Nat
        /\ trip.speed * e * speedMultiplier \in Nat
    BY <1>0, <2>2, Product, JourneyAssumption
  <2>9. trip'.km <= since.km + since.top * speedMultiplier * since.ran
    BY <1>0, <2>3, <2>4, <2>5, <2>6, <2>7, <2>8
  <2> QED BY <1>0, <2>1, <2>2, <2>3, <2>4, <2>5, <2>9
<1>3. CASE Stop
  <2>1. loaded /\ timer /\ trip' = trip /\ since' = since
    BY <1>3 DEF Stop
  <2>2. Billed \in Nat /\ Billed <= since.ran /\ Billed' = since.ran
    BY <1>0, <1>3, <2>1 DEF Stop, Billed, Owed, PlaceInv
  <2>3. /\ since.top * speedMultiplier * Billed \in Nat
        /\ since.top * speedMultiplier * Billed <= since.top * speedMultiplier * since.ran
    <3>1. since.top \in Nat /\ since.ran \in Nat /\ since.top <= since.top
      BY <1>0
    <3> QED BY <2>2, <3>1, ReachGrows
  <2>4. since.top * speedMultiplier * since.ran \in Nat
    BY <1>0, Product, JourneyAssumption
  <2> QED BY <1>0, <2>1, <2>2, <2>3, <2>4 DEF PlaceInv
<1>4. CASE Start
  <2>1. Billed' = since'.ran /\ ~timer
    <3>1. Owed' = 0 /\ ~timer
      BY <1>0, <1>4 DEF Start, Owed
    <3>2. since'.ran \in Nat
      <4>1. since' = since \/ since' = Given(row.km, row.speed, since.reported)
        BY <1>4 DEF Start, Load
      <4> QED BY <1>0, <4>1 DEF Given
    <3> QED BY <3>1, <3>2 DEF Billed
  <2>2. CASE loaded
    <3>1. trip' = trip /\ since' = since
      BY <1>4, <2>2 DEF Start
    <3>2. Billed = since.ran
      BY <1>0, <2>1 DEF Billed, Owed
    <3> QED BY <2>1, <2>2, <3>1, <3>2 DEF PlaceInv
  <2>3. CASE ~loaded
    <3>1. since'.top = row.speed /\ since'.km = row.km /\ since'.ran = 0
      BY <1>4, <2>3 DEF Start, Load, Given
    <3>2. trip'.km = row.km /\ trip'.speed = row.speed
      BY <1>4, <2>3 DEF Start, Load, Trip, TypeInv, JourneyTypeOK
    <3>3. row.speed * speedMultiplier * 0 = 0
      BY <1>0, JourneyAssumption
    <3> QED BY <1>0, <2>1, <3>1, <3>2, <3>3
  <2> QED BY <2>2, <2>3
<1>5. CASE Restart
  BY <1>5 DEF Restart
<1>6. ASSUME NEW s \in Delays, Delay(s) PROVE Goal
  <2> DEFINE speed == effectiveSpeed(trip.base, s)
  <2>1. speed \in Nat
    BY Quotient, JourneyAssumption DEF effectiveSpeed, Trip, TypeInv, JourneyTypeOK
  <2>2. /\ loaded /\ trip'.speed = speed /\ trip'.km = trip.km
        /\ since'.km = since.km /\ since'.ran = since.ran /\ since'.top = Faster(speed)
    BY <1>6 DEF Delay, Trip, Since, TypeInv, JourneyTypeOK
  <2>3. Faster(speed) \in Nat /\ speed <= Faster(speed) /\ since.top <= Faster(speed)
    BY <1>0, <2>1 DEF Faster
  <2>4. Billed' = Billed /\ Billed \in Nat
    BY <1>0, <1>6, <2>2 DEF Delay, Billed, Owed, PlaceInv
  <2>5. /\ since.top * speedMultiplier * Billed \in Nat
        /\ since.top * speedMultiplier * Billed <= Faster(speed) * speedMultiplier * Billed
    <3>1. since.top \in Nat /\ Billed <= Billed
      BY <1>0, <2>4
    <3> HIDE DEF speed
    <3> QED BY <2>3, <2>4, <3>1, ReachGrows
  <2>6. Faster(speed) * speedMultiplier * Billed \in Nat
    BY <2>3, <2>4, Product, JourneyAssumption
  <2>7. trip.km <= since.km + since.top * speedMultiplier * Billed
    BY <2>2 DEF PlaceInv
  <2> HIDE DEF speed
  <2>8. trip.km <= since.km + Faster(speed) * speedMultiplier * Billed
    BY <1>0, <2>5, <2>6, <2>7
  <2> QED BY <2>2, <2>3, <2>4, <2>8
<1>7. ASSUME NEW r \in Reports, Report(r) PROVE Goal
  <2>1. r.km \in Nat /\ r.speed \in Nat
    BY JourneyAssumption
  <2>2. /\ since'.top = r.speed /\ since'.km = r.km /\ since'.ran = 0
        /\ tickAt' = clock /\ clock' = clock
    BY <1>7 DEF Report, Given
  <2>3. trip'.km = r.km /\ trip'.speed = r.speed
    BY <1>7 DEF Report, Trip, TypeInv, JourneyTypeOK
  <2>4. Billed' = 0
    <3>1. Owed' = 0
      BY <1>0, <2>2 DEF Owed
    <3> QED BY <2>2, <3>1 DEF Billed
  <2>5. r.speed * speedMultiplier * 0 = 0
    BY <2>1, JourneyAssumption
  <2> QED BY <2>1, <2>2, <2>3, <2>4, <2>5
<1>8. CASE UNCHANGED journey
  BY <1>8 DEF journey, PlaceInv, Billed, Owed
<1> QED BY <1>1, <1>2, <1>3, <1>4, <1>5, <1>6, <1>7, <1>8 DEF Drives

(* NeverTeleports: a truck is never further than its top speed takes it in *)
(* the time the loop has run, whatever is stopped, skipped or reported.    *)
THEOREM NobodyTeleports == JourneySpec => []NeverTeleports
<1>1. Departs => PlaceInv
  BY DEF Departs, PlaceInv
<1>2. TypeInv /\ PlaceInv => NeverTeleports
  <2> SUFFICES ASSUME TypeInv, PlaceInv, loaded
               PROVE  trip.km <= since.km + since.top * speedMultiplier * since.ran
    BY DEF NeverTeleports
  <2>1. /\ clock - tickAt \in Nat /\ since.km \in Nat /\ since.ran \in Nat
        /\ since.top \in Nat /\ trip.km \in Nat
    BY JourneyAssumption DEF TypeInv, JourneyTypeOK, Since, Trip
  <2>2. Billed \in Nat /\ Billed <= since.ran
    BY <2>1 DEF PlaceInv, Billed, Owed
  <2>3. /\ since.top * speedMultiplier * Billed \in Nat
        /\ since.top * speedMultiplier * Billed <= since.top * speedMultiplier * since.ran
    BY <2>1, <2>2, ReachGrows
  <2>4. since.top * speedMultiplier * since.ran \in Nat
    BY <2>1, Product, JourneyAssumption
  <2> QED BY <2>1, <2>2, <2>3, <2>4 DEF PlaceInv
<1> QED BY TypeInit, TypeStep, <1>1, PlaceStep, <1>2, PTL DEF JourneySpec

-----------------------------------------------------------------------------
(* The ETA is kept *)

(* The speed a truck goes at is a base speed slowed by its scenario. *)
Paced(t) == t.base \in BaseSpeeds /\ t.speed * SlowedBy[t.delay] \in BaseSpeeds

(* The ETA of a truck on the road is that of its place and speed when it   *)
(* was worked out; of the row too, as a restart goes by it.                *)
Timed(t) == Moving(t) /\ t.speed > 0 => t.eta = calculateEta(t.km, t.speed, t.told)

EtaInv == Paced(trip) /\ Timed(trip) /\ Paced(row) /\ Timed(row)

(* A multiple divides exactly. *)
LEMMA Cancels ==
  ASSUME NEW a \in Nat, NEW b \in Nat \ {0}
  PROVE  (a * b) \div b = a
OBVIOUS

LEMMA Associates ==
  ASSUME NEW a \in Int, NEW b \in Int, NEW c \in Int
  PROVE  (a * b) * c = a * (b * c) /\ a * b = b * a
OBVIOUS

LEMMA BaseSpeedsAreNat ==
  /\ BaseSpeeds \subseteq Nat /\ 0 \in BaseSpeeds /\ Cruise \in BaseSpeeds
  /\ \A r \in Reports, s \in Delays : r.speed * SlowedBy[s] \in BaseSpeeds
<1>1. ASSUME NEW r \in Reports, NEW s \in Delays
      PROVE  baseSpeed(r.speed, s) = r.speed * SlowedBy[s] /\ baseSpeed(r.speed, s) \in Nat
  <2>1. r.speed \in Nat /\ SlowedBy[s] \in Nat
    BY JourneyAssumption
  <2> QED BY <2>1, Product DEF baseSpeed
<1> QED BY <1>1, JourneyAssumption DEF BaseSpeeds

(* A base speed slowed by a scenario is multiplied back to itself. *)
LEMMA SlowedIsPaced ==
  ASSUME NEW b \in BaseSpeeds, NEW s \in Delays
  PROVE  effectiveSpeed(b, s) \in Nat /\ effectiveSpeed(b, s) * SlowedBy[s] = b
BY BaseSpeedsAreNat, DividesBack, JourneyAssumption, ExactAssumption DEF effectiveSpeed

(* What a truck covers in one unit of time divides the Beat. *)
LEMMA RateDivides ==
  ASSUME NEW t \in Trip, Paced(t), t.speed > 0
  PROVE  \E n \in Nat \ {0} : /\ t.speed * speedMultiplier \in Nat \ {0}
                              /\ Beat = n * (t.speed * speedMultiplier)
<1> DEFINE slow == SlowedBy[t.delay]
           rate == t.speed * speedMultiplier
<1>1. t.speed \in Nat \ {0} /\ slow \in Nat \ {0} /\ t.delay \in Delays
  BY JourneyAssumption DEF Trip
<1>2. effectiveSpeed(t.speed * slow, t.delay) = t.speed
  BY <1>1, Cancels DEF effectiveSpeed
<1>3. rate \in Nat \ {0} /\ Beat % rate = 0
  <2>1. rate \in Nat \ {0}
    BY <1>1, JourneyAssumption
  <2> QED BY <1>1, <1>2, <2>1, ExactAssumption DEF Paced
<1> HIDE DEF rate
<1>4. (Beat \div rate) * rate = Beat /\ Beat \div rate \in Nat
  BY <1>3, DividesBack, JourneyAssumption
<1>5. Beat \div rate # 0
  BY <1>3, <1>4, JourneyAssumption
<1> QED BY <1>3, <1>4, <1>5 DEF rate

(* The ETA of a truck whose rate divides the Beat is exact. *)
LEMMA EtaIsExact ==
  ASSUME NEW km \in 0 .. distanceKm, NEW speed \in Nat \ {0}, NEW now \in Nat,
         speed * speedMultiplier \in Nat \ {0},
         NEW n \in Nat \ {0}, Beat = n * (speed * speedMultiplier)
  PROVE  calculateEta(km, speed, now) = now * Beat + (distanceKm - km) * n
<1> DEFINE rate == speed * speedMultiplier
           left == distanceKm - km
<1>1. left \in Nat /\ remainingKm(km) = left
  BY JourneyAssumption DEF remainingKm, clampProgress
<1>2. calculateEta(km, speed, now) = now * Beat + (left * Beat) \div rate
  BY <1>1 DEF calculateEta
<1> HIDE DEF rate, left
<1>3. rate \in Nat \ {0} /\ Beat = n * rate
  BY DEF rate
<1>4. left * Beat = (left * n) * rate /\ left * n \in Nat
  BY <1>1, <1>3, Associates, Product
<1>5. (left * Beat) \div rate = left * n
  BY <1>3, <1>4, Cancels
<1> QED BY <1>2, <1>5 DEF left

(* A tick leaves a truck paced and timed. *)
LEMMA AdvancedIsTimed ==
  ASSUME NEW t \in Trip, NEW elapsed \in Nat, Paced(t), Timed(t)
  PROVE  Paced(Advanced(t, elapsed)) /\ Timed(Advanced(t, elapsed))
<1> DEFINE km == clampProgress(t.km + distanceTravelledKm(t.speed, elapsed))
<1>1. 0 * SlowedBy["NORMAL"] = 0 /\ 0 \in BaseSpeeds
  BY BaseSpeedsAreNat, JourneyAssumption
<1> HIDE DEF km
<1>2. CASE km >= distanceKm
  BY <1>1, <1>2 DEF Advanced, Paced, Timed, Moving, Trip, km
<1>3. CASE ~(km >= distanceKm)
  BY <1>3 DEF Advanced, Paced, Timed, Moving, Trip, km
<1> QED BY <1>2, <1>3

(* What a tick that changes a truck does to it.                            *)
LEMMA AdvancedDrives ==
  ASSUME NEW t \in Trip, NEW elapsed \in Nat, Advanced(t, elapsed) # t
  PROVE  LET far == distanceTravelledKm(t.speed, elapsed)
             km  == clampProgress(t.km + far)
         IN  /\ Moving(t) /\ far > 0 /\ Advanced(t, elapsed).km = km
             /\ km >= distanceKm => Advanced(t, elapsed).status = "ARRIVED"
             /\ ~(km >= distanceKm) =>
                  /\ Advanced(t, elapsed).status # "ARRIVED"
                  /\ Advanced(t, elapsed).eta = calculateEta(km, t.speed, clock)
<1> DEFINE far  == distanceTravelledKm(t.speed, elapsed)
           km   == clampProgress(t.km + far)
           idle == ~Moving(t) \/ far <= 0
<1>1. far \in Nat
  <2>1. t.speed * elapsed \in Nat /\ speedMultiplier \in Nat
    BY Product, JourneyAssumption DEF Trip
  <2>2. t.speed * elapsed * speedMultiplier \in Nat
    BY <2>1, Product
  <2> QED BY <2>2 DEF distanceTravelledKm
<1>2. idle => Advanced(t, elapsed) = t
  BY DEF Advanced
<1>3. ~idle
  BY <1>2
<1>4. Moving(t) /\ far > 0
  <2> HIDE DEF far
  <2> QED BY <1>1, <1>3
<1>5. CASE km >= distanceKm
  <2>1. Advanced(t, elapsed).km = km /\ Advanced(t, elapsed).status = "ARRIVED"
    BY <1>3, <1>5 DEF Advanced, Trip
  <2> QED BY <1>4, <1>5, <2>1
<1>6. CASE ~(km >= distanceKm)
  <2>1. /\ Advanced(t, elapsed).km = km /\ Advanced(t, elapsed).status # "ARRIVED"
        /\ Advanced(t, elapsed).eta = calculateEta(km, t.speed, clock)
    BY <1>3, <1>6 DEF Advanced, Trip, Moving
  <2> QED BY <1>4, <1>6, <2>1
<1> QED BY <1>5, <1>6

LEMMA EtaInit == Departs => EtaInv
<1> SUFFICES ASSUME Departs PROVE Paced(Departed) /\ Timed(Departed)
  BY DEF Departs, EtaInv
<1>1. Cruise * SlowedBy["NORMAL"] = Cruise
  BY JourneyAssumption
<1> QED BY <1>1, BaseSpeedsAreNat DEF Departed, Paced, Timed

LEMMA EtaStep == TypeInv /\ EtaInv /\ [Drives]_journey => EtaInv'
<1> SUFFICES ASSUME TypeInv, EtaInv, [Drives]_journey
             PROVE  /\ Paced(trip') /\ Timed(trip')
                    /\ Paced(row') /\ Timed(row')
  BY DEF EtaInv, Paced, Timed, Moving
<1> USE DEF TypeInv, JourneyTypeOK, EtaInv
<1>0. clock \in Nat /\ clock - tickAt \in Nat
  BY JourneyAssumption
<1>1. CASE UNCHANGED <<trip, row>>
  BY <1>1
<1>2. CASE Tick
  BY <1>0, <1>2, AdvancedIsTimed DEF Tick
<1>3. CASE Stop \/ Restart
  BY <1>3 DEF Stop, Restart
<1>4. CASE Start
  <2>1. CASE loaded
    BY <1>4, <2>1 DEF Start
  <2>2. CASE ~loaded
    <3>1. row' = row /\ trip' = [row EXCEPT !.base = row.speed * SlowedBy[row.delay]]
      BY <1>4, <2>2 DEF Start, Load, baseSpeed
    <3>2. Paced(trip')
      BY <3>1 DEF Paced, Trip
    <3>3. Timed(trip')
      BY <3>1 DEF Timed, Moving, Trip
    <3> QED BY <3>1, <3>2, <3>3
  <2> QED BY <2>1, <2>2
<1>5. ASSUME NEW s \in Delays, Delay(s)
      PROVE  Paced(trip') /\ Timed(trip') /\ row' = trip'
  <2>1. /\ trip'.base = trip.base /\ trip'.delay = s /\ row' = trip'
        /\ trip'.speed = effectiveSpeed(trip.base, s) /\ trip'.km = trip.km
        /\ trip'.told = clock
        /\ trip'.eta = calculateEta(trip'.km, trip'.speed, trip'.told)
    BY <1>5 DEF Delay, Trip
  <2>2. trip'.speed * SlowedBy[s] = trip.base
    BY <2>1, SlowedIsPaced DEF Paced
  <2> QED BY <2>1, <2>2 DEF Paced, Timed
<1>6. ASSUME NEW r \in Reports, Report(r)
      PROVE  Paced(trip') /\ Timed(trip') /\ row' = trip'
  <2>1. /\ trip'.base = trip.base /\ trip'.delay = trip.delay /\ row' = trip'
        /\ trip'.speed = r.speed /\ trip'.km = r.km /\ trip'.status = trip.status
        /\ r.speed > 0 /\ Moving(trip) =>
             trip'.told = clock /\ trip'.eta = calculateEta(r.km, r.speed, clock)
    BY <1>6 DEF Report, Trip
  <2>2. r.speed * SlowedBy[trip.delay] \in BaseSpeeds
    BY BaseSpeedsAreNat DEF Trip
  <2>3. Moving(trip') => Moving(trip)
    BY <2>1 DEF Moving
  <2> QED BY <2>1, <2>2, <2>3 DEF Paced, Timed
<1> QED BY <1>1, <1>2, <1>3, <1>4, <1>5, <1>6 DEF Drives, Wait, journey

(* What EtaIsKept says of one step. *)
EtaIsKeptStep ==
  LET due == trip.eta + Beat * (tickAt - trip.told)
  IN  Tick /\ trip'.km > trip.km =>
        /\ trip'.status # "ARRIVED" => trip'.eta = due
        /\ trip'.status = "ARRIVED" <=> due <= Beat * clock

(* A tick that covers ground covers what the ETA allows for. *)
LEMMA EtaKept ==
  ASSUME TypeInv, EtaInv
  PROVE  EtaIsKeptStep
<1> SUFFICES ASSUME Tick, trip'.km > trip.km
             PROVE  LET due == trip.eta + Beat * (tickAt - trip.told)
                    IN  /\ trip'.status # "ARRIVED" => trip'.eta = due
                        /\ trip'.status = "ARRIVED" <=> due <= Beat * clock
  BY DEF EtaIsKeptStep
<1> DEFINE e    == clock - tickAt
           far  == distanceTravelledKm(trip.speed, e)
           rate == trip.speed * speedMultiplier
           left == distanceKm - trip.km
           km   == clampProgress(trip.km + far)
<1>1. /\ trip \in Trip /\ clock \in Nat /\ tickAt \in Nat /\ e \in Nat /\ trip.told \in Nat
      /\ trip.km \in 0 .. distanceKm /\ distanceKm \in Nat /\ Beat \in Nat \ {0}
      /\ trip.speed \in Nat /\ left \in Nat
  BY JourneyAssumption DEF TypeInv, JourneyTypeOK, Trip
<1>2. trip' = Advanced(trip, e)
  BY DEF Tick
<1>3. /\ Moving(trip) /\ far > 0 /\ trip'.km = km
      /\ km >= distanceKm => trip'.status = "ARRIVED"
      /\ ~(km >= distanceKm) =>
           trip'.status # "ARRIVED" /\ trip'.eta = calculateEta(km, trip.speed, clock)
  <2>1. trip' # trip
    BY <1>1
  <2> QED BY <1>1, <1>2, <2>1, AdvancedDrives
<1>4. trip.speed > 0 /\ e > 0 /\ far = rate * e
  <2>1. trip.speed > 0 /\ e > 0 /\ far = trip.speed * e * speedMultiplier
    BY <1>1, <1>3 DEF distanceTravelledKm
  <2>2. trip.speed * e * speedMultiplier = rate * e
    BY <1>1, JourneyAssumption
  <2> QED BY <2>1, <2>2
<1>5. PICK n \in Nat \ {0} : rate \in Nat \ {0} /\ Beat = n * rate
  BY <1>1, <1>4, RateDivides DEF EtaInv
<1>6. trip.eta = trip.told * Beat + left * n
  <2>1. trip.eta = calculateEta(trip.km, trip.speed, trip.told)
    BY <1>3, <1>4 DEF EtaInv, Timed
  <2> QED BY <1>1, <1>4, <1>5, <2>1, EtaIsExact
<1>7. far \in Nat /\ far * n = Beat * e
  <2> HIDE DEF rate, e, far
  <2>1. far * n = (rate * e) * n /\ (rate * e) * n = (n * rate) * e /\ rate * e \in Nat
    BY <1>1, <1>4, <1>5, Associates, Product
  <2> QED BY <1>4, <1>5, <2>1
<1> DEFINE due == trip.eta + Beat * (tickAt - trip.told)
<1>8. due = tickAt * Beat + left * n
  <2>1. Beat * (tickAt - trip.told) = tickAt * Beat - trip.told * Beat
    BY <1>1
  <2>2. left * n \in Nat /\ tickAt * Beat \in Nat /\ trip.told * Beat \in Nat
    BY <1>1, <1>5, Product
  <2> QED BY <1>6, <2>1, <2>2
<1>9. Beat * clock = tickAt * Beat + far * n
  <2>1. Beat * clock = Beat * tickAt + Beat * e
    BY <1>1
  <2> QED BY <1>1, <1>7, <2>1
<1>10. tickAt * Beat \in Nat /\ left * n \in Nat /\ far * n \in Nat
  BY <1>1, <1>5, <1>7, Product
<1> HIDE DEF due, far, left, rate, e
<1>11. due <= Beat * clock <=> left <= far
  <2>1. due <= Beat * clock <=> left * n <= far * n
    BY <1>8, <1>9, <1>10
  <2>2. left <= far => left * n <= far * n
    BY <1>1, <1>5, <1>7, Grows
  <2>3. far < left => far * n < left * n
    <3> SUFFICES ASSUME far < left PROVE far * n < left * n
      OBVIOUS
    <3>1. far + 1 \in Nat /\ far + 1 <= left
      BY <1>1, <1>7
    <3>2. (far + 1) * n <= left * n
      BY <1>1, <1>5, <3>1, Grows
    <3>3. (far + 1) * n = far * n + n
      BY <1>5, <1>7
    <3> QED BY <1>5, <1>10, <3>2, <3>3
  <2> QED BY <1>1, <1>7, <1>10, <2>1, <2>2, <2>3
<1>12. CASE left <= far
  <2>1. km = distanceKm
    BY <1>1, <1>7, <1>12 DEF left, clampProgress
  <2>2. trip'.status = "ARRIVED"
    BY <1>1, <1>3, <2>1
  <2> QED BY <1>11, <1>12, <2>2 DEF due
<1>13. CASE far < left
  <2>1. km = trip.km + far /\ km < distanceKm
    BY <1>1, <1>7, <1>13 DEF left, clampProgress
  <2>2. trip'.status # "ARRIVED" /\ trip'.eta = calculateEta(km, trip.speed, clock)
    <3>1. ~(km >= distanceKm)
      BY <1>1, <1>7, <2>1
    <3> QED BY <1>3, <3>1
  <2>3. km \in 0 .. distanceKm /\ distanceKm - km = left - far
    BY <1>1, <1>7, <2>1 DEF left
  <2>4. trip'.eta = clock * Beat + (left - far) * n
    <3>1. calculateEta(km, trip.speed, clock) = clock * Beat + (distanceKm - km) * n
      BY <1>1, <1>4, <1>5, <2>3, EtaIsExact DEF rate
    <3> QED BY <2>2, <2>3, <3>1
  <2>5. (left - far) * n = left * n - far * n
    BY <1>1, <1>5, <1>7
  <2>6. trip'.eta = due
    BY <1>1, <1>8, <1>9, <1>10, <2>4, <2>5
  <2> QED BY <1>1, <1>7, <1>11, <1>13, <2>2, <2>6 DEF due
<1> QED BY <1>1, <1>7, <1>12, <1>13

(* EtaIsKept: however ticks are spaced or skipped and whatever is delayed,  *)
(* cleared, reported, stopped or restarted in between, a truck drives by    *)
(* the ETA it was given, to the tick.                                      *)
THEOREM EtaIsHonest == JourneySpec => EtaIsKept
<1>1. TypeInv /\ EtaInv => [EtaIsKeptStep]_journey
  BY EtaKept
<1> QED BY <1>1, TypeInit, TypeStep, EtaInit, EtaStep, PTL DEF JourneySpec, EtaIsKept, EtaIsKeptStep
=============================================================================
