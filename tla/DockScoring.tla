---------------------------- MODULE DockScoring -----------------------------
(***************************************************************************)
(* The dock recommendation algorithm (dock-scoring.ts): which doors can    *)
(* take a truck for a slot of time, and how they rank.                     *)
(*                                                                         *)
(* Scores are exact.  The code adds five components that are fractions of  *)
(* the slot and of the booked duration and rounds the sum once; here the   *)
(* components are numerators over Unit, and only Score divides.            *)
(***************************************************************************)
EXTENDS Integers, Sequences, FiniteSets

CONSTANT Nil       \* "nothing": no appointment

-----------------------------------------------------------------------------
(* Inputs *)

NoTime == 0        \* `availableFrom: null`, which the code reads as time 0

LoadType == {"GENERAL", "REFRIGERATED", "HAZARDOUS", "OVERSIZED"}
Priority == {"LOW", "MEDIUM", "HIGH", "CRITICAL"}

Window == {w \in [start : Nat, end : Nat] : w.start < w.end}

(* A door as the scorer sees it: `booked` are other trucks' windows on it. *)
ScoringDock(d) ==
  /\ d.status \in {"AVAILABLE", "RESERVED", "OCCUPIED", "UNAVAILABLE"}
  /\ d.loads \subseteq LoadType
  /\ d.free \in Nat
  /\ d.booked \subseteq Window

(* What is asked: the slot a truck needs, its load and its appointment. *)
ScoringContext(c) ==
  /\ c.load \in LoadType /\ c.priority \in Priority
  /\ c.slot \in Window
  /\ c.appointment = Nil \/ (/\ c.appointment.start \in Nat /\ c.appointment.end \in Nat
                             /\ c.appointment.minutes \in Nat \ {0})

-----------------------------------------------------------------------------
(* The hard filter *)

Overlaps(a, b) == a.start < b.end /\ a.end > b.start

Clashes(d, c) == \E w \in d.booked : Overlaps(w, c.slot)

(* Mutant: a door that frees up as the slot ends is taken for free.        *)
NeverFreeInTimeLate(d, c) == d.free # NoTime /\ d.free > c.slot.end

(* The door frees up only after the slot has ended. *)
NeverFreeInTime(d, c) == d.free # NoTime /\ d.free >= c.slot.end

Excluded(d, c) == \/ d.status = "UNAVAILABLE"
                  \/ c.load \notin d.loads
                  \/ Clashes(d, c)
                  \/ NeverFreeInTime(d, c)

-----------------------------------------------------------------------------
(* The components of a score *)

WeightLoadType     == 25
WeightAvailability == 30
WeightAppointment  == 25
WeightPriority     == 15

(* Scored when there is no appointment. *)
WithoutAppointment == 15

SpecialistPenalty == 5
LoadTypeFitFloor  == 10

StatusBonus(d) == CASE d.status = "AVAILABLE" -> 5
                    [] d.status = "RESERVED"  -> 3
                    [] OTHER -> 0

Least(a, b) == IF a < b THEN a ELSE b
Most(a, b)  == IF a < b THEN b ELSE a

SlotLength(c) == Most(1, c.slot.end - c.slot.start)
Needed(c)     == IF c.appointment = Nil THEN 1 ELSE c.appointment.minutes

(* The common denominator: priority halves, the slot and what is booked. *)
Unit(c) == 2 * SlotLength(c) * Needed(c)

(* Nothing says when the truck on this door will leave it. *)
FreeTimeUnknown(d) == d.status = "OCCUPIED" /\ d.free = NoTime

(* Mutant: the wrong sign.                                                 *)
LateMinutesEarly(d, c) ==
  IF FreeTimeUnknown(d) THEN SlotLength(c)
  ELSE Least(Most(0, c.slot.start - d.free), SlotLength(c))

(* How late the door frees up, in minutes of the slot it has lost. *)
LateMinutes(d, c) ==
  IF FreeTimeUnknown(d) THEN SlotLength(c)
  ELSE Least(Most(0, d.free - c.slot.start), SlotLength(c))

(* A general load loses a little for every specialist load a door takes. *)
LoadTypeFit(d, c) ==
  Unit(c) * (IF c.load # "GENERAL" THEN WeightLoadType
             ELSE Most(LoadTypeFitFloor,
                       WeightLoadType - SpecialistPenalty * Cardinality(d.loads \ {"GENERAL"})))

AvailabilityFit(d, c) ==
  2 * WeightAvailability * (SlotLength(c) - LateMinutes(d, c)) * Needed(c)

(* Minutes of the booked window that are left once the truck can start. *)
Usable(d, c) ==
  Most(0, c.appointment.end - Most(Most(c.slot.start, d.free), c.appointment.start))

(* Mutant: what is left beyond the minutes needed counts too.              *)
AppointmentFitUncapped(d, c) ==
  IF c.appointment = Nil THEN WithoutAppointment * Unit(c)
  ELSE 2 * WeightAppointment * SlotLength(c) * Usable(d, c)

AppointmentFit(d, c) ==
  IF c.appointment = Nil THEN WithoutAppointment * Unit(c)
  ELSE 2 * WeightAppointment * SlotLength(c) * Least(Usable(d, c), Needed(c))

Urgent(c) == c.priority \in {"HIGH", "CRITICAL"}

(* Mutant: the weights are the wrong way round.                            *)
LatenessHalvesSwapped(c) == IF Urgent(c) THEN 1 ELSE 2

(* PRIORITY_LATENESS_WEIGHT, in halves: urgent freight weights lateness double. *)
LatenessHalves(c) == IF Urgent(c) THEN 2 ELSE 1

PriorityFit(d, c) ==
  WeightPriority * (2 * SlotLength(c) - LatenessHalves(c) * LateMinutes(d, c)) * Needed(c)

Total(d, c) ==
  LoadTypeFit(d, c) + AvailabilityFit(d, c) + AppointmentFit(d, c) + PriorityFit(d, c)
    + Unit(c) * StatusBonus(d)

(* Math.round of the sum: halves go up. *)
Score(d, c) == (Total(d, c) + (Unit(c) \div 2)) \div Unit(c)
=============================================================================
