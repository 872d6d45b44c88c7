-------------------------- MODULE RecommendProofs ---------------------------
(***************************************************************************)
(* Theorems about the dock recommendation, for any doors, trucks, windows  *)
(* and durations that satisfy RecommendAssumption.                         *)
(***************************************************************************)
EXTENDS Recommend, SequenceTheorems, FiniteSetTheorems, WellFoundedInduction, TLAPS

-----------------------------------------------------------------------------
(* Arithmetic *)

LEMMA Times ==
  ASSUME NEW a \in Int, NEW b \in Int, NEW n \in Nat, a <= b
  PROVE  a * n <= b * n
OBVIOUS

LEMMA Quotient ==
  ASSUME NEW x \in Int, NEW u \in Nat \ {0}
  PROVE  (x \div u) \in Int /\ (x \div u) * u <= x /\ x < (x \div u) * u + u
OBVIOUS

LEMMA QuotientGrows ==
  ASSUME NEW x \in Int, NEW y \in Int, NEW u \in Nat \ {0}, x <= y
  PROVE  x \div u <= y \div u
OBVIOUS

(* A set of natural numbers has a least element. *)
LEMMA LeastNumber ==
  ASSUME NEW S \in SUBSET Nat, S # {}
  PROVE  \E x \in S : \A y \in S : x <= y
<1>1. \E x \in S : \A y \in S : ~ (<<y, x>> \in OpToRel(<, Nat))
  BY NatLessThanWellFounded, WFMin
<1>2. \E x \in S : \A y \in S : ~ (y < x)
  BY <1>1 DEF OpToRel
<1> QED
  BY <1>2

-----------------------------------------------------------------------------
(* The score of one door *)

(* What the context makes of the slot and the booking. *)
LEMMA ContextFacts ==
  ASSUME NEW c, ScoringContext(c)
  PROVE  /\ SlotLength(c) \in Nat \ {0} /\ Needed(c) \in Nat \ {0}
         /\ Unit(c) = 2 * (SlotLength(c) * Needed(c)) /\ Unit(c) \in Nat \ {0}
         /\ c.slot.start \in Nat /\ c.slot.end \in Nat
         /\ SlotLength(c) = c.slot.end - c.slot.start
         /\ LatenessHalves(c) \in {1, 2}
<1>1. c.slot.start \in Nat /\ c.slot.end \in Nat /\ c.slot.start < c.slot.end
  BY DEF ScoringContext, Window
<1>2. SlotLength(c) \in Nat \ {0} /\ SlotLength(c) = c.slot.end - c.slot.start
  BY <1>1 DEF SlotLength, Most
<1>3. Needed(c) \in Nat \ {0}
  BY DEF ScoringContext, Needed
<1>4. Unit(c) = 2 * (SlotLength(c) * Needed(c)) /\ Unit(c) \in Nat \ {0}
  <2> DEFINE l == SlotLength(c)
             n == Needed(c)
  <2>1. l \in Nat \ {0} /\ n \in Nat \ {0}
    BY <1>2, <1>3
  <2> HIDE DEF l, n
  <2>2. 2 * l * n = 2 * (l * n) /\ 2 * l * n \in Nat \ {0}
    BY <2>1
  <2> QED
    BY <2>2 DEF Unit, l, n
<1> QED
  BY <1>1, <1>2, <1>3, <1>4 DEF LatenessHalves

LEMMA LateFacts ==
  ASSUME NEW c, ScoringContext(c), NEW d, ScoringDock(d)
  PROVE  LateMinutes(d, c) \in 0 .. SlotLength(c)
BY ContextFacts DEF LateMinutes, Least, Most, ScoringDock

LEMMA UsableFacts ==
  ASSUME NEW c, ScoringContext(c), NEW d, ScoringDock(d)
  PROVE  c.appointment # Nil => Least(Usable(d, c), Needed(c)) \in 0 .. Needed(c)
BY ContextFacts DEF Usable, Least, Most, ScoringDock, ScoringContext

LEMMA BonusFacts ==
  ASSUME NEW d
  PROVE  /\ StatusBonus(d) \in {0, 3, 5}
         /\ StatusBonus(d) = 5 => d.status = "AVAILABLE"
<1>1. CASE d.status = "AVAILABLE"
  <2>1. StatusBonus(d) = 5
    BY <1>1, Zenon DEF StatusBonus
  <2> QED
    BY <1>1, <2>1
<1>2. CASE d.status = "RESERVED"
  <2>1. StatusBonus(d) = 3
    BY <1>2, Zenon DEF StatusBonus
  <2> QED
    BY <2>1
<1>3. CASE d.status \notin {"AVAILABLE", "RESERVED"}
  <2>1. StatusBonus(d) = 0
    BY <1>3, Zenon DEF StatusBonus
  <2> QED
    BY <2>1
<1> QED
  BY <1>1, <1>2, <1>3

(* How well the door fits the load, out of 25. *)
LoadFit(d, c) == IF c.load # "GENERAL" THEN WeightLoadType
                 ELSE Most(LoadTypeFitFloor,
                           WeightLoadType - SpecialistPenalty * Cardinality(d.loads \ {"GENERAL"}))

LEMMA LoadFacts ==
  ASSUME NEW d, ScoringDock(d), NEW c
  PROVE  LoadFit(d, c) \in 0 .. 25 /\ LoadTypeFit(d, c) = Unit(c) * LoadFit(d, c)
<1>1. IsFiniteSet(LoadType)
  <2>1. /\ IsFiniteSet({"GENERAL"}) /\ IsFiniteSet({"REFRIGERATED"})
        /\ IsFiniteSet({"HAZARDOUS"}) /\ IsFiniteSet({"OVERSIZED"})
    BY FS_Singleton
  <2>2. /\ IsFiniteSet({"GENERAL"} \cup {"REFRIGERATED"})
        /\ IsFiniteSet({"HAZARDOUS"} \cup {"OVERSIZED"})
    BY <2>1, FS_Union
  <2>3. IsFiniteSet(({"GENERAL"} \cup {"REFRIGERATED"}) \cup ({"HAZARDOUS"} \cup {"OVERSIZED"}))
    BY <2>2, FS_Union
  <2>4. LoadType = ({"GENERAL"} \cup {"REFRIGERATED"}) \cup ({"HAZARDOUS"} \cup {"OVERSIZED"})
    BY DEF LoadType
  <2> QED
    BY <2>3, <2>4
<1>2. IsFiniteSet(d.loads \ {"GENERAL"})
  BY <1>1, FS_Subset DEF ScoringDock
<1>3. Cardinality(d.loads \ {"GENERAL"}) \in Nat
  BY <1>2, FS_CardinalityType
<1> QED
  BY <1>3 DEF LoadFit, LoadTypeFit, Most, WeightLoadType, LoadTypeFitFloor, SpecialistPenalty

(* Minutes that count towards the appointment; all of them without one. *)
Covered(d, c) == IF c.appointment = Nil THEN 0 ELSE Least(Usable(d, c), Needed(c))

Neutral(c) == IF c.appointment = Nil THEN WithoutAppointment ELSE 0

(* A score in terms of what its parts are out of. *)
LEMMA TotalIs ==
  ASSUME NEW c, ScoringContext(c), NEW d, ScoringDock(d)
  PROVE  LET P == SlotLength(c) * Needed(c)
             Q == LateMinutes(d, c) * Needed(c)
             R == SlotLength(c) * Covered(d, c)
         IN  /\ P \in Nat /\ Q \in Nat /\ R \in Nat /\ Q <= P /\ R <= P
             /\ c.appointment = Nil => R = 0
             /\ Total(d, c) = 2 * P * (LoadFit(d, c) + Neutral(c) + StatusBonus(d))
                              + 60 * (P - Q) + 50 * R + 15 * (2 * P - LatenessHalves(c) * Q)
<1> DEFINE l == SlotLength(c)
           n == Needed(c)
           z == LateMinutes(d, c)
           m == Covered(d, c)
           h == LatenessHalves(c)
           b == StatusBonus(d)
           w == LoadFit(d, c)
           u == Neutral(c)
<1>1. l \in Nat \ {0} /\ n \in Nat \ {0} /\ z \in 0 .. l /\ h \in {1, 2}
  BY ContextFacts, LateFacts
<1>2. m \in 0 .. n /\ u \in {0, 15} /\ (c.appointment = Nil => m = 0)
  BY ContextFacts, UsableFacts DEF Covered, Neutral, WithoutAppointment
<1>3. b \in {0, 3, 5} /\ w \in 0 .. 25
  BY BonusFacts, LoadFacts
<1>4. Unit(c) = 2 * (l * n)
  BY ContextFacts
<1>5. LoadTypeFit(d, c) = 2 * (l * n) * w
  BY <1>4, LoadFacts
<1>6. AvailabilityFit(d, c) = 60 * (l - z) * n
  BY DEF AvailabilityFit, WeightAvailability
<1>7. AppointmentFit(d, c) = 2 * (l * n) * u + 50 * (l * m)
  <2>1. CASE c.appointment = Nil
    <3>1. AppointmentFit(d, c) = 15 * Unit(c) /\ m = 0 /\ u = 15
      BY <2>1 DEF AppointmentFit, WithoutAppointment, Covered, Neutral
    <3> HIDE DEF l, n, m, u
    <3> QED
      BY <1>1, <1>4, <3>1
  <2>2. CASE c.appointment # Nil
    <3>1. AppointmentFit(d, c) = 2 * 25 * l * m /\ u = 0
      BY <2>2 DEF AppointmentFit, WeightAppointment, Covered, Neutral
    <3> HIDE DEF l, n, m, u
    <3> QED
      BY <1>1, <1>2, <3>1
  <2> QED
    BY <2>1, <2>2
<1>8. PriorityFit(d, c) = 15 * (2 * l - h * z) * n
  BY DEF PriorityFit, WeightPriority
<1>9. Total(d, c) = 2 * (l * n) * w + 60 * (l - z) * n + (2 * (l * n) * u + 50 * (l * m))
                    + 15 * (2 * l - h * z) * n + 2 * (l * n) * b
  BY <1>4, <1>5, <1>6, <1>7, <1>8 DEF Total
<1> HIDE DEF l, n, z, m, h, b, w, u
<1>10. l * n \in Nat /\ z * n \in Nat /\ l * m \in Nat
  BY <1>1, <1>2
<1>11. z * n <= l * n
  BY <1>1, Times
<1>12. l * m <= l * n
  BY <1>1, <1>2
<1>13. c.appointment = Nil => l * m = 0
  BY <1>1, <1>2
<1>14. /\ 60 * (l - z) * n = 60 * (l * n - z * n)
       /\ 15 * (2 * l - h * z) * n = 15 * (2 * (l * n) - h * (z * n))
  BY <1>1
<1>15. 2 * (l * n) * (w + u + b) = 2 * (l * n) * w + 2 * (l * n) * u + 2 * (l * n) * b
  BY <1>1, <1>2, <1>3
<1>16. Total(d, c) = 2 * (l * n) * (w + u + b) + 60 * (l * n - z * n) + 50 * (l * m)
                     + 15 * (2 * (l * n) - h * (z * n))
  BY <1>1, <1>2, <1>3, <1>9, <1>10, <1>14, <1>15
<1> QED
  BY <1>10, <1>11, <1>12, <1>13, <1>16 DEF l, n, z, m, h, b, w, u
LEMMA UnitHalf ==
  ASSUME NEW c, ScoringContext(c)
  PROVE  /\ SlotLength(c) * Needed(c) \in Nat \ {0}
         /\ Unit(c) = 2 * (SlotLength(c) * Needed(c))
         /\ Unit(c) \div 2 = SlotLength(c) * Needed(c)
<1> DEFINE P == SlotLength(c) * Needed(c)
<1>1. Unit(c) = 2 * P /\ Unit(c) \in Nat \ {0} /\ P \in Nat
  BY ContextFacts
<1> HIDE DEF P
<1>2. P \in Nat \ {0} /\ (2 * P) \div 2 = P
  BY <1>1
<1> QED
  BY <1>1, <1>2 DEF P

(* The weights add up to 100, and only a door that is free has all of them. *)
LEMMA ScoreFacts ==
  ASSUME NEW c, ScoringContext(c), NEW d, ScoringDock(d)
  PROVE  Score(d, c) \in 0 .. 100 /\ (Score(d, c) = 100 => d.status = "AVAILABLE")
<1> DEFINE P == SlotLength(c) * Needed(c)
           Q == LateMinutes(d, c) * Needed(c)
           R == SlotLength(c) * Covered(d, c)
           h == LatenessHalves(c)
           b == StatusBonus(d)
           w == LoadFit(d, c)
           u == Neutral(c)
           T == Total(d, c)
           s == Score(d, c)
<1>1. P \in Nat \ {0} /\ Unit(c) = 2 * P /\ Unit(c) \div 2 = P
  BY UnitHalf
<1>2. /\ Q \in Nat /\ R \in Nat /\ Q <= P /\ R <= P
      /\ T = 2 * P * (w + u + b) + 60 * (P - Q) + 50 * R + 15 * (2 * P - h * Q)
  BY TotalIs
<1>3. (u = 15 /\ R = 0) \/ u = 0
  BY TotalIs DEF Neutral, WithoutAppointment
<1>4. b \in {0, 3, 5} /\ w \in 0 .. 25 /\ h \in {1, 2} /\ (b = 5 => d.status = "AVAILABLE")
  BY BonusFacts, LoadFacts, ContextFacts
<1>5. s = (T + P) \div (2 * P)
  BY <1>1 DEF Score
<1> HIDE DEF P, Q, R, h, b, w, u, T, s
<1>6. w + u + b \in Nat /\ (b # 5 => w + u + b <= 28 + u) /\ w + u + b <= 30 + u
  BY <1>3, <1>4
<1>7. /\ 2 * P * (w + u + b) <= 2 * P * (30 + u)
      /\ b # 5 => 2 * P * (w + u + b) <= 2 * P * (28 + u)
      /\ 2 * P * (w + u + b) \in Nat
  BY <1>1, <1>3, <1>6
<1>8. h * Q \in Nat /\ h * Q <= 2 * P
  BY <1>1, <1>2, <1>4
<1>9. T \in Nat /\ T <= 200 * P /\ (b # 5 => T <= 196 * P)
  <2>1. CASE u = 15 /\ R = 0
    BY <1>1, <1>2, <1>7, <1>8, <2>1
  <2>2. CASE u = 0
    BY <1>1, <1>2, <1>7, <1>8, <2>2
  <2> QED
    BY <1>3, <2>1, <2>2
<1>10. s \in Int /\ s * (2 * P) <= T + P /\ T + P < s * (2 * P) + 2 * P
  <2> DEFINE x == T + P
             v == 2 * P
  <2>1. x \in Int /\ v \in Nat \ {0} /\ s = x \div v
    BY <1>1, <1>5, <1>9
  <2> HIDE DEF x, v
  <2>2. s \in Int /\ s * v <= x /\ x < s * v + v
    BY <2>1, Quotient
  <2> QED
    BY <2>2 DEF x, v
<1>11. s >= 0
  <2>1. s < 0 => s * (2 * P) <= (-1) * (2 * P)
    BY <1>1, <1>10, Times
  <2> QED
    BY <1>1, <1>9, <1>10, <2>1
<1>12. s <= 100
  <2>1. s >= 101 => 101 * (2 * P) <= s * (2 * P)
    BY <1>1, <1>10, Times
  <2> QED
    BY <1>1, <1>9, <1>10, <2>1
<1>13. s = 100 => b = 5
  BY <1>1, <1>9, <1>10
<1> QED
  BY <1>4, <1>10, <1>11, <1>12, <1>13 DEF s

(* Two totals and their scores. *)
LEMMA ScoreGrows ==
  ASSUME NEW c, ScoringContext(c), NEW d, ScoringDock(d), NEW e, ScoringDock(e),
         Total(d, c) <= Total(e, c)
  PROVE  Score(d, c) <= Score(e, c)
<1>1. Total(d, c) \in Int /\ Total(e, c) \in Int
  <2>1. ASSUME NEW x, ScoringDock(x) PROVE Total(x, c) \in Int
    <3> DEFINE P == SlotLength(c) * Needed(c)
               Q == LateMinutes(x, c) * Needed(c)
               R == SlotLength(c) * Covered(x, c)
               f == LoadFit(x, c) + Neutral(c) + StatusBonus(x)
               h == LatenessHalves(c)
    <3>1. P \in Nat /\ Q \in Nat /\ R \in Nat
      BY <2>1, TotalIs
    <3>2. f \in Int /\ h \in Int
      BY <2>1, LoadFacts, BonusFacts, ContextFacts DEF Neutral, WithoutAppointment
    <3>3. Total(x, c) = 2 * P * f + 60 * (P - Q) + 50 * R + 15 * (2 * P - h * Q)
      BY <2>1, TotalIs
    <3> HIDE DEF P, Q, R, f, h
    <3> QED
      BY <3>1, <3>2, <3>3
  <2> QED
    BY <2>1
<1>2. Unit(c) \in Nat \ {0} /\ (Unit(c) \div 2) \in Int
  BY ContextFacts, UnitHalf
<1> DEFINE x == Total(d, c) + (Unit(c) \div 2)
           y == Total(e, c) + (Unit(c) \div 2)
<1>3. x \in Int /\ y \in Int /\ x <= y
  BY <1>1, <1>2
<1>4. Score(d, c) = x \div Unit(c) /\ Score(e, c) = y \div Unit(c)
  BY DEF Score
<1> HIDE DEF x, y
<1> QED
  BY <1>2, <1>3, <1>4, QuotientGrows

(* A door that is free earlier scores no less, all else being equal. *)
LEMMA SoonerScores ==
  ASSUME NEW c, ScoringContext(c), NEW d, ScoringDock(d), NEW e, ScoringDock(e),
         Alike(d, e), d.free <= e.free
  PROVE  Score(d, c) >= Score(e, c)
<1> DEFINE l  == SlotLength(c)
           n  == Needed(c)
           zd == LateMinutes(d, c)
           ze == LateMinutes(e, c)
           md == Covered(d, c)
           me == Covered(e, c)
           P  == l * n
           f  == LoadFit(d, c) + Neutral(c) + StatusBonus(d)
           h  == LatenessHalves(c)
<1>0. d.free \in Nat /\ e.free \in Nat
  BY DEF ScoringDock
<1>1. l \in Nat \ {0} /\ n \in Nat \ {0} /\ h \in {1, 2}
  BY ContextFacts
<1>2. zd \in 0 .. l /\ ze \in 0 .. l /\ zd <= ze
  BY <1>0, ContextFacts, LateFacts DEF LateMinutes, Alike, Least, Most
<1>3. md \in 0 .. n /\ me \in 0 .. n /\ me <= md
  <2>1. CASE c.appointment = Nil
    BY <1>1, <2>1 DEF Covered
  <2>2. CASE c.appointment # Nil
    <3>1. /\ c.appointment.start \in Nat /\ c.appointment.end \in Nat /\ c.slot.start \in Nat
      BY <2>2, ContextFacts DEF ScoringContext
    <3>2. Usable(e, c) <= Usable(d, c) /\ Usable(e, c) \in Nat /\ Usable(d, c) \in Nat
      BY <1>0, <3>1 DEF Usable, Most
    <3> QED
      BY <1>1, <2>2, <3>2 DEF Covered, Least
  <2> QED
    BY <2>1, <2>2
<1>4. LoadFit(e, c) = LoadFit(d, c) /\ StatusBonus(e) = StatusBonus(d)
  BY DEF Alike, LoadFit, StatusBonus
<1>5. f \in Int
  BY LoadFacts, BonusFacts DEF Neutral, WithoutAppointment
<1>6. /\ Total(d, c) = 2 * P * f + 60 * (P - zd * n) + 50 * (l * md) + 15 * (2 * P - h * (zd * n))
      /\ Total(e, c) = 2 * P * f + 60 * (P - ze * n) + 50 * (l * me) + 15 * (2 * P - h * (ze * n))
  BY <1>4, TotalIs
<1> HIDE DEF l, n, zd, ze, md, me, f, h
<1>7. P \in Nat /\ zd * n \in Nat /\ ze * n \in Nat /\ l * md \in Nat /\ l * me \in Nat
  BY <1>1, <1>2, <1>3
<1>8. zd * n <= ze * n
  BY <1>1, <1>2, Times
<1>9. l * me <= l * md
  BY <1>1, <1>3
<1>10. h * (zd * n) <= h * (ze * n) /\ h * (zd * n) \in Nat /\ h * (ze * n) \in Nat
  BY <1>1, <1>7, <1>8
<1>11. 2 * P * f \in Int
  BY <1>5, <1>7
<1>12. Total(e, c) <= Total(d, c)
  <2> HIDE DEF P
  <2> QED
    BY <1>6, <1>7, <1>8, <1>9, <1>10, <1>11
<1> QED
  BY <1>12, ScoreGrows, ScoreFacts
-----------------------------------------------------------------------------
(* The order of the recommendations *)

Entry == [code : Range(Codes), score : Int]

LEMMA PlaceFacts ==
  ASSUME NEW code \in Range(Codes)
  PROVE  Place(code) \in DOMAIN Codes /\ Codes[Place(code)] = code /\ Place(code) \in Nat
<1>1. \E i \in DOMAIN Codes : Codes[i] = code
  BY DEF Range
<1>2. Place(code) \in DOMAIN Codes /\ Codes[Place(code)] = code
  BY <1>1 DEF Place
<1>3. DOMAIN Codes = 1 .. Len(Codes) /\ Len(Codes) \in Nat
  BY RecommendAssumption, LenProperties
<1> QED
  BY <1>2, <1>3

(* Before is a strict total order of recommendations of different doors. *)
LEMMA BeforeOrders ==
  ASSUME NEW a \in Entry, NEW b \in Entry, NEW c \in Entry
  PROVE  /\ ~Before(a, a)
         /\ Before(a, b) /\ Before(b, c) => Before(a, c)
         /\ a.code # b.code => Before(a, b) \/ Before(b, a)
         /\ Before(a, b) => ~Before(b, a)
<1>1. /\ a.code \in Range(Codes) /\ b.code \in Range(Codes) /\ c.code \in Range(Codes)
      /\ a.score \in Int /\ b.score \in Int /\ c.score \in Int
  BY DEF Entry
<1>2. /\ Place(a.code) \in Nat /\ Place(b.code) \in Nat /\ Place(c.code) \in Nat
      /\ a.code # b.code => Place(a.code) # Place(b.code)
  BY <1>1, PlaceFacts
<1> QED
  BY <1>1, <1>2 DEF Before

(* How many of S come before r. *)
Preceding(S, r) == Cardinality({q \in S : Before(q, r)})

LEMMA PrecedingGrows ==
  ASSUME NEW S \in SUBSET Entry, IsFiniteSet(S), NEW a \in S, NEW b \in S, Before(a, b)
  PROVE  Preceding(S, a) < Preceding(S, b)
<1> DEFINE A == {q \in S : Before(q, a)}
           B == {q \in S : Before(q, b)}
<1>1. IsFiniteSet(A) /\ IsFiniteSet(B)
  BY FS_Subset
<1>2. a \notin A /\ a \in B
  BY BeforeOrders
<1>3. A \cup {a} \subseteq B
  BY <1>2, BeforeOrders
<1> HIDE DEF A, B
<1>4. Cardinality(A \cup {a}) = Cardinality(A) + 1
  BY <1>1, <1>2, FS_AddElement
<1>5. Cardinality(A \cup {a}) <= Cardinality(B)
  BY <1>1, <1>3, FS_Subset
<1>6. Cardinality(A) \in Nat /\ Cardinality(B) \in Nat
  BY <1>1, FS_CardinalityType
<1> QED
  BY <1>4, <1>5, <1>6 DEF Preceding, A, B

(* Every number below the size of S is the number before one of them. *)
LEMMA EveryRank ==
  ASSUME NEW S \in SUBSET Entry, IsFiniteSet(S), NEW n \in Nat, Cardinality(S) = n,
         \A a, b \in S : a.code = b.code => a = b
  PROVE  /\ \A r \in S : Preceding(S, r) \in 0 .. (n - 1)
         /\ \A a, b \in S : Preceding(S, a) = Preceding(S, b) => a = b
         /\ \A k \in 0 .. (n - 1) : \E r \in S : Preceding(S, r) = k
<1>1. ASSUME NEW r \in S PROVE Preceding(S, r) \in 0 .. (n - 1)
  <2> DEFINE P == {q \in S : Before(q, r)}
  <2>1. P \subseteq S \ {r}
    BY BeforeOrders
  <2>2. IsFiniteSet(S \ {r}) /\ Cardinality(S \ {r}) = n - 1
    BY FS_RemoveElement
  <2>3. IsFiniteSet(P) /\ Cardinality(P) <= n - 1
    BY <2>1, <2>2, FS_Subset
  <2>4. Cardinality(P) \in Nat
    BY <2>3, FS_CardinalityType
  <2> QED
    BY <2>3, <2>4 DEF Preceding
<1>2. ASSUME NEW a \in S, NEW b \in S, Preceding(S, a) = Preceding(S, b) PROVE a = b
  <2>1. Preceding(S, a) \in Int /\ ~Before(a, b) /\ ~Before(b, a)
    BY <1>1, <1>2, PrecedingGrows
  <2> QED
    BY <2>1, BeforeOrders
<1> DEFINE g == [r \in S |-> Preceding(S, r)]
           K == 0 .. (n - 1)
<1>3. g \in [S -> K] /\ (\A a, b \in S : g[a] = g[b] => a = b)
  BY <1>1, <1>2
<1>4. IsFiniteSet(K) /\ Cardinality(K) = n
  BY FS_Interval
<1> HIDE DEF g, K
<1>5. g \in Injection(S, K)
  BY <1>3 DEF Injection, IsInjective
<1>6. g \in Surjection(S, K)
  BY <1>4, <1>5, FS_Injection
<1>7. \A k \in K : \E r \in S : g[r] = k
  BY <1>6 DEF Surjection
<1> QED
  BY <1>1, <1>2, <1>7 DEF g, K

(* Sort keeps every recommendation, once, and puts each before the next. *)
LEMMA SortRanks ==
  ASSUME ranked \in Seq(Entry),
         \A i, j \in DOMAIN ranked : ranked[i].code = ranked[j].code => i = j
  PROVE  /\ \A i \in DOMAIN ranked : Ranked(i) \in Range(ranked)
         /\ \A r \in Range(ranked) : \E i \in DOMAIN ranked : Ranked(i) = r
         /\ \A i, j \in DOMAIN ranked : i < j => Before(Ranked(i), Ranked(j))
<1> DEFINE S == Range(ranked)
           n == Len(ranked)
<1>1. n \in Nat /\ DOMAIN ranked = 1 .. n /\ ranked \in [1 .. n -> Entry]
  BY LenProperties
<1>2. S \in SUBSET Entry /\ (\A a, b \in S : a.code = b.code => a = b)
  BY <1>1 DEF Range
<1>3. ranked \in Bijection(1 .. n, S)
  BY <1>1 DEF Bijection, Injection, IsInjective, Surjection, Range
<1>4. IsFiniteSet(1 .. n) /\ Cardinality(1 .. n) = n
  BY <1>1, FS_Interval
<1>5. IsFiniteSet(S) /\ Cardinality(S) = n
  BY <1>3, <1>4, FS_Bijection DEF ExistsBijection
<1>6. \A i : Ranked(i) = CHOOSE r \in S : Preceding(S, r) = i - 1
  BY DEF Ranked, Preceding
<1> HIDE DEF S, n
<1>7. /\ \A r \in S : Preceding(S, r) \in 0 .. (n - 1)
      /\ \A a, b \in S : Preceding(S, a) = Preceding(S, b) => a = b
      /\ \A k \in 0 .. (n - 1) : \E r \in S : Preceding(S, r) = k
  BY <1>1, <1>2, <1>5, EveryRank
<1>8. ASSUME NEW i \in 1 .. n PROVE Ranked(i) \in S /\ Preceding(S, Ranked(i)) = i - 1
  <2>1. i - 1 \in 0 .. (n - 1)
    BY <1>1, <1>8
  <2>2. \E r \in S : Preceding(S, r) = i - 1
    BY <1>7, <2>1
  <2> QED
    BY <1>6, <2>2
<1>9. ASSUME NEW r \in S PROVE \E i \in 1 .. n : Ranked(i) = r
  <2> DEFINE i == Preceding(S, r) + 1
  <2>1. i \in 1 .. n /\ i - 1 = Preceding(S, r)
    BY <1>1, <1>7
  <2>2. Ranked(i) \in S /\ Preceding(S, Ranked(i)) = i - 1
    BY <1>8, <2>1
  <2> QED
    BY <1>7, <2>1, <2>2
<1>10. ASSUME NEW i \in 1 .. n, NEW j \in 1 .. n, i < j PROVE Before(Ranked(i), Ranked(j))
  <2> DEFINE a == Ranked(i)
             b == Ranked(j)
  <2>1. a \in S /\ b \in S /\ Preceding(S, a) = i - 1 /\ Preceding(S, b) = j - 1
    BY <1>8
  <2> HIDE DEF a, b
  <2>2. Preceding(S, a) < Preceding(S, b) /\ Preceding(S, a) \in Int /\ Preceding(S, b) \in Int
    BY <1>1, <1>10, <2>1
  <2>3. a # b /\ ~Before(b, a)
    BY <1>2, <1>5, <2>1, <2>2, PrecedingGrows
  <2>4. Before(a, b)
    BY <1>2, <2>1, <2>3, BeforeOrders
  <2> QED
    BY <2>4 DEF a, b
<1> QED
  BY <1>1, <1>8, <1>9, <1>10 DEF S
-----------------------------------------------------------------------------
(* The best door, and urgency *)

Takers(c)    == {d \in Range(Codes) : ~Excluded(Dock(d), c)}
Scored(d, c) == [code |-> d, score |-> Score(Dock(d), c)]

LEMMA BestFacts ==
  ASSUME NEW c, ScoringContext(c), \A d \in Range(Codes) : ScoringDock(Dock(d)),
         Takers(c) # {}
  PROVE  /\ Best(c) \in Takers(c)
         /\ \A e \in Takers(c) \ {Best(c)} : Before(Scored(Best(c), c), Scored(e, c))
<1> DEFINE T == Takers(c)
           lack(d) == 100 - Score(Dock(d), c)
           A == {lack(d) : d \in T}
<1>1. \A d \in T : d \in Range(Codes) /\ Score(Dock(d), c) \in 0 .. 100
  BY ScoreFacts DEF Takers
<1>2. PICK x \in A : \A y \in A : x <= y
  <2>1. A \in SUBSET Nat /\ A # {}
    BY <1>1
  <2> HIDE DEF A
  <2> QED
    BY <2>1, LeastNumber
<1> DEFINE B == {Place(d) : d \in {e \in T : lack(e) = x}}
<1>3. PICK p \in B : \A q \in B : p <= q
  <2>1. B \in SUBSET Nat /\ B # {}
    BY <1>1, <1>2, PlaceFacts
  <2> HIDE DEF B
  <2> QED
    BY <2>1, LeastNumber
<1>4. PICK d \in T : lack(d) = x /\ Place(d) = p
  BY <1>3
<1>5. ASSUME NEW e \in T \ {d} PROVE Before(Scored(d, c), Scored(e, c))
  <2>1. x <= lack(e) /\ (lack(e) = x => p <= Place(e))
    BY <1>2, <1>3
  <2>2. Place(d) # Place(e) /\ Place(d) \in Nat /\ Place(e) \in Nat
    BY <1>1, PlaceFacts
  <2>3. Score(Dock(d), c) \in Int /\ Score(Dock(e), c) \in Int
    BY <1>1
  <2> QED
    BY <1>4, <2>1, <2>2, <2>3 DEF Before, Scored
<1>6. Best(c) = CHOOSE b \in T : \A e \in T \ {b} : Before(Scored(b, c), Scored(e, c))
  BY DEF Best, Scored, Takers
<1> HIDE DEF T
<1> QED
  BY <1>5, <1>6 DEF T

(* Two contexts that differ in urgency only. *)
AsLow  == [Asked EXCEPT !.priority = "LOW"]
AsHigh == [Asked EXCEPT !.priority = "HIGH"]

LEMMA PriorityOnly ==
  ASSUME ScoringContext(Asked)
  PROVE  /\ ScoringContext(AsLow) /\ ScoringContext(AsHigh)
         /\ LatenessHalves(AsLow) = 1 /\ LatenessHalves(AsHigh) = 2
         /\ SlotLength(AsLow) = SlotLength(AsHigh) /\ Needed(AsLow) = Needed(AsHigh)
         /\ Neutral(AsLow) = Neutral(AsHigh)
         /\ \A d : /\ Excluded(d, AsLow) = Excluded(d, Asked)
                   /\ Excluded(d, AsHigh) = Excluded(d, Asked)
                   /\ LateMinutes(d, AsLow) = LateMinutes(d, AsHigh)
                   /\ LoadFit(d, AsLow) = LoadFit(d, AsHigh)
                   /\ Covered(d, AsLow) = Covered(d, AsHigh)
<1>1. /\ AsLow.load = Asked.load /\ AsLow.priority = "LOW" /\ AsLow.slot = Asked.slot
      /\ AsLow.appointment = Asked.appointment
      /\ AsHigh.load = Asked.load /\ AsHigh.priority = "HIGH" /\ AsHigh.slot = Asked.slot
      /\ AsHigh.appointment = Asked.appointment
  BY DEF AsLow, AsHigh, Asked, Context
<1> HIDE DEF AsLow, AsHigh
<1>2. ScoringContext(AsLow) /\ ScoringContext(AsHigh)
  BY <1>1 DEF ScoringContext, Priority
<1>3. LatenessHalves(AsLow) = 1 /\ LatenessHalves(AsHigh) = 2
  BY <1>1 DEF LatenessHalves, Urgent
<1>4. SlotLength(AsLow) = SlotLength(AsHigh) /\ Needed(AsLow) = Needed(AsHigh)
      /\ Neutral(AsLow) = Neutral(AsHigh)
  BY <1>1 DEF SlotLength, Needed, Neutral
<1>5. ASSUME NEW d
      PROVE  /\ Excluded(d, AsLow) = Excluded(d, Asked)
             /\ Excluded(d, AsHigh) = Excluded(d, Asked)
             /\ LateMinutes(d, AsLow) = LateMinutes(d, AsHigh)
             /\ LoadFit(d, AsLow) = LoadFit(d, AsHigh)
             /\ Usable(d, AsLow) = Usable(d, AsHigh)
  BY <1>1, <1>4 DEF Excluded, Clashes, NeverFreeInTime, LateMinutes, LoadFit, Usable
<1>6. ASSUME NEW d PROVE Covered(d, AsLow) = Covered(d, AsHigh)
  BY <1>1, <1>4, <1>5 DEF Covered
<1> QED
  BY <1>2, <1>3, <1>4, <1>5, <1>6

(* What urgency takes from a door: the time it is late, once more. *)
LEMMA UrgencyCosts ==
  ASSUME ScoringContext(Asked), NEW d, ScoringDock(d)
  PROVE  LET Q == LateMinutes(d, AsHigh) * Needed(AsHigh)
         IN  /\ Total(d, AsHigh) \in Int /\ Q \in Nat
             /\ Total(d, AsLow) = Total(d, AsHigh) + 15 * Q
<1> DEFINE P == SlotLength(AsHigh) * Needed(AsHigh)
           Q == LateMinutes(d, AsHigh) * Needed(AsHigh)
           R == SlotLength(AsHigh) * Covered(d, AsHigh)
           f == LoadFit(d, AsHigh) + Neutral(AsHigh) + StatusBonus(d)
<1>1. ScoringContext(AsLow) /\ ScoringContext(AsHigh)
  BY PriorityOnly
<1>2. P \in Nat /\ Q \in Nat /\ R \in Nat
  BY <1>1, TotalIs
<1>3. f \in Int
  BY <1>1, LoadFacts, BonusFacts DEF Neutral, WithoutAppointment
<1>4. Total(d, AsHigh) = 2 * P * f + 60 * (P - Q) + 50 * R + 15 * (2 * P - 2 * Q)
  BY <1>1, TotalIs, PriorityOnly
<1>5. Total(d, AsLow) = 2 * P * f + 60 * (P - Q) + 50 * R + 15 * (2 * P - 1 * Q)
  BY <1>1, TotalIs, PriorityOnly
<1> HIDE DEF P, Q, R, f
<1>6. 2 * P * f \in Int
  BY <1>2, <1>3
<1> QED
  BY <1>2, <1>4, <1>5, <1>6 DEF Q

LEMMA UrgencyWins ==
  ASSUME ScoringContext(Asked), \A d \in Range(Codes) : ScoringDock(Dock(d)),
         Takers(Asked) # {}
  PROVE  LET h == Dock(Best(AsHigh))
             l == Dock(Best(AsLow))
         IN  \/ LateMinutes(h, AsHigh) <= LateMinutes(l, AsLow)
             \/ Score(h, AsHigh) = Score(l, AsHigh)
             \/ Score(h, AsLow) = Score(l, AsLow)
<1> DEFINE h == Dock(Best(AsHigh))
           l == Dock(Best(AsLow))
<1>1. ScoringContext(AsLow) /\ ScoringContext(AsHigh)
  BY PriorityOnly
<1>2. Takers(AsLow) = Takers(Asked) /\ Takers(AsHigh) = Takers(Asked)
  BY PriorityOnly DEF Takers
<1>3. /\ Best(AsHigh) \in Takers(Asked) /\ Best(AsLow) \in Takers(Asked)
      /\ \A e \in Takers(Asked) \ {Best(AsHigh)} :
           Before(Scored(Best(AsHigh), AsHigh), Scored(e, AsHigh))
      /\ \A e \in Takers(Asked) \ {Best(AsLow)} :
           Before(Scored(Best(AsLow), AsLow), Scored(e, AsLow))
  BY <1>1, <1>2, BestFacts
<1>4. ScoringDock(h) /\ ScoringDock(l)
  BY <1>3 DEF Takers
<1>5. /\ Score(h, AsHigh) \in Int /\ Score(l, AsHigh) \in Int
      /\ Score(h, AsLow) \in Int /\ Score(l, AsLow) \in Int
  <2> HIDE DEF h, l
  <2> QED
    BY <1>1, <1>4, ScoreFacts
<1>6. /\ LateMinutes(h, AsLow) = LateMinutes(h, AsHigh)
      /\ LateMinutes(l, AsLow) = LateMinutes(l, AsHigh)
  BY PriorityOnly
<1>7. LateMinutes(h, AsHigh) \in Nat /\ LateMinutes(l, AsHigh) \in Nat
  <2> HIDE DEF h, l
  <2> QED
    BY <1>1, <1>4, LateFacts, ContextFacts
<1>8. CASE Best(AsHigh) = Best(AsLow)
  BY <1>6, <1>7, <1>8
<1>9. CASE Best(AsHigh) # Best(AsLow)
  <2>1. Score(h, AsHigh) >= Score(l, AsHigh) /\ Score(l, AsLow) >= Score(h, AsLow)
    BY <1>3, <1>5, <1>9 DEF Before, Scored
  <2> DEFINE n  == Needed(AsHigh)
             zh == LateMinutes(h, AsHigh)
             zl == LateMinutes(l, AsHigh)
  <2> SUFFICES ASSUME Score(h, AsHigh) # Score(l, AsHigh), Score(h, AsLow) # Score(l, AsLow)
               PROVE  zh <= zl
    BY <1>6
  <2> HIDE DEF h, l
  <2>2. /\ Total(h, AsHigh) \in Int /\ Total(l, AsHigh) \in Int
        /\ zh * n \in Nat /\ zl * n \in Nat
        /\ Total(h, AsLow) = Total(h, AsHigh) + 15 * (zh * n)
        /\ Total(l, AsLow) = Total(l, AsHigh) + 15 * (zl * n)
    BY <1>4, UrgencyCosts
  <2>3. ~ (Score(h, AsHigh) <= Score(l, AsHigh)) /\ ~ (Score(l, AsLow) <= Score(h, AsLow))
    BY <1>5, <2>1
  <2>4. ~ (Total(h, AsHigh) <= Total(l, AsHigh))
    BY <1>1, <1>4, <2>3, ScoreGrows
  <2>5. ~ (Total(l, AsLow) <= Total(h, AsLow))
    BY <1>1, <1>4, <2>3, ScoreGrows
  <2>6. zh \in Nat /\ zl \in Nat /\ n \in Nat \ {0}
    BY <1>1, <1>7, ContextFacts
  <2> HIDE DEF zh, zl, n
  <2>7. zh * n < zl * n
    BY <2>2, <2>4, <2>5
  <2>8. zl <= zh => zl * n <= zh * n
    BY <2>6, Times
  <2> QED
    BY <2>2, <2>6, <2>7, <2>8
<1> QED
  BY <1>8, <1>9
-----------------------------------------------------------------------------
(* A request under way *)

(* The doors that have been scored or excluded are the first ones. *)
Taken == Len(Codes) - Len(todo)
Seen  == {Codes[k] : k \in 1 .. Taken}

Remaining ==
  /\ todo \in Seq(STRING)
  /\ Len(todo) <= Len(Codes)
  /\ \A k \in 1 .. Len(todo) : todo[k] = Codes[Taken + k]

Distinct(s) == \A i, j \in DOMAIN s : s[i].code = s[j].code => i = j

(* Each list holds the doors that belong in it, and nothing twice. *)
Sorting ==
  /\ truck \in Truck /\ yard \in Yards
  /\ Remaining
  /\ ranked \in Seq(Entry) /\ Distinct(ranked)
  /\ {r.code : r \in Range(ranked)} = {d \in Seen : ~Excluded(Dock(d), Asked)}
  /\ \A r \in Range(ranked) : r.score = Score(Dock(r.code), Asked)
  /\ excluded \in Seq(Range(Codes))
  /\ Range(excluded) = {d \in Seen : Excluded(Dock(d), Asked)}
  /\ Len(ranked) + Len(excluded) = Taken

Idle == todo = <<>> /\ ranked = <<>> /\ excluded = <<>> /\ ~sorted

(* The inductive invariant: between requests nothing is kept. *)
RequestInv ==
  /\ sorted \in BOOLEAN /\ (sorted => truck # Nil /\ todo = <<>>)
  /\ truck = Nil => Idle
  /\ truck # Nil => Sorting
LEMMA CodesFacts ==
  /\ Len(Codes) \in Nat /\ DOMAIN Codes = 1 .. Len(Codes)
  /\ \A k \in 1 .. Len(Codes) : Codes[k] \in Range(Codes) /\ Codes[k] \in STRING
  /\ \A j, k \in 1 .. Len(Codes) : Codes[j] = Codes[k] => j = k
<1>1. Len(Codes) \in Nat /\ DOMAIN Codes = 1 .. Len(Codes)
  BY RecommendAssumption, LenProperties
<1> QED
  BY <1>1, RecommendAssumption, ElementOfSeq DEF Range

(* What RecommendAssumption says of the request at hand. *)
LEMMA AskedFacts ==
  ASSUME truck \in Truck, yard \in Yards
  PROVE  /\ ScoringContext(Asked)
         /\ \A d \in Range(Codes) : ScoringDock(Dock(d))
<1>1. Range(Codes) = {Codes[i] : i \in DOMAIN Codes}
  BY DEF Range
<1> QED
  BY <1>1, RecommendAssumption DEF Asked, Dock

LEMMA AppendRange ==
  ASSUME NEW S, NEW s \in Seq(S), NEW e \in S
  PROVE  /\ Append(s, e) \in Seq(S) /\ Len(Append(s, e)) = Len(s) + 1
         /\ Range(Append(s, e)) = Range(s) \cup {e}
         /\ DOMAIN s = 1 .. Len(s) /\ DOMAIN Append(s, e) = 1 .. (Len(s) + 1)
         /\ \A i \in 1 .. Len(s) : Append(s, e)[i] = s[i] /\ s[i] \in S
         /\ Append(s, e)[Len(s) + 1] = e
<1>1. /\ Append(s, e) \in Seq(S) /\ Len(Append(s, e)) = Len(s) + 1
      /\ \A i \in 1 .. Len(s) : Append(s, e)[i] = s[i]
      /\ Append(s, e)[Len(s) + 1] = e
  BY AppendProperties
<1>2. /\ Len(s) \in Nat /\ DOMAIN s = 1 .. Len(s)
      /\ DOMAIN Append(s, e) = 1 .. (Len(s) + 1)
  BY <1>1, LenProperties
<1>3. \A i \in 1 .. Len(s) : s[i] \in S
  BY ElementOfSeq
<1>4. Range(Append(s, e)) = Range(s) \cup {e}
  BY <1>1, <1>2 DEF Range
<1> QED
  BY <1>1, <1>2, <1>3, <1>4

(* The next door, and what has been seen once it is taken. *)
LEMMA NextDoor ==
  ASSUME Remaining, todo # <<>>, todo' = Tail(todo)
  PROVE  /\ Remaining' /\ Taken' = Taken + 1 /\ Taken \in Nat
         /\ Seen' = Seen \cup {Head(todo)}
         /\ Head(todo) \in Range(Codes) /\ Head(todo) \notin Seen
         /\ Seen \subseteq Range(Codes)
<1>1. Len(todo) \in Nat \ {0} /\ Len(Codes) \in Nat /\ Taken \in Nat
  BY EmptySeq, CodesFacts DEF Remaining, Taken
<1>2. Head(todo) = todo[1] /\ Head(todo) = Codes[Taken + 1]
  BY <1>1, HeadTailProperties DEF Remaining
<1>3. /\ todo' \in Seq(STRING) /\ Len(todo') = Len(todo) - 1
      /\ \A k \in 1 .. Len(todo') : todo'[k] = todo[k + 1]
  BY <1>1, HeadTailProperties DEF Remaining
<1>4. Taken' = Taken + 1
  BY <1>1, <1>3 DEF Taken
<1>5. Remaining'
  <2>1. ASSUME NEW k \in 1 .. Len(todo') PROVE todo'[k] = Codes[Taken' + k]
    <3>1. k + 1 \in 1 .. Len(todo) /\ Taken + (k + 1) = Taken' + k
      BY <1>1, <1>3, <1>4
    <3> QED
      BY <1>3, <3>1 DEF Remaining
  <2> QED
    BY <1>1, <1>3, <2>1 DEF Remaining
<1>6. Seen' = Seen \cup {Head(todo)}
  <2>1. 1 .. (Taken + 1) = (1 .. Taken) \cup {Taken + 1}
    BY <1>1
  <2> QED
    BY <1>2, <1>4, <2>1 DEF Seen
<1>7. Taken + 1 \in 1 .. Len(Codes)
  BY <1>1 DEF Taken
<1>8. Head(todo) \notin Seen
  BY <1>1, <1>2, <1>7, CodesFacts DEF Seen
<1>9. Seen \subseteq Range(Codes) /\ Head(todo) \in Range(Codes)
  BY <1>1, <1>2, <1>7, CodesFacts DEF Seen
<1> QED
  BY <1>1, <1>4, <1>5, <1>6, <1>8, <1>9

LEMMA RequestStart == Init => RequestInv
BY DEF Init, RequestInv, Idle

LEMMA AskKeeps ==
  ASSUME RequestInv, Ask
  PROVE  RequestInv'
<1>1. truck' \in Truck /\ yard' \in Yards /\ truck' # Nil
  BY RecommendAssumption DEF Ask
<1>2. /\ todo' = Codes /\ ranked' = <<>> /\ excluded' = <<>> /\ sorted' = FALSE
  BY DEF Ask, RequestInv, Idle
<1>3. Taken' = 0 /\ Remaining'
  BY <1>2, CodesFacts, RecommendAssumption DEF Taken, Remaining
<1>4. Seen' = {}
  BY <1>3 DEF Seen
<1>5. Range(<<>>) = {} /\ Len(<<>>) = 0 /\ Distinct(<<>>)
  BY DEF Range, Distinct
<1>6. <<>> \in Seq(Entry) /\ <<>> \in Seq(Range(Codes))
  BY EmptySeq
<1>7. Sorting'
  BY <1>1, <1>2, <1>3, <1>4, <1>5, <1>6 DEF Sorting
<1> QED
  BY <1>1, <1>2, <1>7 DEF RequestInv

LEMMA ExcludeKeeps ==
  ASSUME RequestInv, Exclude
  PROVE  RequestInv'
<1>1. truck # Nil /\ Sorting /\ todo # <<>> /\ sorted = FALSE
  BY DEF RequestInv, Idle, Exclude
<1>2. /\ truck' = truck /\ yard' = yard /\ ranked' = ranked /\ sorted' = sorted
      /\ Excluded(Dock(Head(todo)), Asked) /\ todo' = Tail(todo)
      /\ excluded' = Append(excluded, Head(todo))
  BY DEF Exclude
<1>3. Asked' = Asked /\ \A d : Dock(d)' = Dock(d)
  BY <1>2 DEF Asked, Dock
<1>4. /\ Remaining' /\ Taken' = Taken + 1 /\ Taken \in Nat
      /\ Seen' = Seen \cup {Head(todo)}
      /\ Head(todo) \in Range(Codes)
  BY <1>1, <1>2, NextDoor DEF Sorting
<1>5. /\ excluded' \in Seq(Range(Codes)) /\ Range(excluded') = Range(excluded) \cup {Head(todo)}
      /\ Len(excluded') = Len(excluded) + 1
  BY <1>1, <1>2, <1>4, AppendRange DEF Sorting
<1>6. Len(ranked) \in Nat /\ Len(excluded) \in Nat
  BY <1>1, LenProperties DEF Sorting
<1>7. {r.code : r \in Range(ranked)} = {d \in Seen' : ~Excluded(Dock(d), Asked)}
  BY <1>1, <1>2, <1>4 DEF Sorting
<1>8. Range(excluded') = {d \in Seen' : Excluded(Dock(d), Asked)}
  BY <1>1, <1>2, <1>4, <1>5 DEF Sorting
<1>9. Len(ranked) + Len(excluded') = Taken'
  BY <1>1, <1>4, <1>5, <1>6 DEF Sorting
<1>10. Sorting'
  BY <1>1, <1>2, <1>3, <1>4, <1>5, <1>7, <1>8, <1>9 DEF Sorting, Distinct
<1> QED
  BY <1>1, <1>2, <1>10 DEF RequestInv

LEMMA RecommendedKeeps ==
  ASSUME RequestInv, Recommended
  PROVE  RequestInv'
<1> DEFINE e == Scored(Head(todo), Asked)
<1>1. truck # Nil /\ Sorting /\ todo # <<>> /\ sorted = FALSE
  BY DEF RequestInv, Idle, Recommended
<1>2. /\ truck' = truck /\ yard' = yard /\ excluded' = excluded /\ sorted' = sorted
      /\ ~Excluded(Dock(Head(todo)), Asked) /\ todo' = Tail(todo)
      /\ ranked' = Append(ranked, e)
  BY DEF Recommended, Scored
<1>3. Asked' = Asked /\ \A d : Dock(d)' = Dock(d)
  BY <1>2 DEF Asked, Dock
<1>4. /\ Remaining' /\ Taken' = Taken + 1 /\ Taken \in Nat
      /\ Seen' = Seen \cup {Head(todo)}
      /\ Head(todo) \in Range(Codes) /\ Head(todo) \notin Seen
  BY <1>1, <1>2, NextDoor DEF Sorting
<1>5. e \in Entry /\ e.code = Head(todo) /\ e.score = Score(Dock(Head(todo)), Asked)
  <2>1. ScoringContext(Asked) /\ ScoringDock(Dock(Head(todo)))
    BY <1>1, <1>4, AskedFacts DEF Sorting
  <2>2. Score(Dock(Head(todo)), Asked) \in Int
    BY <2>1, ScoreFacts
  <2> QED
    BY <1>4, <2>2 DEF Entry, Scored
<1> HIDE DEF e
<1>6. /\ ranked' \in Seq(Entry) /\ Range(ranked') = Range(ranked) \cup {e}
      /\ Len(ranked') = Len(ranked) + 1
      /\ DOMAIN ranked = 1 .. Len(ranked) /\ DOMAIN ranked' = 1 .. (Len(ranked) + 1)
      /\ \A i \in 1 .. Len(ranked) : ranked'[i] = ranked[i]
      /\ ranked'[Len(ranked) + 1] = e
  BY <1>1, <1>2, <1>5, AppendRange DEF Sorting
<1>7. Len(ranked) \in Nat /\ Len(excluded) \in Nat
  BY <1>1, LenProperties DEF Sorting
<1>8. {r.code : r \in Range(ranked')} = {d \in Seen' : ~Excluded(Dock(d), Asked)}
  <2>1. {r.code : r \in Range(ranked')} = {r.code : r \in Range(ranked)} \cup {Head(todo)}
    BY <1>5, <1>6
  <2> QED
    BY <1>1, <1>2, <1>4, <2>1 DEF Sorting
<1>9. Range(excluded) = {d \in Seen' : Excluded(Dock(d), Asked)}
  BY <1>1, <1>2, <1>4 DEF Sorting
<1>10. \A r \in Range(ranked') : r.score = Score(Dock(r.code), Asked)
  BY <1>1, <1>5, <1>6 DEF Sorting
<1>11. Distinct(ranked')
  <2>1. \A i \in 1 .. Len(ranked) : ranked[i].code # Head(todo)
    <3>1. ASSUME NEW i \in 1 .. Len(ranked) PROVE ranked[i].code \in Seen
      <4>1. ranked[i] \in Range(ranked)
        BY <1>6, <3>1 DEF Range
      <4> QED
        BY <1>1, <4>1 DEF Sorting
    <3> QED
      BY <1>4, <3>1
  <2> QED
    BY <1>1, <1>5, <1>6, <1>7, <2>1 DEF Sorting, Distinct
<1>12. Len(ranked') + Len(excluded) = Taken'
  BY <1>1, <1>4, <1>6, <1>7 DEF Sorting
<1>13. Sorting'
  BY <1>1, <1>2, <1>3, <1>4, <1>6, <1>8, <1>9, <1>10, <1>11, <1>12 DEF Sorting
<1> QED
  BY <1>1, <1>2, <1>13 DEF RequestInv

(* Sorting leaves the same recommendations, now in order. *)
LEMMA SortKeeps ==
  ASSUME RequestInv, Sort
  PROVE  /\ RequestInv'
         /\ \A i, j \in DOMAIN ranked' : i < j => Before(ranked'[i], ranked'[j])
<1>1. truck # Nil /\ Sorting /\ todo = <<>>
  BY DEF RequestInv, Sort
<1>2. /\ truck' = truck /\ yard' = yard /\ todo' = todo /\ excluded' = excluded
      /\ sorted' = TRUE /\ ranked' = [i \in DOMAIN ranked |-> Ranked(i)]
  BY DEF Sort
<1>3. Asked' = Asked /\ (\A d : Dock(d)' = Dock(d)) /\ Taken' = Taken /\ Seen' = Seen
  BY <1>2 DEF Asked, Dock, Taken, Seen
<1>4. /\ \A i \in DOMAIN ranked : Ranked(i) \in Range(ranked)
      /\ \A r \in Range(ranked) : \E i \in DOMAIN ranked : Ranked(i) = r
      /\ \A i, j \in DOMAIN ranked : i < j => Before(Ranked(i), Ranked(j))
  BY <1>1, SortRanks DEF Sorting, Distinct
<1>5. /\ Len(ranked) \in Nat /\ DOMAIN ranked = 1 .. Len(ranked)
      /\ ranked \in [1 .. Len(ranked) -> Entry]
  BY <1>1, LenProperties DEF Sorting
<1>6. Range(ranked') = Range(ranked)
  BY <1>2, <1>4 DEF Range
<1>7. Range(ranked) \subseteq Entry
  BY <1>5 DEF Range
<1>8. /\ DOMAIN ranked' = 1 .. Len(ranked) /\ \A i \in 1 .. Len(ranked) : ranked'[i] = Ranked(i)
  BY <1>2, <1>5
<1>9. ranked' \in Seq(Entry) /\ Len(ranked') = Len(ranked)
  <2>1. \A i \in 1 .. Len(ranked) : Ranked(i) \in Entry
    BY <1>4, <1>5, <1>7
  <2>2. ranked' \in [1 .. Len(ranked) -> Entry]
    BY <1>2, <1>5, <2>1
  <2> QED
    BY <1>5, <2>2, SeqDef, LenProperties
<1>10. \A i, j \in DOMAIN ranked' : i < j => Before(ranked'[i], ranked'[j])
  BY <1>4, <1>5, <1>8
<1>11. Distinct(ranked')
  <2>1. ASSUME NEW i \in DOMAIN ranked', NEW j \in DOMAIN ranked', i < j
        PROVE  ranked'[i].code # ranked'[j].code
    <3>1. /\ ranked'[i] \in Range(ranked) /\ ranked'[j] \in Range(ranked)
          /\ Before(ranked'[i], ranked'[j])
      BY <1>4, <1>5, <1>8, <1>10, <2>1
    <3>2. ranked'[i] # ranked'[j]
      BY <1>7, <3>1, BeforeOrders
    <3>3. \A p, q \in Range(ranked) : p.code = q.code => p = q
      BY <1>1 DEF Sorting, Distinct, Range
    <3> QED
      BY <3>1, <3>2, <3>3
  <2>2. \A i, j \in DOMAIN ranked' : i \in Int /\ j \in Int
    BY <1>8
  <2> QED
    BY <2>1, <2>2 DEF Distinct
<1>12. Remaining'
  BY <1>1, <1>2, <1>3 DEF Sorting, Remaining
<1>13. Sorting'
  BY <1>1, <1>2, <1>3, <1>6, <1>9, <1>11, <1>12 DEF Sorting
<1> QED
  BY <1>1, <1>2, <1>10, <1>13 DEF RequestInv

LEMMA RequestStep == RequestInv /\ [Next]_vars => RequestInv'
<1> SUFFICES ASSUME RequestInv, [Next]_vars PROVE RequestInv'
  OBVIOUS
<1>1. CASE Ask
  BY <1>1, AskKeeps
<1>2. CASE Exclude
  BY <1>2, ExcludeKeeps
<1>3. CASE Recommended
  BY <1>3, RecommendedKeeps
<1>4. CASE Sort
  BY <1>4, SortKeeps
<1>5. CASE Answer
  BY <1>5 DEF Answer, RequestInv, Idle
<1>6. CASE UNCHANGED vars
  <2>1. /\ truck' = truck /\ yard' = yard /\ todo' = todo
        /\ ranked' = ranked /\ excluded' = excluded /\ sorted' = sorted
    BY <1>6 DEF vars
  <2>2. Asked' = Asked /\ (\A d : Dock(d)' = Dock(d)) /\ Taken' = Taken /\ Seen' = Seen
    BY <2>1 DEF Asked, Dock, Taken, Seen
  <2>3. Remaining => Remaining'
    BY <2>1, <2>2 DEF Remaining
  <2>4. Sorting => Sorting'
    BY <2>1, <2>2, <2>3 DEF Sorting
  <2> QED
    BY <2>1, <2>4 DEF RequestInv, Idle
<1> QED
  BY <1>1, <1>2, <1>3, <1>4, <1>5, <1>6 DEF Next

LEMMA RequestsAreKept == Spec => []RequestInv
<1> QED
  BY RequestStart, RequestStep, PTL DEF Spec
-----------------------------------------------------------------------------
(* What the answer says *)

LEMMA SeenFacts ==
  ASSUME RequestInv, truck # Nil
  PROVE  /\ Seen \subseteq Range(Codes)
         /\ todo = <<>> => Seen = Range(Codes) /\ Taken = Len(Codes)
<1>1. Sorting
  BY DEF RequestInv
<1>2. Len(todo) \in Nat /\ Len(todo) <= Len(Codes) /\ Len(Codes) \in Nat
  BY <1>1, LenProperties, CodesFacts DEF Sorting, Remaining
<1>3. Taken \in 0 .. Len(Codes) /\ (todo = <<>> => Taken = Len(Codes))
  BY <1>2 DEF Taken
<1>4. Range(Codes) = {Codes[k] : k \in 1 .. Len(Codes)}
  BY CodesFacts DEF Range
<1>5. Seen \subseteq Range(Codes)
  <2>1. 1 .. Taken \subseteq 1 .. Len(Codes)
    BY <1>2, <1>3
  <2> QED
    BY <1>4, <2>1 DEF Seen
<1> QED
  BY <1>3, <1>4, <1>5 DEF Seen

(* Everything that is recommended is a door that can be scored, scored. *)
LEMMA RankedFacts ==
  ASSUME RequestInv, NEW r \in Range(ranked)
  PROVE  /\ truck # Nil /\ ScoringContext(Asked)
         /\ r.code \in Range(Codes) /\ ScoringDock(Dock(r.code))
         /\ ~Excluded(Dock(r.code), Asked) /\ r.score = Score(Dock(r.code), Asked)
<1>1. truck # Nil
  BY DEF RequestInv, Idle, Range
<1>2. Sorting /\ Seen \subseteq Range(Codes)
  BY <1>1, SeenFacts DEF RequestInv
<1>3. r.code \in Seen /\ ~Excluded(Dock(r.code), Asked) /\ r.score = Score(Dock(r.code), Asked)
  BY <1>2 DEF Sorting
<1> QED
  BY <1>1, <1>2, <1>3, AskedFacts DEF Sorting

(* Two windows overlap exactly when they have a minute in common. *)
LEMMA OverlapIsAMinute ==
  ASSUME NEW a \in Window, NEW b \in Window
  PROVE  Overlaps(a, b) <=> Minutes(a) \cap Minutes(b) # {}
<1>1. /\ a.start \in Nat /\ a.end \in Nat /\ a.start < a.end
      /\ b.start \in Nat /\ b.end \in Nat /\ b.start < b.end
  BY DEF Window
<1>2. ASSUME Overlaps(a, b) PROVE Minutes(a) \cap Minutes(b) # {}
  <2>1. Most(a.start, b.start) \in Minutes(a) \cap Minutes(b)
    BY <1>1, <1>2 DEF Overlaps, Minutes, Most
  <2> QED
    BY <2>1
<1>3. ASSUME NEW m \in Minutes(a) \cap Minutes(b) PROVE Overlaps(a, b)
  BY <1>1, <1>3 DEF Overlaps, Minutes
<1> QED
  BY <1>2, <1>3

(* The hard filter lets in what the minute-by-minute reference lets in. *)
LEMMA FilterIsCanTake ==
  ASSUME truck \in Truck, yard \in Yards, NEW d \in Range(Codes)
  PROVE  CanTake(d) <=> ~Excluded(Dock(d), Asked)
<1> DEFINE row    == yard[d]
           slot   == SlotFor(truck)
           mine   == {b \in row.booked : b.truck = truck.id}
           others == {b \in row.booked : b.truck # truck.id}
           free   == Dock(d).free
<1>1. /\ Asked.slot = slot /\ slot \in Window
      /\ slot.start \in Nat /\ slot.end \in Nat /\ slot.start < slot.end
  BY AskedFacts DEF Asked, Context, ScoringContext, Window
<1>2. /\ Dock(d).status = row.status /\ Dock(d).loads = row.loads
      /\ Dock(d).booked = {b.slot : b \in others}
      /\ free = IF {b.truck : b \in row.booked} = {truck.id} THEN NoTime ELSE row.availableFrom
  BY DEF Dock, ToScoringDock
<1>3. \A b \in others : b.slot \in Window
  BY <1>2, AskedFacts DEF ScoringDock
<1>4. free \in Nat
  BY AskedFacts DEF ScoringDock
<1>5. {b.truck : b \in row.booked} = {truck.id} <=> mine # {} /\ mine = row.booked
  OBVIOUS
<1>6. row.booked \ mine = others
  OBVIOUS
<1>7. Clashes(Dock(d), Asked) <=> \E b \in others : Minutes(b.slot) \cap Minutes(slot) # {}
  <2>1. Clashes(Dock(d), Asked) <=> \E b \in others : Overlaps(b.slot, slot)
    BY <1>1, <1>2 DEF Clashes
  <2>2. \A b \in others : Overlaps(b.slot, slot) <=> Minutes(b.slot) \cap Minutes(slot) # {}
    BY <1>1, <1>3, OverlapIsAMinute
  <2> QED
    BY <2>1, <2>2
<1>8. NeverFreeInTime(Dock(d), Asked)
        <=> ~ (\/ mine # {} /\ mine = row.booked
               \/ \E m \in Minutes(slot) : m >= row.availableFrom)
  <2>1. NeverFreeInTime(Dock(d), Asked) <=> free # 0 /\ free >= slot.end
    BY <1>1 DEF NeverFreeInTime, NoTime
  <2>2. CASE mine # {} /\ mine = row.booked
    BY <1>2, <1>5, <2>1, <2>2 DEF NoTime
  <2>3. CASE ~ (mine # {} /\ mine = row.booked)
    <3>1. free = row.availableFrom
      BY <1>2, <1>5, <2>3
    <3>2. (\E m \in Minutes(slot) : m >= row.availableFrom) <=> row.availableFrom < slot.end
      <4>1. slot.end - 1 \in Minutes(slot)
        BY <1>1 DEF Minutes
      <4>2. \A m \in Minutes(slot) : m \in Int /\ m < slot.end
        BY <1>1 DEF Minutes
      <4> HIDE DEF slot
      <4> QED
        BY <1>1, <1>4, <3>1, <4>1, <4>2
    <3> HIDE DEF slot, mine, free
    <3> QED
      BY <1>1, <1>4, <2>1, <2>3, <3>1, <3>2
  <2> QED
    BY <2>2, <2>3
<1>9. CanTake(d) <=> /\ row.status # "UNAVAILABLE" /\ Asked.load \in row.loads
                     /\ ~Clashes(Dock(d), Asked) /\ ~NeverFreeInTime(Dock(d), Asked)
  <2>1. CanTake(d) <=> /\ row.status # "UNAVAILABLE" /\ Asked.load \in row.loads
                       /\ \A b \in row.booked \ mine : Minutes(b.slot) \cap Minutes(slot) = {}
                       /\ \/ mine # {} /\ mine = row.booked
                          \/ \E m \in Minutes(slot) : m >= row.availableFrom
    BY DEF CanTake
  <2> HIDE DEF slot, mine, others, row
  <2> QED
    BY <1>6, <1>7, <1>8, <2>1
<1> QED
  BY <1>2, <1>9 DEF Excluded

(* Whatever the doors and the truck, every score is a percentage, and only *)
(* a door that is free has all of it (scoreDocks).                         *)
THEOREM ScoresArePercentages == Spec => []ScoreIsPercentage
<1>1. RequestInv => ScoreIsPercentage
  <2> SUFFICES ASSUME RequestInv, NEW r \in Range(ranked)
               PROVE  r.score \in 0 .. 100 /\ (r.score = 100 => yard[r.code].status = "AVAILABLE")
    BY DEF ScoreIsPercentage
  <2>1. /\ ScoringContext(Asked) /\ ScoringDock(Dock(r.code))
        /\ r.score = Score(Dock(r.code), Asked)
    BY RankedFacts
  <2>2. Dock(r.code).status = yard[r.code].status
    BY DEF Dock, ToScoringDock
  <2> QED
    BY <2>1, <2>2, ScoreFacts
<1> QED
  BY <1>1, RequestsAreKept, PTL

(* Whatever the doors and the truck, a door that is free earlier than one  *)
(* that is otherwise the same scores no less.                              *)
THEOREM EarlierIsNoWorse == Spec => []SoonerIsNoWorse
<1>1. RequestInv => SoonerIsNoWorse
  <2> SUFFICES ASSUME RequestInv, NEW r \in Range(ranked), NEW q \in Range(ranked),
                      Alike(Dock(r.code), Dock(q.code)), Dock(r.code).free <= Dock(q.code).free
               PROVE  r.score >= q.score
    BY DEF SoonerIsNoWorse
  <2>1. /\ ScoringContext(Asked) /\ ScoringDock(Dock(r.code)) /\ ScoringDock(Dock(q.code))
        /\ r.score = Score(Dock(r.code), Asked) /\ q.score = Score(Dock(q.code), Asked)
    BY RankedFacts
  <2> QED
    BY <2>1, SoonerScores
<1> QED
  BY <1>1, RequestsAreKept, PTL

(* Whatever the doors and the truck, urgency never makes the best door one *)
(* that keeps the truck waiting longer, but for a tie that rounding makes. *)
THEOREM UrgencyIsNoSlower == Spec => []UrgentWaitsNoLonger
<1>1. RequestInv => UrgentWaitsNoLonger
  <2> SUFFICES ASSUME RequestInv, sorted, ranked # <<>> PROVE UrgentWaitsNoLonger
    BY DEF UrgentWaitsNoLonger
  <2>1. truck # Nil /\ Sorting
    BY DEF RequestInv
  <2>2. ranked[1] \in Range(ranked)
    BY <2>1, EmptySeq, LenProperties DEF Sorting, Range
  <2>3. Takers(Asked) # {}
    BY <2>2, RankedFacts DEF Takers
  <2>4. ScoringContext(Asked) /\ \A d \in Range(Codes) : ScoringDock(Dock(d))
    BY <2>1, AskedFacts DEF Sorting
  <2> QED
    BY <2>3, <2>4, UrgencyWins DEF UrgentWaitsNoLonger, AsLow, AsHigh
<1> QED
  BY <1>1, RequestsAreKept, PTL

(* Whatever the doors and the truck, an answer recommends the doors that   *)
(* the minute-by-minute reference lets in, excludes the others, and names  *)
(* each door once.                                                         *)
THEOREM AnswerIsComplete == Spec => []RanksThoseThatCanTake
<1>1. RequestInv => RanksThoseThatCanTake
  <2> SUFFICES ASSUME RequestInv, sorted PROVE RanksThoseThatCanTake
    BY DEF RanksThoseThatCanTake
  <2>1. truck # Nil /\ todo = <<>> /\ Sorting
    BY DEF RequestInv
  <2>2. Seen = Range(Codes) /\ Taken = Len(Codes)
    BY <2>1, SeenFacts
  <2>3. \A d \in Range(Codes) : CanTake(d) <=> ~Excluded(Dock(d), Asked)
    BY <2>1, FilterIsCanTake DEF Sorting
  <2>4. {r.code : r \in Range(ranked)} = {d \in Range(Codes) : CanTake(d)}
    BY <2>1, <2>2, <2>3 DEF Sorting
  <2>5. Range(excluded) = {d \in Range(Codes) : ~CanTake(d)}
    BY <2>1, <2>2, <2>3 DEF Sorting
  <2>6. Len(ranked) + Len(excluded) = Len(Codes)
    BY <2>1, <2>2 DEF Sorting
  <2> QED
    BY <2>4, <2>5, <2>6 DEF RanksThoseThatCanTake
<1> QED
  BY <1>1, RequestsAreKept, PTL

(* Every recommendation of an answer comes before the ones below it, by    *)
(* score and then by code (the sort at the end of scoreDocks).              *)
RankedInOrder ==
  sorted => \A i, j \in DOMAIN ranked : i < j => Before(ranked[i], ranked[j])

THEOREM AnswerIsInOrder == Spec => []RankedInOrder
<1>1. Init => RankedInOrder
  BY DEF Init, RankedInOrder
<1>2. RequestInv /\ RankedInOrder /\ [Next]_vars => RankedInOrder'
  <2> SUFFICES ASSUME RequestInv, RankedInOrder, [Next]_vars PROVE RankedInOrder'
    OBVIOUS
  <2>1. CASE Sort
    <3>1. \A i, j \in DOMAIN ranked' : i < j => Before(ranked'[i], ranked'[j])
      BY <2>1, SortKeeps
    <3> QED
      BY <3>1 DEF RankedInOrder, Before, Place
  <2>2. CASE Ask
    BY <2>2 DEF Ask, RequestInv, Idle, RankedInOrder
  <2>3. CASE Exclude
    BY <2>3 DEF Exclude, RequestInv, RankedInOrder
  <2>4. CASE Recommended
    BY <2>4 DEF Recommended, RequestInv, RankedInOrder
  <2>5. CASE Answer
    BY <2>5 DEF Answer, RankedInOrder
  <2>6. CASE UNCHANGED vars
    BY <2>6 DEF vars, RankedInOrder, Before, Place
  <2> QED
    BY <2>1, <2>2, <2>3, <2>4, <2>5, <2>6 DEF Next
<1> QED
  BY <1>1, <1>2, RequestsAreKept, PTL DEF Spec
=============================================================================
