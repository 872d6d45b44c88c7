----------------------------- MODULE Recommend ------------------------------
(***************************************************************************)
(* recommendDocks (dock-assignment-service.ts): a truck is looked up with  *)
(* its shipment and every door with its committed rows, the slot it needs  *)
(* is worked out, each door is scored or excluded in turn, and the two     *)
(* lists are sorted.  Nothing is written: the yard is what it was.         *)
(***************************************************************************)
EXTENDS DockScoring, Functions

CONSTANTS Codes,            \* dock codes, in their order
          Truck,            \* the trucks that may be asked about
          Yards,            \* the tables of doors that may be read
          DefaultDuration,  \* DOCK_DEFAULT_DURATION_MINUTES
          Now               \* the time of the request

VARIABLES truck,     \* the truck that is asked about; Nil between requests
          yard,      \* the doors as loadContext read them; Nil between requests
          todo,      \* codes still to be scored
          ranked,    \* recommendations: code and score
          excluded,  \* codes that cannot take the truck
          sorted     \* whether the lists are in their final order

vars == <<truck, yard, todo, ranked, excluded, sorted>>

-----------------------------------------------------------------------------
(* What is read *)

(* The slot starts when the truck is there and its booked window is open. *)
SlotFor(t) ==
  LET a       == IF t.shipment = Nil THEN Nil ELSE t.shipment.appointment
      arrival == IF t.eta = NoTime THEN Now ELSE t.eta
      start   == IF a = Nil THEN arrival ELSE Most(arrival, a.start)
  IN  [start |-> start,
       end   |-> start + (IF a = Nil THEN DefaultDuration ELSE a.minutes)]

Context(t) ==
  [load        |-> IF t.shipment = Nil THEN "GENERAL" ELSE t.shipment.load,
   priority    |-> IF t.shipment = Nil THEN "MEDIUM" ELSE t.shipment.priority,
   appointment |-> IF t.shipment = Nil THEN Nil ELSE t.shipment.appointment,
   slot        |-> SlotFor(t)]

(* A truck's own booking does not count against it, unless the door is     *)
(* another truck's as well.                                                *)
ToScoringDock(row, id) ==
  LET holders == {b.truck : b \in row.booked}
  IN  [status |-> row.status, loads |-> row.loads,
       free   |-> IF holders = {id} THEN NoTime ELSE row.availableFrom,
       booked |-> {b.slot : b \in {x \in row.booked : x.truck # id}}]

ASSUME RecommendAssumption ==
  /\ DefaultDuration \in Nat \ {0}
  /\ Now \in Nat \ {NoTime}
  /\ Codes \in Seq(STRING)
  /\ \A i, j \in DOMAIN Codes : Codes[i] = Codes[j] => i = j
  /\ Nil \notin Truck
  /\ \A t \in Truck : ScoringContext(Context(t))
  /\ \A y \in Yards : /\ DOMAIN y = {Codes[i] : i \in DOMAIN Codes}
                      /\ \A d \in DOMAIN y, t \in Truck : ScoringDock(ToScoringDock(y[d], t.id))

Dock(d) == ToScoringDock(yard[d], truck.id)
Asked   == Context(truck)

-----------------------------------------------------------------------------
(* scoreDocks *)

Init == /\ truck = Nil /\ yard = Nil
        /\ todo = <<>> /\ ranked = <<>> /\ excluded = <<>>
        /\ sorted = FALSE

Ask ==
  /\ truck = Nil
  /\ \E t \in Truck, y \in Yards : truck' = t /\ yard' = y
  /\ todo' = Codes
  /\ UNCHANGED <<ranked, excluded, sorted>>

Exclude ==
  /\ todo # <<>> /\ Excluded(Dock(Head(todo)), Asked)
  /\ excluded' = Append(excluded, Head(todo))
  /\ todo' = Tail(todo)
  /\ UNCHANGED <<truck, yard, ranked, sorted>>

Recommended ==
  /\ todo # <<>> /\ ~Excluded(Dock(Head(todo)), Asked)
  /\ ranked' = Append(ranked, [code  |-> Head(todo),
                               score |-> Score(Dock(Head(todo)), Asked)])
  /\ todo' = Tail(todo)
  /\ UNCHANGED <<truck, yard, excluded, sorted>>

Place(code) == CHOOSE i \in DOMAIN Codes : Codes[i] = code

(* Higher scores first, and codes in their order among equals. *)
Before(a, b) == \/ a.score > b.score
                \/ a.score = b.score /\ Place(a.code) < Place(b.code)

(* The recommendation that as many others come before as i says, less one. *)
Ranked(i) == CHOOSE r \in Range(ranked) :
               Cardinality({q \in Range(ranked) : Before(q, r)}) = i - 1

Sort ==
  /\ truck # Nil /\ todo = <<>> /\ ~sorted
  /\ ranked' = [i \in DOMAIN ranked |-> Ranked(i)]
  /\ sorted' = TRUE
  /\ UNCHANGED <<truck, yard, todo, excluded>>

(* The lists are in the response, and nothing of them is kept. *)
Answer ==
  /\ sorted
  /\ truck' = Nil /\ yard' = Nil
  /\ ranked' = <<>> /\ excluded' = <<>>
  /\ sorted' = FALSE
  /\ UNCHANGED todo

Next == Ask \/ Exclude \/ Recommended \/ Sort \/ Answer

Spec == Init /\ [][Next]_vars

-----------------------------------------------------------------------------
(* Properties *)

(* The reference for the hard filter, minute by minute: the door is in     *)
(* service for this load, no minute of the slot is another truck's, and    *)
(* there is a minute of the slot at which the door is free.                *)
Minutes(w) == w.start .. (w.end - 1)

CanTake(d) ==
  LET row  == yard[d]
      slot == Minutes(SlotFor(truck))
      mine == {b \in row.booked : b.truck = truck.id}
  IN  /\ row.status # "UNAVAILABLE"
      /\ Asked.load \in row.loads
      /\ \A b \in row.booked \ mine : Minutes(b.slot) \cap slot = {}
      /\ \/ mine # {} /\ mine = row.booked
         \/ \E m \in slot : m >= row.availableFrom

(* "Ranks every dock that can physically take the truck": a door is        *)
(* recommended exactly when the minute-by-minute reference lets it in, and *)
(* every other door is listed with the excluded ones.                      *)
RanksThoseThatCanTake ==
  sorted =>
    /\ {r.code : r \in Range(ranked)} = {d \in Range(Codes) : CanTake(d)}
    /\ Range(excluded) = {d \in Range(Codes) : ~CanTake(d)}
    /\ Len(ranked) + Len(excluded) = Len(Codes)

(* "They sum to 100, which is what makes the score readable as a           *)
(* percentage": no score leaves 0 .. 100, and 100 is a door that is free   *)
(* now, for the whole of the booked time.                                  *)
ScoreIsPercentage ==
  \A r \in Range(ranked) :
    /\ r.score \in 0 .. 100
    /\ r.score = 100 => yard[r.code].status = "AVAILABLE"

(* Of two doors that differ in nothing but the time they are free from,    *)
(* both known, the one that is free earlier never ranks below the other's  *)
(* score (scoreAvailability, scoreAppointment, scorePriority).             *)
Alike(a, b) == /\ a.status = b.status /\ a.loads = b.loads
               /\ ~FreeTimeUnknown(a) /\ ~FreeTimeUnknown(b)

SoonerIsNoWorse ==
  \A r, q \in Range(ranked) :
    Alike(Dock(r.code), Dock(q.code)) /\ Dock(r.code).free <= Dock(q.code).free
      => r.score >= q.score

(* "Urgent freight weights lateness double": raising a shipment's priority *)
(* never makes the best door one that keeps the truck waiting longer, but  *)
(* where rounding gives the two doors one score for one of the priorities. *)
Best(c) ==
  LET Takers == {d \in Range(Codes) : ~Excluded(Dock(d), c)}
  IN  CHOOSE d \in Takers : \A e \in Takers \ {d} :
        Before([code |-> d, score |-> Score(Dock(d), c)],
               [code |-> e, score |-> Score(Dock(e), c)])

UrgentWaitsNoLonger ==
  sorted /\ ranked # <<>> =>
    LET low  == [Asked EXCEPT !.priority = "LOW"]
        high == [Asked EXCEPT !.priority = "HIGH"]
        h    == Dock(Best(high))
        l    == Dock(Best(low))
    IN  \/ LateMinutes(h, high) <= LateMinutes(l, low)
        \/ Score(h, high) = Score(l, high)
        \/ Score(h, low) = Score(l, low)
=============================================================================
