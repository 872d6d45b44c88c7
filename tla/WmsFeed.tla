------------------------------ MODULE WmsFeed -------------------------------
(***************************************************************************)
(* Facts about trucks from the warehouse management system, against the    *)
(* engine: TRAILER_LOCATION_UPDATED, TRAILER_STATUS_UPDATED,               *)
(* TRAILER_ARRIVED and TRAILER_DOCKED (wms-event-handler.ts), absorbed by  *)
(* the engine for a live truck (applyExternalUpdate) and written by the    *)
(* handler for any other.  The door and the booking TRAILER_DOCKED asks    *)
(* for are Yard's: here the event may come for any truck at any time.      *)
(***************************************************************************)
EXTENDS Engine

Facts == {"location", "status", "arrived", "docked"}

(* The statuses TRAILER_STATUS_UPDATED may report. *)
Reportable == Status \ {"DELAYED", "DOCKED"}

(* SHIPMENT_STATUS_FOR: no entry for DELAYED. *)
ShipFor(st) == CASE st = "COMPLETED" -> "DELIVERED"
                 [] st = "DELAYED" -> Nil
                 [] OTHER -> st

Or(field, old) == IF field = Nil THEN old ELSE field

NoUpdate == [status |-> Nil, delay |-> Nil, progress |-> Nil]

-----------------------------------------------------------------------------
(* The event arrives: the trailer's row is read, and the fact waits for    *)
(* the barrier.                                                            *)

Report(r, op, t, u, why) ==
  /\ Idle(r, op)
  /\ Goto(r, "waiting")
  /\ Learn(r, [NoCall EXCEPT !.op = op, !.truck = t, !.saw = db[t],
                             !.update = u, !.reason = why])

(* A position, with or without the progress it stands for. *)
LocationUpdated(r, t, p) ==
  /\ Report(r, "location", t, [NoUpdate EXCEPT !.progress = p], "none")
  /\ UNCHANGED <<db, live, routes, timer, slot, lifecycle, lastSequence, sent>>

(* Refused while a delay is active, unless the journey is over. *)
StatusUpdated(r, t, st) ==
  /\ db[t].delay = "NORMAL" \/ st \in InYard
  /\ Report(r, "status", t,
       [NoUpdate EXCEPT !.status = st, !.delay = IF st \in InYard THEN "NORMAL" ELSE Nil],
       IF st \in {"ARRIVING", "ARRIVED"} /\ st # db[t].status THEN st ELSE "none")
  /\ UNCHANGED <<db, live, routes, timer, slot, lifecycle, lastSequence, sent>>

(* Mutant: the arrival leaves the delay on.                                *)
TrailerArrivedDelayed(r, t) ==
  /\ db[t].status \notin InYard
  /\ Report(r, "arrived", t,
       [status |-> "ARRIVED", delay |-> Nil, progress |-> Far], "ARRIVED")
  /\ UNCHANGED <<db, live, routes, timer, slot, lifecycle, lastSequence, sent>>

(* A late or repeated arrival changes nothing. *)
TrailerArrived(r, t) ==
  /\ db[t].status \notin InYard
  /\ Report(r, "arrived", t,
       [status |-> "ARRIVED", delay |-> "NORMAL", progress |-> Far], "ARRIVED")
  /\ UNCHANGED <<db, live, routes, timer, slot, lifecycle, lastSequence, sent>>

(* The door and the truck are written in one transaction before the engine *)
(* hears of it.                                                            *)
TrailerDocked(r, t) ==
  /\ Report(r, "docked", t,
       [status |-> "DOCKED", delay |-> "NORMAL", progress |-> Far], "none")
  /\ db' = [db EXCEPT ![t].status = "DOCKED", ![t].progress = Far, ![t].ship = "DOCKED"]
  /\ UNCHANGED <<live, routes, timer, slot, lifecycle, lastSequence, sent>>

-----------------------------------------------------------------------------
(* applyExternalUpdate: for a live truck, under the barrier and running or *)
(* not                                                                     *)

Absorbed(s, u, n) ==
  [s EXCEPT !.status = Or(u.status, @), !.delay = Or(u.delay, @),
            !.progress = Or(u.progress, @), !.seq = n, !.dirty = TRUE]

Reported(r) == Reaches(r) /\ call[r].op \in Facts

(* Mutant: only a running engine absorbs a fact.                           *)
FollowedRunning(t) == timer /\ live[t] # Nil

Followed(t) == live[t] # Nil

Absorbs(r) ==
  /\ Reported(r)
  /\ Followed(call[r].truck)
  /\ LET t    == call[r].truck
         next == Absorbed(live[t], call[r].update, lastSequence[t] + 1)
     IN  Put(t, next) /\ Learn(r, [call[r] EXCEPT !.next = next])
  /\ slot' = r
  /\ Goto(r, "writing")
  /\ UNCHANGED <<db, routes, timer, lifecycle>>

(* The engine knows nothing of the truck: the handler goes on by itself. *)
NotLive(r) ==
  /\ Reported(r)
  /\ ~Followed(call[r].truck)
  /\ Goto(r, IF call[r].op = "docked" THEN "announce" ELSE "direct")
  /\ UNCHANGED <<db, live, routes, timer, slot, lifecycle, lastSequence, sent, call>>

-----------------------------------------------------------------------------
(* The rest of the handler *)

(* The shipment's status the handler mirrors, unless the row it read had   *)
(* it already.                                                             *)
Mirrored(r, ship) ==
  LET to == ShipFor(Or(call[r].update.status, call[r].saw.status))
  IN  IF to = Nil \/ call[r].saw.ship = to THEN ship ELSE to

Mirrors(r) ==
  /\ pc[r] = "absorbed"
  /\ IF call[r].op = "docked" THEN UNCHANGED db
     ELSE db' = [db EXCEPT ![call[r].truck].ship = Mirrored(r, @)]
  /\ Return(r)
  /\ UNCHANGED <<live, routes, timer, slot, lifecycle, lastSequence, sent>>

DirectCommits(r) ==
  /\ pc[r] = "direct"
  /\ LET t == call[r].truck
         u == call[r].update
     IN  /\ db' = [db EXCEPT ![t] =
              [status |-> Or(u.status, @.status), delay |-> Or(u.delay, @.delay),
               progress |-> Or(u.progress, @.progress), ship |-> Mirrored(r, @.ship)]]
         /\ Learn(r, [call[r] EXCEPT !.update.status = db'[t].status])
  /\ Goto(r, "announce")
  /\ UNCHANGED <<live, routes, timer, slot, lifecycle, lastSequence, sent>>

(* The write fails, of itself or because a rewind has deleted the row: the *)
(* event is answered with an error.                                        *)
FactFails(r) ==
  /\ pc[r] \in {"direct", "absorbed"}
  /\ MayFail \/ \E q \in Reqs : pc[q] = "rewinding"
  /\ Return(r)
  /\ UNCHANGED <<db, live, routes, timer, slot, lifecycle, lastSequence, sent>>

(* One event for a move, one for a change of status, each with a number of *)
(* its own.                                                                *)
Announces(r) ==
  /\ pc[r] = "announce"
  /\ LET t     == call[r].truck
         u     == call[r].update
         moved == call[r].op \in {"location", "arrived"}
         new   == call[r].op = "docked" \/ Or(u.status, call[r].saw.status) # call[r].saw.status
         n     == (IF moved THEN 1 ELSE 0) + (IF new THEN 1 ELSE 0)
     IN  /\ lastSequence' = [lastSequence EXCEPT ![t] = @ + n]
         /\ sent' = [sent EXCEPT ![t] = IF n = 0 THEN @ ELSE lastSequence[t] + n]
  /\ Return(r)
  /\ UNCHANGED <<db, live, routes, timer, slot, lifecycle>>

-----------------------------------------------------------------------------
(* The engine with the feed *)

Tell(r) ==
  \E t \in Trucks :
    \/ \E p \in (0 .. Far) \cup {Nil} : LocationUpdated(r, t, p)
    \/ \E st \in Reportable : StatusUpdated(r, t, st)
    \/ TrailerArrived(r, t)
    \/ TrailerDocked(r, t)

Handle(r) == \/ Absorbs(r) \/ NotLive(r) \/ Mirrors(r)
             \/ DirectCommits(r) \/ FactFails(r) \/ Announces(r)

FeedNext == Next \/ \E r \in Reqs : Tell(r) \/ Handle(r)

FeedSpec == Init /\ [][FeedNext]_vars

-----------------------------------------------------------------------------
(* Properties *)

(* A trailer that is in the yard stays there until the WMS or a rewind     *)
(* says otherwise: the engine never writes an older state over the fact.   *)
InYardStays ==
  [][\A t \in Trucks :
       db[t].status \in InYard /\ db'[t].status \in Moving =>
         \E r \in Reqs :
           pc[r] = "rewinding" \/ (call[r].op = "status" /\ call[r].truck = t)]_db

(* "Arriving ends the scenario": no truck is in the yard with a delay on,  *)
(* which nothing could clear any more.                                     *)
NoDelayInYard ==
  \A t \in Trucks :
    /\ db[t].status \in InYard => db[t].delay = "NORMAL"
    /\ (live[t] # Nil /\ live[t].status \in InYard) => live[t].delay = "NORMAL"

(* With no handler in flight, a truck the engine follows and the database  *)
(* agree on whether it is in the yard.  No database call fails.            *)
OneStory ==
  (\A p \in Procs : pc[p] = "idle") =>
    \A t \in Trucks : live[t] # Nil => (live[t].status \in InYard <=> db[t].status \in InYard)
=============================================================================
