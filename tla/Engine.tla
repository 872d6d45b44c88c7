------------------------------- MODULE Engine -------------------------------
(***************************************************************************)
(* The simulation engine: the live trucks in memory, their rows in         *)
(* Postgres, the tick loop, the delay commands and the lifecycle commands  *)
(* (start, stop, reset), interleaved at their awaits.                      *)
(*                                                                         *)
(*   SimulationManager        simulation-manager.ts                        *)
(*   advanceTruck             truck-simulator.ts                           *)
(*   loadTrucks, persist      simulation-store.ts                          *)
(*                                                                         *)
(* One action is the code between two awaits; a database write is a step   *)
(* when it commits and another when its answer is taken up.  Positions,    *)
(* speeds and ETAs are left out: a tick moves a truck any distance ahead.  *)
(***************************************************************************)
EXTENDS Integers, Sequences

CONSTANTS Trucks,          \* trucks
          Reqs,            \* handlers that can be running at one time
          Ticker,          \* the interval's own callback
          Scenarios,       \* delay scenarios other than NORMAL
          Far,             \* progress of a truck that is there (100%)
          ArrivingAt,      \* SIMULATION_ARRIVING_PROGRESS
          CheckpointStep,  \* SIMULATION_CHECKPOINT_PROGRESS_STEP
          World,           \* the truck rows the seed writes
          Booted,          \* whether the autostart is over when requests arrive
          Commands,        \* the commands that arrive: a part of Op
          MaxSeq,          \* bound: nothing that is numbered starts past this
          MayFail,         \* whether a database call may fail
          Nil              \* "nothing": no truck, state, delay or holder

VARIABLES db,            \* Truck rows, each with the status of its shipment
          live,          \* the live map; Nil for a truck that is not in it
          routes,        \* trucks with a route profile
          timer,         \* whether the interval is installed
          slot,          \* inFlight: the one who holds the barrier
          lifecycle,     \* the lifecycle queue; its head runs
          lastSequence,  \* highest sequence number handed out, per truck
          sent,          \* sequence number of the last event emitted, per truck
          pc,            \* pc[p]: where handler p stands
          call           \* call[p]: what handler p was asked and has read

vars == <<db, live, routes, timer, slot, lifecycle, lastSequence, sent, pc, call>>

-----------------------------------------------------------------------------
(* Values *)

Moving == {"IN_TRANSIT", "DELAYED", "ARRIVING"}   \* MOVING_STATUSES
InYard == {"ARRIVED", "DOCKED", "COMPLETED"}      \* ARRIVED_OR_LATER
Status == Moving \cup InYard
Delay  == Scenarios \cup {"NORMAL"}
Ship   == Moving \cup {"ARRIVED", "DOCKED", "DELIVERED"}
Reason == {"none", "PERIODIC", "ARRIVING", "ARRIVED", "DELAY"}

Op   == {"none", "tick", "start", "stop", "reset", "delay",
         "location", "status", "arrived", "docked"}
Step == {"idle", "queued", "loading", "draining", "flushing", "drained", "rewinding",
         "rewound", "ticking", "waiting", "parked", "writing", "written",
         "absorbed", "direct", "announce"}

Row   == [status : Status, delay : Delay, progress : 0 .. Far, ship : Ship]
State == [status : Status, delay : Delay, progress : 0 .. Far,
          seq : Nat, saved : 0 .. Far, dirty : BOOLEAN]

(* An ExternalTruckUpdate; Nil is an absent field. *)
Update == [status : Status \cup {Nil}, delay : Delay \cup {Nil},
           progress : (0 .. Far) \cup {Nil}]

Nothing == [t \in Trucks |-> Nil]

Call == [op     : Op,
         truck  : Trucks \cup {Nil},               \* the truck the handler writes
         delay  : Delay \cup {Nil},                \* changeDelay: the scenario
         was    : BOOLEAN,                         \* reset: the loop was running
         rows   : [Trucks -> Row \cup {Nil}],      \* load: the rows it read
         seen   : [Trucks -> State \cup {Nil}],    \* tick, flush: the states listed
         todo   : SUBSET Trucks,                   \* tick, flush: trucks still to do
         next   : State \cup {Nil},                \* persist: the state being written
         reason : Reason,                          \* persist: the snapshot's reason
         saw    : Row \cup {Nil},                  \* WMS: the row it resolved
         update : Update \cup {Nil}]               \* WMS: the fact reported

NoCall == [op |-> "none", truck |-> Nil, delay |-> Nil, was |-> FALSE,
           rows |-> Nothing, seen |-> Nothing, todo |-> {}, next |-> Nil,
           reason |-> "none", saw |-> Nil, update |-> Nil]

Procs == Reqs \cup {Ticker}

ASSUME EngineAssumption ==
  /\ Far \in Nat \ {0} /\ ArrivingAt \in 1 .. Far /\ CheckpointStep \in Nat \ {0}
  /\ World \in [Trucks -> Row] /\ Booted \in BOOLEAN
  /\ Ticker \notin Reqs
  /\ Nil \notin Trucks /\ Nil \notin Procs
  /\ Nil \notin Status /\ Nil \notin Delay /\ Nil \notin 0 .. Far
  /\ Nil \notin Row /\ Nil \notin State /\ Nil \notin Update

(* Every truck of seed-world.ts that is DELAYED has a scenario, and no other. *)
ASSUME WorldAssumption ==
  \A t \in Trucks : World[t].status = "DELAYED" <=> World[t].delay # "NORMAL"

(* Its shipments have their trucks' statuses. *)
ASSUME ShipmentAssumption ==
  \A t \in Trucks : World[t].status \in Ship => World[t].ship = World[t].status

-----------------------------------------------------------------------------
(* A truck's state *)

(* toLiveState: the counter goes on from where it was. *)
Loaded(row, n) == [status |-> row.status, delay |-> row.delay, progress |-> row.progress,
                   seq |-> n, saved |-> row.progress, dirty |-> FALSE]

(* Mutant: arriving leaves the delay scenario on.                          *)
AdvancedKeepsDelay(s, p) ==
  [s EXCEPT !.progress = p, !.seq = @ + 1, !.dirty = TRUE,
            !.status = IF p = Far THEN "ARRIVED"
                       ELSE IF p >= ArrivingAt /\ s.delay = "NORMAL" THEN "ARRIVING"
                       ELSE @]

(* Mutant: the truck may drive past the end of its route.                  *)
AdvancedUnclamped(s, p) ==
  [s EXCEPT !.progress = p + 1, !.seq = @ + 1, !.dirty = TRUE,
            !.status = IF p = Far THEN "ARRIVED"
                       ELSE IF p >= ArrivingAt /\ s.delay = "NORMAL" THEN "ARRIVING"
                       ELSE @,
            !.delay  = IF p = Far THEN "NORMAL" ELSE @]

(* advanceTruck: a delayed truck stays DELAYED until it arrives, which ends *)
(* the delay.                                                              *)
Advanced(s, p) ==
  [s EXCEPT !.progress = p, !.seq = @ + 1, !.dirty = TRUE,
            !.status = IF p = Far THEN "ARRIVED"
                       ELSE IF p >= ArrivingAt /\ s.delay = "NORMAL" THEN "ARRIVING"
                       ELSE @,
            !.delay  = IF p = Far THEN "NORMAL" ELSE @]

(* Mutant: a checkpoint falls due one step late.                           *)
SnapshotReasonLate(s, next) ==
  IF next.status = "ARRIVED" THEN "ARRIVED"
  ELSE IF next.status = "ARRIVING" /\ s.status # "ARRIVING" THEN "ARRIVING"
  ELSE IF next.progress - next.saved > CheckpointStep THEN "PERIODIC"
  ELSE "none"

SnapshotReason(s, next) ==
  IF next.status = "ARRIVED" THEN "ARRIVED"
  ELSE IF next.status = "ARRIVING" /\ s.status # "ARRIVING" THEN "ARRIVING"
  ELSE IF next.progress - next.saved >= CheckpointStep THEN "PERIODIC"
  ELSE "none"

(* changeDelay: NORMAL restores the status the truck's progress calls for. *)
Delayed(s, d, n) ==
  [s EXCEPT !.delay = d, !.seq = n, !.dirty = TRUE,
            !.status = IF d # "NORMAL" THEN "DELAYED"
                       ELSE IF s.progress >= ArrivingAt THEN "ARRIVING" ELSE "IN_TRANSIT"]

(* The shipment's status after a snapshot: mirrored for the reasons that   *)
(* stand for a transition, left alone for the others.                      *)
ShipAfter(ship, s, reason) ==
  IF reason = "DELAY" THEN s.status
  ELSE IF reason \in {"ARRIVING", "ARRIVED"} THEN reason
  ELSE ship

Saved(s) == [s EXCEPT !.saved = s.progress, !.dirty = FALSE]

(* The columns of a row that the engine keeps in memory too. *)
Matches(row, s) ==
  row.status = s.status /\ row.delay = s.delay /\ row.progress = s.progress

-----------------------------------------------------------------------------
(* Handlers *)

Init == /\ db = World
        /\ live = [t \in Trucks |-> IF Booted /\ World[t].status \in Moving
                                    THEN Loaded(World[t], 0) ELSE Nil]
        /\ routes = {t \in Trucks : live[t] # Nil}
        /\ timer = Booted
        /\ slot = Nil
        /\ lifecycle = <<>>
        /\ lastSequence = [t \in Trucks |-> 0]
        /\ sent = [t \in Trucks |-> 0]
        /\ pc = [p \in Procs |-> "idle"]
        /\ call = [p \in Procs |-> NoCall]

Running(p, step, op) == pc[p] = step /\ call[p].op = op

Goto(p, step) == pc' = [pc EXCEPT ![p] = step]
Learn(p, c)   == call' = [call EXCEPT ![p] = c]
Return(p)     == Goto(p, "idle") /\ Learn(p, NoCall)

(* Bound: nothing that is numbered starts once the numbers have run out. *)
Fits == \A t \in Trucks : lastSequence[t] < MaxSeq

(* A request comes in from the network, never between two microtasks: a    *)
(* reset that has drained the barrier goes on first.                       *)
Idle(r, op) == /\ pc[r] = "idle" /\ op \in Commands
               /\ op \in {"start", "stop"} \/ Fits
               /\ \A q \in Reqs : pc[q] # "drained"

Free == slot = Nil

(* A handler that finds the barrier held waits for it.                     *)
Parks(r) ==
  /\ pc[r] = "waiting" /\ ~Free
  /\ Goto(r, "parked")
  /\ UNCHANGED <<db, live, routes, timer, slot, lifecycle, lastSequence, sent, call>>

(* Mutant: the barrier is not waited for.                                  *)
ReachesUnasked(r) == pc[r] = "waiting"

(* r comes to the barrier and finds it free, or is woken to find it free.  *)
Reaches(r) ==
  /\ Free
  /\ \/ pc[r] = "parked"
     \/ pc[r] = "waiting" /\ \A q \in Reqs : pc[q] # "drained"

(* A truck's next state is in the live map, its number handed out and sent. *)
Put(t, s) == /\ live' = [live EXCEPT ![t] = s]
             /\ lastSequence' = [lastSequence EXCEPT ![t] = s.seq]
             /\ sent' = [sent EXCEPT ![t] = s.seq]

-----------------------------------------------------------------------------
(* persist: under the barrier *)

PersistCommits(p) ==
  /\ pc[p] = "writing"
  /\ LET c == call[p]
     IN  db' = [db EXCEPT ![c.truck] =
           [status |-> c.next.status, delay |-> c.next.delay, progress |-> c.next.progress,
            ship |-> ShipAfter(@.ship, c.next, c.reason)]]
  /\ Goto(p, "written")
  /\ UNCHANGED <<live, routes, timer, slot, lifecycle, lastSequence, sent, call>>

(* The caller of persist goes on. *)
Continue(p) ==
  \/ /\ call[p].op = "tick"
     /\ Goto(p, "ticking") /\ UNCHANGED <<slot, call>>
  \/ /\ call[p].op = "stop"
     /\ Goto(p, "flushing") /\ UNCHANGED <<slot, call>>
  \/ /\ call[p].op = "delay"
     /\ slot' = Nil /\ Return(p)
  \/ /\ call[p].op \in {"location", "status", "arrived", "docked"}
     /\ slot' = Nil /\ Goto(p, "absorbed") /\ UNCHANGED call

(* Mutant: a write that failed is taken for one that landed.               *)
PersistFailsClean(p) ==
  /\ pc[p] = "writing"
  /\ MayFail \/ \E q \in Reqs : pc[q] = "rewinding"
  /\ live' = [live EXCEPT ![call[p].truck] = Saved(call[p].next)]
  /\ Continue(p)
  /\ UNCHANGED <<db, routes, timer, lifecycle, lastSequence, sent>>

(* The state stays dirty.  A rewind that deletes the row makes it fail too. *)
PersistFails(p) ==
  /\ pc[p] = "writing"
  /\ MayFail \/ \E q \in Reqs : pc[q] = "rewinding"
  /\ Continue(p)
  /\ UNCHANGED <<db, live, routes, timer, lifecycle, lastSequence, sent>>

PersistDone(p) ==
  /\ pc[p] = "written"
  /\ live' = [live EXCEPT ![call[p].truck] = Saved(call[p].next)]
  /\ Continue(p)
  /\ UNCHANGED <<db, routes, timer, lifecycle, lastSequence, sent>>

-----------------------------------------------------------------------------
(* tick *)

(* The interval fires.  It skips while the barrier is held, and handlers   *)
(* that were waiting for the barrier run before the next interval does.    *)
TickBegins ==
  /\ pc[Ticker] = "idle"
  /\ timer /\ Free
  /\ \A r \in Reqs : pc[r] # "parked"
  /\ slot' = Ticker
  /\ Goto(Ticker, "ticking")
  /\ Learn(Ticker, [NoCall EXCEPT !.op = "tick", !.seen = live,
                                  !.todo = {t \in routes : live[t] # Nil}])
  /\ UNCHANGED <<db, live, routes, timer, lifecycle, lastSequence, sent>>

TickAdvances(t, p) ==
  /\ pc[Ticker] = "ticking" /\ t \in call[Ticker].todo /\ Fits
  /\ LET s    == call[Ticker].seen[t]
         next == Advanced(s, p)
         why  == SnapshotReason(s, next)
         c    == [call[Ticker] EXCEPT !.todo = @ \ {t}]
     IN  /\ s.status \in Moving /\ p >= s.progress
         /\ Put(t, next)
         /\ \/ /\ why = "none"
               /\ Learn(Ticker, c) /\ UNCHANGED pc
            \/ /\ why # "none"
               /\ Learn(Ticker, [c EXCEPT !.truck = t, !.next = next, !.reason = why])
               /\ Goto(Ticker, "writing")
  /\ UNCHANGED <<db, routes, timer, slot, lifecycle>>

(* The truck is not moving, or covers no ground. *)
TickPasses(t) ==
  /\ pc[Ticker] = "ticking" /\ t \in call[Ticker].todo
  /\ Learn(Ticker, [call[Ticker] EXCEPT !.todo = @ \ {t}])
  /\ UNCHANGED <<db, live, routes, timer, slot, lifecycle, lastSequence, sent, pc>>

TickEnds ==
  /\ pc[Ticker] = "ticking" /\ call[Ticker].todo = {}
  /\ slot' = Nil
  /\ Return(Ticker)
  /\ UNCHANGED <<db, live, routes, timer, lifecycle, lastSequence, sent>>

-----------------------------------------------------------------------------
(* applyDelay, clearDelay *)

RequestDelay(r, t, d) ==
  /\ Idle(r, "delay")
  /\ Goto(r, "waiting")
  /\ Learn(r, [NoCall EXCEPT !.op = "delay", !.truck = t, !.delay = d])
  /\ UNCHANGED <<db, live, routes, timer, slot, lifecycle, lastSequence, sent>>

(* The loop runs, the truck is live and moving, and the scenario is new. *)
Accepts(t, d) == /\ timer /\ live[t] # Nil
                 /\ live[t].status \in Moving /\ live[t].delay # d
                 /\ t \in routes

DelayRefused(r) ==
  /\ Reaches(r) /\ call[r].op = "delay"
  /\ ~Accepts(call[r].truck, call[r].delay)
  /\ Return(r)
  /\ UNCHANGED <<db, live, routes, timer, slot, lifecycle, lastSequence, sent>>

DelayApplies(r) ==
  /\ Reaches(r) /\ call[r].op = "delay"
  /\ Accepts(call[r].truck, call[r].delay)
  /\ LET t    == call[r].truck
         next == Delayed(live[t], call[r].delay, lastSequence[t] + 1)
     IN  /\ Put(t, next)
         /\ Learn(r, [call[r] EXCEPT !.next = next, !.reason = "DELAY"])
  /\ slot' = r
  /\ Goto(r, "writing")
  /\ UNCHANGED <<db, routes, timer, lifecycle>>

-----------------------------------------------------------------------------
(* start, stop, reset: one at a time, in the order they were asked for *)

RequestLifecycle(r, op) ==
  /\ Idle(r, op) /\ op \in {"start", "stop", "reset"}
  /\ lifecycle' = Append(lifecycle, r)
  /\ Goto(r, "queued")
  /\ Learn(r, [NoCall EXCEPT !.op = op])
  /\ UNCHANGED <<db, live, routes, timer, slot, lastSequence, sent>>

Turn(r, op) == Running(r, "queued", op) /\ lifecycle # <<>> /\ Head(lifecycle) = r

Finish(r) == Return(r) /\ lifecycle' = Tail(lifecycle)

StartIgnored(r) ==
  /\ Turn(r, "start") /\ timer
  /\ Finish(r)
  /\ UNCHANGED <<db, live, routes, timer, slot, lastSequence, sent>>

(* runStart, from start() or from reset(). *)
Starting(r) == (Turn(r, "start") /\ ~timer) \/ (Running(r, "rewound", "reset") /\ call[r].was)

(* emitRewind: every live truck with a route is announced, past the highest *)
(* number it ever had.                                                     *)
Announced(r, lv, rts) == {t \in rts : call[r].op = "reset" /\ lv[t] # Nil}

Announce(r, lv, rts) ==
  LET ts == Announced(r, lv, rts)
  IN  /\ live' = [t \in Trucks |-> IF t \in ts THEN [lv[t] EXCEPT !.seq = lastSequence[t] + 1]
                                   ELSE lv[t]]
      /\ lastSequence' = [t \in Trucks |-> lastSequence[t] + (IF t \in ts THEN 1 ELSE 0)]
      /\ sent' = [t \in Trucks |-> IF t \in ts THEN lastSequence[t] + 1 ELSE sent[t]]

(* There are live trucks: the loop goes on with them. *)
StartResumes(r) ==
  /\ Starting(r) /\ live # Nothing
  /\ timer' = TRUE
  /\ Announce(r, live, routes)
  /\ Finish(r)
  /\ UNCHANGED <<db, routes, slot>>

(* loadTrucks reads the moving trucks' rows ... *)
LoadReads(r) ==
  /\ (Starting(r) /\ live = Nothing) \/ (Running(r, "rewound", "reset") /\ ~call[r].was)
  /\ Goto(r, "loading")
  /\ Learn(r, [call[r] EXCEPT !.rows = [t \in Trucks |->
                                IF db[t].status \in Moving THEN db[t] ELSE Nil]])
  /\ UNCHANGED <<db, live, routes, timer, slot, lifecycle, lastSequence, sent>>

(* Mutant: the counters start again at 0.                                  *)
LoadDoneFromZero(r) ==
  /\ pc[r] = "loading"
  /\ LET rows == call[r].rows
         lv   == [t \in Trucks |-> IF rows[t] = Nil THEN live[t] ELSE Loaded(rows[t], 0)]
         rts  == routes \cup {t \in Trucks : rows[t] # Nil}
     IN  /\ routes' = rts
         /\ live' = lv
         /\ sent' = [t \in Trucks |-> IF t \in Announced(r, lv, rts) THEN 1 ELSE sent[t]]
  /\ timer' = (call[r].op = "start" \/ call[r].was)
  /\ Finish(r)
  /\ UNCHANGED <<db, slot, lastSequence>>

(* ... and they are the live trucks. *)
LoadDone(r) ==
  /\ pc[r] = "loading"
  /\ LET rows == call[r].rows
         lv   == [t \in Trucks |-> IF rows[t] = Nil THEN live[t]
                                   ELSE Loaded(rows[t], lastSequence[t])]
         rts  == routes \cup {t \in Trucks : rows[t] # Nil}
     IN  /\ routes' = rts
         /\ Announce(r, lv, rts)
  /\ timer' = (call[r].op = "start" \/ call[r].was)
  /\ Finish(r)
  /\ UNCHANGED <<db, slot>>

(* Mutant: a load that fails is not caught by the lifecycle queue.         *)
LoadFailsWedges(r) ==
  /\ MayFail /\ pc[r] = "loading"
  /\ Return(r)
  /\ UNCHANGED <<db, live, routes, timer, slot, lifecycle, lastSequence, sent>>

LoadFails(r) ==
  /\ MayFail /\ pc[r] = "loading"
  /\ Finish(r)
  /\ UNCHANGED <<db, live, routes, timer, slot, lastSequence, sent>>

(* runStop: no tick begins from here on. *)
StopBegins(r) ==
  /\ Turn(r, "stop") \/ Turn(r, "reset")
  /\ timer' = FALSE
  /\ Goto(r, "draining")
  /\ Learn(r, [call[r] EXCEPT !.was = timer])
  /\ UNCHANGED <<db, live, routes, slot, lifecycle, lastSequence, sent>>

(* Mutant: stop does not wait for the tick or the command under way.       *)
StopClaimsUndrained(r) ==
  /\ Running(r, "draining", "stop")
  /\ slot' = r
  /\ Goto(r, "flushing")
  /\ Learn(r, [call[r] EXCEPT !.seen = live,
                 !.todo = {t \in Trucks : live[t] # Nil /\ live[t].dirty}])
  /\ UNCHANGED <<db, live, routes, timer, lifecycle, lastSequence, sent>>

(* Mutant: stop writes what has moved past its checkpoint, not what is dirty. *)
StopClaimsMoved(r) ==
  /\ Running(r, "draining", "stop") /\ Free
  /\ slot' = r
  /\ Goto(r, "flushing")
  /\ Learn(r, [call[r] EXCEPT !.seen = live,
                 !.todo = {t \in Trucks : live[t] # Nil /\ live[t].progress # live[t].saved}])
  /\ UNCHANGED <<db, live, routes, timer, lifecycle, lastSequence, sent>>

(* It takes the barrier, and what is dirty is written under it. *)
StopClaims(r) ==
  /\ Running(r, "draining", "stop") /\ Free
  /\ slot' = r
  /\ Goto(r, "flushing")
  /\ Learn(r, [call[r] EXCEPT !.seen = live,
                 !.todo = {t \in Trucks : live[t] # Nil /\ live[t].dirty}])
  /\ UNCHANGED <<db, live, routes, timer, lifecycle, lastSequence, sent>>

Flush(r, t) ==
  /\ Running(r, "flushing", "stop") /\ t \in call[r].todo
  /\ Goto(r, "writing")
  /\ Learn(r, [call[r] EXCEPT !.todo = @ \ {t}, !.truck = t, !.next = call[r].seen[t]])
  /\ UNCHANGED <<db, live, routes, timer, slot, lifecycle, lastSequence, sent>>

StopReturns(r) ==
  /\ Running(r, "flushing", "stop") /\ call[r].todo = {}
  /\ slot' = Nil
  /\ Finish(r)
  /\ UNCHANGED <<db, live, routes, timer, lastSequence, sent>>

(* reset's runStop(false) takes the barrier and gives it up again, writing *)
(* nothing; a handler that was waiting for it runs before reset does.      *)
ResetDrained(r) ==
  /\ Running(r, "draining", "reset") /\ Free
  /\ Goto(r, "drained")
  /\ UNCHANGED <<db, live, routes, timer, slot, lifecycle, lastSequence, sent, call>>

(* Mutant: the live map is not cleared with the routes.                    *)
ResetClearsRoutes(r) ==
  /\ pc[r] = "drained"
  /\ routes' = {}
  /\ Goto(r, "rewinding")
  /\ UNCHANGED <<db, live, timer, slot, lifecycle, lastSequence, sent, call>>

ResetClears(r) ==
  /\ pc[r] = "drained"
  /\ live' = Nothing /\ routes' = {}
  /\ Goto(r, "rewinding")
  /\ UNCHANGED <<db, timer, slot, lifecycle, lastSequence, sent, call>>

RewindCommits(r) ==
  /\ pc[r] = "rewinding"
  /\ db' = World
  /\ Goto(r, "rewound")
  /\ UNCHANGED <<live, routes, timer, slot, lifecycle, lastSequence, sent, call>>

RewindFails(r) ==
  /\ MayFail /\ pc[r] = "rewinding"
  /\ Goto(r, "rewound")
  /\ UNCHANGED <<db, live, routes, timer, slot, lifecycle, lastSequence, sent, call>>

-----------------------------------------------------------------------------
(* The engine by itself *)

Tick == \/ TickBegins \/ TickEnds
        \/ \E t \in Trucks : TickPasses(t) \/ \E p \in 0 .. Far : TickAdvances(t, p)

Ask(r) == \/ \E t \in Trucks, d \in Delay : RequestDelay(r, t, d)
          \/ \E op \in {"start", "stop", "reset"} : RequestLifecycle(r, op)

Persist(p) == PersistCommits(p) \/ PersistFails(p) \/ PersistDone(p)

Manage(r) == \/ Parks(r) \/ DelayRefused(r) \/ DelayApplies(r)
             \/ StartIgnored(r) \/ StartResumes(r)
             \/ LoadReads(r) \/ LoadDone(r) \/ LoadFails(r)
             \/ StopBegins(r) \/ StopClaims(r) \/ StopReturns(r)
             \/ \E t \in Trucks : Flush(r, t)
             \/ ResetDrained(r) \/ ResetClears(r) \/ RewindCommits(r) \/ RewindFails(r)

Next == \/ Tick
        \/ \E p \in Procs : Persist(p)
        \/ \E r \in Reqs : Ask(r) \/ Manage(r)

Spec == Init /\ [][Next]_vars

(* A tick that has begun comes to its end. *)
TickGoesOn == TickEnds \/ \E t \in Trucks : TickPasses(t)

-----------------------------------------------------------------------------
(* Properties *)

TypeOK == /\ db \in [Trucks -> Row]
          /\ live \in [Trucks -> State \cup {Nil}]
          /\ routes \subseteq Trucks
          /\ timer \in BOOLEAN
          /\ slot \in Procs \cup {Nil}
          /\ lifecycle \in Seq(Reqs)
          /\ lastSequence \in [Trucks -> Nat]
          /\ sent \in [Trucks -> Nat]
          /\ pc \in [Procs -> Step]
          /\ call \in [Procs -> Call]

(* A dashboard drops an event numbered below the last one it applied: no   *)
(* event is, across ticks, commands, stops and rewinds (lastSequence).     *)
SequencesClimb == [][\A t \in Trucks : sent'[t] >= sent[t]]_sent

(* A live truck that is not dirty is what its row says: no write lands     *)
(* after a newer one, and none that failed is forgotten (inFlight, dirty). *)
CleanMeansSaved ==
  \A t \in Trucks : live[t] # Nil /\ ~live[t].dirty => Matches(db[t], live[t])

(* stop() loses nothing: once it has returned, memory holds no state the   *)
(* database has not got.  No database call fails.                          *)
StoppedIsSaved ==
  ~timer /\ lifecycle = <<>> /\ Free => \A t \in Trucks : live[t] # Nil => ~live[t].dirty

(* "No tick can write to a connection that is about to close": when the    *)
(* lifecycle commands are done and the loop is off, no tick is under way.  *)
StoppedIsStill == ~timer /\ lifecycle = <<>> => pc[Ticker] = "idle"

(* "A failed rewind must still leave a loaded, consistent world [...] so   *)
(* the reload below runs either way": a world in memory has every truck    *)
(* that is on the road, with the route it is on.                           *)
LoadedIsWhole ==
  lifecycle = <<>> /\ live # Nothing =>
    \A t \in Trucks : db[t].status \in Moving => live[t] # Nil /\ t \in routes

(* "A row is written [...] once every checkpointStep percent": between two *)
(* commands no row is a checkpoint or more behind.  No database call fails. *)
RowsKeepUp ==
  Free => \A t \in Trucks :
    live[t] # Nil => live[t].progress - db[t].progress < CheckpointStep

(* A scenario is on exactly while the status is DELAYED, in memory and in  *)
(* the database, so that the board can show it and clearDelay can end it.  *)
DelayShown ==
  \A t \in Trucks :
    /\ db[t].status = "DELAYED" <=> db[t].delay # "NORMAL"
    /\ live[t] # Nil => (live[t].status = "DELAYED" <=> live[t].delay # "NORMAL")

(* "The truck snapshot, its history row and the mirrored shipment status   *)
(* can never disagree" (simulation-store.ts).                              *)
ShipmentFollows ==
  \A t \in Trucks : db[t].status \in Ship => db[t].ship = db[t].status
=============================================================================
