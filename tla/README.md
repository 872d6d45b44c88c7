# Warehouse management server: a TLA+ development

The server follows trucks on their way to a warehouse, commits them to dock
doors, moves them when a door fails, and takes facts from a warehouse
management system (WMS). It is one Node process over one PostgreSQL database.
Nothing in it is parallel, and nearly everything in it awaits: two handlers
interleave at every `await`, and the database can refuse any write. That is
what these modules model.

Paths below are those of the repository (`src/docking/...`); `PROJECT.json`
gives the lines each definition stands for.

## 1. Inventory

| Component | State it keeps | Operations | Talks to |
|---|---|---|---|
| Dock assignment `src/docking/dock-assignment-service.ts` | `DockDoor` and `DockAssignment` rows | assign, release, re-pick, move a row to a better door | yard lock, scoring, alerts, realtime |
| Yard lock `src/docking/dock-lock.ts` | a promise chain | `withYardLock` | held by assign, release and each row of a cascade |
| Failure cascade `src/docking/dock-failure-service.ts` | none between calls | reassign each affected truck, alert when it cannot | dock assignment |
| Dock status `src/services/dock-service.ts` | `DockDoor.status`, reason, `availableFrom` | take down, put back | cascade; not under the lock |
| Dock scoring `src/docking/dock-scoring.ts` | none | filter, score and rank doors for a truck and a slot | dock assignment |
| Trip arithmetic `src/simulation/truck-simulator.ts`, `delay-scenarios.ts`, `src/eta/eta-engine.ts` | none (a truck's live state) | distance, speed, arrival time | engine |
| Simulation engine `src/simulation/*` | live map, route profiles, sequence counters, interval, `inFlight` barrier, lifecycle queue | tick, delay, clear-delay, start, stop, reset, load, persist, external update | store, realtime sink |
| WMS event handler `src/wms/wms-event-handler.ts` | none between calls | trailer location, status, arrival, docking; dock status; appointment | engine, dock rows |
| Realtime layer `src/websocket/*` | rooms, aliases, the server handle | subscribe, unsubscribe, emit, init, close | engine's live map, database |
| Server and shutdown `src/server.ts`, `src/app.ts`, `src/lib/shutdown-state.ts` | `shuttingDown` | autostart, refuse commands, stop, close | engine, realtime |
| Seed `src/seed/seed-world.ts` | rows | write the demo world, rewind to it | engine's reset |
| Reads, alerts, HTTP layer | rows only | list, validate, dispatch | database |

How they interact:

- Two different mutual exclusions. Door bookings are serialised by the **yard
  lock**, trucks' live state by the engine's **barrier** (`inFlight`) and its
  lifecycle commands by a **queue**. Nothing takes two of them at once.
- Some writers take neither: the dock status command, the WMS's door events
  and its docking transaction, a direct write for a truck the engine does not
  follow, and the rewind. Where such a writer meets one that holds a lock, only
  a condition re-read inside a transaction (or nothing) is between them.
- Memory and database hold the same truck twice. Memory leads between
  checkpoints; a fact from the WMS goes to memory if the truck is live and to
  the database if it is not, and which of the two is decided at one moment.
- Clients drop an event whose sequence number is below the last they applied,
  so numbers are part of the protocol, not decoration.

What makes each component correct, and is hard to test:

- **Dock assignment**: no two committed bookings of one door overlap; a truck
  has one committed door; closed rows are history; a door's status tells its
  bookings; a failed or conflicting transaction changes nothing and wedges
  nobody.
- **Cascade**: every truck on a failed door is moved, or its failure is
  reported; one truck's failure does not stop the next; the chain of moved rows
  is sound.
- **Dock status**: a door that is out of service stays out until it is put
  back.
- **Engine**: no write of an older state over a newer one; nothing owed to the
  database is lost by a stop; numbers only climb; a reset leaves a whole world;
  no command waits for ever.
- **WMS feed**: a fact is never rolled back by the engine; a repeated or late
  report changes nothing; memory and database tell one story.
- **Dock scoring**: a door is offered exactly when it can take the truck; a
  score is a percentage and orders doors as the comments promise; the same
  input gives the same order.
- **Trip arithmetic**: a truck drives by the arrival time it was given; a pause
  or a late tick neither loses distance nor adds it; delays and restarts leave
  its own speed as it was.
- **Realtime**: a client is in the rooms it asked for and can leave them; its
  opening snapshot is no older than its membership; after it, it misses nothing.
- **Server and shutdown**: nothing starts the engine behind the last stop; a
  clean exit owes the database nothing; the exit comes without being forced.

`PROJECT.json` lists the hazards, each at the line where it bites, with the
properties that would catch it.

## 2. The modules

| Module | What it is | Code |
|---|---|---|
| `Bookings` | the abstract promise: a set of bookings that changes by booking, dropping or moving one, never into a clash | what the comments of dock assignment promise |
| `Yard` | doors, booking rows, the yard lock, handlers at their awaits, a crash | dock assignment, lock, cascade, dock status, the WMS's door events |
| `YardProofs` | theorems about `Yard` | |
| `Engine` | live map, rows, barrier, lifecycle queue, ticks, delays, start, stop, reset | `src/simulation/*` |
| `EngineProofs` | theorems about `Engine`, by itself and with the feed | |
| `WmsFeed` | `Engine` composed with the trailer events | `src/wms/wms-event-handler.ts` |
| `FeedProofs` | theorems about `WmsFeed` | |
| `Server` | `WmsFeed` inside a process: autostart, connections, gate, shutdown | `src/server.ts`, `src/app.ts`, `src/lib/shutdown-state.ts`, `src/websocket/index.ts` |
| `ServerProofs` | theorems about `Server`, which implements `WmsFeed` | |
| `Realtime` | subscriptions, rooms, snapshots, events, and a client | `src/websocket/*`, seen with the engine from outside |
| `RealtimeProofs`, `FollowerProofs` | theorems about `Realtime`: rooms and openings; that a dashboard misses nothing | |
| `DockScoring` | the hard filter and the score, as operators | `src/docking/dock-scoring.ts` |
| `Recommend` | one recommendation: the request, the walk over the doors, the ranking | `src/docking/dock-scoring.ts`, the reads before it |
| `RecommendProofs` | theorems about `Recommend` and `DockScoring` | |
| `Journey` | one truck against the clock: distance, speed, arrival time | `truck-simulator.ts`, `delay-scenarios.ts`, `route-engine.ts`, `eta-engine.ts`, the manager's tick clock |
| `JourneyProofs` | theorems about `Journey` | |
| `SeedWorld` | the demo world's tables | `src/seed/seed-world.ts` |
| `YardMC`, `EngineMC`, `ServerMC`, `RealtimeMC`, `CalculationsMC` | small instances for TLC | `src/seed/seed-world.ts` |

### Yard

A handler `r` has a program counter `pc[r]` and a record `call[r]` of what it
was asked for and has read. One action is the code between two awaits, so a
value in `call[r]` is exactly a local variable that may be stale. The yard lock
is the sequence `queue`: its head holds it.

- *assign* (`runAssignDock`): queue, snapshot and score, then a transaction of
  three steps: free the old row and door, re-check the new door
  (`dockStillTakes`), commit. Between the first and the last the rows it wrote
  are locked (`RowLocked`), which is PostgreSQL's row lock and stops the dock
  status writers, who take no lock of their own.
- *release* (`releaseDock`): read the row, read the door's live status, commit.
- *take down, put back* (`setDockStatus`): read the door and its bookings, then
  write; a take-down hands the bookings it read to the cascade, which takes the
  yard lock anew for each row (`reassignDock`), walks the candidates and
  commits, finds no door, or throws.
- *docked, occupied, truck leaves*: the WMS's events about doors, not under
  the lock.
- *crash* (where `MayCrash`): every handler, its transaction and the queue are
  gone, what was committed stays. The forced exit of a shutdown is one such end
  of the process.

Left out: time (slots are pairs of numbers; nothing expires), null scheduled
windows, the ranking of doors (any acceptable one may win; `DockScoring` has the ranking), which only makes
more behaviours possible; realtime events; alerts, except the one that says a
truck could not be moved (`reported`).

### Engine and WmsFeed

`db` is a truck's row with its shipment's status, `live` the map in memory,
`slot` the holder of the barrier, `lifecycle` the queue of start, stop and
reset. `persist` is two steps: the transaction commits (or fails), and its
answer is taken up. That split is what makes the barrier matter.

- A handler reaches the barrier and finds it free, or parks and is woken.
  Promise continuations run before timers, so a parked handler goes before the
  next tick; and a request from the network never comes between two
  microtasks, so it cannot slip in while a reset that has drained the barrier
  is about to go on, while a handler that was parked already can.
- A tick reads the list of live states once (`seen`) and then advances them one
  by one, with a persist between.
- `load` reads rows and only after that await makes them the live trucks.
- The WMS handlers read the row, check it, wait for the barrier, and act on
  what they read: `call[r].saw` and `call[r].update`.
- `Booted = FALSE` starts with an empty live map and a stopped loop. The server
  listens before the autostart has loaded the fleet (`src/server.ts`), and
  autostart can be off, so requests do meet that state.

Left out: positions, speeds and ETAs (`Journey` has them), alerts, history
rows, and routes that do not parse. A tick moves a truck any distance ahead. A status report comes without a
position. The reads and the transaction of a docking are one step; the door and
booking it asks for are `Yard`'s.

### Server

`Server` extends `WmsFeed` with the process. Two of the engine's handlers are
the server's own: `Boot`, the autostart's `start()`, and `Term`, the shutdown's
`stop()`; the others belong one each to a connection. A connection is closed,
idle, busy with a request, or a socket. `stage` follows `shutdown()` from await
to await: the gate falls, the door closes and `stop()` is queued in one step;
then Socket.IO is closed, the HTTP server's end awaited, the database left. A
client may give up a request; its handler goes on, and nobody awaits it. The
timer's forced exit may come at any moment after the gate. The feed is checked
here, in its process: its actions are steps of `Server`'s next-state relation,
and `ServerLive` takes every one of them but the location reports, which are
`Server`'s, and the status reports, which are `FeedSteady`'s.

### Realtime

The engine is seen from outside: a truck's state is a number that grows with
each change (`story`), so that older and newer can be compared; its row follows
or does not. A handler's steps are the code between the socket's awaits: the
lookup, the join with the answer of a truck that is live, the read of a row,
the answer from it. `joined` is the two alias maps of a socket. `wire` is what
the server has sent and the client has not handled; it is emptied when the
connection is lost. The client is the one the comments describe: it takes a
snapshot as its new mark, drops an event numbered below the one it holds, and
asks again after a reconnect. `Patient` clients wait for one answer before
they send the next command.

That a dashboard misses nothing (`FollowerIsCurrent`) needs three things of
its surroundings, and TLC shows how it fails without each. A client must handle
what it was told before it asks again: one that leaves the operations page,
misses an event of a parked truck, and subscribes anew before it has handled
"left" keeps the old state, because the new snapshot tells only of the trucks
on the road (`MaxWire = 2`). Two subscriptions under way at once from a client
that does not wait for the first answer break it in the same way, so there is
one handler, or the client is patient. And
a truck must not be both one the engine loads and one whose facts went past it:
such a fact's announcement, made from a row, can be overtaken by a start and a
tick.

Left out: dock and alert events, which have rooms but no numbers; a restart of
the server under its clients.

### DockScoring and Recommend

The code adds fractions and rounds the sum once. `DockScoring` keeps each
component as a numerator over `Unit`, so that scores are exact and the rounding
is the code's. `Recommend` is one call: a request meets a yard, each door is
filtered or scored in turn, the list is sorted by score and then by code. The
filter is compared with a reference that walks over the minutes of the slot; the
score by what it must do when one input of it changes. One such change has an
exception that the proof brought out: a more urgent request may get a door that
keeps the truck waiting longer, but only where rounding gives the two doors one
score for one of the two priorities, and their codes decide
(`UrgentWaitsNoLonger` says so). That requests and yards are what the scorer may be
given is an assumption (`RecommendAssumption`), which TLC evaluates.

### Journey

Progress is counted in kilometres and an ETA in fractions of the clock's unit,
so that distance and time are exact and rounding hides nothing. The clock, the
loop's ticks (at any spacing: one that is skipped is just not taken), delay
commands, the WMS's reports, stops, starts and restarts that find only the row
interleave freely. `since` is for the properties alone: it records where and
when the truck was last placed and its top speed since. Writes do not fail
here; `Engine` has that.

### SeedWorld

The seed's doors, trucks, shipments and bookings as functions. The
calculations are checked on them; the yards and fleets of the other runs are
cut down to the same situations.

## 3. What TLC checks

Every run ends in under five minutes. Requests are two handlers interleaving
freely, which is what every race found in this code takes; symmetry is over the
request identities only, in runs without liveness.

| Run | Instance | Shows |
|---|---|---|
| `YardSerial` | 3 doors, 2 trucks, 1 handler, up to 4 rows, transactions may fail | status tells bookings, no truck is stranded in silence, out of service stays: with no concurrency, the code does what its comments say |
| `YardLocked` | 2 doors, 2 trucks, 2 handlers: assign, release, take-down with cascade; the process may crash at any step | no double booking, one door per truck, sound chains of moved rows, closed rows are final, each commit is one step of `Bookings` |
| `YardLive` | 1 truck, 2 doors, 2 handlers, transactions may fail | every call returns |
| `EngineRuns` | 2 trucks (one delayed), the interval, 2 handlers, every database call may fail | memory, rows and numbers keep in step, a failed write stays owed, a reset leaves a whole world |
| `FeedSteady` | a loaded engine in its process, a delayed truck, 2 connections: arrivals, status reports, delays, start, stop, shutdown; no failures | facts are not rolled back, delays end at the gate, rows keep up |
| `Server` | 1 truck, 2 connections: start, stop, delays, docking, arrival, location; shutdown at any moment, clients may leave; no failures | nothing starts the engine behind the last stop, a stop and a clean exit owe nothing, memory and rows agree on who is in the yard |
| `ServerLive` | 1 truck, 1 connection, all commands but location and status, autostart racing, every database call may fail | every command is answered, a shutdown ends by itself |
| `Realtime` | 2 trucks, a shipment, 1 client on any of 4 pages, the engine starting and rewinding, facts about a parked truck, lost connections, lookups may fail | the client is in its rooms and can leave them, is opened with fresh state and misses nothing; every subscription is answered |
| `Calculations` | 6 requests against the seeded yard and every state of its two reefer doors; a trip of 7 units of time with 2 scenarios and 2 reports | filter, scores and ranking; arrival times are kept, nobody teleports, delays leave no trace |

Bounds. `MaxRows`: no command that adds a row starts past so many; four rows
let a second truck join a door, lose it and be moved. `MaxSeq`: nothing that is
numbered starts once a truck has so many numbers; two is enough for an older
and a newer state of one truck, which is what every property compares; in
`Server` one is enough, as its properties are about what is owed, not about
order. `Far`, `ArrivingAt` and `CheckpointStep` are 3, 2 and 2 in the engine's runs
and `FeedSteady`, so that a truck can be before, at and past the arriving mark,
and the delayed one of `FeedSteady` meets a checkpoint where no status changes;
they are 2, 1 and 2 in `Server` and `ServerLive`, where no property is about
checkpoints. Location reports and delays meet in `Server`, status reports and
delays in `FeedSteady`: all three together are past what a run can hold, and the
theorems of section 5 have no such limit. `MaxStory` bounds a truck's changes in `Realtime`: two for the live
one, one for the parked one. `MaxWire = 1`: a client asks only when at most that
far behind, which still lets an event meet an answer on the wire; for
`FollowerIsCurrent` it is part of the claim (section 2). `Horizon = 7`
is enough to reach the warehouse at cruising speed (three ticks at 16 km each)
after a delay, a stop and a restart; `Beat` is 32, a multiple of every speed
times the multiplier, base speeds read back from a reported one included, so
that every division is exact (`ExactAssumption`).

The runs that end in a violation each check one statement the repository makes,
and TLC shows the interleaving that breaks it:

| Run | The statement | What happens |
|---|---|---|
| `YardStranded` | nobody is stranded in silence (`dock-failure-service.ts`) | a booking lands between an outage's read and its write, and escapes the cascade |
| `EngineLostMirror` | row and shipment never disagree (`simulation-store.ts`) | a failed transition is written again by the flush with reason `null`, which mirrors nothing |
| `RealtimeLeft` | a truck joined by its id can be left by its reference (`socket-server.ts`) | the reference was never subscribed with, so no room is found for it: the client is told it has left, and stays |

The models show other disagreements, which have no run of their own. Each is a
hazard in `PROJECT.json`, and comes out of TLC when the constants named here
are set in the run named here:

- `OutOfServiceStays` with two handlers: `YardLocked` without crashes and with
  `Commands = {"release", "takeDown"}` (a release commits on a status it read
  before the outage).
- `StatusTellsBookings` with two handlers: `YardSerial` with `Reqs = {r1, r2}`
  and `Commands = {"assign", "takeDown"}` (a reservation half clears a fault) or
  `{"assign", "putBack"}` (a put-back shows a booked door as free).
- `NoSilentStranding` with `MayCrash = TRUE`: `YardSerial` (the rest of a
  cascade is lost, and repeating the outage with the same reason is a no-op).
- `LoadedIsWhole` with reports, under `FeedSpec`: `EngineRuns` with
  `Booted = TRUE`, `MaxSeq = 1`, `MayFail = FALSE` and
  `Commands = {"reset", "location"}` (a report parked behind the drain
  repopulates the cleared map).
- `NoDelayInYard` for a truck that is not loaded, under `FeedSpec`: `EngineRuns`
  with `Commands = {"docked"}`.
- `DelayShown` with status reports, under `FeedSpec`: `EngineRuns` with
  `Booted = TRUE`, `Trucks = {t1}`, `World <- MCWorld`, `MayFail = FALSE` and
  `Commands = {"delay", "status"}`.
- `InYardStays` and `SequencesClimb` while a load is on its way, under
  `FeedSpec`: `EngineRuns` with `Trucks = {t1}`, `World <- MCWorld`,
  `MaxSeq = 3`, `MayFail = FALSE` and `Commands = {"start", "arrived"}` (the
  arrival goes straight to the row, and takes a number, while `load` holds older
  rows and counters).

And some that no property states, because the code promises nothing that could
be checked, or promises it only in a wording:

- Yard: the schema's "at most one ASSIGNED assignment" per door is not what the
  service does (disjoint slots share a door, by design); a reserved door's
  `availableFrom` is the end of the first booking, not the last; a docked truck
  can be re-picked; the reassignment-failed alert says "still assigned" of a row
  that had been released.
- Feed: a late arrival that waited for the barrier sets a docked truck back to
  ARRIVED.
- Scoring: an occupied door with no free time loses its availability fit and
  keeps its whole appointment fit; a door booked for later refuses an earlier
  truck by the end of the later slot.
- Trip: a report during a delay sets the speed and not the base, so the truck
  drives on at another base after a restart, and one reported at speed 0 stands
  still after its delay is cleared; a delay command between two ticks has the
  next tick bill the whole interval at the new speed.
- Realtime: a snapshot taken from a row has number 0, so the client may then
  apply an event it should drop; a rewind is announced only for trucks that are
  live after it, and who follows a parked one hears nothing.
- Server: nobody waits for the handler of a request whose client has left, also
  when the exit code is 0; a client that polls on one connection keeps `close()`
  waiting until the timer forces exit 1; an uncaught exception during a
  SIGTERM shutdown is ignored, and the process exits with 0.
- Reads: the allocation summary reads bookings and unassigned trucks in two
  statements at READ COMMITTED, so a truck can be in both or in neither.

## 4. Fairness

Liveness is claimed of handlers and of the shutdown, never of the interval. A
handler whose await has resolved is run by the event loop, and PostgreSQL
answers every call with success or an error: weak fairness of each handler's
steps (`Yard`, `Realtime`). A handler that waits its turn is enabled only now
and then, but the lock is a first-come queue, and those who await the barrier
wake in the order they came: strong fairness of a door's write against row
locks (`Yard`) and of a handler's steps at the barrier (`Server`). A tick that
has begun ends; ticks are not assumed to fire, and no call is assumed to
succeed.

`Server` adds: a handler that is done answers, `shutdown()` goes on when what
it awaits has come (weak fairness), and a connection that is idle again and
again is closed at last (strong fairness): clients are assumed to stop asking.
That is the one assumption about clients; without it the polling client above
holds the exit up. `ForceExit` has no fairness, so that `GracefulExit` is not
owed to it.

## 5. What is proved

All theorems are checked by TLAPS.

### The yard

`YardProofs` proves, for any sets of doors,
trucks, reasons, handlers and slots, and with crashes at any step:

- `TypeCorrect`, `NeverDoubleBooked`, `NeverTwoDoors`: type correctness, no two
  overlapping committed bookings on one door, at most one committed row per
  truck;
- `MovesAreExplained`: every reassigned row has exactly one replacement, later
  and for the same truck, and no other row has one;
- `ClosedRowsStay`: no step rewrites a row that is closed;
- `Refinement`: `Yard` implements `Bookings`: every step is one abstract
  booking step or a stutter;
- `StatusesTold`, `OutOfServiceHeld`: every door's status agrees with its
  bookings, and only the put-back command ends an outage, where `OneByOne`;
- `NobodyStranded`: a row still committed to a door that is down was reported,
  where one handler works at a time (`Sole`) and nothing crashes.

The assumptions are those `Yard` names: `Nil` is no ordinary value, slots are
non-empty intervals, the seed itself is free of clashes, doubles and broken
chains, and its doors' statuses tell of its bookings (`SeedStatusAssumption`).
TLC evaluates them in every run.

`OneByOne` says that there is one handler, or that none of them gives a door a
status: `setDockStatus` reads bookings and writes doors without the lock, and
with it in flight beside another command both properties fail (section 3).
Without it, any number of assignments, releases and trailers keep them, crashes
included. The lock alone does not explain that, as a trailer docks without it:
what a handler has read of a door must survive that the door is `OCCUPIED` when
it writes (`Still`). For `NobodyStranded` there is one handler: who takes a door
down and who books on it must not meet, which `YardStranded` shows, and a crash
loses the rest of a cascade.

None of the properties is inductive by itself. A commit is safe because of what
its handler read earlier and because nobody else could write in between, so the
invariant `IInv` adds what a handler knows at each program counter:

- `LockInv`: a handler between its turn and its return is the head of the queue,
  and no handler is queued twice, so at most one handler is inside;
- `CallOK`: the fields of `call[r]` have the values its step needs;
- `BookingInv`: the two safety properties and `SnapshotOK`: the row a handler
  inside found for its truck is still the truck's only committed row, and the
  re-check it made still holds. Only holders of the lock open or close rows, so
  the steps of everybody else leave it true.

`StatusInv` adds what handlers know of the doors they have read (`KnowsDoors`),
and `StrandInv` that a committed row on a door that is down either was answered
for or is among those a cascade at work will still come to.

The proof of `Invariant` has one step for each action. What a step may do to
the rows is said once, in `RowWrites`: nothing, complete the rows of a door,
cancel one, or book one, which retires the truck's old one and points to it if
it was moved. `ClosedRowsStay`,
`Refinement` and `MovesAreExplained` each rest on that, the last with an
induction of its own (`ChainStep`): it needs of `IInv` only that the row that
is retired is still a committed one.

### The trip

`JourneyProofs` proves, for any route, scenarios, reports, speed multiplier and
horizon:

- `TripTypeCorrect`: type correctness, and no delay is left on an arrived truck;
- `BaseSpeedSurvives`: a truck whose speed nobody reported has its cruising
  speed back whenever no scenario is on;
- `NobodyTeleports`: a truck is never further than its top speed takes it in the
  time the loop has run since it was last placed;
- `EtaIsHonest`: a tick moves an arrival time only by the time between working
  it out and the last billing, and a truck has arrived at the first tick after
  that time, not one before.

The assumptions are `JourneyAssumption`: a route of positive length, and
multipliers that divide the cruising speed; and, for the last theorem,
`ExactAssumption`: `Beat`, the fraction of time that ETAs are counted in, is
fine enough for every speed that a truck can have. The code divides in floating
point; with the assumption the model's divisions have no remainder, and the
theorem is about when the truck arrives and not about rounding. `EtaInv` says
that the arrival time of a truck on its way is that of its place and speed when
it was worked out, in the row too, as a restart goes by it. `TypeInv` and `TraceInv` speak of
the row as well as of the live truck, because a restart turns the one into the
other. `NeverTeleports` is not inductive: between two ticks the truck stands
behind what the clock allows it, and a tick makes up for it. `PlaceInv` bounds
the distance by the time that has been *billed*, the running time less what has
gone by since the last tick; ticks move time from owed to billed, and starts
must make the owed time zero, which is what rebasing the tick clock is for.

### The engine and its feed

`EngineProofs` proves of `Engine` alone, for any trucks, handlers, thresholds
and seeds, with failures and rewinds:

- `EngineTypes`: type correctness;
- `NoTickAfterStop`: with the loop off and no lifecycle command under way, no
  tick is either; `NoTickAfterStopWithFeed` says so of the engine with its feed;
- `CleanIsSaved`: a live truck that is not dirty is what its row says;
- `DelayIsShown`: scenario and status `DELAYED` come and go together;
- `LoadLeavesWhole`: a load or a rewind leaves memory empty or with every
  moving truck;
- `NumbersClimb`: the numbers of a truck's events never go back;
- `ShipmentsFollow`: if no database call fails, a shipment has its truck's
  status whenever that is one that shipments have.

Two invariants carry the others. `CoreInv` is true with the feed as well: what each
handler holds at its step (`CallInv`), that one handler has the barrier and
`inFlight` says which (`LockInv`), that the lifecycle queue holds each command
once and only its head has begun (`LifeInv`), and that the loop is off while one
is under way (`TimerInv`). `EngineInv` adds what only the engine by itself
keeps: from a drained barrier to the end of a load nobody has it (`QuietInv`), a
load's rows are still the rows (`LoadInv`), what the barrier's holder listed and
writes is what is in memory (`HolderInv`), and numbers go on from where a truck
is (`NumberInv`). The assumptions are `EngineAssumption` and `WorldAssumption`
(the seed shows its own delays). `MaxSeq`, which cuts TLC's runs, plays no part.

`ShipmentsFollow` is where the finding of `EngineLostMirror` ends: that run
fails a write, and the theorem says that nothing else the engine does breaks the
statement. `MirrorInv` says why: a write with a status as its reason brings that
status, a write without one brings the status the row already has, and a truck
that nobody is writing has its row's. The last part is what a failed write
breaks, since the flush at a stop writes what is dirty with no reason
(`PlainInv`). It also needs `ShipmentAssumption`: the seed's shipments have
their trucks' statuses.

`FeedProofs` proves of the engine with its feed:

- `ArrivalEndsDelay`: no truck is left in the yard with a delay, if the WMS
  docks none (`TRAILER_DOCKED` writes past the barrier and ends no delay);
- `StopSaves`: whenever the loop is off, the queue empty and the barrier free,
  every state in memory is in the database;
- `OneStoryTold`: memory and rows agree on who is in the yard whenever no
  handler is at work;
- `CheckpointsKeepUp`: a row is never a checkpoint behind its truck while nobody
  is at the barrier;
- `YardIsKept`: only a status report puts a truck in the yard back on the road.

These have hypotheses, each true of the run that checks the property, and each
needed. `Calm`, for all but the first: no database call fails, and nobody
rewinds the world (a rewind deletes rows under a write, which then fails).
`Steady`, for the last three: beside that, the fleet was loaded when the process
began to serve, and with a truck on the road, so that no load comes later; a
load can read a row before a fact is written to it and bring the old state back.
`YardIsKept` also has no docking. Section 3 names the counterexamples. The
invariants are `TidyInv` (no delay with a yard status in memory, rows, or in
what a handler is about to write), `CalmInv` (`CoreInv`, and: a dirty state
waits for a checkpoint, a stop or the write under way, and nobody changes what
the barrier's holder has listed) and `SteadyInv` (and: the live trucks are those
of the start, memory and row disagree only while one of them is about to be
told, and a truck is less than a checkpoint ahead of its last snapshot).

### The process

`ServerProofs` proves `ServerImplementsFeed`: every step of the process is a
step of the engine with its feed or leaves it alone. `ServerKeepsFeed` carries
the theorems above over to the process. Of its own:

- `ServerTypes`: type correctness, and no handler works for a connection that
  waits or was upgraded;
- `ShutdownIsFinal`: after the shutdown's `stop()` nothing starts the loop;
- `CleanExit`: where `Calm`, a process that ends with 0, and whose clients all
  waited, has left nothing unwritten.

`ShutInv` holds them up: the shutdown's `stop()` is the last in the lifecycle
queue, because the gate falls in the same step that queues it, and a start that
comes from an earlier request is before it. `LeftInv` says that when the
database is left every request has been answered or given up.

### Subscriptions

`RealtimeProofs` proves, for any trucks, shipments, names, clients and requests,
with failures, rewinds and lost connections:

- `RealtimeTypes`: type correctness;
- `AskedIsJoined`: a settled client is in every room it asked for;
- `RoomsCanBeLeft`: every name it asked with leads to its room, and every room
  it is in can be left;
- `OpeningsAreFresh`: until a rewind, no answer is older than what was known
  when its client joined;
- `LeavingLeaves`: a settled client is in no room that it was told it has left,
  if it is patient, goes by one name for each thing (`OneName`), and no lookup
  fails.

`RoomsInv` says of each wish that it is joined, on its way or about to be
refused (`Pledged`), and that the alias maps lead where names lead and reach
every room (`Mapped`). `Fresh` follows an answer from the join to the reply: no
row it will be read from is older than the join, except that of a live truck,
which is answered from memory. The assumption is `RealtimeAssumption`: what the
name tables are.

`LeavingLeaves` marks where the finding of `RealtimeLeft` ends. Without
`OneName` a client leaves by the name it did not subscribe with, and stays.
Without patience it may leave what is still being looked up, and be joined after
it was told that it has left. And a read that fails *after* the join is answered
with an error, though the room has been joined: such a client believes that it is
out, and is not. TLC shows each when the hypothesis is dropped. `LeaveInv` says
that every room of a client is one it has asked for and not left, that what is
being looked up has not been left, and that nothing which exists is on the wire
as refused.

`FollowerProofs` proves `FollowersAreCurrent`: a settled client that follows a
truck holds the truck's last event, or what its row said, under the conditions
named in section 2 (`Attentive`). The invariant, `FollowerInv`, must say how
each client will come to be up to date from wherever it is (`UpToDate`): the
last thing on its wire about the truck is a snapshot or the last event, or it is
about to forget the truck, or a subscription under way will answer, or it has
left the truck's rooms and asks for it no more, and the truck is one that every
snapshot of the dashboard tells. The last case is where a parked truck differs,
and why the conditions are what they are.

### Recommendations

`RecommendProofs` proves, for any doors, bookings, trucks, windows and times:

- `AnswerIsComplete`: an answer recommends exactly the doors that the
  minute-by-minute reference lets in, excludes the others, and names each once;
- `ScoresArePercentages`: a score is between 0 and 100, and 100 means free;
- `EarlierIsNoWorse`: of two doors otherwise the same, the one that is free
  earlier scores no less;
- `UrgencyIsNoSlower`: urgency never costs waiting, except for ties of rounding;
- `AnswerIsInOrder`: the sorted list stands by score and then by code.

`RequestInv` says what has been walked over so far; the rest is arithmetic about
the weights, in lemmas of their own, and that a finite list can be ranked. The
assumption is `RecommendAssumption`: door codes are distinct and stand in a
list, and requests and yards are what the scorer may be given.

### What is only model-checked

All liveness, and `ENABLED`, which are out of this prover's reach:
`EveryCallReturns` (`Yard`), `EveryCommandEnds` and `GracefulExit` (`Server`), and
`EverySubscriptionAnswered` (`Realtime`). Each of the other properties of the
passing runs is stated by a theorem whose hypotheses, if it has any, the run's
constants meet.

## 6. Not modelled, and the plan

In this order:

1. **The rewind in `Yard`**: it rewrites doors and bookings, with the seed's
   fixed ids, without the yard lock.
2. **A restart in `Engine` and `Realtime`**: counters begin at zero while
   clients keep their marks; states that were owed are lost.
3. **`Yard` and `WmsFeed` in one state**, for the docking event that touches
   both, and `DOCK_STATUS_CHANGED` against the board.
4. Dock and alert events in `Realtime`.

Not planned:

- the geometry of a polyline (floating point, no state);
- the reads for lists, boards and summaries, request validation, formatting and
  the writing of alerts: they change no state the properties are about. One of
  them, the allocation summary, has a hazard in `PROJECT.json`;
- the scripted WMS demo sequences, which the models already allow as any order
  of events;
- configuration, types and scripts.
