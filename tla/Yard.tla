-------------------------------- MODULE Yard --------------------------------
(***************************************************************************)
(* The dock yard: doors and dock assignment rows in Postgres, and the      *)
(* command handlers that write them, interleaved at their awaits.          *)
(*                                                                         *)
(*   assignDock, releaseDock, reassignDock   dock-assignment-service.ts    *)
(*   withYardLock                            dock-lock.ts                  *)
(*   setDockStatus                           dock-service.ts               *)
(*   handleDockFailure                       dock-failure-service.ts       *)
(*   TRAILER_DOCKED, DOCK_STATUS_UPDATED     wms-event-handler.ts          *)
(*                                                                         *)
(* One action is the code between two awaits.  The reads before a          *)
(* transaction are one step, and a transaction is one step per read or     *)
(* per write other writers can tell apart; what it wrote appears when it   *)
(* commits.  Only assignDock, releaseDock and reassignDock queue for the   *)
(* yard lock: every other writer of a door runs between their steps.       *)
(***************************************************************************)
EXTENDS Integers, Sequences

CONSTANTS Docks,      \* dock doors
          Trucks,     \* trucks
          Reqs,       \* handlers that can be running at one time
          Slots,      \* windows of time a truck may be booked for
          SlotsOf,    \* SlotsOf[t]: the slots truck t's ETA and appointment give
          Supports,   \* Supports[t]: the doors that take the load of truck t
          Reasons,    \* reasons a door is out of service for
          SeedDoors,  \* the doors the seed writes
          SeedRows,   \* the assignment rows the seed writes
          Commands,   \* the commands that arrive: a part of Op
          MaxRows,    \* bound: no command that adds rows starts past this many
          MayFail,    \* whether a transaction may fail for no reason of its own
          MayCrash,   \* whether the process may end with handlers under way
          Nil         \* "nothing": no truck, door, slot, reason or status

VARIABLES doors,     \* DockDoor table: status, reason, availableFrom
          rows,      \* DockAssignment table, in order of creation
          docked,    \* trucks whose status is DOCKED
          queue,     \* the yard lock's promise chain; its head runs
          pc,        \* pc[r]: where handler r stands
          call,      \* call[r]: what handler r was asked and has read
          reported   \* rows the last cascade over their door could not move

vars == <<doors, rows, docked, queue, pc, call, reported>>

-----------------------------------------------------------------------------
(* Values *)

NoRow  == 0      \* row ids count from 1
NoTime == 0      \* `availableFrom: null`; slots end at 1 or later

DockStatus == {"AVAILABLE", "RESERVED", "OCCUPIED", "UNAVAILABLE"}
RowStatus  == {"ASSIGNED", "REASSIGNED", "COMPLETED", "CANCELLED"}
Op   == {"none", "assign", "release", "takeDown", "putBack", "docked", "occupied"}
Step == {"idle", "queued", "scored", "freed", "checked", "found", "live",
         "read", "cascade", "walking", "moving"}

Door == [status : DockStatus, reason : Reasons \cup {Nil}, availableFrom : Nat]

Row == [truck : Trucks, dock : Docks, slot : Slots, status : RowStatus, prev : Nat]

(* A committed row as setDockStatus and releaseDock loaded it. *)
Affected == [id : Nat \ {NoRow}, truck : Trucks, start : Nat, end : Nat]

Call == [op     : Op,
         truck  : Trucks \cup {Nil},        \* the truck being placed
         dock   : Docks \cup {Nil},         \* the door the call names
         reason : Reasons \cup {Nil},       \* takeDown: the reason given
         slot   : Slots \cup {Nil},         \* the slot the truck was scored for
         row    : Nat,                      \* the row being superseded
         seen   : DockStatus \cup {Nil},    \* a door's status in a stale read
         live   : DockStatus \cup {Nil},    \* a door's status read in the transaction
         pick   : Docks \cup {Nil},         \* reassignDock: the door it settled on
         cands  : SUBSET Docks,             \* reassignDock: the ranking left to walk
         held   : SUBSET Affected]          \* committed rows read with the door

NoCall == [op |-> "none", truck |-> Nil, dock |-> Nil, reason |-> Nil, slot |-> Nil,
           row |-> NoRow, seen |-> Nil, live |-> Nil, pick |-> Nil,
           cands |-> {}, held |-> {}]

Overlaps(a, b) == a.start < b.end /\ a.end > b.start

(* What any assignment table must satisfy, the seed's first of all.        *)

Live(rs) == {i \in DOMAIN rs : rs[i].status = "ASSIGNED"}

Disjoint(rs) ==
  \A i, j \in Live(rs) : rs[i].dock = rs[j].dock /\ rs[i].truck # rs[j].truck
                           => ~Overlaps(rs[i].slot, rs[j].slot)

OneEach(rs) == \A i, j \in Live(rs) : rs[i].truck = rs[j].truck => i = j

Chained(rs) ==
  /\ \A i \in DOMAIN rs : rs[i].status = "REASSIGNED" => \E j \in DOMAIN rs : rs[j].prev = i
  /\ \A j \in DOMAIN rs : rs[j].prev # NoRow =>
       /\ rs[j].prev \in 1 .. (j - 1)
       /\ rs[rs[j].prev].status = "REASSIGNED"
       /\ rs[rs[j].prev].truck = rs[j].truck
  /\ \A j, k \in DOMAIN rs : rs[j].prev = rs[k].prev /\ rs[j].prev # NoRow => j = k

(* An AVAILABLE door has no booking, a RESERVED one has one, and a reason  *)
(* is given exactly while the door is out of service.                      *)
StatusesTell(ds, rs) ==
  \A d \in Docks :
    LET held == {i \in Live(rs) : rs[i].dock = d}
    IN  /\ ds[d].status = "AVAILABLE" => held = {}
        /\ ds[d].status = "RESERVED" => held # {}
        /\ ds[d].status = "UNAVAILABLE" <=> ds[d].reason # Nil

ASSUME NilAssumption ==
  /\ Nil \notin Docks /\ Nil \notin Trucks /\ Nil \notin Slots
  /\ Nil \notin Reasons /\ Nil \notin DockStatus

ASSUME SlotAssumption ==
  /\ Slots \subseteq [start : Nat, end : Nat]
  /\ \A s \in Slots : s.start < s.end
  /\ SlotsOf \in [Trucks -> SUBSET Slots]
  /\ Supports \in [Trucks -> SUBSET Docks]

ASSUME SeedAssumption ==
  /\ SeedDoors \in [Docks -> Door]
  /\ SeedRows \in Seq(Row)
  /\ Disjoint(SeedRows) /\ OneEach(SeedRows) /\ Chained(SeedRows)

(* seed-world.ts: D7 is out of service, and its truck has been moved.      *)
ASSUME SeedStatusAssumption ==
  /\ StatusesTell(SeedDoors, SeedRows)
  /\ \A i \in Live(SeedRows) : SeedDoors[SeedRows[i].dock].status # "UNAVAILABLE"

-----------------------------------------------------------------------------
(* Reads of the assignment table *)

Ids == DOMAIN rows
Committed(i) == rows[i].status = "ASSIGNED"

CommittedOn(d) == {i \in Ids : Committed(i) /\ rows[i].dock = d}
CommittedOf(t) == {i \in Ids : Committed(i) /\ rows[i].truck = t}

(* The committed row of a truck, the newest if there were several. *)
Current(t) ==
  IF CommittedOf(t) = {} THEN NoRow
  ELSE CHOOSE i \in CommittedOf(t) : \A j \in CommittedOf(t) : j <= i

AffectedOn(d) ==
  {[id |-> i, truck |-> rows[i].truck, start |-> rows[i].slot.start,
    end |-> rows[i].slot.end] : i \in CommittedOn(d)}

(* Mutant: only a row for the very same slot counts as a clash.            *)
ClashSameSlot(d, t, s) ==
  \E i \in CommittedOn(d) : rows[i].truck # t /\ rows[i].slot = s

(* Another truck is committed to door d across slot s. *)
Clash(d, t, s) ==
  \E i \in CommittedOn(d) : rows[i].truck # t /\ Overlaps(rows[i].slot, s)

(* The hard filter of the scoring engine.  A door's availableFrom does not *)
(* count against the truck that is its only holder.                        *)
BusyUntil(d, t) ==
  IF CommittedOn(d) # {} /\ CommittedOn(d) \subseteq CommittedOf(t)
  THEN NoTime ELSE doors[d].availableFrom

Options(t, s) ==
  {d \in Supports[t] :
     /\ doors[d].status # "UNAVAILABLE"
     /\ ~Clash(d, t, s)
     /\ BusyUntil(d, t) = NoTime \/ BusyUntil(d, t) < s.end}

(* The re-check inside the transaction, against the door's live row. *)
DockStillTakes(d, t, s) == doors[d].status # "UNAVAILABLE" /\ ~Clash(d, t, s)

-----------------------------------------------------------------------------
(* Handlers *)

Init == /\ doors = SeedDoors
        /\ rows = SeedRows
        /\ docked = {}
        /\ queue = <<>>
        /\ pc = [r \in Reqs |-> "idle"]
        /\ call = [r \in Reqs |-> NoCall]
        /\ reported = {}

Idle(r, op) == pc[r] = "idle" /\ op \in Commands

Running(r, step, op) == pc[r] = step /\ call[r].op = op

(* Mutant: the operation starts without waiting for its turn.              *)
TurnUnlocked(r, op) == Running(r, "queued", op) /\ queue # <<>>

(* r asked for the lock, and every operation queued before it has settled. *)
Turn(r, op) == Running(r, "queued", op) /\ queue # <<>> /\ Head(queue) = r

Goto(r, step) == pc' = [pc EXCEPT ![r] = step]
Learn(r, c)   == call' = [call EXCEPT ![r] = c]
Return(r)     == Goto(r, "idle") /\ Learn(r, NoCall)

(* withYardLock chains off both reported: an operation that throws settles  *)
(* its link just as one that returns.                                      *)
Lock(r) == queue' = Append(queue, r)
Unlock  == queue' = Tail(queue)

Fits == Len(rows) < MaxRows

(* Mutant: a superseded row goes back to being a proposal.                 *)
WithStatusReverted(ids, st) ==
  [i \in Ids |-> IF i \in ids THEN [rows[i] EXCEPT !.status = "RECOMMENDED"] ELSE rows[i]]

WithStatus(ids, st) ==
  [i \in Ids |-> IF i \in ids THEN [rows[i] EXCEPT !.status = st] ELSE rows[i]]

(* Mutant: the replacement is not linked to the row it replaces.           *)
NewRowUnlinked(t, d, s, p) ==
  [truck |-> t, dock |-> d, slot |-> s, status |-> "ASSIGNED", prev |-> NoRow]

NewRow(t, d, s, p) ==
  [truck |-> t, dock |-> d, slot |-> s, status |-> "ASSIGNED", prev |-> p]

(* AVAILABLE -> RESERVED, off the status the re-check read.  The update    *)
(* names the door by id only, and leaves its reason alone.                 *)
Reserved(d, c) ==
  IF c.live = "AVAILABLE"
  THEN [doors[d] EXCEPT !.status = "RESERVED", !.availableFrom = c.slot.end]
  ELSE doors[d]

HandedBack(d) == [doors[d] EXCEPT !.status = "AVAILABLE", !.availableFrom = NoTime]
Occupied(d)   == [doors[d] EXCEPT !.status = "OCCUPIED", !.availableFrom = NoTime]

-----------------------------------------------------------------------------
(* assignDock: under the yard lock *)

RequestAssign(r, t, d) ==
  /\ Idle(r, "assign") /\ Fits
  /\ Goto(r, "queued") /\ Lock(r)
  /\ Learn(r, [NoCall EXCEPT !.op = "assign", !.truck = t, !.dock = d])
  /\ UNCHANGED <<doors, rows, docked, reported>>

(* 400, 409, or the truck already holds this door: nothing is written. *)
AssignRefused(r) ==
  /\ Turn(r, "assign")
  /\ LET t == call[r].truck
         d == call[r].dock
     IN  \/ \E s \in SlotsOf[t] : d \notin Options(t, s)
         \/ Current(t) # NoRow /\ rows[Current(t)].dock = d
  /\ Return(r) /\ Unlock
  /\ UNCHANGED <<doors, rows, docked, reported>>

(* loadContext: the truck, its committed row, and the doors as they stand. *)
AssignScored(r) ==
  /\ Turn(r, "assign")
  /\ LET t   == call[r].truck
         cur == Current(t)
     IN  \E s \in SlotsOf[t] :
           /\ call[r].dock \in Options(t, s)
           /\ cur # NoRow => rows[cur].dock # call[r].dock
           /\ Learn(r, [call[r] EXCEPT !.slot = s, !.row = cur,
                 !.seen = IF cur = NoRow THEN Nil ELSE doors[rows[cur].dock].status])
  /\ Goto(r, "scored")
  /\ UNCHANGED <<doors, rows, docked, queue, reported>>

(* Mutant: the door is handed back though another booking holds it.        *)
FreesPreviousAlways(r) == call[r].row # NoRow /\ call[r].seen = "RESERVED"

(* The door the truck leaves is handed back if the snapshot showed it      *)
(* RESERVED and no other committed row holds it.                           *)
FreesPrevious(r) ==
  /\ call[r].row # NoRow
  /\ call[r].seen = "RESERVED"
  /\ CommittedOn(rows[call[r].row].dock) \subseteq {call[r].row}

(* In the transaction: the old row and its door are written.  Nobody sees  *)
(* it until the commit, but from here on the door's row is locked.         *)
AssignFree(r) ==
  /\ Running(r, "scored", "assign")
  /\ Goto(r, "freed")
  /\ UNCHANGED <<doors, rows, docked, queue, call, reported>>

RowLocked(d) ==
  \E r \in Reqs : /\ pc[r] \in {"freed", "checked"}
                  /\ FreesPrevious(r) /\ rows[call[r].row].dock = d

AssignRecheck(r) ==
  /\ Running(r, "freed", "assign")
  /\ DockStillTakes(call[r].dock, call[r].truck, call[r].slot)
  /\ Goto(r, "checked")
  /\ Learn(r, [call[r] EXCEPT !.live = doors[call[r].dock].status])
  /\ UNCHANGED <<doors, rows, docked, queue, reported>>

(* 409: the transaction rolls back. *)
AssignConflict(r) ==
  /\ Running(r, "freed", "assign")
  /\ ~DockStillTakes(call[r].dock, call[r].truck, call[r].slot)
  /\ Return(r) /\ Unlock
  /\ UNCHANGED <<doors, rows, docked, reported>>

(* Mutant: the old row is cancelled only when its door is handed back.     *)
AssignCommitKeepsOld(r) ==
  /\ Running(r, "checked", "assign")
  /\ LET c == call[r]
     IN  /\ rows' = Append(WithStatus(IF FreesPrevious(r) THEN {c.row} ELSE {}, "CANCELLED"),
                           NewRow(c.truck, c.dock, c.slot, NoRow))
         /\ doors' = [d \in Docks |->
              IF FreesPrevious(r) /\ d = rows[c.row].dock THEN HandedBack(d)
              ELSE IF d = c.dock THEN Reserved(d, c)
              ELSE doors[d]]
  /\ Return(r) /\ Unlock
  /\ UNCHANGED <<docked, reported>>

AssignCommit(r) ==
  /\ Running(r, "checked", "assign")
  /\ LET c == call[r]
     IN  /\ rows' = Append(WithStatus({c.row}, "CANCELLED"),
                           NewRow(c.truck, c.dock, c.slot, NoRow))
         /\ doors' = [d \in Docks |->
              IF FreesPrevious(r) /\ d = rows[c.row].dock THEN HandedBack(d)
              ELSE IF d = c.dock THEN Reserved(d, c)
              ELSE doors[d]]
  /\ Return(r) /\ Unlock
  /\ UNCHANGED <<docked, reported>>

-----------------------------------------------------------------------------
(* releaseDock: under the yard lock *)

RequestRelease(r, d) ==
  /\ Idle(r, "release")
  /\ Goto(r, "queued") /\ Lock(r)
  /\ Learn(r, [NoCall EXCEPT !.op = "release", !.dock = d])
  /\ UNCHANGED <<doors, rows, docked, reported>>

ReleaseFound(r) ==
  /\ Turn(r, "release")
  /\ Goto(r, "found")
  /\ Learn(r, [call[r] EXCEPT !.held = AffectedOn(call[r].dock)])
  /\ UNCHANGED <<doors, rows, docked, queue, reported>>

ReleaseReadLive(r) ==
  /\ Running(r, "found", "release")
  /\ Goto(r, "live")
  /\ Learn(r, [call[r] EXCEPT !.live = doors[call[r].dock].status])
  /\ UNCHANGED <<doors, rows, docked, queue, reported>>

(* Mutant: a door that is out of service is handed back all the same.      *)
ReleaseCommitBlind(r) ==
  /\ Running(r, "live", "release")
  /\ rows' = WithStatus({a.id : a \in call[r].held}, "COMPLETED")
  /\ doors' = [doors EXCEPT ![call[r].dock] = HandedBack(call[r].dock)]
  /\ Return(r) /\ Unlock
  /\ UNCHANGED <<docked, reported>>

ReleaseCommit(r) ==
  /\ Running(r, "live", "release")
  /\ rows' = WithStatus({a.id : a \in call[r].held}, "COMPLETED")
  /\ doors' = IF call[r].live = "UNAVAILABLE" THEN doors
              ELSE [doors EXCEPT ![call[r].dock] = HandedBack(call[r].dock)]
  /\ Return(r) /\ Unlock
  /\ UNCHANGED <<docked, reported>>

(* Mutant: the chain hangs off the operation itself, so that one that      *)
(* throws leaves every later one waiting.                                  *)
TransactionFailsWedges(r) ==
  /\ MayFail
  /\ pc[r] \in {"freed", "checked", "found", "live"}
  /\ Return(r)
  /\ UNCHANGED <<doors, rows, docked, queue, reported>>

(* A transaction of assignDock or releaseDock fails: it rolls back. *)
TransactionFails(r) ==
  /\ MayFail
  /\ pc[r] \in {"freed", "checked", "found", "live"}
  /\ Return(r) /\ Unlock
  /\ UNCHANGED <<doors, rows, docked, reported>>

-----------------------------------------------------------------------------
(* setDockStatus: not under the lock.  The read decides what the write,    *)
(* which names the door by id only, makes of it.                           *)

TakeDownRead(r, d, why) ==
  /\ Idle(r, "takeDown") /\ Fits
  /\ ~(doors[d].status = "UNAVAILABLE" /\ doors[d].reason = why)
  /\ Goto(r, "read")
  /\ Learn(r, [NoCall EXCEPT !.op = "takeDown", !.dock = d, !.reason = why,
                             !.held = AffectedOn(d)])
  /\ UNCHANGED <<doors, rows, docked, queue, reported>>

TakeDownWrite(r) ==
  /\ Running(r, "read", "takeDown")
  /\ ~RowLocked(call[r].dock)
  /\ doors' = [doors EXCEPT ![call[r].dock].status = "UNAVAILABLE",
                            ![call[r].dock].reason = call[r].reason]
  /\ reported' = reported \ {a.id : a \in call[r].held}
  /\ IF call[r].held = {} THEN Return(r) ELSE Goto(r, "cascade") /\ UNCHANGED call
  /\ UNCHANGED <<rows, docked, queue>>

PutBackRead(r, d) ==
  /\ Idle(r, "putBack")
  /\ doors[d].status = "UNAVAILABLE"
  /\ Goto(r, "read")
  /\ Learn(r, [NoCall EXCEPT !.op = "putBack", !.dock = d, !.held = AffectedOn(d)])
  /\ UNCHANGED <<doors, rows, docked, queue, reported>>

(* A booking that survived keeps the door RESERVED, until its last one ends. *)
PutBackWrite(r) ==
  /\ Running(r, "read", "putBack")
  /\ ~RowLocked(call[r].dock)
  /\ LET d    == call[r].dock
         held == call[r].held
     IN  \/ /\ held = {}
            /\ doors' = [doors EXCEPT ![d] =
                 [status |-> "AVAILABLE", reason |-> Nil, availableFrom |-> NoTime]]
         \/ \E a \in held :
              /\ \A b \in held : b.end <= a.end
              /\ doors' = [doors EXCEPT ![d] =
                   [status |-> "RESERVED", reason |-> Nil, availableFrom |-> a.end]]
  /\ Return(r)
  /\ UNCHANGED <<rows, docked, queue, reported>>

-----------------------------------------------------------------------------
(* handleDockFailure: one reassignDock, with its own turn of the lock, for *)
(* each row the door held when takeDown read it, earliest slot first.      *)

Earliest(a, held) ==
  \A b \in held : a.start < b.start \/ (a.start = b.start /\ a.id <= b.id)

RequestReassign(r) ==
  /\ Running(r, "cascade", "takeDown")
  /\ \E a \in call[r].held :
       /\ Earliest(a, call[r].held)
       /\ Learn(r, [call[r] EXCEPT !.row = a.id, !.truck = a.truck])
  /\ Goto(r, "queued") /\ Lock(r)
  /\ UNCHANGED <<doors, rows, docked, reported>>

ReassignScored(r) ==
  /\ Turn(r, "takeDown")
  /\ \E s \in SlotsOf[call[r].truck] :
       Learn(r, [call[r] EXCEPT !.slot = s, !.cands = Options(call[r].truck, s)])
  /\ Goto(r, "walking")
  /\ UNCHANGED <<doors, rows, docked, queue, reported>>

(* Walk the ranking: skip a door that no longer takes the truck, settle on *)
(* the first that does.                                                    *)
ReassignSkip(r, d) ==
  /\ Running(r, "walking", "takeDown")
  /\ d \in call[r].cands
  /\ ~DockStillTakes(d, call[r].truck, call[r].slot)
  /\ Learn(r, [call[r] EXCEPT !.cands = @ \ {d}])
  /\ UNCHANGED <<doors, rows, docked, queue, pc, reported>>

ReassignPick(r, d) ==
  /\ Running(r, "walking", "takeDown")
  /\ d \in call[r].cands
  /\ DockStillTakes(d, call[r].truck, call[r].slot)
  /\ Learn(r, [call[r] EXCEPT !.pick = d, !.live = doors[d].status])
  /\ Goto(r, "moving")
  /\ UNCHANGED <<doors, rows, docked, queue, reported>>

(* Mutant: the update names the row by id and nothing else.                *)
StillCommittedUnasked(i) == TRUE

(* The conditional update: the row is still the committed one we read. *)
StillCommitted(i) == Committed(i)

(* Mutant: the cascade ends with its first row.                            *)
NextRowStops(r) == Unlock /\ Return(r)

(* The cascade goes on to the next row. *)
NextRow(r) ==
  LET c    == call[r]
      left == {a \in c.held : a.id # c.row}
  IN  /\ Unlock
      /\ IF left = {} THEN Return(r)
         ELSE /\ Goto(r, "cascade")
              /\ Learn(r, [NoCall EXCEPT !.op = "takeDown", !.dock = c.dock,
                                         !.reason = c.reason, !.held = left])

(* clearAvailabilityIfUnheld, once the row that left door d is not counted. *)
ClearedIfUnheld(d, i, door) ==
  IF CommittedOn(d) \subseteq {i} THEN [door EXCEPT !.availableFrom = NoTime] ELSE door

ReassignCommit(r) ==
  /\ Running(r, "moving", "takeDown")
  /\ StillCommitted(call[r].row)
  /\ LET c == call[r]
         from == rows[c.row].dock
     IN  /\ rows' = Append(WithStatus({c.row}, "REASSIGNED"),
                           NewRow(c.truck, c.pick, c.slot, c.row))
         /\ doors' = [d \in Docks |->
              IF d = c.pick THEN Reserved(d, c)
              ELSE IF d = from THEN ClearedIfUnheld(d, c.row, doors[d])
              ELSE doors[d]]
  /\ NextRow(r)
  /\ UNCHANGED <<docked, reported>>

ReassignNoDock(r) ==
  /\ Running(r, "walking", "takeDown")
  /\ call[r].cands = {}
  /\ StillCommitted(call[r].row)
  /\ rows' = WithStatus({call[r].row}, "CANCELLED")
  /\ LET from == rows[call[r].row].dock
     IN  doors' = [doors EXCEPT ![from] = ClearedIfUnheld(from, call[r].row, @)]
  /\ NextRow(r)
  /\ UNCHANGED <<docked, reported>>

(* The row was released or re-picked meanwhile, or the transaction failed: *)
(* REASSIGNMENT_FAILED, in the answer and in an alert.                     *)
ReassignThrows(r) ==
  /\ \/ Running(r, "moving", "takeDown")
     \/ Running(r, "walking", "takeDown") /\ call[r].cands = {}
  /\ MayFail \/ ~StillCommitted(call[r].row)
  /\ reported' = reported \cup {call[r].row}
  /\ NextRow(r)
  /\ UNCHANGED <<doors, rows, docked>>

-----------------------------------------------------------------------------
(* WMS events about doors: not under the lock *)

DockedRead(r, t, d) ==
  /\ Idle(r, "docked")
  /\ CommittedOf(t) \cap CommittedOn(d) # {}
  /\ doors[d].status # "UNAVAILABLE"
  /\ ~(t \in docked /\ doors[d].status = "OCCUPIED")
  /\ Goto(r, "read")
  /\ Learn(r, [NoCall EXCEPT !.op = "docked", !.truck = t, !.dock = d])
  /\ UNCHANGED <<doors, rows, docked, queue, reported>>

DockedWrite(r) ==
  /\ Running(r, "read", "docked")
  /\ ~RowLocked(call[r].dock)
  /\ doors' = [doors EXCEPT ![call[r].dock] = Occupied(call[r].dock)]
  /\ docked' = docked \cup {call[r].truck}
  /\ Return(r)
  /\ UNCHANGED <<rows, queue, reported>>

OccupiedRead(r, d) ==
  /\ Idle(r, "occupied")
  /\ doors[d].status \notin {"OCCUPIED", "UNAVAILABLE"}
  /\ Goto(r, "read")
  /\ Learn(r, [NoCall EXCEPT !.op = "occupied", !.dock = d])
  /\ UNCHANGED <<doors, rows, docked, queue, reported>>

OccupiedWrite(r) ==
  /\ Running(r, "read", "occupied")
  /\ ~RowLocked(call[r].dock)
  /\ doors' = [doors EXCEPT ![call[r].dock] = Occupied(call[r].dock)]
  /\ Return(r)
  /\ UNCHANGED <<rows, docked, queue, reported>>

(* TRAILER_STATUS_UPDATED gives a docked truck another status. *)
TruckLeaves(t) ==
  /\ t \in docked
  /\ docked' = docked \ {t}
  /\ UNCHANGED <<doors, rows, queue, pc, call, reported>>

(* The process ends, forced by the shutdown's timer or killed, and another *)
(* one is started: what was committed stays, what was under way is gone.   *)
Crash ==
  /\ MayCrash
  /\ pc' = [r \in Reqs |-> "idle"]
  /\ call' = [r \in Reqs |-> NoCall]
  /\ queue' = <<>>
  /\ UNCHANGED <<doors, rows, docked, reported>>

-----------------------------------------------------------------------------
(* A command arrives. *)
Arrive(r) ==
  \/ \E t \in Trucks, d \in Docks : RequestAssign(r, t, d) \/ DockedRead(r, t, d)
  \/ \E d \in Docks : RequestRelease(r, d) \/ PutBackRead(r, d) \/ OccupiedRead(r, d)
  \/ \E d \in Docks, why \in Reasons : TakeDownRead(r, d, why)

(* A handler that is running takes its next step. *)
Proceed(r) ==
  \/ AssignRefused(r) \/ AssignScored(r) \/ AssignFree(r) \/ AssignRecheck(r)
  \/ AssignConflict(r) \/ AssignCommit(r)
  \/ ReleaseFound(r) \/ ReleaseReadLive(r) \/ ReleaseCommit(r) \/ TransactionFails(r)
  \/ TakeDownWrite(r) \/ PutBackWrite(r)
  \/ RequestReassign(r) \/ ReassignScored(r)
  \/ \E d \in Docks : ReassignSkip(r, d) \/ ReassignPick(r, d)
  \/ ReassignCommit(r) \/ ReassignNoDock(r) \/ ReassignThrows(r)
  \/ DockedWrite(r) \/ OccupiedWrite(r)

Next == \/ \E r \in Reqs : Arrive(r) \/ Proceed(r)
        \/ \E t \in Trucks : TruckLeaves(t)
        \/ Crash

Spec == Init /\ [][Next]_vars

(* Node runs every promise whose await has resolved, and Postgres answers. *)
(* A write that waits for a row lock is strongly fair: Postgres queues the *)
(* waiters, so a stream of transactions does not starve it.                *)
DoorWrite(r) ==
  TakeDownWrite(r) \/ PutBackWrite(r) \/ DockedWrite(r) \/ OccupiedWrite(r)

FairSpec == /\ Spec
            /\ \A r \in Reqs : WF_vars(Proceed(r)) /\ SF_vars(DoorWrite(r))

-----------------------------------------------------------------------------
(* Properties *)

TypeOK == /\ doors \in [Docks -> Door]
          /\ rows \in Seq(Row)
          /\ docked \subseteq Trucks
          /\ queue \in Seq(Reqs)
          /\ pc \in [Reqs -> Step]
          /\ call \in [Reqs -> Call]
          /\ reported \subseteq Nat

(* No two trucks are committed to one door for overlapping slots, whatever *)
(* assignments, cascades and releases are interleaved (dock-lock.ts).      *)
NoDoubleBooking == Disjoint(rows)

(* A truck never has two committed rows: a re-pick and a cascade both retire *)
(* the old one in the transaction that writes the new one.                 *)
OneDoorPerTruck == OneEach(rows)

(* The reassignment chain explains every forced move: a REASSIGNED row has *)
(* exactly one replacement, later and for the same truck, and only a       *)
(* REASSIGNED row has one.                                                 *)
ChainSound == Chained(rows)

(* A row that was completed, cancelled or reassigned is never rewritten, and *)
(* a committed one only changes status: a cascade that lost a race to a    *)
(* release or a re-pick does not overwrite what won.                       *)
RowsFinal ==
  [][\A i \in Ids :
       /\ i \in DOMAIN rows'
       /\ rows'[i] = IF Committed(i) THEN [rows[i] EXCEPT !.status = rows'[i].status]
                     ELSE rows[i]]_rows

(* The abstract bookings the rows stand for. *)
B == INSTANCE Bookings WITH
       booking <- [t \in Trucks |-> {<<rows[i].dock, rows[i].slot>> : i \in CommittedOf(t)}]

(* Every commit of a handler is one abstract booking step, or none. *)
ImplementsBookings == B!Spec

(* Every command that arrived is answered: a refusal, a conflict or a failed *)
(* transaction in front of it in the lock's queue does not wedge it.       *)
EveryCallReturns == \A r \in Reqs : pc[r] # "idle" ~> pc[r] = "idle"

(* A door's status and reason tell its bookings, through re-picks, moves   *)
(* and releases of doors that others still hold.  One command at a time, or *)
(* none of dock status.                                                    *)
StatusTellsBookings == StatusesTell(doors, rows)

Quiet == \A r \in Reqs : pc[r] = "idle"

(* "A door that is out of service stays out of service": only the put-back *)
(* command ends it.                                                        *)
OutOfServiceStays ==
  [][\A d \in Docks :
       doors[d].status = "UNAVAILABLE" /\ doors'[d].status # "UNAVAILABLE"
         => \E r \in Reqs : Running(r, "read", "putBack") /\ call[r].dock = d]_doors

(* No truck is stranded in silence: once the commands have returned, a row *)
(* still committed to a door that is down was answered for by a cascade.   *)
NoSilentStranding ==
  Quiet => \A i \in Ids :
    Committed(i) /\ doors[rows[i].dock].status = "UNAVAILABLE"
      => i \in reported
=============================================================================
