----------------------------- MODULE YardProofs -----------------------------
(***************************************************************************)
(* Theorems about the yard, for any number of doors, trucks and handlers   *)
(* and any seed that satisfies SeedAssumption.  MaxRows plays no part.     *)
(***************************************************************************)
EXTENDS Yard, TLAPS, SequenceTheorems

-----------------------------------------------------------------------------
(* The inductive invariant *)

(* The steps a handler takes while it has the lock. *)
Inside == {"scored", "freed", "checked", "found", "live", "walking", "moving"}

(* What a handler was asked, and what it read that no other handler changes. *)
CallOK(r) ==
  LET c == call[r]
  IN  /\ c.op # "none" => c.dock \in Docks
      /\ c.op \in {"assign", "docked"} => c.truck \in Trucks
      /\ c.op = "takeDown" => c.reason \in Reasons
      /\ pc[r] \in {"scored", "freed", "checked", "walking", "moving"} => c.slot \in Slots
      /\ pc[r] \in {"walking", "moving"} \/ (pc[r] = "queued" /\ c.op = "takeDown")
           => c.row \in Ids /\ rows[c.row].truck = c.truck
      /\ pc[r] = "moving" => c.pick \in Docks
      /\ \A a \in c.held : a.id \in Ids /\ rows[a.id].truck = a.truck

TypeInv == TypeOK /\ \A r \in Reqs : CallOK(r)

(* Only the handler at the head of the promise chain is inside the lock. *)
LockInv == \A r \in Reqs : pc[r] \in Inside => queue # <<>> /\ Head(queue) = r

(* What the holder of the lock read is still true when it commits. *)
SnapshotOK(r) ==
  LET c == call[r]
  IN  /\ pc[r] \in {"scored", "freed", "checked"}
           => /\ c.op = "assign"
              /\ CommittedOf(c.truck) = IF c.row = NoRow THEN {} ELSE {c.row}
      /\ pc[r] \in {"found", "live"}
           => c.op = "release" /\ {a.id : a \in c.held} = CommittedOn(c.dock)
      /\ pc[r] \in {"walking", "moving"} => c.op = "takeDown"
      /\ pc[r] = "checked" => ~Clash(c.dock, c.truck, c.slot)
      /\ pc[r] = "moving" => ~Clash(c.pick, c.truck, c.slot)

BookingInv == /\ NoDoubleBooking
              /\ OneDoorPerTruck
              /\ \A r \in Reqs : SnapshotOK(r)

IInv == TypeInv /\ LockInv /\ BookingInv

-----------------------------------------------------------------------------
(* Lemmas about the assignment table *)

(* Retiring rows changes their status and nothing else. *)
LEMMA Retire ==
  ASSUME rows \in Seq(Row), NEW ids, NEW st \in RowStatus
  PROVE  LET w == WithStatus(ids, st)
         IN  /\ w \in Seq(Row)
             /\ Len(w) = Len(rows)
             /\ DOMAIN w = Ids
             /\ \A i \in Ids : w[i] = IF i \in ids THEN [rows[i] EXCEPT !.status = st]
                                      ELSE rows[i]
<1> DEFINE w == WithStatus(ids, st)
<1>1. Len(rows) \in Nat /\ Ids = 1 .. Len(rows) /\ \A i \in Ids : rows[i] \in Row
  BY LenProperties, ElementOfSeq DEF Ids
<1>2. /\ DOMAIN w = Ids
      /\ \A i \in Ids : w[i] = IF i \in ids THEN [rows[i] EXCEPT !.status = st] ELSE rows[i]
  BY DEF WithStatus
<1>3. \A i \in Ids : w[i] \in Row
  BY <1>1, <1>2 DEF Row
<1>4. w \in [1 .. Len(rows) -> Row]
  BY <1>1, <1>2, <1>3 DEF WithStatus
<1>5. w \in Seq(Row)
  BY <1>1, <1>4, SeqDef
<1>6. Len(w) = Len(rows)
  BY <1>1, <1>2, <1>5, LenProperties
<1> QED
  BY <1>2, <1>5, <1>6

(* The table w is the rows with some of them retired and a new one at the end. *)
Grown(w, ids, st, new) ==
  /\ w \in Seq(Row)
  /\ DOMAIN w = 1 .. (Len(rows) + 1)
  /\ Len(rows) + 1 \notin Ids
  /\ w[Len(rows) + 1] = new
  /\ \A i \in Ids : w[i] = IF i \in ids THEN [rows[i] EXCEPT !.status = st] ELSE rows[i]

(* Booking retires rows and adds one at the end. *)
LEMMA Place ==
  ASSUME rows \in Seq(Row), NEW ids, NEW st \in RowStatus, NEW new \in Row
  PROVE  Grown(Append(WithStatus(ids, st), new), ids, st, new)
<1> DEFINE v == WithStatus(ids, st)
           w == Append(v, new)
<1>1. /\ v \in Seq(Row) /\ Len(v) = Len(rows) /\ DOMAIN v = Ids
      /\ \A i \in Ids : v[i] = IF i \in ids THEN [rows[i] EXCEPT !.status = st] ELSE rows[i]
  BY Retire
<1>2. Len(rows) \in Nat /\ Ids = 1 .. Len(rows)
  BY LenProperties DEF Ids
<1> HIDE DEF v
<1>3. w \in Seq(Row) /\ Len(w) = Len(rows) + 1
  BY <1>1, <1>2
<1>4. DOMAIN w = 1 .. (Len(rows) + 1)
  BY <1>2, <1>3, LenProperties
<1>5. w[Len(rows) + 1] = new /\ \A i \in Ids : w[i] = v[i]
  BY <1>1, <1>2
<1>6. Grown(w, ids, st, new)
  BY <1>1, <1>2, <1>3, <1>4, <1>5 DEF Grown
<1> QED
  BY <1>6 DEF v

(* The table only grows, and a row keeps its truck, door, slot and link. *)
Evolves ==
  /\ rows' \in Seq(Row)
  /\ Ids \subseteq DOMAIN rows'
  /\ \A i \in Ids : /\ rows'[i].truck = rows[i].truck
                    /\ rows'[i].dock = rows[i].dock
                    /\ rows'[i].slot = rows[i].slot
                    /\ rows'[i].prev = rows[i].prev

(* Every row the table holds is well formed, and what AffectedOn makes of it. *)
LEMMA RowFacts ==
  ASSUME rows \in Seq(Row)
  PROVE  /\ Ids = 1 .. Len(rows) /\ Len(rows) \in Nat
         /\ \A i \in Ids : rows[i] \in Row
         /\ \A d : AffectedOn(d) \in SUBSET Affected
         /\ \A d : \A a \in AffectedOn(d) : a.id \in Ids /\ rows[a.id].truck = a.truck
         /\ \A d : {a.id : a \in AffectedOn(d)} = CommittedOn(d)
<1>1. Ids = 1 .. Len(rows) /\ Len(rows) \in Nat /\ \A i \in Ids : rows[i] \in Row
  BY LenProperties, ElementOfSeq DEF Ids
<1>2. \A i \in Ids : rows[i].slot.start \in Nat /\ rows[i].slot.end \in Nat
  BY <1>1, SlotAssumption DEF Row
<1>3. \A d : AffectedOn(d) \in SUBSET Affected
  BY <1>1, <1>2 DEF AffectedOn, CommittedOn, Affected, Row, NoRow
<1>4. \A d : \A a \in AffectedOn(d) : a.id \in Ids /\ rows[a.id].truck = a.truck
  BY DEF AffectedOn, CommittedOn
<1>5. ASSUME NEW d PROVE {a.id : a \in AffectedOn(d)} = CommittedOn(d)
  <2> DEFINE rec(i) == [id |-> i, truck |-> rows[i].truck, start |-> rows[i].slot.start,
                        end |-> rows[i].slot.end]
  <2>1. AffectedOn(d) = {rec(i) : i \in CommittedOn(d)} /\ \A i : rec(i).id = i
    BY DEF AffectedOn
  <2> HIDE DEF rec
  <2> QED
    BY <2>1
<1> QED
  BY <1>1, <1>3, <1>4, <1>5

(* Retiring rows evolves the table. *)
LEMMA Retired ==
  ASSUME rows \in Seq(Row), NEW ids, NEW st \in RowStatus, rows' = WithStatus(ids, st)
  PROVE  Evolves
<1>1. /\ rows' \in Seq(Row) /\ DOMAIN rows' = Ids
      /\ \A i \in Ids : rows'[i] = IF i \in ids THEN [rows[i] EXCEPT !.status = st] ELSE rows[i]
  BY Retire
<1>2. \A i \in Ids : rows[i] \in Row
  BY RowFacts
<1>3. ASSUME NEW i \in Ids
      PROVE  /\ rows'[i].truck = rows[i].truck /\ rows'[i].dock = rows[i].dock
             /\ rows'[i].slot = rows[i].slot /\ rows'[i].prev = rows[i].prev
  BY <1>1, <1>2 DEF Row
<1> QED
  BY <1>1, <1>3 DEF Evolves

(* Booking evolves the table. *)
LEMMA Placed ==
  ASSUME rows \in Seq(Row), NEW ids, NEW st \in RowStatus, NEW new \in Row,
         rows' = Append(WithStatus(ids, st), new)
  PROVE  Evolves
<1>1. Grown(rows', ids, st, new)
  BY Place
<1>2. Ids \subseteq DOMAIN rows' /\ \A i \in Ids : rows[i] \in Row
  BY <1>1, RowFacts DEF Grown
<1>3. ASSUME NEW i \in Ids
      PROVE  /\ rows'[i].truck = rows[i].truck /\ rows'[i].dock = rows[i].dock
             /\ rows'[i].slot = rows[i].slot /\ rows'[i].prev = rows[i].prev
  BY <1>1, <1>2 DEF Grown, Row
<1> QED
  BY <1>1, <1>2, <1>3 DEF Evolves, Grown

-----------------------------------------------------------------------------
(* Lemmas about handlers *)

(* What the handlers write into a door row is a door row. *)
LEMMA DoorFacts ==
  ASSUME doors \in [Docks -> Door], NEW d \in Docks
  PROVE  /\ HandedBack(d) \in Door
         /\ Occupied(d) \in Door
         /\ \A c \in Call : c.slot \in Slots => Reserved(d, c) \in Door
         /\ \A i : ClearedIfUnheld(d, i, doors[d]) \in Door
BY SlotAssumption
   DEF HandedBack, Occupied, Reserved, ClearedIfUnheld, Door, DockStatus, NoTime, Call

(* A handler that is idle holds a well-formed call. *)
LEMMA NoCallFacts == NoCall \in Call
BY DEF NoCall, Call, Op, NoRow

(* A step of handler r leaves what the others were asked and read as it was. *)
LEMMA OneHandler ==
  ASSUME TypeInv, NEW r \in Reqs, NEW p \in Step, NEW c \in Call, Evolves,
         pc' = [pc EXCEPT ![r] = p],
         call' = [call EXCEPT ![r] = c],
         CallOK(r)'
  PROVE  pc' \in [Reqs -> Step] /\ call' \in [Reqs -> Call] /\ \A q \in Reqs : CallOK(q)'
<1>1. pc' \in [Reqs -> Step] /\ call' \in [Reqs -> Call]
  BY DEF TypeInv, TypeOK
<1>2. ASSUME NEW q \in Reqs, q # r
      PROVE  CallOK(q)'
  <2>1. CallOK(q) /\ pc'[q] = pc[q] /\ call'[q] = call[q]
    BY <1>2 DEF TypeInv, TypeOK
  <2> QED
    BY <2>1 DEF CallOK, Evolves, Ids
<1> QED
  BY <1>1, <1>2

(* A handler that returns has nothing left to be right about. *)
LEMMA Returned ==
  ASSUME TypeInv, NEW r \in Reqs, Return(r)
  PROVE  pc' = [pc EXCEPT ![r] = "idle"] /\ call' = [call EXCEPT ![r] = NoCall] /\ CallOK(r)'
<1>1. pc' = [pc EXCEPT ![r] = "idle"] /\ call' = [call EXCEPT ![r] = NoCall]
  BY DEF Return, Goto, Learn
<1>2. pc'[r] = "idle" /\ call'[r] = NoCall
  BY <1>1 DEF TypeInv, TypeOK
<1> QED
  BY <1>1, <1>2 DEF CallOK, NoCall

(* Joining and leaving the promise chain keep it a sequence of handlers. *)
LEMMA QueueFacts ==
  ASSUME queue \in Seq(Reqs), NEW r \in Reqs
  PROVE  /\ Lock(r) => queue' \in Seq(Reqs)
         /\ queue # <<>> /\ Unlock => queue' \in Seq(Reqs)
BY HeadTailProperties DEF Lock, Unlock

(* A table that does not change evolves. *)
LEMMA SameRows ==
  ASSUME TypeInv, UNCHANGED rows
  PROVE  Evolves
BY DEF Evolves, TypeInv, TypeOK, Ids

-----------------------------------------------------------------------------
(* The lock *)

(* A step of r changes the queue and the place of r only in these ways. *)
LEMMA LockKept ==
  ASSUME TypeOK, LockInv, NEW r \in Reqs, NEW p \in Step, Goto(r, p),
         \/ UNCHANGED queue /\ (p \in Inside => queue # <<>> /\ Head(queue) = r)
         \/ Lock(r) /\ p \notin Inside
         \/ Unlock /\ p \notin Inside /\ Head(queue) = r
  PROVE  LockInv'
<1>1. \A q \in Reqs : pc'[q] = IF q = r THEN p ELSE pc[q]
  BY DEF Goto, TypeOK
<1>2. CASE UNCHANGED queue /\ (p \in Inside => queue # <<>> /\ Head(queue) = r)
  BY <1>1, <1>2 DEF LockInv
<1>3. CASE Lock(r) /\ p \notin Inside
  <2>1. queue # <<>> => queue' # <<>> /\ Head(queue') = Head(queue)
    BY <1>3 DEF Lock, TypeOK
  <2> QED
    BY <1>1, <1>3, <2>1 DEF LockInv
<1>4. CASE Unlock /\ p \notin Inside /\ Head(queue) = r
  BY <1>1, <1>4 DEF LockInv
<1> QED
  BY <1>2, <1>3, <1>4

(* Every step keeps the lock with the head of the chain. *)
LEMMA LockStep ==
  ASSUME TypeOK, LockInv, [Next]_vars
  PROVE  LockInv'
<1> USE DEF Return
<1>1. ASSUME NEW r \in Reqs, Arrive(r) PROVE LockInv'
  <2>1. ASSUME NEW t \in Trucks, NEW d \in Docks, RequestAssign(r, t, d) PROVE LockInv'
    BY <2>1, LockKept DEF RequestAssign, Inside, Step
  <2>2. ASSUME NEW t \in Trucks, NEW d \in Docks, DockedRead(r, t, d) PROVE LockInv'
    BY <2>2, LockKept DEF DockedRead, Inside, Step
  <2>3. ASSUME NEW d \in Docks, RequestRelease(r, d) PROVE LockInv'
    BY <2>3, LockKept DEF RequestRelease, Inside, Step
  <2>4. ASSUME NEW d \in Docks, PutBackRead(r, d) PROVE LockInv'
    BY <2>4, LockKept DEF PutBackRead, Inside, Step
  <2>5. ASSUME NEW d \in Docks, OccupiedRead(r, d) PROVE LockInv'
    BY <2>5, LockKept DEF OccupiedRead, Inside, Step
  <2>6. ASSUME NEW d \in Docks, NEW why \in Reasons, TakeDownRead(r, d, why) PROVE LockInv'
    BY <2>6, LockKept DEF TakeDownRead, Inside, Step
  <2> QED
    BY <1>1, <2>1, <2>2, <2>3, <2>4, <2>5, <2>6 DEF Arrive
<1>2. ASSUME NEW r \in Reqs, Proceed(r) PROVE LockInv'
  <2>0. pc[r] \in Inside => queue # <<>> /\ Head(queue) = r
    BY DEF LockInv
  <2>1. CASE AssignRefused(r)
    BY <2>1, LockKept DEF AssignRefused, Turn, Inside, Step
  <2>2. CASE AssignScored(r)
    BY <2>2, LockKept DEF AssignScored, Turn, Inside, Step
  <2>3. CASE AssignFree(r)
    BY <2>0, <2>3, LockKept DEF AssignFree, Running, Inside, Step
  <2>4. CASE AssignRecheck(r)
    BY <2>0, <2>4, LockKept DEF AssignRecheck, Running, Inside, Step
  <2>5. CASE AssignConflict(r)
    BY <2>0, <2>5, LockKept DEF AssignConflict, Running, Inside, Step
  <2>6. CASE AssignCommit(r)
    BY <2>0, <2>6, LockKept DEF AssignCommit, Running, Inside, Step
  <2>7. CASE ReleaseFound(r)
    BY <2>7, LockKept DEF ReleaseFound, Turn, Inside, Step
  <2>8. CASE ReleaseReadLive(r)
    BY <2>0, <2>8, LockKept DEF ReleaseReadLive, Running, Inside, Step
  <2>9. CASE ReleaseCommit(r)
    BY <2>0, <2>9, LockKept DEF ReleaseCommit, Running, Inside, Step
  <2>10. CASE TransactionFails(r)
    BY <2>0, <2>10, LockKept DEF TransactionFails, Inside, Step
  <2>11. CASE TakeDownWrite(r)
    BY <2>11, LockKept DEF TakeDownWrite, Inside, Step
  <2>12. CASE PutBackWrite(r)
    BY <2>12, LockKept DEF PutBackWrite, Inside, Step
  <2>13. CASE RequestReassign(r)
    BY <2>13, LockKept DEF RequestReassign, Inside, Step
  <2>14. CASE ReassignScored(r)
    BY <2>14, LockKept DEF ReassignScored, Turn, Inside, Step
  <2>15. ASSUME NEW d \in Docks, ReassignSkip(r, d) PROVE LockInv'
    BY <2>15 DEF ReassignSkip, LockInv
  <2>16. ASSUME NEW d \in Docks, ReassignPick(r, d) PROVE LockInv'
    BY <2>0, <2>16, LockKept DEF ReassignPick, Running, Inside, Step
  <2>17. ASSUME pc[r] \in Inside, NextRow(r) PROVE LockInv'
    BY <2>0, <2>17, LockKept DEF NextRow, Inside, Step
  <2>18. CASE ReassignCommit(r)
    BY <2>17, <2>18 DEF ReassignCommit, Running, Inside
  <2>19. CASE ReassignNoDock(r)
    BY <2>17, <2>19 DEF ReassignNoDock, Running, Inside
  <2>20. CASE ReassignThrows(r)
    BY <2>17, <2>20 DEF ReassignThrows, Running, Inside
  <2>21. CASE DockedWrite(r)
    BY <2>21, LockKept DEF DockedWrite, Inside, Step
  <2>22. CASE OccupiedWrite(r)
    BY <2>22, LockKept DEF OccupiedWrite, Inside, Step
  <2> QED
    BY <1>2, <2>1, <2>2, <2>3, <2>4, <2>5, <2>6, <2>7, <2>8, <2>9, <2>10, <2>11, <2>12,
       <2>13, <2>14, <2>15, <2>16, <2>18, <2>19, <2>20, <2>21, <2>22 DEF Proceed
<1>3. ASSUME NEW t \in Trucks, TruckLeaves(t) PROVE LockInv'
  BY <1>3 DEF TruckLeaves, LockInv
<1>4. CASE UNCHANGED vars
  BY <1>4 DEF vars, LockInv
<1>5. CASE Crash
  BY <1>5 DEF Crash, LockInv, Inside
<1> QED
  BY <1>1, <1>2, <1>3, <1>4, <1>5 DEF Next

-----------------------------------------------------------------------------
(* Types *)

(* A step of one handler keeps the types, if what it writes has them. *)
LEMMA TypeKept ==
  ASSUME TypeInv, NEW r \in Reqs, NEW p \in Step, NEW c \in Call, Goto(r, p), Learn(r, c),
         Evolves, CallOK(r)',
         doors' \in [Docks -> Door], docked' \subseteq Trucks,
         queue' \in Seq(Reqs), reported' \subseteq Nat
  PROVE  TypeInv'
<1>1. pc' \in [Reqs -> Step] /\ call' \in [Reqs -> Call] /\ \A q \in Reqs : CallOK(q)'
  BY OneHandler DEF Goto, Learn
<1> QED
  BY <1>1 DEF TypeInv, TypeOK, Evolves

(* A command arrives: the handler knows what it was asked. *)
LEMMA TypeArrive ==
  ASSUME TypeInv, NEW r \in Reqs, Arrive(r)
  PROVE  TypeInv'
<1>1. ASSUME NEW t \in Trucks, NEW d \in Docks, RequestAssign(r, t, d) PROVE TypeInv'
  <2> DEFINE c == [NoCall EXCEPT !.op = "assign", !.truck = t, !.dock = d]
  <2>1. c \in Call
    BY RowFacts DEF NoCall, Call, Op, NoRow, TypeInv, TypeOK
  <2>2. Goto(r, "queued") /\ Learn(r, c) /\ pc'[r] = "queued" /\ call'[r] = c
    BY <1>1 DEF RequestAssign, Goto, Learn, TypeInv, TypeOK
  <2>3. CallOK(r)'
    BY <1>1, <2>2, RowFacts DEF RequestAssign, CallOK, NoCall, TypeInv, TypeOK, Ids
  <2> QED
    BY <1>1, <2>1, <2>2, <2>3, TypeKept, SameRows, QueueFacts DEF RequestAssign, TypeInv, TypeOK, Step
<1>2. ASSUME NEW t \in Trucks, NEW d \in Docks, DockedRead(r, t, d) PROVE TypeInv'
  <2> DEFINE c == [NoCall EXCEPT !.op = "docked", !.truck = t, !.dock = d]
  <2>1. c \in Call
    BY RowFacts DEF NoCall, Call, Op, NoRow, TypeInv, TypeOK
  <2>2. Goto(r, "read") /\ Learn(r, c) /\ pc'[r] = "read" /\ call'[r] = c
    BY <1>2 DEF DockedRead, Goto, Learn, TypeInv, TypeOK
  <2>3. CallOK(r)'
    BY <1>2, <2>2, RowFacts DEF DockedRead, CallOK, NoCall, TypeInv, TypeOK, Ids
  <2> QED
    BY <1>2, <2>1, <2>2, <2>3, TypeKept, SameRows DEF DockedRead, TypeInv, TypeOK, Step
<1>3. ASSUME NEW d \in Docks, RequestRelease(r, d) PROVE TypeInv'
  <2> DEFINE c == [NoCall EXCEPT !.op = "release", !.dock = d]
  <2>1. c \in Call
    BY RowFacts DEF NoCall, Call, Op, NoRow, TypeInv, TypeOK
  <2>2. Goto(r, "queued") /\ Learn(r, c) /\ pc'[r] = "queued" /\ call'[r] = c
    BY <1>3 DEF RequestRelease, Goto, Learn, TypeInv, TypeOK
  <2>3. CallOK(r)'
    BY <1>3, <2>2, RowFacts DEF RequestRelease, CallOK, NoCall, TypeInv, TypeOK, Ids
  <2> QED
    BY <1>3, <2>1, <2>2, <2>3, TypeKept, SameRows, QueueFacts DEF RequestRelease, TypeInv, TypeOK, Step
<1>4. ASSUME NEW d \in Docks, PutBackRead(r, d) PROVE TypeInv'
  <2> DEFINE c == [NoCall EXCEPT !.op = "putBack", !.dock = d, !.held = AffectedOn(d)]
  <2>1. c \in Call
    BY RowFacts DEF NoCall, Call, Op, NoRow, TypeInv, TypeOK
  <2>2. Goto(r, "read") /\ Learn(r, c) /\ pc'[r] = "read" /\ call'[r] = c
    BY <1>4 DEF PutBackRead, Goto, Learn, TypeInv, TypeOK
  <2>3. CallOK(r)'
    BY <1>4, <2>2, RowFacts DEF PutBackRead, CallOK, NoCall, TypeInv, TypeOK, Ids
  <2> QED
    BY <1>4, <2>1, <2>2, <2>3, TypeKept, SameRows DEF PutBackRead, TypeInv, TypeOK, Step
<1>5. ASSUME NEW d \in Docks, OccupiedRead(r, d) PROVE TypeInv'
  <2> DEFINE c == [NoCall EXCEPT !.op = "occupied", !.dock = d]
  <2>1. c \in Call
    BY RowFacts DEF NoCall, Call, Op, NoRow, TypeInv, TypeOK
  <2>2. Goto(r, "read") /\ Learn(r, c) /\ pc'[r] = "read" /\ call'[r] = c
    BY <1>5 DEF OccupiedRead, Goto, Learn, TypeInv, TypeOK
  <2>3. CallOK(r)'
    BY <1>5, <2>2, RowFacts DEF OccupiedRead, CallOK, NoCall, TypeInv, TypeOK, Ids
  <2> QED
    BY <1>5, <2>1, <2>2, <2>3, TypeKept, SameRows DEF OccupiedRead, TypeInv, TypeOK, Step
<1>6. ASSUME NEW d \in Docks, NEW why \in Reasons, TakeDownRead(r, d, why) PROVE TypeInv'
  <2> DEFINE c == [NoCall EXCEPT !.op = "takeDown", !.dock = d,
                            !.reason = why, !.held = AffectedOn(d)]
  <2>1. c \in Call
    BY RowFacts DEF NoCall, Call, Op, NoRow, TypeInv, TypeOK
  <2>2. Goto(r, "read") /\ Learn(r, c) /\ pc'[r] = "read" /\ call'[r] = c
    BY <1>6 DEF TakeDownRead, Goto, Learn, TypeInv, TypeOK
  <2>3. CallOK(r)'
    BY <1>6, <2>2, RowFacts DEF TakeDownRead, CallOK, NoCall, TypeInv, TypeOK, Ids
  <2> QED
    BY <1>6, <2>1, <2>2, <2>3, TypeKept, SameRows DEF TakeDownRead, TypeInv, TypeOK, Step
<1> QED
  BY <1>1, <1>2, <1>3, <1>4, <1>5, <1>6 DEF Arrive

(* A truck has one committed row, Current, or none. *)
LEMMA CurrentFacts ==
  ASSUME rows \in Seq(Row), OneDoorPerTruck, NEW t \in Trucks
  PROVE  /\ CommittedOf(t) = IF Current(t) = NoRow THEN {} ELSE {Current(t)}
         /\ Current(t) \in Ids \cup {NoRow}
<1>1. NoRow \notin Ids /\ \A i \in Ids : i \in Nat
  BY RowFacts DEF NoRow
<1>2. CASE CommittedOf(t) = {}
  BY <1>2 DEF Current
<1>3. CASE CommittedOf(t) # {}
  <2>1. PICK i \in CommittedOf(t) : TRUE
    BY <1>3
  <2>2. CommittedOf(t) = {i}
    BY <2>1 DEF OneDoorPerTruck, OneEach, Live, CommittedOf, Committed, Ids
  <2>3. i \in Ids /\ \A j \in CommittedOf(t) : j <= i
    BY <1>1, <2>1, <2>2 DEF CommittedOf
  <2>4. Current(t) = i
    BY <1>3, <2>2, <2>3 DEF Current
  <2> QED
    BY <1>1, <2>2, <2>3, <2>4
<1> QED
  BY <1>2, <1>3

(* The handler gives the lock back and returns. *)
LEMMA TypeReturn ==
  ASSUME TypeInv, NEW r \in Reqs, Return(r), Evolves,
         doors' \in [Docks -> Door], docked' \subseteq Trucks,
         queue' \in Seq(Reqs), reported' \subseteq Nat
  PROVE  TypeInv'
BY Returned, TypeKept, NoCallFacts DEF Return, Step

(* The handler reads something, and goes on. *)
LEMMA TypeRead ==
  ASSUME TypeInv, NEW r \in Reqs, NEW p \in Step, NEW c \in Call, Goto(r, p), Learn(r, c),
         UNCHANGED <<doors, rows, docked, queue, reported>>,
         CallOK(r)'
  PROVE  TypeInv'
BY TypeKept, SameRows DEF TypeInv, TypeOK

(* The cascade goes on to its next row, or returns. *)
LEMMA TypeNextRow ==
  ASSUME TypeInv, LockInv, NEW r \in Reqs, pc[r] \in Inside, call[r].op = "takeDown",
         NextRow(r), Evolves,
         doors' \in [Docks -> Door], docked' \subseteq Trucks, reported' \subseteq Nat
  PROVE  TypeInv'
<1> DEFINE left == {a \in call[r].held : a.id # call[r].row}
           c == [NoCall EXCEPT !.op = "takeDown", !.dock = call[r].dock,
                               !.reason = call[r].reason, !.held = left]
<1>1. queue' \in Seq(Reqs)
  BY QueueFacts DEF NextRow, LockInv, TypeInv, TypeOK
<1>2. CASE Return(r)
  BY <1>1, <1>2, TypeReturn
<1>3. CASE Goto(r, "cascade") /\ Learn(r, c)
  <2>1. call[r] \in Call /\ CallOK(r)
    BY DEF TypeInv, TypeOK
  <2>2. c \in Call
    BY <2>1 DEF NoCall, Call, Op, NoRow
  <2>3. pc'[r] = "cascade" /\ call'[r] = c
    BY <1>3 DEF Goto, Learn, TypeInv, TypeOK
  <2>4. CallOK(r)'
    BY <2>1, <2>3 DEF CallOK, NoCall, Evolves, Ids
  <2> QED
    BY <1>1, <1>3, <2>2, <2>4, TypeKept DEF Step
<1> QED
  BY <1>2, <1>3 DEF NextRow

(* Every step of a running handler keeps the types. *)
LEMMA TypeProceed ==
  ASSUME TypeInv, LockInv, OneDoorPerTruck, NEW r \in Reqs, Proceed(r)
  PROVE  TypeInv'
<1>1. call[r] \in Call /\ CallOK(r) /\ TypeOK
  BY DEF TypeInv, TypeOK
<1>2. pc[r] \in Inside => queue # <<>> /\ Head(queue) = r
  BY DEF LockInv
<1>3. CASE AssignRefused(r)
  BY <1>1, <1>3, TypeReturn, SameRows, QueueFacts DEF AssignRefused, Turn, TypeOK
<1>4. CASE AssignScored(r)
  <2> DEFINE t == call[r].truck
             cur == Current(t)
             seen == IF cur = NoRow THEN Nil ELSE doors[rows[cur].dock].status
  <2>1. PICK s \in SlotsOf[t] :
          Learn(r, [call[r] EXCEPT !.slot = s, !.row = cur, !.seen = seen])
    BY <1>4 DEF AssignScored
  <2> DEFINE c == [call[r] EXCEPT !.slot = s, !.row = cur, !.seen = seen]
  <2>2. t \in Trucks /\ s \in Slots
    BY <1>1, <1>4, SlotAssumption DEF AssignScored, Turn, Running, CallOK
  <2>3. cur = NoRow \/ cur \in Ids
    BY <1>1, <2>2, CurrentFacts DEF TypeOK
  <2>4. cur \in Nat /\ seen \in DockStatus \cup {Nil}
    BY <1>1, <2>3, RowFacts DEF TypeOK, NoRow, Row, Door
  <2>5. c \in Call
    BY <1>1, <2>2, <2>4 DEF Call
  <2>6. Goto(r, "scored") /\ pc'[r] = "scored" /\ call'[r] = c
    BY <1>1, <1>4, <2>1 DEF AssignScored, Goto, Learn, TypeOK
  <2>7. CallOK(r)'
    BY <1>1, <1>4, <2>2, <2>6 DEF AssignScored, Turn, Running, CallOK, Ids, Call
  <2> QED
    BY <1>4, <2>1, <2>5, <2>6, <2>7, TypeRead DEF AssignScored, Step
<1>5. CASE AssignFree(r)
  <2>1. pc' = [pc EXCEPT ![r] = "freed"] /\ pc'[r] = "freed" /\ call' = [call EXCEPT ![r] = call[r]]
    BY <1>1, <1>5 DEF AssignFree, Goto, TypeOK
  <2>2. CallOK(r)'
    BY <1>1, <1>5, <2>1 DEF AssignFree, Running, CallOK, Ids
  <2> QED
    BY <1>1, <1>5, <2>1, <2>2, TypeRead DEF AssignFree, Goto, Learn, Step
<1>6. CASE AssignRecheck(r)
  <2> DEFINE c == [call[r] EXCEPT !.live = doors[call[r].dock].status]
  <2>1. call[r].dock \in Docks
    BY <1>1, <1>6 DEF AssignRecheck, Running, CallOK
  <2>2. c \in Call
    BY <1>1, <2>1 DEF Call, TypeOK, Door
  <2>3. Goto(r, "checked") /\ Learn(r, c) /\ pc'[r] = "checked" /\ call'[r] = c
    BY <1>1, <1>6 DEF AssignRecheck, Goto, Learn, TypeOK
  <2>4. CallOK(r)'
    BY <1>1, <1>6, <2>3 DEF AssignRecheck, Running, CallOK, Ids, Call
  <2> QED
    BY <1>6, <2>2, <2>3, <2>4, TypeRead DEF AssignRecheck, Step
<1>7. CASE AssignConflict(r)
  BY <1>1, <1>2, <1>7, TypeReturn, SameRows, QueueFacts
     DEF AssignConflict, Running, Inside, TypeOK
<1>8. CASE AssignCommit(r)
  <2> DEFINE c == call[r]
             new == NewRow(c.truck, c.dock, c.slot, NoRow)
  <2>1. c.truck \in Trucks /\ c.dock \in Docks /\ c.slot \in Slots
    BY <1>1, <1>8 DEF AssignCommit, Running, CallOK
  <2>2. new \in Row
    BY <2>1 DEF NewRow, Row, RowStatus, NoRow
  <2>3. rows' = Append(WithStatus({c.row}, "CANCELLED"), new)
    BY <1>8 DEF AssignCommit
  <2>4. Evolves
    BY <1>1, <2>2, <2>3, Placed DEF RowStatus, TypeOK
  <2>5. doors' \in [Docks -> Door]
    <3>1. \A d \in Docks : HandedBack(d) \in Door /\ Reserved(d, c) \in Door /\ doors[d] \in Door
      BY <1>1, <2>1, DoorFacts DEF TypeOK
    <3> QED
      BY <1>8, <3>1 DEF AssignCommit
  <2> QED
    BY <1>1, <1>2, <1>8, <2>4, <2>5, TypeReturn, QueueFacts
       DEF AssignCommit, Running, Inside, TypeOK
<1>9. CASE ReleaseFound(r)
  <2> DEFINE c == [call[r] EXCEPT !.held = AffectedOn(call[r].dock)]
  <2>1. c \in Call
    BY <1>1, RowFacts DEF Call, TypeOK
  <2>2. Goto(r, "found") /\ Learn(r, c) /\ pc'[r] = "found" /\ call'[r] = c
    BY <1>1, <1>9 DEF ReleaseFound, Goto, Learn, TypeOK
  <2>3. CallOK(r)'
    BY <1>1, <1>9, <2>2, RowFacts DEF ReleaseFound, Turn, Running, CallOK, Ids, Call, TypeOK
  <2> QED
    BY <1>9, <2>1, <2>2, <2>3, TypeRead DEF ReleaseFound, Step
<1>10. CASE ReleaseReadLive(r)
  <2> DEFINE c == [call[r] EXCEPT !.live = doors[call[r].dock].status]
  <2>1. call[r].dock \in Docks
    BY <1>1, <1>10 DEF ReleaseReadLive, Running, CallOK
  <2>2. c \in Call
    BY <1>1, <2>1 DEF Call, TypeOK, Door
  <2>3. Goto(r, "live") /\ Learn(r, c) /\ pc'[r] = "live" /\ call'[r] = c
    BY <1>1, <1>10 DEF ReleaseReadLive, Goto, Learn, TypeOK
  <2>4. CallOK(r)'
    BY <1>1, <1>10, <2>3 DEF ReleaseReadLive, Running, CallOK, Ids, Call
  <2> QED
    BY <1>10, <2>2, <2>3, <2>4, TypeRead DEF ReleaseReadLive, Step
<1>11. CASE ReleaseCommit(r)
  <2>1. call[r].dock \in Docks
    BY <1>1, <1>11 DEF ReleaseCommit, Running, CallOK
  <2>2. Evolves
    BY <1>1, <1>11, Retired DEF ReleaseCommit, RowStatus, TypeOK
  <2>3. doors' \in [Docks -> Door]
    BY <1>1, <1>11, <2>1, DoorFacts DEF ReleaseCommit, TypeOK
  <2> QED
    BY <1>1, <1>2, <1>11, <2>2, <2>3, TypeReturn, QueueFacts
       DEF ReleaseCommit, Running, Inside, TypeOK
<1>12. CASE TransactionFails(r)
  BY <1>1, <1>2, <1>12, TypeReturn, SameRows, QueueFacts DEF TransactionFails, Inside, TypeOK
<1>13. CASE TakeDownWrite(r)
  <2>1. call[r].dock \in Docks /\ call[r].reason \in Reasons
    BY <1>1, <1>13 DEF TakeDownWrite, Running, CallOK
  <2>2. doors' \in [Docks -> Door] /\ reported' \subseteq Nat
    BY <1>1, <1>13, <2>1 DEF TakeDownWrite, TypeOK, Door, DockStatus
  <2>3. CASE Return(r)
    BY <1>1, <1>13, <2>2, <2>3, TypeReturn, SameRows DEF TakeDownWrite, TypeOK
  <2>4. CASE Goto(r, "cascade") /\ UNCHANGED call
    <3>1. Learn(r, call[r]) /\ pc'[r] = "cascade"
      BY <1>1, <2>4 DEF Goto, Learn, TypeOK
    <3>2. CallOK(r)'
      BY <1>1, <1>13, <2>4, <3>1 DEF TakeDownWrite, Running, CallOK, Ids
    <3> QED
      BY <1>1, <1>13, <2>2, <2>4, <3>1, <3>2, TypeKept, SameRows DEF TakeDownWrite, TypeOK, Step
  <2> QED
    BY <1>13, <2>3, <2>4 DEF TakeDownWrite
<1>14. CASE PutBackWrite(r)
  <2>1. call[r].dock \in Docks
    BY <1>1, <1>14 DEF PutBackWrite, Running, CallOK
  <2>2. \A a \in call[r].held : a.end \in Nat
    BY <1>1 DEF Call, Affected
  <2>3. doors' \in [Docks -> Door]
    <3> DEFINE kept(end) == [status |-> "RESERVED", reason |-> Nil, availableFrom |-> end]
               free == [status |-> "AVAILABLE", reason |-> Nil, availableFrom |-> NoTime]
    <3>1. free \in Door /\ \A a \in call[r].held : kept(a.end) \in Door
      BY <2>2 DEF Door, DockStatus, NoTime
    <3>2. \/ doors' = [doors EXCEPT ![call[r].dock] = free]
          \/ \E a \in call[r].held : doors' = [doors EXCEPT ![call[r].dock] = kept(a.end)]
      BY <1>14 DEF PutBackWrite
    <3> HIDE DEF kept, free
    <3> QED
      BY <1>1, <2>1, <3>1, <3>2 DEF TypeOK
  <2> QED
    BY <1>1, <1>14, <2>3, TypeReturn, SameRows DEF PutBackWrite, TypeOK
<1>15. CASE RequestReassign(r)
  <2>1. PICK a \in call[r].held : Learn(r, [call[r] EXCEPT !.row = a.id, !.truck = a.truck])
    BY <1>15 DEF RequestReassign
  <2> DEFINE c == [call[r] EXCEPT !.row = a.id, !.truck = a.truck]
  <2>2. c \in Call
    BY <1>1 DEF Call, Affected
  <2>3. Goto(r, "queued") /\ Learn(r, c) /\ pc'[r] = "queued" /\ call'[r] = c
    BY <1>1, <1>15, <2>1 DEF RequestReassign, Goto, Learn, TypeOK
  <2>4. CallOK(r)'
    BY <1>1, <1>15, <2>3 DEF RequestReassign, Running, CallOK, Ids, Call, Affected
  <2> QED
    BY <1>1, <1>15, <2>2, <2>3, <2>4, TypeKept, SameRows, QueueFacts
       DEF RequestReassign, TypeOK, Step
<1>16. CASE ReassignScored(r)
  <2>1. PICK s \in SlotsOf[call[r].truck] :
          Learn(r, [call[r] EXCEPT !.slot = s, !.cands = Options(call[r].truck, s)])
    BY <1>16 DEF ReassignScored
  <2> DEFINE c == [call[r] EXCEPT !.slot = s, !.cands = Options(call[r].truck, s)]
  <2>2. /\ call[r].truck \in Trucks
        /\ call[r].row \in Ids /\ rows[call[r].row].truck = call[r].truck
    BY <1>1, <1>16, RowFacts DEF ReassignScored, Turn, Running, CallOK, TypeOK, Row
  <2>3. s \in Slots /\ Options(call[r].truck, s) \subseteq Docks
    BY <2>2, SlotAssumption DEF Options
  <2>4. c \in Call
    BY <1>1, <2>3 DEF Call
  <2>5. Goto(r, "walking") /\ Learn(r, c) /\ pc'[r] = "walking" /\ call'[r] = c
    BY <1>1, <1>16, <2>1 DEF ReassignScored, Goto, Learn, TypeOK
  <2>6. CallOK(r)'
    BY <1>1, <1>16, <2>2, <2>3, <2>5 DEF ReassignScored, Turn, Running, CallOK, Ids, Call
  <2> QED
    BY <1>16, <2>4, <2>5, <2>6, TypeRead DEF ReassignScored, Step
<1>17. ASSUME NEW d \in Docks, ReassignSkip(r, d) PROVE TypeInv'
  <2> DEFINE c == [call[r] EXCEPT !.cands = call[r].cands \ {d}]
  <2>1. c \in Call
    BY <1>1 DEF Call
  <2>2. Goto(r, "walking") /\ Learn(r, c) /\ pc'[r] = "walking" /\ call'[r] = c
    BY <1>1, <1>17 DEF ReassignSkip, Running, Goto, Learn, TypeOK
  <2>3. CallOK(r)'
    BY <1>1, <1>17, <2>2 DEF ReassignSkip, Running, CallOK, Ids, Call
  <2> QED
    BY <1>17, <2>1, <2>2, <2>3, TypeRead DEF ReassignSkip, Step
<1>18. ASSUME NEW d \in Docks, ReassignPick(r, d) PROVE TypeInv'
  <2> DEFINE c == [call[r] EXCEPT !.pick = d, !.live = doors[d].status]
  <2>1. c \in Call
    BY <1>1, <1>18 DEF Call, TypeOK, Door
  <2>2. Goto(r, "moving") /\ Learn(r, c) /\ pc'[r] = "moving" /\ call'[r] = c
    BY <1>1, <1>18 DEF ReassignPick, Goto, Learn, TypeOK
  <2>3. CallOK(r)'
    BY <1>1, <1>18, <2>2 DEF ReassignPick, Running, CallOK, Ids, Call
  <2> QED
    BY <1>18, <2>1, <2>2, <2>3, TypeRead DEF ReassignPick, Step
<1>19. CASE ReassignCommit(r)
  <2> DEFINE c == call[r]
             new == NewRow(c.truck, c.pick, c.slot, c.row)
  <2>1. /\ pc[r] = "moving" /\ c.op = "takeDown" /\ c.pick \in Docks /\ c.slot \in Slots
        /\ c.row \in Ids /\ c.row \in Nat /\ c.truck \in Trucks
    BY <1>1, <1>19, RowFacts DEF ReassignCommit, Running, CallOK, TypeOK, Row
  <2>2. new \in Row
    BY <2>1 DEF NewRow, Row, RowStatus
  <2>3. rows' = Append(WithStatus({c.row}, "REASSIGNED"), new)
    BY <1>19 DEF ReassignCommit
  <2>4. Evolves
    BY <1>1, <2>2, <2>3, Placed DEF RowStatus, TypeOK
  <2>5. doors' \in [Docks -> Door]
    <3>1. \A d \in Docks : /\ Reserved(d, c) \in Door /\ doors[d] \in Door
                           /\ ClearedIfUnheld(d, c.row, doors[d]) \in Door
      BY <1>1, <2>1, DoorFacts DEF TypeOK
    <3> QED
      BY <1>19, <3>1 DEF ReassignCommit
  <2> QED
    BY <1>1, <1>19, <2>1, <2>4, <2>5, TypeNextRow DEF ReassignCommit, Inside, TypeOK
<1>20. CASE ReassignNoDock(r)
  <2>1. pc[r] = "walking" /\ call[r].op = "takeDown" /\ call[r].row \in Ids
    BY <1>1, <1>20 DEF ReassignNoDock, Running, CallOK
  <2>2. Evolves
    BY <1>1, <1>20, Retired DEF ReassignNoDock, RowStatus, TypeOK
  <2>3. rows[call[r].row].dock \in Docks
    BY <1>1, <2>1, RowFacts DEF TypeOK, Row
  <2>4. doors' \in [Docks -> Door]
    BY <1>1, <1>20, <2>3, DoorFacts DEF ReassignNoDock, TypeOK
  <2> QED
    BY <1>1, <1>20, <2>1, <2>2, <2>4, TypeNextRow DEF ReassignNoDock, Inside, TypeOK
<1>21. CASE ReassignThrows(r)
  <2>1. pc[r] \in Inside /\ call[r].op = "takeDown"
    BY <1>21 DEF ReassignThrows, Running, Inside
  <2>2. reported' \subseteq Nat
    BY <1>1, <1>21 DEF ReassignThrows, TypeOK, Call
  <2> QED
    BY <1>1, <1>21, <2>1, <2>2, TypeNextRow, SameRows DEF ReassignThrows, TypeOK
<1>22. CASE DockedWrite(r)
  <2>1. call[r].dock \in Docks /\ call[r].truck \in Trucks
    BY <1>1, <1>22 DEF DockedWrite, Running, CallOK
  <2>2. doors' \in [Docks -> Door] /\ docked' \subseteq Trucks
    BY <1>1, <1>22, <2>1, DoorFacts DEF DockedWrite, TypeOK
  <2> QED
    BY <1>1, <1>22, <2>2, TypeReturn, SameRows DEF DockedWrite, TypeOK
<1>23. CASE OccupiedWrite(r)
  <2>1. call[r].dock \in Docks
    BY <1>1, <1>23 DEF OccupiedWrite, Running, CallOK
  <2>2. doors' \in [Docks -> Door]
    BY <1>1, <1>23, <2>1, DoorFacts DEF OccupiedWrite, TypeOK
  <2> QED
    BY <1>1, <1>23, <2>2, TypeReturn, SameRows DEF OccupiedWrite, TypeOK
<1> QED
  BY <1>3, <1>4, <1>5, <1>6, <1>7, <1>8, <1>9, <1>10, <1>11, <1>12, <1>13, <1>14, <1>15,
     <1>16, <1>17, <1>18, <1>19, <1>20, <1>21, <1>22, <1>23 DEF Proceed

(* Every step keeps the types. *)
LEMMA TypeStep ==
  ASSUME TypeInv, LockInv, OneDoorPerTruck, [Next]_vars
  PROVE  TypeInv'
<1>1. ASSUME NEW t \in Trucks, TruckLeaves(t) PROVE TypeInv'
  BY <1>1 DEF TruckLeaves, TypeInv, TypeOK, CallOK, Ids
<1>2. CASE UNCHANGED vars
  BY <1>2 DEF vars, TypeInv, TypeOK, CallOK, Ids
<1>3. CASE Crash
  <2>1. \A r \in Reqs : pc'[r] = "idle" /\ call'[r] = NoCall
    BY <1>3 DEF Crash
  <2>2. \A r \in Reqs : CallOK(r)'
    BY <2>1 DEF CallOK, NoCall
  <2>3. TypeOK'
    BY <1>3, NoCallFacts DEF Crash, TypeInv, TypeOK, Step
  <2> QED
    BY <2>2, <2>3 DEF TypeInv
<1> QED
  BY <1>1, <1>2, <1>3, TypeArrive, TypeProceed DEF Next

-----------------------------------------------------------------------------
(* Bookings *)

(* A step of r leaves the other handlers where they are. *)
Only(r) == \A q \in Reqs : q # r => pc'[q] = pc[q] /\ call'[q] = call[q]

(* A step to p leaves r at p, and the others where they were. *)
LEMMA OnlyFacts ==
  ASSUME TypeOK, NEW r \in Reqs, NEW p, Goto(r, p)
  PROVE  /\ pc'[r] = p
         /\ UNCHANGED call => Only(r) /\ call'[r] = call[r]
         /\ \A c : Learn(r, c) => Only(r) /\ call'[r] = c
BY DEF TypeOK, Goto, Learn, Only

(* A step that leaves the rows alone keeps the bookings, if what its handler *)
(* has read is right.                                                      *)
LEMMA BookingRead ==
  ASSUME BookingInv, NEW r \in Reqs, UNCHANGED rows, Only(r), SnapshotOK(r)'
  PROVE  BookingInv'
<1>1. NoDoubleBooking' /\ OneDoorPerTruck'
  BY DEF BookingInv, NoDoubleBooking, OneDoorPerTruck
<1>2. ASSUME NEW q \in Reqs, q # r PROVE SnapshotOK(q)'
  <2>1. SnapshotOK(q) /\ pc'[q] = pc[q] /\ call'[q] = call[q]
    BY <1>2 DEF BookingInv, Only
  <2> QED
    BY <2>1 DEF SnapshotOK, Clash, CommittedOf, CommittedOn, Committed, Ids
<1> QED
  BY <1>1, <1>2 DEF BookingInv

(* A handler that leaves the rows alone and is outside the lock has
   nothing to be right about. *)
LEMMA BookingAside ==
  ASSUME BookingInv, NEW r \in Reqs, UNCHANGED rows, Only(r), pc'[r] \notin Inside
  PROVE  BookingInv'
<1>1. SnapshotOK(r)'
  BY DEF SnapshotOK, Inside
<1> QED
  BY <1>1, BookingRead

(* Retiring rows keeps the bookings: fewer rows are committed, and those    *)
(* that still are have not changed.                                        *)
LEMMA BookingRetire ==
  ASSUME TypeOK, BookingInv, NEW ids, NEW st \in RowStatus, st # "ASSIGNED",
         rows' = WithStatus(ids, st), \A q \in Reqs : pc'[q] \notin Inside
  PROVE  BookingInv'
<1>1. /\ DOMAIN rows' = Ids
      /\ \A i \in Ids : rows'[i] = IF i \in ids THEN [rows[i] EXCEPT !.status = st] ELSE rows[i]
      /\ \A i \in Ids : rows[i] \in Row
  BY Retire, RowFacts DEF TypeOK
<1>2. \A i \in Ids : rows'[i].status = "ASSIGNED" => rows'[i] = rows[i]
  BY <1>1 DEF Row
<1>3. Live(rows') \subseteq Live(rows) /\ \A i \in Live(rows') : rows'[i] = rows[i]
  BY <1>1, <1>2 DEF Live, Ids
<1>4. NoDoubleBooking' /\ OneDoorPerTruck'
  BY <1>3 DEF BookingInv, NoDoubleBooking, OneDoorPerTruck, Disjoint, OneEach
<1>5. \A q \in Reqs : SnapshotOK(q)'
  BY DEF SnapshotOK, Inside
<1> QED
  BY <1>4, <1>5 DEF BookingInv

(* Booking truck t into door d for slot s keeps the bookings, if no other   *)
(* truck's row clashes, the truck's own row is retired, and nobody else is *)
(* about to decide on what it read.                                        *)
LEMMA BookingPlace ==
  ASSUME TypeOK, BookingInv, NEW ids, NEW st \in RowStatus, st # "ASSIGNED",
         NEW t \in Trucks, NEW d \in Docks, NEW s \in Slots, NEW p \in Nat,
         rows' = Append(WithStatus(ids, st), NewRow(t, d, s, p)),
         ~Clash(d, t, s), CommittedOf(t) \subseteq ids,
         \A q \in Reqs : pc'[q] \notin Inside
  PROVE  BookingInv'
<1> DEFINE new == NewRow(t, d, s, p)
           n == Len(rows) + 1
<1>1. /\ new \in Row
      /\ new.truck = t /\ new.dock = d /\ new.slot = s
  BY DEF NewRow, Row, RowStatus
<1>2. Grown(rows', ids, st, new)
  BY <1>1, Place DEF TypeOK
<1> HIDE DEF new
<1>3. /\ Ids = 1 .. Len(rows) /\ Len(rows) \in Nat
      /\ \A i \in Ids : rows[i] \in Row
  BY RowFacts DEF TypeOK
<1>4. \A i \in Ids : rows'[i].status = "ASSIGNED" => rows'[i] = rows[i] /\ i \in Live(rows) /\ i \notin ids
  BY <1>2, <1>3 DEF Grown, Row, Live, Ids
<1>5. DOMAIN rows' = Ids \cup {n} /\ rows'[n] = new /\ n \notin Ids
  BY <1>2, <1>3 DEF Grown
<1>6. \A i \in Live(rows') : \/ i = n
                             \/ i \in Live(rows) /\ rows'[i] = rows[i] /\ i \notin ids
  BY <1>4, <1>5 DEF Live
<1>7. \A i \in Live(rows) : i \notin ids => rows[i].truck # t
  BY DEF CommittedOf, Committed, Live, Ids
<1>8. OneDoorPerTruck'
  <2> SUFFICES ASSUME NEW i \in Live(rows'), NEW j \in Live(rows'),
                      rows'[i].truck = rows'[j].truck
               PROVE  i = j
    BY DEF OneDoorPerTruck, OneEach
  <2>1. CASE i = n \/ j = n
    BY <1>1, <1>5, <1>6, <1>7, <2>1
  <2>2. CASE i # n /\ j # n
    BY <1>6, <2>2 DEF BookingInv, OneDoorPerTruck, OneEach
  <2> QED
    BY <2>1, <2>2
<1>9. \A i \in Live(rows) : rows[i].dock = d /\ rows[i].truck # t
                            => ~Overlaps(rows[i].slot, s) /\ ~Overlaps(s, rows[i].slot)
  BY DEF Clash, CommittedOn, Committed, Live, Ids, Overlaps
<1>10. NoDoubleBooking'
  <2> SUFFICES ASSUME NEW i \in Live(rows'), NEW j \in Live(rows'),
                      rows'[i].dock = rows'[j].dock, rows'[i].truck # rows'[j].truck
               PROVE  ~Overlaps(rows'[i].slot, rows'[j].slot)
    BY DEF NoDoubleBooking, Disjoint
  <2>1. CASE i = n
    BY <1>1, <1>5, <1>6, <1>9, <2>1
  <2>2. CASE j = n
    BY <1>1, <1>5, <1>6, <1>9, <2>2
  <2>3. CASE i # n /\ j # n
    BY <1>6, <2>3 DEF BookingInv, NoDoubleBooking, Disjoint
  <2> QED
    BY <2>1, <2>2, <2>3
<1>11. \A q \in Reqs : SnapshotOK(q)'
  BY DEF SnapshotOK, Inside
<1> QED
  BY <1>8, <1>10, <1>11 DEF BookingInv

(* Nobody but the head of the chain is inside the lock. *)
LEMMA Alone ==
  ASSUME LockInv, NEW r \in Reqs, pc[r] \in Inside, Only(r), pc'[r] \notin Inside
  PROVE  \A q \in Reqs : pc'[q] \notin Inside
BY DEF LockInv, Only

(* A command that arrives books nothing. *)
LEMMA BookingArrive ==
  ASSUME TypeOK, BookingInv, NEW r \in Reqs, Arrive(r)
  PROVE  BookingInv'
<1> USE OnlyFacts, BookingAside DEF Inside
<1>1. ASSUME NEW t \in Trucks, NEW d \in Docks, RequestAssign(r, t, d) PROVE BookingInv'
  BY <1>1 DEF RequestAssign
<1>2. ASSUME NEW t \in Trucks, NEW d \in Docks, DockedRead(r, t, d) PROVE BookingInv'
  BY <1>2 DEF DockedRead
<1>3. ASSUME NEW d \in Docks, RequestRelease(r, d) PROVE BookingInv'
  BY <1>3 DEF RequestRelease
<1>4. ASSUME NEW d \in Docks, PutBackRead(r, d) PROVE BookingInv'
  BY <1>4 DEF PutBackRead
<1>5. ASSUME NEW d \in Docks, OccupiedRead(r, d) PROVE BookingInv'
  BY <1>5 DEF OccupiedRead
<1>6. ASSUME NEW d \in Docks, NEW why \in Reasons, TakeDownRead(r, d, why) PROVE BookingInv'
  BY <1>6 DEF TakeDownRead
<1> QED
  BY <1>1, <1>2, <1>3, <1>4, <1>5, <1>6 DEF Arrive

(* A handler that returns, or goes on to the next row, is outside the lock. *)
LEMMA ReturnFacts ==
  ASSUME TypeOK, NEW r \in Reqs
  PROVE  /\ Return(r) => Only(r) /\ pc'[r] = "idle"
         /\ NextRow(r) => Only(r) /\ pc'[r] \in {"idle", "cascade"}
BY OnlyFacts DEF Return, NextRow

(* Every step of a running handler keeps the bookings. *)
LEMMA BookingProceed ==
  ASSUME TypeInv, LockInv, BookingInv, NEW r \in Reqs, Proceed(r)
  PROVE  BookingInv'
<1>1. TypeOK /\ CallOK(r) /\ call[r] \in Call /\ SnapshotOK(r) /\ OneDoorPerTruck
  BY DEF TypeInv, TypeOK, BookingInv
<1>2. CASE AssignRefused(r) \/ AssignConflict(r) \/ TransactionFails(r)
  BY <1>1, <1>2, ReturnFacts, BookingAside
     DEF AssignRefused, AssignConflict, TransactionFails, Inside
<1>3. CASE PutBackWrite(r) \/ DockedWrite(r) \/ OccupiedWrite(r)
  BY <1>1, <1>3, ReturnFacts, BookingAside
     DEF PutBackWrite, DockedWrite, OccupiedWrite, Inside
<1>4. CASE ReleaseFound(r)
  <2> DEFINE c == [call[r] EXCEPT !.held = AffectedOn(call[r].dock)]
  <2>1. Learn(r, c) /\ c.op = "release" /\ c.dock = call[r].dock /\ c.held = AffectedOn(c.dock)
    BY <1>1, <1>4 DEF ReleaseFound, Turn, Running, Call
  <2> HIDE DEF c
  <2>2. Only(r) /\ pc'[r] = "found" /\ call'[r] = c /\ UNCHANGED rows
    BY <1>1, <1>4, <2>1, OnlyFacts DEF ReleaseFound
  <2>3. SnapshotOK(r)'
    BY <1>1, <2>1, <2>2, RowFacts DEF SnapshotOK, TypeOK, CommittedOn, Committed, Ids
  <2> QED
    BY <2>2, <2>3, BookingRead
<1>18. CASE ReleaseReadLive(r)
  <2> DEFINE c == [call[r] EXCEPT !.live = doors[call[r].dock].status]
  <2>1. Learn(r, c) /\ c.op = "release" /\ c.dock = call[r].dock /\ c.held = call[r].held
    BY <1>1, <1>18 DEF ReleaseReadLive, Running, Call
  <2> HIDE DEF c
  <2>2. Only(r) /\ pc'[r] = "live" /\ call'[r] = c /\ UNCHANGED rows
    BY <1>1, <1>18, <2>1, OnlyFacts DEF ReleaseReadLive
  <2>3. SnapshotOK(r)'
    BY <1>1, <1>18, <2>1, <2>2
       DEF ReleaseReadLive, Running, SnapshotOK, CommittedOn, Committed, Ids
  <2> QED
    BY <2>2, <2>3, BookingRead
<1>5. CASE TakeDownWrite(r)
  BY <1>1, <1>5, OnlyFacts, ReturnFacts, BookingAside DEF TakeDownWrite, Inside
<1>6. CASE RequestReassign(r)
  BY <1>1, <1>6, OnlyFacts, BookingAside DEF RequestReassign, Inside
<1>7. CASE ReassignThrows(r)
  BY <1>1, <1>7, ReturnFacts, BookingAside DEF ReassignThrows, Inside
<1>8. CASE AssignScored(r)
  <2> DEFINE cur == Current(call[r].truck)
             seen == IF cur = NoRow THEN Nil ELSE doors[rows[cur].dock].status
  <2>0. PICK s : Learn(r, [call[r] EXCEPT !.slot = s, !.row = cur, !.seen = seen])
    BY <1>8 DEF AssignScored
  <2> DEFINE c == [call[r] EXCEPT !.slot = s, !.row = cur, !.seen = seen]
  <2>1. /\ Learn(r, c) /\ c.op = "assign" /\ c.truck = call[r].truck
        /\ c.row = Current(call[r].truck)
    BY <1>1, <1>8, <2>0 DEF AssignScored, Turn, Running, Call
  <2> HIDE DEF c, cur, seen
  <2>2. Only(r) /\ pc'[r] = "scored" /\ call'[r] = c /\ UNCHANGED rows
    BY <1>1, <1>8, <2>1, OnlyFacts DEF AssignScored
  <2>3. call[r].truck \in Trucks
    BY <1>1, <1>8 DEF AssignScored, Turn, Running, CallOK
  <2>4. CommittedOf(c.truck) = IF c.row = NoRow THEN {} ELSE {c.row}
    BY <1>1, <2>1, <2>3, CurrentFacts DEF TypeOK
  <2>5. SnapshotOK(r)'
    BY <2>1, <2>2, <2>4 DEF SnapshotOK, CommittedOf, Committed, Ids
  <2> QED
    BY <2>2, <2>5, BookingRead
<1>9. CASE AssignFree(r)
  <2>1. Only(r) /\ pc'[r] = "freed" /\ call'[r] = call[r] /\ UNCHANGED rows
    BY <1>1, <1>9, OnlyFacts DEF AssignFree
  <2>2. SnapshotOK(r)'
    BY <1>1, <1>9, <2>1 DEF AssignFree, Running, SnapshotOK, CommittedOf, Committed, Ids
  <2> QED
    BY <2>1, <2>2, BookingRead
<1>10. CASE AssignRecheck(r)
  <2> DEFINE c == [call[r] EXCEPT !.live = doors[call[r].dock].status]
  <2>1. /\ Learn(r, c) /\ c.op = "assign" /\ c.truck = call[r].truck
        /\ c.row = call[r].row /\ c.dock = call[r].dock /\ c.slot = call[r].slot
    BY <1>1, <1>10 DEF AssignRecheck, Running, Call
  <2> HIDE DEF c
  <2>2. Only(r) /\ pc'[r] = "checked" /\ call'[r] = c /\ UNCHANGED rows
    BY <1>1, <1>10, <2>1, OnlyFacts DEF AssignRecheck
  <2>3. /\ CommittedOf(c.truck) = IF c.row = NoRow THEN {} ELSE {c.row}
        /\ ~Clash(c.dock, c.truck, c.slot)
    BY <1>1, <1>10, <2>1 DEF AssignRecheck, Running, SnapshotOK, DockStillTakes
  <2>4. SnapshotOK(r)'
    BY <2>1, <2>2, <2>3 DEF SnapshotOK, Clash, CommittedOn, CommittedOf, Committed, Ids
  <2> QED
    BY <2>2, <2>4, BookingRead
<1>11. CASE AssignCommit(r)
  <2> DEFINE c == call[r]
  <2>1. pc[r] = "checked" /\ c.op = "assign"
    BY <1>11 DEF AssignCommit, Running
  <2>2. \A q \in Reqs : pc'[q] \notin Inside
    BY <1>1, <1>11, <2>1, Alone, ReturnFacts DEF AssignCommit, Inside
  <2>3. c.truck \in Trucks /\ c.dock \in Docks /\ c.slot \in Slots
    BY <1>1, <2>1 DEF CallOK
  <2>4. CommittedOf(c.truck) \subseteq {c.row} /\ ~Clash(c.dock, c.truck, c.slot)
    BY <1>1, <2>1 DEF SnapshotOK
  <2>5. rows' = Append(WithStatus({c.row}, "CANCELLED"), NewRow(c.truck, c.dock, c.slot, NoRow))
    BY <1>11 DEF AssignCommit
  <2> QED
    BY <1>1, <2>2, <2>3, <2>4, <2>5, BookingPlace DEF RowStatus, NoRow
<1>12. CASE ReleaseCommit(r)
  <2>1. \A q \in Reqs : pc'[q] \notin Inside
    BY <1>1, <1>12, Alone, ReturnFacts DEF ReleaseCommit, Running, Inside
  <2> QED
    BY <1>1, <1>12, <2>1, BookingRetire DEF ReleaseCommit, RowStatus
<1>13. CASE ReassignScored(r)
  <2>0. PICK s : Learn(r, [call[r] EXCEPT !.slot = s, !.cands = Options(call[r].truck, s)])
    BY <1>13 DEF ReassignScored
  <2> DEFINE c == [call[r] EXCEPT !.slot = s, !.cands = Options(call[r].truck, s)]
  <2>1. Learn(r, c) /\ c.op = "takeDown"
    BY <1>1, <1>13, <2>0 DEF ReassignScored, Turn, Running, Call
  <2> HIDE DEF c
  <2>2. Only(r) /\ pc'[r] = "walking" /\ call'[r] = c /\ UNCHANGED rows
    BY <1>1, <1>13, <2>1, OnlyFacts DEF ReassignScored
  <2>3. SnapshotOK(r)'
    BY <2>1, <2>2 DEF SnapshotOK
  <2> QED
    BY <2>2, <2>3, BookingRead
<1>14. ASSUME NEW d \in Docks, ReassignSkip(r, d) PROVE BookingInv'
  <2> DEFINE c == [call[r] EXCEPT !.cands = @ \ {d}]
  <2>1. Learn(r, c) /\ c.op = "takeDown"
    BY <1>1, <1>14 DEF ReassignSkip, Running, Call
  <2> HIDE DEF c
  <2>2. Only(r) /\ pc'[r] = "walking" /\ call'[r] = c /\ UNCHANGED rows
    BY <1>1, <1>14, <2>1 DEF ReassignSkip, Running, Learn, Only, TypeOK
  <2>3. SnapshotOK(r)'
    BY <2>1, <2>2 DEF SnapshotOK
  <2> QED
    BY <2>2, <2>3, BookingRead
<1>15. ASSUME NEW d \in Docks, ReassignPick(r, d) PROVE BookingInv'
  <2> DEFINE c == [call[r] EXCEPT !.pick = d, !.live = doors[d].status]
  <2>1. /\ Learn(r, c) /\ c.op = "takeDown" /\ c.pick = d
        /\ c.truck = call[r].truck /\ c.slot = call[r].slot
    BY <1>1, <1>15 DEF ReassignPick, Running, Call
  <2> HIDE DEF c
  <2>2. Only(r) /\ pc'[r] = "moving" /\ call'[r] = c /\ UNCHANGED rows
    BY <1>1, <1>15, <2>1, OnlyFacts DEF ReassignPick
  <2>3. ~Clash(c.pick, c.truck, c.slot)
    BY <1>15, <2>1 DEF ReassignPick, DockStillTakes
  <2>4. SnapshotOK(r)'
    BY <2>1, <2>2, <2>3 DEF SnapshotOK, Clash, CommittedOn, Committed, Ids
  <2> QED
    BY <2>2, <2>4, BookingRead
<1>16. CASE ReassignCommit(r)
  <2> DEFINE c == call[r]
  <2>1. pc[r] = "moving" /\ c.op = "takeDown"
    BY <1>16 DEF ReassignCommit, Running
  <2>2. \A q \in Reqs : pc'[q] \notin Inside
    BY <1>1, <1>16, <2>1, Alone, ReturnFacts DEF ReassignCommit, Inside
  <2>3. /\ c.row \in Ids /\ rows[c.row].truck = c.truck /\ c.slot \in Slots
        /\ c.pick \in Docks /\ Committed(c.row)
    BY <1>1, <1>16, <2>1 DEF CallOK, ReassignCommit, StillCommitted
  <2>4. c.truck \in Trucks /\ c.row \in Nat
    BY <1>1, <2>3, RowFacts DEF TypeOK, Row
  <2>5. CommittedOf(c.truck) \subseteq {c.row} /\ ~Clash(c.pick, c.truck, c.slot)
    BY <1>1, <2>1, <2>3
       DEF SnapshotOK, OneDoorPerTruck, OneEach, Live, CommittedOf, Committed, Ids
  <2>6. rows' = Append(WithStatus({c.row}, "REASSIGNED"), NewRow(c.truck, c.pick, c.slot, c.row))
    BY <1>16 DEF ReassignCommit
  <2> QED
    BY <1>1, <2>2, <2>3, <2>4, <2>5, <2>6, BookingPlace DEF RowStatus
<1>17. CASE ReassignNoDock(r)
  <2>1. \A q \in Reqs : pc'[q] \notin Inside
    BY <1>1, <1>17, Alone, ReturnFacts DEF ReassignNoDock, Running, Inside
  <2> QED
    BY <1>1, <1>17, <2>1, BookingRetire DEF ReassignNoDock, RowStatus
<1> QED
  BY <1>2, <1>3, <1>4, <1>5, <1>6, <1>7, <1>8, <1>9, <1>10, <1>11, <1>12, <1>13, <1>14,
     <1>15, <1>16, <1>17, <1>18 DEF Proceed

(* Every step keeps the bookings. *)
LEMMA BookingStep ==
  ASSUME TypeInv, LockInv, BookingInv, [Next]_vars
  PROVE  BookingInv'
<1>1. TypeOK
  BY DEF TypeInv
<1>2. ASSUME UNCHANGED <<rows, pc, call>> PROVE BookingInv'
  BY <1>2 DEF BookingInv, NoDoubleBooking, OneDoorPerTruck, SnapshotOK, Clash,
              CommittedOf, CommittedOn, Committed, Ids
<1>3. ASSUME NEW t \in Trucks, TruckLeaves(t) PROVE BookingInv'
  BY <1>2, <1>3 DEF TruckLeaves
<1>4. CASE UNCHANGED vars
  BY <1>2, <1>4 DEF vars
<1>5. CASE Crash
  <2>1. NoDoubleBooking' /\ OneDoorPerTruck'
    BY <1>5 DEF Crash, BookingInv, NoDoubleBooking, OneDoorPerTruck
  <2>2. \A r \in Reqs : SnapshotOK(r)'
    BY <1>5 DEF Crash, SnapshotOK
  <2> QED
    BY <2>1, <2>2 DEF BookingInv
<1> QED
  BY <1>1, <1>3, <1>4, <1>5, BookingArrive, BookingProceed DEF Next

-----------------------------------------------------------------------------
(* What a step does to the rows *)

(* Truck t is booked on door d for slot s: the new row is at the end, row i *)
(* is retired if it is one and linked to if it was moved, and nothing else  *)
(* is touched.                                                             *)
Books(t, d, s, i, st, p) ==
  /\ t \in Trucks /\ d \in Docks /\ s \in Slots /\ p \in Nat
  /\ \/ st = "CANCELLED" /\ p = NoRow
     \/ st = "REASSIGNED" /\ p = i /\ i # NoRow
  /\ rows' = Append(WithStatus({i}, st), NewRow(t, d, s, p))
  /\ CommittedOf(t) = IF i = NoRow THEN {} ELSE {i}
  /\ ~Clash(d, t, s)

(* What RowsFinal says of one step. *)
RowsFinalStep ==
  \A i \in Ids :
    /\ i \in DOMAIN rows'
    /\ rows'[i] = IF Committed(i) THEN [rows[i] EXCEPT !.status = rows'[i].status]
                  ELSE rows[i]

(* Four steps write rows, and each acts on rows that are committed still.  *)
LEMMA RowWrites ==
  ASSUME IInv, [Next]_vars
  PROVE  \/ UNCHANGED rows
         \/ \E t, d, s, i, st, p : Books(t, d, s, i, st, p)
         \/ \E d \in Docks : rows' = WithStatus(CommittedOn(d), "COMPLETED")
         \/ \E t \in Trucks, i \in Ids :
              CommittedOf(t) = {i} /\ rows' = WithStatus({i}, "CANCELLED")
<1>1. CASE \E t \in Trucks : TruckLeaves(t)
  BY <1>1 DEF TruckLeaves
<1>2. CASE UNCHANGED vars
  BY <1>2 DEF vars
<1>3. ASSUME NEW r \in Reqs, Arrive(r) PROVE UNCHANGED rows
  BY <1>3 DEF Arrive, RequestAssign, DockedRead, RequestRelease, PutBackRead, OccupiedRead,
              TakeDownRead
<1>4. ASSUME NEW r \in Reqs, AssignCommit(r)
      PROVE  \E t, d, s, i, st, p : Books(t, d, s, i, st, p)
  <2>1. pc[r] = "checked" /\ call[r].op = "assign"
    BY <1>4 DEF AssignCommit, Running
  <2>2. Books(call[r].truck, call[r].dock, call[r].slot, call[r].row, "CANCELLED", NoRow)
    BY <1>4, <2>1 DEF IInv, TypeInv, BookingInv, CallOK, SnapshotOK, AssignCommit, Books, NoRow
  <2> QED
    BY <2>2
<1>5. ASSUME NEW r \in Reqs, ReassignCommit(r) \/ ReassignNoDock(r)
      PROVE  /\ call[r].row \in Ids /\ call[r].row # NoRow /\ call[r].truck \in Trucks
             /\ call[r].row \in CommittedOf(call[r].truck)
             /\ CommittedOf(call[r].truck) = {call[r].row}
  <2>1. /\ pc[r] \in {"walking", "moving"} /\ Committed(call[r].row)
    BY <1>5 DEF ReassignCommit, ReassignNoDock, Running, StillCommitted
  <2>2. call[r].row \in Ids /\ rows[call[r].row].truck = call[r].truck
    BY <2>1 DEF IInv, TypeInv, CallOK
  <2>3. call[r].row # NoRow /\ call[r].truck \in Trucks
    BY <2>2, RowFacts DEF IInv, TypeInv, TypeOK, Row, NoRow
  <2>4. call[r].row \in CommittedOf(call[r].truck)
    BY <2>1, <2>2 DEF CommittedOf
  <2>5. CommittedOf(call[r].truck) = {call[r].row}
    BY <2>4 DEF IInv, BookingInv, OneDoorPerTruck, OneEach, Live, CommittedOf, Committed, Ids
  <2> QED
    BY <2>2, <2>3, <2>4, <2>5
<1>6. ASSUME NEW r \in Reqs, ReassignCommit(r)
      PROVE  \E t, d, s, i, st, p : Books(t, d, s, i, st, p)
  <2>1. pc[r] = "moving" /\ call[r].op = "takeDown"
    BY <1>6 DEF ReassignCommit, Running
  <2>5. call[r].row \in Nat
    BY <1>5, <1>6, RowFacts DEF IInv, TypeInv, TypeOK
  <2>2. call[r].pick \in Docks /\ call[r].slot \in Slots
    BY <2>1 DEF IInv, TypeInv, CallOK
  <2>3. ~Clash(call[r].pick, call[r].truck, call[r].slot)
    BY <2>1 DEF IInv, BookingInv, SnapshotOK
  <2>4. Books(call[r].truck, call[r].pick, call[r].slot, call[r].row, "REASSIGNED", call[r].row)
    BY <1>5, <1>6, <2>2, <2>3, <2>5 DEF ReassignCommit, Books
  <2> QED
    BY <2>4
<1>7. ASSUME NEW r \in Reqs, ReassignNoDock(r)
      PROVE  \E t \in Trucks, i \in Ids :
               CommittedOf(t) = {i} /\ rows' = WithStatus({i}, "CANCELLED")
  BY <1>5, <1>7 DEF ReassignNoDock
<1>8. ASSUME NEW r \in Reqs, ReleaseCommit(r)
      PROVE  \E d \in Docks : rows' = WithStatus(CommittedOn(d), "COMPLETED")
  <2>1. pc[r] = "live" /\ call[r].op = "release"
    BY <1>8 DEF ReleaseCommit, Running
  <2>2. call[r].dock \in Docks /\ {a.id : a \in call[r].held} = CommittedOn(call[r].dock)
    BY <2>1 DEF IInv, TypeInv, BookingInv, CallOK, SnapshotOK
  <2> QED
    BY <1>8, <2>2 DEF ReleaseCommit
<1>9. ASSUME NEW r \in Reqs, Proceed(r), ~AssignCommit(r), ~ReassignCommit(r),
             ~ReassignNoDock(r), ~ReleaseCommit(r)
      PROVE  UNCHANGED rows
  BY <1>9 DEF Proceed, AssignRefused, AssignScored, AssignFree, AssignRecheck, AssignConflict,
              ReleaseFound, ReleaseReadLive, TransactionFails, TakeDownWrite, PutBackWrite,
              RequestReassign, ReassignScored, ReassignSkip, ReassignPick, ReassignThrows,
              DockedWrite, OccupiedWrite
<1>10. CASE Crash
  BY <1>10 DEF Crash
<1> QED
  BY <1>1, <1>2, <1>3, <1>4, <1>6, <1>7, <1>8, <1>9, <1>10 DEF Next

(* A step that changes the status of committed rows only leaves history alone. *)
LEMMA FinalKept ==
  ASSUME rows \in Seq(Row), NEW ids, NEW st \in RowStatus, Ids \subseteq DOMAIN rows',
         \A i \in Ids : rows'[i] = IF i \in ids THEN [rows[i] EXCEPT !.status = st] ELSE rows[i],
         \A i \in Ids : i \in ids => Committed(i)
  PROVE  RowsFinalStep
<1> SUFFICES ASSUME NEW i \in Ids
             PROVE  rows'[i] = IF Committed(i) THEN [rows[i] EXCEPT !.status = rows'[i].status]
                               ELSE rows[i]
  BY DEF RowsFinalStep
<1>1. rows[i] \in Row
  BY RowFacts
<1>2. CASE i \in ids
  BY <1>1, <1>2 DEF Row
<1>3. CASE i \notin ids
  BY <1>1, <1>3 DEF Row
<1> QED
  BY <1>2, <1>3

(* Every step leaves history alone. *)
LEMMA FinalStep ==
  ASSUME IInv, [Next]_vars
  PROVE  RowsFinalStep \/ UNCHANGED rows
<1>1. rows \in Seq(Row)
  BY DEF IInv, TypeInv, TypeOK
<1>2. ASSUME NEW t, NEW d, NEW s, NEW i, NEW st, NEW p, Books(t, d, s, i, st, p)
      PROVE  RowsFinalStep
  <2>1. NewRow(t, d, s, p) \in Row /\ st \in RowStatus
    BY <1>2 DEF Books, NewRow, Row, RowStatus
  <2>2. Grown(rows', {i}, st, NewRow(t, d, s, p))
    BY <1>1, <1>2, <2>1, Place DEF Books
  <2>3. Ids \subseteq DOMAIN rows'
    BY <1>1, <2>2, RowFacts DEF Grown
  <2>4. i \in Ids => Committed(i)
    BY <1>1, <1>2, RowFacts DEF Books, CommittedOf, NoRow
  <2> QED
    BY <1>1, <2>1, <2>2, <2>3, <2>4, FinalKept DEF Grown
<1>3. ASSUME NEW ids, NEW st \in RowStatus, rows' = WithStatus(ids, st),
             \A i \in Ids : i \in ids => Committed(i)
      PROVE  RowsFinalStep
  <2>1. /\ DOMAIN rows' = Ids
        /\ \A i \in Ids : rows'[i] = IF i \in ids THEN [rows[i] EXCEPT !.status = st] ELSE rows[i]
    BY <1>1, <1>3, Retire
  <2> QED
    BY <1>1, <1>3, <2>1, FinalKept
<1>4. ASSUME NEW d \in Docks, rows' = WithStatus(CommittedOn(d), "COMPLETED")
      PROVE  RowsFinalStep
  BY <1>3, <1>4 DEF CommittedOn, RowStatus
<1>5. ASSUME NEW t \in Trucks, NEW i \in Ids, CommittedOf(t) = {i},
             rows' = WithStatus({i}, "CANCELLED")
      PROVE  RowsFinalStep
  BY <1>3, <1>5 DEF CommittedOf, RowStatus
<1> QED
  BY <1>2, <1>4, <1>5, RowWrites

-----------------------------------------------------------------------------
(* The chain of moved rows *)

(* Closing committed rows otherwise than by a move leaves the chain alone. *)
LEMMA ChainRetired ==
  ASSUME rows \in Seq(Row), ChainSound, NEW ids, NEW st \in {"COMPLETED", "CANCELLED"},
         \A i \in Ids : i \in ids => Committed(i), rows' = WithStatus(ids, st)
  PROVE  ChainSound'
<1>1. /\ DOMAIN rows' = Ids
      /\ \A i \in Ids : rows'[i] = IF i \in ids THEN [rows[i] EXCEPT !.status = st] ELSE rows[i]
      /\ \A i \in Ids : rows[i] \in Row
  BY Retire, RowFacts DEF RowStatus
<1>2. \A i \in Ids : /\ rows'[i].status = "REASSIGNED" <=> rows[i].status = "REASSIGNED"
                     /\ rows'[i].prev = rows[i].prev
                     /\ rows'[i].truck = rows[i].truck
  BY <1>1 DEF Committed, Row
<1>3. \A j \in Ids : rows[j].prev # NoRow => rows[j].prev \in Ids
  BY RowFacts DEF ChainSound, Chained, Ids
<1> QED
  BY <1>1, <1>2, <1>3 DEF ChainSound, Chained, Ids

(* A booking leaves the chain alone, and a move adds one link to it: the   *)
(* row it closes was committed, so no row could be linked to it before.    *)
LEMMA ChainBooked ==
  ASSUME rows \in Seq(Row), ChainSound,
         NEW t, NEW d, NEW s, NEW i, NEW st, NEW p, Books(t, d, s, i, st, p)
  PROVE  ChainSound'
<1> DEFINE n == Len(rows) + 1
           new == NewRow(t, d, s, p)
<1>1. new \in Row /\ st \in RowStatus /\ new.status = "ASSIGNED" /\ new.prev = p /\ new.truck = t
  BY DEF Books, NewRow, Row, RowStatus
<1>2. Grown(rows', {i}, st, new)
  BY <1>1, Place DEF Books
<1>3. /\ Len(rows) \in Nat /\ n \in Nat /\ Ids = 1 .. (n - 1) /\ DOMAIN rows' = Ids \cup {n} /\ n \notin Ids
      /\ \A j \in Ids : rows[j] \in Row /\ rows[j].prev \in Nat /\ j \in Nat
  BY <1>2, RowFacts DEF Grown, Row
<1>4. /\ rows'[n] = new
      /\ \A j \in Ids : rows'[j] = IF j = i THEN [rows[j] EXCEPT !.status = st] ELSE rows[j]
  BY <1>2, <1>3 DEF Grown
<1>5. \A j \in Ids : rows'[j].prev = rows[j].prev /\ rows'[j].truck = rows[j].truck
  BY <1>3, <1>4 DEF Row
<1>6. \A j \in Ids : j # i => rows'[j].status = rows[j].status
  BY <1>3, <1>4
<1>7. i \in Ids => /\ rows[i].status = "ASSIGNED" /\ rows[i].truck = t
                   /\ rows'[i].status = st
  <2> SUFFICES ASSUME i \in Ids
               PROVE  rows[i].status = "ASSIGNED" /\ rows[i].truck = t /\ rows'[i].status = st
    OBVIOUS
  <2>1. i # NoRow
    BY <1>3 DEF NoRow
  <2>2. i \in CommittedOf(t)
    BY <2>1 DEF Books
  <2>3. rows'[i].status = st
    BY <1>3, <1>4 DEF Row
  <2> QED
    BY <2>2, <2>3 DEF CommittedOf, Committed
<1>8. \A j \in Ids : rows[j].prev # NoRow =>
        /\ rows[j].prev \in 1 .. (j - 1) /\ rows[j].prev \in Ids
        /\ rows[rows[j].prev].status = "REASSIGNED"
        /\ rows[rows[j].prev].truck = rows[j].truck
  BY <1>3 DEF ChainSound, Chained, Ids
<1>9. i \in Ids => \A j \in Ids : rows[j].prev # i
  BY <1>3, <1>7, <1>8 DEF NoRow
<1>10. \A j \in Ids : rows'[j].prev # NoRow =>
         /\ rows'[j].prev \in 1 .. (j - 1)
         /\ rows'[rows'[j].prev].status = "REASSIGNED"
         /\ rows'[rows'[j].prev].truck = rows'[j].truck
  BY <1>5, <1>6, <1>8, <1>9
<1>11. \A j \in Ids : rows[j].status = "REASSIGNED" => \E k \in Ids : rows[k].prev = j
  BY DEF ChainSound, Chained, Ids
<1>12. \A j, k \in Ids : rows[j].prev = rows[k].prev /\ rows[j].prev # NoRow => j = k
  BY DEF ChainSound, Chained, Ids
<1>13. CASE st = "CANCELLED" /\ p = NoRow
  <2>1. \A j \in Ids : rows'[j].status = "REASSIGNED" => rows[j].status = "REASSIGNED"
    BY <1>6, <1>7, <1>13
  <2>2. rows'[n].status # "REASSIGNED" /\ rows'[n].prev = NoRow
    BY <1>1, <1>4, <1>13
  <2>3. \A j \in DOMAIN rows' : rows'[j].status = "REASSIGNED" => \E k \in DOMAIN rows' : rows'[k].prev = j
    BY <1>3, <1>5, <1>11, <2>1, <2>2
  <2>4. \A j \in DOMAIN rows' : rows'[j].prev # NoRow => j \in Ids
    BY <1>3, <2>2
  <2> QED
    BY <1>5, <1>10, <1>12, <2>3, <2>4 DEF ChainSound, Chained
<1>14. CASE st = "REASSIGNED" /\ p = i /\ i # NoRow
  <2>1. i \in Ids
    BY <1>14 DEF Books, CommittedOf
  <2>2. rows'[n].status # "REASSIGNED" /\ rows'[n].prev = i /\ rows'[n].truck = t
    BY <1>1, <1>4, <1>14
  <2>3. \A j \in DOMAIN rows' : rows'[j].status = "REASSIGNED" => \E k \in DOMAIN rows' : rows'[k].prev = j
    <3> SUFFICES ASSUME NEW j \in Ids, rows'[j].status = "REASSIGNED"
                 PROVE  \E k \in DOMAIN rows' : rows'[k].prev = j
      BY <1>3, <2>2
    <3>1. CASE j = i
      BY <1>3, <2>2, <3>1
    <3>2. CASE j # i
      BY <1>3, <1>5, <1>6, <1>11, <3>2
    <3> QED
      BY <3>1, <3>2
  <2>4. /\ rows'[n].prev \in 1 .. (n - 1)
        /\ rows'[rows'[n].prev].status = "REASSIGNED"
        /\ rows'[rows'[n].prev].truck = rows'[n].truck
    BY <1>3, <1>5, <1>7, <1>14, <2>1, <2>2
  <2>5. \A j \in DOMAIN rows' : rows'[j].prev # NoRow =>
          /\ rows'[j].prev \in 1 .. (j - 1)
          /\ rows'[rows'[j].prev].status = "REASSIGNED"
          /\ rows'[rows'[j].prev].truck = rows'[j].truck
    BY <1>3, <1>10, <2>4
  <2>6. \A j, k \in DOMAIN rows' : rows'[j].prev = rows'[k].prev /\ rows'[j].prev # NoRow => j = k
    BY <1>3, <1>5, <1>9, <1>12, <2>1, <2>2
  <2> QED
    BY <2>3, <2>5, <2>6 DEF ChainSound, Chained
<1> QED
  BY <1>13, <1>14 DEF Books

(* Every step keeps the chain. *)
LEMMA ChainStep ==
  ASSUME IInv, ChainSound, [Next]_vars
  PROVE  ChainSound'
<1>1. rows \in Seq(Row)
  BY DEF IInv, TypeInv, TypeOK
<1>2. CASE UNCHANGED rows
  BY <1>2 DEF ChainSound
<1>3. ASSUME NEW d \in Docks, rows' = WithStatus(CommittedOn(d), "COMPLETED")
      PROVE  ChainSound'
  <2>1. \A i \in Ids : i \in CommittedOn(d) => Committed(i)
    BY DEF CommittedOn
  <2> QED
    BY <1>1, <1>3, <2>1, ChainRetired
<1>4. ASSUME NEW t \in Trucks, NEW i \in Ids, CommittedOf(t) = {i},
             rows' = WithStatus({i}, "CANCELLED")
      PROVE  ChainSound'
  BY <1>1, <1>4, ChainRetired DEF CommittedOf
<1> QED
  BY <1>1, <1>2, <1>3, <1>4, ChainBooked, RowWrites

-----------------------------------------------------------------------------
(* The abstract bookings *)

(* The door and the slot truck t is committed to, as Bookings knows it.    *)
Booked(t) == {<<rows[i].dock, rows[i].slot>> : i \in CommittedOf(t)}
Abstract == [t \in Trucks |-> Booked(t)]

(* The bookings of a truck are the doors and slots of its committed rows. *)
LEMMA BookedFacts ==
  ASSUME rows \in Seq(Row), NEW t
  PROVE  /\ \A i \in CommittedOf(t) : <<rows[i].dock, rows[i].slot>> \in Booked(t)
         /\ \A b \in Booked(t) : /\ b \in Docks \X Slots
                                 /\ \E i \in CommittedOf(t) : b[1] = rows[i].dock /\ b[2] = rows[i].slot
<1>1. \A i \in CommittedOf(t) : <<rows[i].dock, rows[i].slot>> \in Docks \X Slots
  BY RowFacts DEF CommittedOf, Row
<1>2. ASSUME NEW b \in Booked(t)
      PROVE  \E i \in CommittedOf(t) : b = <<rows[i].dock, rows[i].slot>>
  BY <1>2 DEF Booked
<1>3. \A i \in CommittedOf(t) : <<rows[i].dock, rows[i].slot>> \in Booked(t)
  BY DEF Booked
<1> QED
  BY <1>1, <1>2, <1>3

(* A truck none of whose rows a step touches is booked as before. *)
LEMMA BookedKept ==
  ASSUME NEW t, CommittedOf(t)' = CommittedOf(t), \A i \in CommittedOf(t) : rows'[i] = rows[i]
  PROVE  Booked(t)' = Booked(t)
BY DEF Booked

(* What the re-check in the transaction establishes is the guard of Book. *)
LEMMA TakesFacts ==
  ASSUME rows \in Seq(Row), NEW t \in Trucks, NEW d, NEW s, ~Clash(d, t, s)
  PROVE  \A u \in Trucks \ {t} : \A b \in Booked(u) : b[1] = d => ~Overlaps(b[2], s)
<1> SUFFICES ASSUME NEW u \in Trucks \ {t}, NEW b \in Booked(u), b[1] = d
             PROVE  ~Overlaps(b[2], s)
  OBVIOUS
<1>1. PICK i \in CommittedOf(u) : b[1] = rows[i].dock /\ b[2] = rows[i].slot
  BY BookedFacts
<1> QED
  BY <1>1 DEF Clash, CommittedOn, CommittedOf

(* Committing a booking is Book. *)
LEMMA AbstractBook ==
  ASSUME IInv, NEW t, NEW d, NEW s, NEW i, NEW st, NEW p, Books(t, d, s, i, st, p)
  PROVE  B!Next
<1> DEFINE new == NewRow(t, d, s, p)
           n == Len(rows) + 1
<1>1. t \in Trucks /\ d \in Docks /\ s \in Slots /\ st \in RowStatus /\ st # "ASSIGNED"
  BY DEF Books, RowStatus
<1>2. /\ new \in Row
      /\ new.truck = t /\ new.dock = d /\ new.slot = s /\ new.status = "ASSIGNED"
  BY <1>1 DEF Books, NewRow, Row, RowStatus
<1>3. rows \in Seq(Row)
  BY DEF IInv, TypeInv, TypeOK
<1>4. Grown(rows', {i}, st, new)
  BY <1>1, <1>2, <1>3, Place DEF Books
<1> HIDE DEF new
<1>5. DOMAIN rows' = Ids \cup {n} /\ rows'[n] = new /\ n \notin Ids
  BY <1>3, <1>4, RowFacts DEF Grown
<1> HIDE DEF n
<1>6. \A j \in Ids : /\ j # i => rows'[j] = rows[j]
                     /\ j = i => rows[j].truck = t /\ rows'[j].status # "ASSIGNED"
  <2>1. \A j \in Ids : j # i => rows'[j] = rows[j]
    BY <1>4 DEF Grown
  <2>2. i \in Ids => rows[i].truck = t
    BY <1>3, RowFacts DEF Books, CommittedOf, NoRow
  <2>3. i \in Ids => rows[i] \in Row
    BY <1>3, RowFacts
  <2>4. i \in Ids => rows'[i].status # "ASSIGNED"
    BY <1>1, <1>4, <2>3 DEF Grown, Row
  <2> QED
    BY <2>1, <2>2, <2>4
<1>7. CommittedOf(t)' = {n}
  <2>1. \A j \in Ids : Committed(j) /\ rows[j].truck = t => j = i
    BY <1>1, <1>3, RowFacts DEF Books, CommittedOf, NoRow
  <2> QED
    BY <1>2, <1>5, <1>6, <2>1 DEF CommittedOf, Committed, Ids
<1>8. Booked(t)' = {<<d, s>>}
  BY <1>2, <1>5, <1>7 DEF Booked
<1>9. ASSUME NEW u \in Trucks \ {t}
      PROVE  Booked(u)' = Booked(u)
  <2>1. CommittedOf(u)' = CommittedOf(u)
    BY <1>2, <1>5, <1>6 DEF CommittedOf, Committed, Ids
  <2>2. \A j \in CommittedOf(u) : rows'[j] = rows[j]
    BY <1>6 DEF CommittedOf
  <2> QED
    BY <2>1, <2>2, BookedKept
<1>10. \A u \in Trucks \ {t} : \A b \in Booked(u) : b[1] = d => ~Overlaps(b[2], s)
  BY <1>1, <1>3, TakesFacts DEF Books
<1>11. B!Takes(t, d, s)
  BY <1>10 DEF B!Takes, B!Overlaps, Overlaps, Booked
<1>12. Abstract' = [Abstract EXCEPT ![t] = {<<d, s>>}]
  BY <1>1, <1>8, <1>9 DEF Abstract
<1>13. B!Book(t, d, s)
  BY <1>11, <1>12 DEF B!Book, Abstract, Booked
<1> QED
  BY <1>1, <1>13 DEF B!Next

(* Retiring rows: what is left of every truck's bookings. *)
LEMMA AbstractRetire ==
  ASSUME rows \in Seq(Row), NEW ids, NEW st \in RowStatus, st # "ASSIGNED",
         rows' = WithStatus(ids, st), NEW t
  PROVE  Booked(t)' = {<<rows[i].dock, rows[i].slot>> : i \in CommittedOf(t) \ ids}
<1>1. /\ DOMAIN rows' = Ids
      /\ \A i \in Ids : rows'[i] = IF i \in ids THEN [rows[i] EXCEPT !.status = st] ELSE rows[i]
      /\ \A i \in Ids : rows[i] \in Row
  BY Retire, RowFacts
<1>2. \A i \in Ids : i \in ids => rows'[i].status # "ASSIGNED"
  BY <1>1 DEF Row
<1>3. \A i \in Ids : i \notin ids => rows'[i] = rows[i]
  BY <1>1
<1>4. CommittedOf(t)' = CommittedOf(t) \ ids
  BY <1>1, <1>2, <1>3 DEF CommittedOf, Committed, Ids
<1>5. \A i \in CommittedOf(t) \ ids : rows'[i] = rows[i]
  BY <1>3 DEF CommittedOf
<1> QED
  BY <1>4, <1>5 DEF Booked

(* Every step is a step of Bookings, or none. *)
LEMMA AbstractStep ==
  ASSUME IInv, [Next]_vars
  PROVE  B!Next \/ UNCHANGED Abstract
<1>1. rows \in Seq(Row)
  BY DEF IInv, TypeInv, TypeOK
<1>2. CASE UNCHANGED rows
  BY <1>2 DEF Abstract, Booked, CommittedOf, Committed, Ids
<1>3. ASSUME NEW d \in Docks, rows' = WithStatus(CommittedOn(d), "COMPLETED")
      PROVE  B!Next
  <2>1. ASSUME NEW t \in Trucks PROVE Booked(t)' = {b \in Booked(t) : b[1] # d}
    <3>1. Booked(t)' = {<<rows[i].dock, rows[i].slot>> : i \in CommittedOf(t) \ CommittedOn(d)}
      BY <1>1, <1>3, AbstractRetire DEF RowStatus
    <3>2. \A i \in CommittedOf(t) : i \in CommittedOn(d) <=> rows[i].dock = d
      BY DEF CommittedOf, CommittedOn
    <3> QED
      BY <3>1, <3>2 DEF Booked
  <2>2. B!HandBack(d)
    BY <2>1 DEF B!HandBack, Booked
  <2> QED
    BY <2>2 DEF B!Next
<1>4. ASSUME NEW t \in Trucks, NEW i \in Ids, CommittedOf(t) = {i},
             rows' = WithStatus({i}, "CANCELLED")
      PROVE  B!Next
  <2>1. ASSUME NEW u \in Trucks
        PROVE  Booked(u)' = {<<rows[j].dock, rows[j].slot>> : j \in CommittedOf(u) \ {i}}
    BY <1>1, <1>4, AbstractRetire DEF RowStatus
  <2>2. Booked(t)' = {}
    BY <1>4, <2>1
  <2>3. ASSUME NEW u \in Trucks, u # t PROVE Booked(u)' = Booked(u)
    <3>1. i \notin CommittedOf(u)
      BY <1>4, <2>3 DEF CommittedOf
    <3> QED
      BY <2>1, <3>1 DEF Booked
  <2>4. Abstract' = [Abstract EXCEPT ![t] = {}]
    BY <2>2, <2>3 DEF Abstract
  <2>5. B!Drop(t)
    BY <2>4 DEF B!Drop, Abstract, Booked
  <2> QED
    BY <2>5 DEF B!Next
<1> QED
  BY <1>2, <1>3, <1>4, AbstractBook, RowWrites

(* Bookings without a clash are where Bookings starts. *)
LEMMA AbstractInit ==
  ASSUME IInv
  PROVE  B!Init
<1>1. rows \in Seq(Row) /\ NoDoubleBooking /\ OneDoorPerTruck
  BY DEF IInv, TypeInv, TypeOK, BookingInv
<1>2. Abstract \in [Trucks -> SUBSET (Docks \X Slots)]
  BY <1>1, BookedFacts DEF Abstract
<1>3. ASSUME NEW t \in Trucks, NEW b \in Booked(t), NEW c \in Booked(t) PROVE b = c
  <2>1. \A i, j \in CommittedOf(t) : i = j
    BY <1>1 DEF OneDoorPerTruck, OneEach, Live, CommittedOf, Committed, Ids
  <2> QED
    BY <2>1 DEF Booked
<1>4. ASSUME NEW t \in Trucks, NEW b \in Booked(t)
      PROVE  \A u \in Trucks \ {t} : \A c \in Booked(u) : c[1] = b[1] => ~Overlaps(c[2], b[2])
  <2>1. PICK i \in CommittedOf(t) : b[1] = rows[i].dock /\ b[2] = rows[i].slot
    BY <1>1, BookedFacts
  <2>2. ~Clash(b[1], t, b[2])
    BY <1>1, <2>1 DEF Clash, CommittedOn, CommittedOf, NoDoubleBooking, Disjoint, Live,
                      Committed, Ids
  <2> QED
    BY <1>1, <2>2, TakesFacts
<1>5. \A t \in Trucks : \A b \in Booked(t) : B!Takes(t, b[1], b[2])
  BY <1>4 DEF B!Takes, B!Overlaps, Overlaps, Booked
<1> QED
  BY <1>2, <1>3, <1>5 DEF B!Init, Abstract, Booked

-----------------------------------------------------------------------------
(* Theorems *)

(* The invariant holds of the seed. *)
LEMMA InitInv == Init => IInv
<1> SUFFICES ASSUME Init PROVE IInv
  OBVIOUS
<1>1. \A r \in Reqs : pc[r] = "idle" /\ call[r] = NoCall
  BY DEF Init
<1>2. TypeOK
  BY SeedAssumption, NoCallFacts DEF Init, TypeOK, Step
<1>3. \A r \in Reqs : CallOK(r)
  BY <1>1 DEF CallOK, NoCall
<1>4. LockInv
  BY <1>1 DEF LockInv, Inside
<1>5. BookingInv
  BY <1>1, SeedAssumption DEF Init, BookingInv, NoDoubleBooking, OneDoorPerTruck, SnapshotOK
<1> QED
  BY <1>2, <1>3, <1>4, <1>5 DEF IInv, TypeInv

(* The invariant holds in every state the yard reaches. *)
THEOREM Invariant == Spec => []IInv
<1>1. IInv /\ [Next]_vars => IInv'
  BY LockStep, TypeStep, BookingStep DEF IInv, TypeInv, BookingInv
<1> QED
  BY <1>1, InitInv, PTL DEF Spec

(* The tables, the queue and what every handler holds keep their types. *)
THEOREM TypeCorrect == Spec => []TypeOK
<1>1. IInv => TypeOK
  BY DEF IInv, TypeInv
<1> QED
  BY <1>1, Invariant, PTL

(* withYardLock and the re-check in the transaction are enough: no two     *)
(* trucks are ever committed to one door for overlapping slots, although   *)
(* setDockStatus and the WMS handlers write doors without the lock.        *)
THEOREM NeverDoubleBooked == Spec => []NoDoubleBooking
<1>1. IInv => NoDoubleBooking
  BY DEF IInv, BookingInv
<1> QED
  BY <1>1, Invariant, PTL

(* A truck never holds two committed rows, however its re-picks and the    *)
(* cascades of the doors it leaves are interleaved.                        *)
THEOREM NeverTwoDoors == Spec => []OneDoorPerTruck
<1>1. IInv => OneDoorPerTruck
  BY DEF IInv, BookingInv
<1> QED
  BY <1>1, Invariant, PTL

(* Every forced move is explained by the chain, and by one link of it only, *)
(* wherever a cascade is stopped.                                          *)
THEOREM MovesAreExplained == Spec => []ChainSound
<1>1. Init => ChainSound
  BY SeedAssumption DEF Init, ChainSound
<1> QED
  BY <1>1, ChainStep, Invariant, PTL DEF Spec

(* A cascade, a release or a re-pick never rewrites a row another one closed, *)
(* and changes nothing but the status of one it closes itself.             *)
THEOREM ClosedRowsStay == Spec => RowsFinal
<1>1. IInv /\ [Next]_vars => RowsFinalStep \/ UNCHANGED rows
  BY FinalStep
<1> QED
  BY <1>1, Invariant, PTL DEF Spec, RowsFinal, RowsFinalStep

(* Read through its committed rows, the yard implements Bookings: no commit *)
(* of any handler shows a caller half a booking.                           *)
THEOREM Refinement == Spec => ImplementsBookings
<1>1. IInv => B!Init
  BY AbstractInit
<1>2. IInv /\ [Next]_vars => B!Next \/ UNCHANGED Abstract
  BY AbstractStep
<1> QED
  BY <1>1, <1>2, InitInv, Invariant, PTL DEF Spec, ImplementsBookings, B!Spec, Abstract, Booked

-----------------------------------------------------------------------------
(* The statuses of the doors *)

(* One handler works at a time, or none that gives a dock status: that is  *)
(* the command that writes doors without the lock and by what it read of   *)
(* the bookings before.                                                    *)
Sole == \A p, q \in Reqs : p = q

OneByOne == Sole \/ {"takeDown", "putBack"} \cap Commands = {}

(* A door is as it was read, or a trailer has come to it. *)
Still(was, now) == was = now \/ (was # "UNAVAILABLE" /\ now = "OCCUPIED")

(* The handler moves the trucks of the door it has taken down. *)
Cascading(step, c) ==
  c.op = "takeDown" /\ step \in {"cascade", "queued", "walking", "moving"}

(* What a handler that stands at step has read of the doors still counts. *)
KnowsDoors(step, c) ==
  /\ step \in {"scored", "freed", "checked"} /\ c.row # NoRow =>
       /\ rows[c.row].dock # c.dock
       /\ Still(c.seen, doors[rows[c.row].dock].status)
  /\ step \in {"checked", "live"} => Still(c.live, doors[c.dock].status)
  /\ step = "moving" => Still(c.live, doors[c.pick].status)
  /\ step \in {"checked", "moving"} => c.live # "UNAVAILABLE"
  /\ step = "read" =>
       /\ c.op \in {"docked", "occupied"} => doors[c.dock].status # "UNAVAILABLE"
       /\ c.op \in {"takeDown", "putBack"} => c.held = AffectedOn(c.dock)
  /\ Cascading(step, c) =>
       /\ doors[c.dock].status = "UNAVAILABLE"
       /\ \A a \in c.held : rows[a.id].dock = c.dock
       /\ step # "cascade" => rows[c.row].dock = c.dock

(* A handler does what a command has asked for, by steps of its own. *)
AskedFor(step, c) ==
  /\ c.op \in Commands \cup {"none"}
  /\ step = "read" => c.op \in {"takeDown", "putBack", "docked", "occupied"}

StatusInv == /\ StatusTellsBookings
             /\ \A r \in Reqs : KnowsDoors(pc[r], call[r]) /\ AskedFor(pc[r], call[r])

(* The cascade of handler r has row i before it. *)
WillMove(step, c, i) == Cascading(step, c) /\ \E a \in c.held : a.id = i

(* A row on a door that is down was answered for, or will be. *)
StrandInv ==
  \A d \in Docks : doors[d].status = "UNAVAILABLE" =>
    \A i \in CommittedOn(d) :
      i \in reported \/ \E r \in Reqs : WillMove(pc[r], call[r], i)

-----------------------------------------------------------------------------
(* What the handlers know of the doors *)

(* What the statuses tell, in terms of the rows committed on a door. *)
LEMMA TellsFacts ==
  StatusTellsBookings <=>
    \A d \in Docks : /\ doors[d].status = "AVAILABLE" => CommittedOn(d) = {}
                     /\ doors[d].status = "RESERVED" => CommittedOn(d) # {}
                     /\ doors[d].status = "UNAVAILABLE" <=> doors[d].reason # Nil
<1>1. \A d : CommittedOn(d) = {i \in Live(rows) : rows[i].dock = d}
  BY DEF CommittedOn, Committed, Live, Ids
<1> QED
  BY <1>1 DEF StatusTellsBookings, StatusesTell

(* Retiring rows takes them off their doors, and no other row. *)
LEMMA HeldRetired ==
  ASSUME TypeOK, NEW ids, NEW st \in RowStatus, st # "ASSIGNED", rows' = WithStatus(ids, st)
  PROVE  \A d : CommittedOn(d)' = CommittedOn(d) \ ids
<1>1. /\ DOMAIN rows' = Ids
      /\ \A i \in Ids : rows'[i] = IF i \in ids THEN [rows[i] EXCEPT !.status = st] ELSE rows[i]
      /\ \A i \in Ids : rows[i] \in Row
  BY Retire, RowFacts DEF TypeOK
<1>2. \A i \in Ids : /\ rows'[i].dock = rows[i].dock
                     /\ rows'[i].status = IF i \in ids THEN st ELSE rows[i].status
  BY <1>1 DEF Row
<1> QED
  BY <1>1, <1>2 DEF CommittedOn, Committed, Ids

(* Booking takes the retired rows off theirs, and puts one row on door e. *)
LEMMA HeldPlaced ==
  ASSUME TypeOK, NEW ids, NEW st \in RowStatus, st # "ASSIGNED",
         NEW t \in Trucks, NEW e \in Docks, NEW s \in Slots, NEW p \in Nat,
         rows' = Append(WithStatus(ids, st), NewRow(t, e, s, p))
  PROVE  /\ CommittedOn(e)' # {}
         /\ \A d : d # e => CommittedOn(d)' = CommittedOn(d) \ ids
<1> DEFINE new == NewRow(t, e, s, p)
           n == Len(rows) + 1
<1>1. new \in Row /\ new.dock = e /\ new.status = "ASSIGNED"
  BY DEF NewRow, Row, RowStatus
<1>2. Grown(rows', ids, st, new)
  BY <1>1, Place DEF TypeOK
<1> HIDE DEF new
<1>3. /\ DOMAIN rows' = Ids \cup {n} /\ n \notin Ids /\ rows'[n] = new
      /\ \A j \in Ids : rows[j] \in Row
  BY <1>2, RowFacts DEF Grown, TypeOK
<1>4. \A j \in Ids : /\ rows'[j].dock = rows[j].dock
                     /\ rows'[j].status = IF j \in ids THEN st ELSE rows[j].status
  BY <1>2, <1>3 DEF Grown, Row
<1>5. n \in CommittedOn(e)'
  BY <1>1, <1>3 DEF CommittedOn, Committed, Ids
<1>6. \A d : d # e => CommittedOn(d)' = CommittedOn(d) \ ids
  BY <1>1, <1>3, <1>4 DEF CommittedOn, Committed, Ids
<1> QED
  BY <1>5, <1>6

(* A reading handler keeps what all know, if it knows what it has read. *)
LEMMA KnowsRead ==
  ASSUME TypeOK, StatusInv, NEW r \in Reqs, NEW p, NEW c, Goto(r, p), Learn(r, c),
         UNCHANGED <<doors, rows>>, KnowsDoors(p, c), AskedFor(p, c)
  PROVE  StatusInv'
<1>1. Only(r) /\ pc'[r] = p /\ call'[r] = c
  BY OnlyFacts
<1>2. StatusTellsBookings'
  BY DEF StatusInv, StatusTellsBookings
<1>3. ASSUME NEW step, NEW b, KnowsDoors(step, b)
      PROVE  KnowsDoors(step, b)'
  BY <1>3 DEF KnowsDoors, Cascading, AffectedOn, CommittedOn, Committed, Ids
<1>4. ASSUME NEW q \in Reqs
      PROVE  \E step, b : /\ pc'[q] = step /\ call'[q] = b
                          /\ KnowsDoors(step, b) /\ AskedFor(step, b)
  BY <1>1 DEF Only, StatusInv
<1>5. ASSUME NEW q \in Reqs
      PROVE  (KnowsDoors(pc[q], call[q]) /\ AskedFor(pc[q], call[q]))'
  <2>1. PICK step, b : /\ pc'[q] = step /\ call'[q] = b
                       /\ KnowsDoors(step, b) /\ AskedFor(step, b)
    BY <1>4
  <2>2. KnowsDoors(step, b)'
    BY <1>3, <2>1
  <2> QED
    BY <2>1, <2>2 DEF AskedFor, KnowsDoors, Cascading, AffectedOn, CommittedOn, Committed, Ids
<1> QED
  BY <1>2, <1>5 DEF StatusInv

(* Only a take-down puts a door out of service. *)
NoOutage ==
  \A d \in Docks : doors'[d].status = "UNAVAILABLE" => doors[d].status = "UNAVAILABLE"

(* To those that wait, nothing has happened but that trailers have come. *)
Gentle == UNCHANGED rows /\ \A d \in Docks : Still(doors[d].status, doors'[d].status)

(* A writing handler keeps what the others know: they wait for the lock it *)
(* had, or it did what they allow for.                                     *)
LEMMA KnowsOthers ==
  ASSUME IInv, StatusInv, OneByOne, NEW r \in Reqs, Only(r),
         call[r].op # "takeDown" => NoOutage,
         call[r].op \notin {"takeDown", "putBack"} => pc[r] \in Inside \/ Gentle,
         NEW q \in Reqs, q # r
  PROVE  (KnowsDoors(pc[q], call[q]) /\ AskedFor(pc[q], call[q]))'
<1> DEFINE step == pc[q]
           c == call[q]
<1>1. pc'[q] = step /\ call'[q] = c
  BY DEF Only
<1>2. {"takeDown", "putBack"} \cap Commands = {}
  BY DEF OneByOne, Sole
<1>3. \A s \in Reqs : call[s].op \notin {"takeDown", "putBack"}
  BY <1>2 DEF StatusInv, AskedFor
<1>4. NoOutage /\ (pc[r] \in Inside \/ Gentle)
  BY <1>3
<1>5. step \in Inside => Gentle
  BY <1>4 DEF IInv, LockInv
<1>6. KnowsDoors(step, c) /\ AskedFor(step, c) /\ CallOK(q) /\ SnapshotOK(q)
  BY DEF StatusInv, IInv, TypeInv, BookingInv
<1>7. rows \in Seq(Row) /\ \A i \in Ids : rows[i].dock \in Docks
  BY RowFacts DEF IInv, TypeInv, TypeOK, Row
<1>8. \A was, d : d \in Docks /\ Gentle /\ Still(was, doors[d].status)
                    => Still(was, doors'[d].status)
  BY DEF Still, Gentle
<1>9. step \in {"scored", "freed", "checked"} /\ c.row # NoRow =>
        /\ rows'[c.row].dock # c.dock
        /\ Still(c.seen, doors'[rows'[c.row].dock].status)
  <2> SUFFICES ASSUME step \in {"scored", "freed", "checked"}, c.row # NoRow
               PROVE  /\ rows'[c.row].dock # c.dock
                      /\ Still(c.seen, doors'[rows'[c.row].dock].status)
    OBVIOUS
  <2>1. Gentle /\ rows' = rows
    BY <1>5 DEF Inside, Gentle
  <2>2. c.row \in Ids
    BY <1>6 DEF SnapshotOK, CommittedOf
  <2> QED
    BY <1>6, <1>7, <1>8, <2>1, <2>2 DEF KnowsDoors
<1>10. step \in {"checked", "live"} => Still(c.live, doors'[c.dock].status)
  <2> SUFFICES ASSUME step \in {"checked", "live"}
               PROVE  Still(c.live, doors'[c.dock].status)
    OBVIOUS
  <2>1. Gentle /\ c.dock \in Docks
    BY <1>5, <1>6 DEF Inside, SnapshotOK, CallOK
  <2> QED
    BY <1>6, <1>8, <2>1 DEF KnowsDoors
<1>11. step # "moving"
  BY <1>3, <1>6 DEF SnapshotOK
<1>12. step = "read" => c.op \in {"docked", "occupied"} /\ doors'[c.dock].status # "UNAVAILABLE"
  <2> SUFFICES ASSUME step = "read"
               PROVE  c.op \in {"docked", "occupied"} /\ doors'[c.dock].status # "UNAVAILABLE"
    OBVIOUS
  <2>1. c.op \in {"docked", "occupied"} /\ c.dock \in Docks
    BY <1>3, <1>6 DEF AskedFor, CallOK
  <2> QED
    BY <1>4, <1>6, <2>1 DEF NoOutage, KnowsDoors
<1>13. ~Cascading(step, c)
  BY <1>3 DEF Cascading
<1>14. step = "checked" => c.live # "UNAVAILABLE"
  BY <1>6 DEF KnowsDoors
<1>15. AskedFor(pc[q], call[q])'
  BY <1>1, <1>6 DEF AskedFor
<1>16. KnowsDoors(pc[q], call[q])'
  BY <1>1, <1>9, <1>10, <1>11, <1>12, <1>13, <1>14 DEF KnowsDoors, Cascading
<1> QED
  BY <1>15, <1>16

(* And it keeps the invariant, if what it wrote fits the rows. *)
LEMMA KnowsWrite ==
  ASSUME IInv, StatusInv, OneByOne, NEW r \in Reqs, NEW p, NEW c, Goto(r, p), Learn(r, c),
         call[r].op # "takeDown" => NoOutage,
         call[r].op \notin {"takeDown", "putBack"} => pc[r] \in Inside \/ Gentle,
         StatusTellsBookings', KnowsDoors(p, c)', AskedFor(p, c)
  PROVE  StatusInv'
<1>1. Only(r) /\ pc'[r] = p /\ call'[r] = c
  BY OnlyFacts DEF IInv, TypeInv
<1>2. (KnowsDoors(pc[r], call[r]) /\ AskedFor(pc[r], call[r]))'
  BY <1>1 DEF AskedFor, KnowsDoors, Cascading, AffectedOn, CommittedOn, Committed, Ids
<1>3. \A q \in Reqs : (KnowsDoors(pc[q], call[q]) /\ AskedFor(pc[q], call[q]))'
  BY <1>1, <1>2, KnowsOthers
<1> QED
  BY <1>3 DEF StatusInv

(* A handler that has returned knows nothing. *)
LEMMA KnowsIdle ==
  KnowsDoors("idle", NoCall) /\ KnowsDoors("idle", NoCall)' /\ AskedFor("idle", NoCall)
BY DEF KnowsDoors, Cascading, AskedFor, NoCall

-----------------------------------------------------------------------------
(* Handlers that read *)

(* A command that arrives has read the doors as they are. *)
LEMMA StatusArrive ==
  ASSUME IInv, StatusInv, NEW r \in Reqs, Arrive(r)
  PROVE  StatusInv'
<1> USE DEF Idle, KnowsDoors, Cascading, AskedFor, NoCall
<1>1. TypeOK
  BY DEF IInv, TypeInv
<1>2. ASSUME NEW t \in Trucks, NEW d \in Docks, RequestAssign(r, t, d) PROVE StatusInv'
  BY <1>1, <1>2, KnowsRead DEF RequestAssign
<1>3. ASSUME NEW t \in Trucks, NEW d \in Docks, DockedRead(r, t, d) PROVE StatusInv'
  BY <1>1, <1>3, KnowsRead DEF DockedRead
<1>4. ASSUME NEW d \in Docks, RequestRelease(r, d) PROVE StatusInv'
  BY <1>1, <1>4, KnowsRead DEF RequestRelease
<1>5. ASSUME NEW d \in Docks, PutBackRead(r, d) PROVE StatusInv'
  BY <1>1, <1>5, KnowsRead DEF PutBackRead
<1>6. ASSUME NEW d \in Docks, OccupiedRead(r, d) PROVE StatusInv'
  BY <1>1, <1>6, KnowsRead DEF OccupiedRead
<1>7. ASSUME NEW d \in Docks, NEW why \in Reasons, TakeDownRead(r, d, why) PROVE StatusInv'
  BY <1>1, <1>7, KnowsRead DEF TakeDownRead
<1> QED
  BY <1>2, <1>3, <1>4, <1>5, <1>6, <1>7 DEF Arrive

(* Where the cascade stands once it is done with a row. *)
LEMMA NextRowFacts ==
  ASSUME TypeOK, NEW r \in Reqs, call[r].op = "takeDown", "takeDown" \in Commands, NextRow(r)
  PROVE  \E p, c :
           /\ Goto(r, p) /\ Learn(r, c) /\ AskedFor(p, c)
           /\ \/ p = "idle" /\ c = NoCall /\ {a \in call[r].held : a.id # call[r].row} = {}
              \/ /\ p = "cascade" /\ c.op = "takeDown" /\ c.dock = call[r].dock
                 /\ c.held = {a \in call[r].held : a.id # call[r].row}
<1> DEFINE left == {a \in call[r].held : a.id # call[r].row}
           c == [NoCall EXCEPT !.op = "takeDown", !.dock = call[r].dock,
                               !.reason = call[r].reason, !.held = left]
<1>1. CASE left = {} /\ Return(r)
  BY <1>1, KnowsIdle DEF Return
<1>2. CASE Goto(r, "cascade") /\ Learn(r, c)
  <2>1. c.op = "takeDown" /\ c.dock = call[r].dock /\ c.held = left
    BY DEF NoCall
  <2>2. AskedFor("cascade", c)
    BY <2>1 DEF AskedFor
  <2> HIDE DEF c
  <2> QED
    BY <1>2, <2>1, <2>2
<1> QED
  BY <1>1, <1>2 DEF NextRow

(* A handler that reads, or that gives up, keeps what all know. *)
LEMMA StatusReads ==
  ASSUME IInv, StatusInv, NEW r \in Reqs
  PROVE  /\ AssignRefused(r) \/ AssignConflict(r) \/ TransactionFails(r) => StatusInv'
         /\ AssignScored(r) => StatusInv'
         /\ AssignFree(r) => StatusInv'
         /\ AssignRecheck(r) => StatusInv'
         /\ ReleaseFound(r) \/ ReleaseReadLive(r) => StatusInv'
         /\ RequestReassign(r) => StatusInv'
         /\ ReassignScored(r) => StatusInv'
         /\ \A d \in Docks : ReassignSkip(r, d) \/ ReassignPick(r, d) => StatusInv'
         /\ ReassignThrows(r) => StatusInv'
<1>1. /\ TypeOK /\ CallOK(r) /\ call[r] \in Call /\ SnapshotOK(r)
      /\ KnowsDoors(pc[r], call[r]) /\ AskedFor(pc[r], call[r]) /\ OneDoorPerTruck
  BY DEF IInv, TypeInv, TypeOK, BookingInv, StatusInv
<1>2. CASE AssignRefused(r) \/ AssignConflict(r) \/ TransactionFails(r)
  BY <1>1, <1>2, KnowsRead, KnowsIdle
     DEF AssignRefused, AssignConflict, TransactionFails, Return
<1>3. CASE AssignScored(r)
  <2> DEFINE cur == Current(call[r].truck)
             seen == IF cur = NoRow THEN Nil ELSE doors[rows[cur].dock].status
  <2>1. PICK s : /\ Learn(r, [call[r] EXCEPT !.slot = s, !.row = cur, !.seen = seen])
                 /\ cur # NoRow => rows[cur].dock # call[r].dock
    BY <1>3 DEF AssignScored
  <2> DEFINE c == [call[r] EXCEPT !.slot = s, !.row = cur, !.seen = seen]
  <2>2. Learn(r, c) /\ c.op = call[r].op /\ c.dock = call[r].dock /\ c.row = cur /\ c.seen = seen
    BY <1>1, <2>1 DEF Call
  <2> HIDE DEF c
  <2>3. KnowsDoors("scored", c) /\ AskedFor("scored", c)
    BY <1>1, <1>3, <2>1, <2>2 DEF AssignScored, Turn, Running, KnowsDoors, Cascading, Still, AskedFor
  <2> QED
    BY <1>1, <1>3, <2>2, <2>3, KnowsRead DEF AssignScored
<1>4. CASE AssignFree(r)
  <2>1. Learn(r, call[r])
    BY <1>1, <1>4 DEF AssignFree, Learn, TypeOK
  <2>2. KnowsDoors("freed", call[r]) /\ AskedFor("freed", call[r])
    BY <1>1, <1>4 DEF AssignFree, Running, KnowsDoors, Cascading, AskedFor
  <2> QED
    BY <1>1, <1>4, <2>1, <2>2, KnowsRead DEF AssignFree
<1>5. CASE AssignRecheck(r)
  <2> DEFINE c == [call[r] EXCEPT !.live = doors[call[r].dock].status]
  <2>1. /\ Learn(r, c) /\ c.op = "assign" /\ c.dock = call[r].dock
        /\ c.row = call[r].row /\ c.seen = call[r].seen
        /\ c.live = doors[c.dock].status /\ c.live # "UNAVAILABLE"
    BY <1>1, <1>5 DEF AssignRecheck, Running, DockStillTakes, Call
  <2> HIDE DEF c
  <2>2. KnowsDoors("checked", c) /\ AskedFor("checked", c)
    BY <1>1, <1>5, <2>1 DEF AssignRecheck, Running, KnowsDoors, Cascading, Still, AskedFor
  <2> QED
    BY <1>1, <1>5, <2>1, <2>2, KnowsRead DEF AssignRecheck
<1>6. CASE ReleaseFound(r)
  <2> DEFINE c == [call[r] EXCEPT !.held = AffectedOn(call[r].dock)]
  <2>1. Learn(r, c) /\ c.op = "release"
    BY <1>1, <1>6 DEF ReleaseFound, Turn, Running, Call
  <2> HIDE DEF c
  <2>2. KnowsDoors("found", c) /\ AskedFor("found", c)
    BY <1>1, <1>6, <2>1 DEF ReleaseFound, Turn, Running, KnowsDoors, Cascading, AskedFor
  <2> QED
    BY <1>1, <1>6, <2>1, <2>2, KnowsRead DEF ReleaseFound
<1>7. CASE ReleaseReadLive(r)
  <2> DEFINE c == [call[r] EXCEPT !.live = doors[call[r].dock].status]
  <2>1. Learn(r, c) /\ c.op = "release" /\ c.live = doors[c.dock].status
    BY <1>1, <1>7 DEF ReleaseReadLive, Running, Call
  <2> HIDE DEF c
  <2>2. KnowsDoors("live", c) /\ AskedFor("live", c)
    BY <1>1, <1>7, <2>1 DEF ReleaseReadLive, Running, KnowsDoors, Cascading, Still, AskedFor
  <2> QED
    BY <1>1, <1>7, <2>1, <2>2, KnowsRead DEF ReleaseReadLive
<1>8. CASE RequestReassign(r)
  <2>1. PICK a \in call[r].held : Learn(r, [call[r] EXCEPT !.row = a.id, !.truck = a.truck])
    BY <1>8 DEF RequestReassign
  <2> DEFINE c == [call[r] EXCEPT !.row = a.id, !.truck = a.truck]
  <2>2. /\ Learn(r, c) /\ c.op = "takeDown" /\ c.dock = call[r].dock
        /\ c.held = call[r].held /\ c.row = a.id
    BY <1>1, <1>8, <2>1 DEF RequestReassign, Running, Call
  <2> HIDE DEF c
  <2>3. KnowsDoors("queued", c) /\ AskedFor("queued", c)
    BY <1>1, <1>8, <2>2 DEF RequestReassign, Running, KnowsDoors, Cascading, AskedFor
  <2> QED
    BY <1>1, <1>8, <2>2, <2>3, KnowsRead DEF RequestReassign
<1>9. CASE ReassignScored(r)
  <2>1. PICK s : Learn(r, [call[r] EXCEPT !.slot = s, !.cands = Options(call[r].truck, s)])
    BY <1>9 DEF ReassignScored
  <2> DEFINE c == [call[r] EXCEPT !.slot = s, !.cands = Options(call[r].truck, s)]
  <2>2. /\ Learn(r, c) /\ c.op = "takeDown" /\ c.dock = call[r].dock
        /\ c.held = call[r].held /\ c.row = call[r].row
    BY <1>1, <1>9, <2>1 DEF ReassignScored, Turn, Running, Call
  <2> HIDE DEF c
  <2>3. KnowsDoors("walking", c) /\ AskedFor("walking", c)
    BY <1>1, <1>9, <2>2 DEF ReassignScored, Turn, Running, KnowsDoors, Cascading, AskedFor
  <2> QED
    BY <1>1, <1>9, <2>2, <2>3, KnowsRead DEF ReassignScored
<1>10. ASSUME NEW d \in Docks, ReassignSkip(r, d) PROVE StatusInv'
  <2> DEFINE c == [call[r] EXCEPT !.cands = @ \ {d}]
  <2>1. /\ Learn(r, c) /\ c.op = "takeDown" /\ c.dock = call[r].dock
        /\ c.held = call[r].held /\ c.row = call[r].row
    BY <1>1, <1>10 DEF ReassignSkip, Running, Call
  <2> HIDE DEF c
  <2>2. KnowsDoors("walking", c) /\ AskedFor("walking", c)
    BY <1>1, <1>10, <2>1 DEF ReassignSkip, Running, KnowsDoors, Cascading, AskedFor
  <2>3. Goto(r, "walking")
    BY <1>1, <1>10 DEF ReassignSkip, Running, Goto, TypeOK
  <2> QED
    BY <1>1, <1>10, <2>1, <2>2, <2>3, KnowsRead DEF ReassignSkip
<1>11. ASSUME NEW d \in Docks, ReassignPick(r, d) PROVE StatusInv'
  <2> DEFINE c == [call[r] EXCEPT !.pick = d, !.live = doors[d].status]
  <2>1. /\ Learn(r, c) /\ c.op = "takeDown" /\ c.dock = call[r].dock
        /\ c.held = call[r].held /\ c.row = call[r].row /\ c.pick = d
        /\ c.live = doors[d].status /\ c.live # "UNAVAILABLE"
    BY <1>1, <1>11 DEF ReassignPick, Running, DockStillTakes, Call
  <2> HIDE DEF c
  <2>2. KnowsDoors("moving", c) /\ AskedFor("moving", c)
    BY <1>1, <1>11, <2>1 DEF ReassignPick, Running, KnowsDoors, Cascading, Still, AskedFor
  <2> QED
    BY <1>1, <1>11, <2>1, <2>2, KnowsRead DEF ReassignPick
<1>12. CASE ReassignThrows(r)
  <2>1. pc[r] \in {"walking", "moving"} /\ call[r].op = "takeDown"
    BY <1>12 DEF ReassignThrows, Running
  <2>2. PICK p, c : /\ Goto(r, p) /\ Learn(r, c) /\ AskedFor(p, c)
                    /\ \/ p = "idle" /\ c = NoCall
                       \/ /\ p = "cascade" /\ c.op = "takeDown" /\ c.dock = call[r].dock
                          /\ c.held \subseteq call[r].held
    BY <1>1, <1>12, <2>1, NextRowFacts DEF ReassignThrows, AskedFor
  <2>3. KnowsDoors(p, c)
    BY <1>1, <2>1, <2>2, KnowsIdle DEF KnowsDoors, Cascading
  <2> QED
    BY <1>1, <1>12, <2>2, <2>3, KnowsRead DEF ReassignThrows
<1> QED
  BY <1>2, <1>3, <1>4, <1>5, <1>6, <1>7, <1>8, <1>9, <1>10, <1>11, <1>12

-----------------------------------------------------------------------------
(* Handlers that write *)

(* What the statuses must tell of the doors and the rows a step leaves. *)
LEMMA TellsNext ==
  ASSUME \A d \in Docks : /\ doors'[d].status = "AVAILABLE" => CommittedOn(d)' = {}
                          /\ doors'[d].status = "RESERVED" => CommittedOn(d)' # {}
                          /\ doors'[d].status = "UNAVAILABLE" <=> doors'[d].reason # Nil
  PROVE  StatusTellsBookings'
<1>1. \A d : CommittedOn(d)' = {i \in Live(rows') : rows'[i].dock = d}
  BY DEF CommittedOn, Committed, Live, Ids
<1> QED
  BY <1>1 DEF StatusTellsBookings, StatusesTell

(* A write of a door row gives it a status, and leaves its reason alone. *)
LEMMA DoorStatuses ==
  ASSUME TypeOK, NEW d \in Docks
  PROVE  /\ HandedBack(d).status = "AVAILABLE" /\ HandedBack(d).reason = doors[d].reason
         /\ Occupied(d).status = "OCCUPIED" /\ Occupied(d).reason = doors[d].reason
         /\ \A c : /\ Reserved(d, c).reason = doors[d].reason
                   /\ Reserved(d, c).status =
                        IF c.live = "AVAILABLE" THEN "RESERVED" ELSE doors[d].status
         /\ \A i : /\ ClearedIfUnheld(d, i, doors[d]).status = doors[d].status
                   /\ ClearedIfUnheld(d, i, doors[d]).reason = doors[d].reason
BY DEF TypeOK, Door, HandedBack, Occupied, Reserved, ClearedIfUnheld

(* assignDock commits: the door left is handed back when nobody else holds  *)
(* it, and the door taken is held.                                         *)
LEMMA StatusAssign ==
  ASSUME IInv, StatusInv, OneByOne, NEW r \in Reqs, AssignCommit(r)
  PROVE  StatusInv'
<1>0. PICK c, old, to, gone :
        c = call[r] /\ old = rows[c.row].dock /\ to = c.dock /\ gone = {c.row}
  OBVIOUS
<1>1. TypeOK /\ CallOK(r) /\ SnapshotOK(r) /\ KnowsDoors("checked", c) /\ pc[r] = "checked"
  BY <1>0 DEF IInv, TypeInv, BookingInv, StatusInv, AssignCommit, Running
<1>2. c.op = "assign" /\ to \in Docks /\ c.truck \in Trucks /\ c.slot \in Slots
  BY <1>0, <1>1 DEF CallOK, SnapshotOK
<1>3. c.row # NoRow => /\ c.row \in Ids /\ old \in Docks /\ old # to
                       /\ Still(c.seen, doors[old].status)
  <2> SUFFICES ASSUME c.row # NoRow PROVE /\ c.row \in Ids /\ old \in Docks /\ old # to
                                          /\ Still(c.seen, doors[old].status)
    OBVIOUS
  <2>1. c.row \in Ids
    BY <1>0, <1>1 DEF SnapshotOK, CommittedOf
  <2> QED
    BY <1>0, <1>1, <2>1, RowFacts DEF KnowsDoors, TypeOK, Row
<1>4. Still(c.live, doors[to].status) /\ c.live # "UNAVAILABLE"
  BY <1>0, <1>1 DEF KnowsDoors
<1>5. /\ CommittedOn(to)' # {}
      /\ \A d : d # to => CommittedOn(d)' = CommittedOn(d) \ gone
  <2>1. rows' = Append(WithStatus(gone, "CANCELLED"), NewRow(c.truck, to, c.slot, NoRow))
    BY <1>0 DEF AssignCommit
  <2>2. NoRow \in Nat /\ "CANCELLED" \in RowStatus /\ "CANCELLED" # "ASSIGNED"
    BY DEF NoRow, RowStatus
  <2> QED
    BY <1>1, <1>2, <2>1, <2>2, HeldPlaced
<1>6. \A d \in Docks : doors'[d] = IF FreesPrevious(r) /\ d = old THEN HandedBack(d)
                                   ELSE IF d = to THEN Reserved(d, c) ELSE doors[d]
  BY <1>0 DEF AssignCommit
<1>7. FreesPrevious(r) => c.row # NoRow /\ c.seen = "RESERVED" /\ CommittedOn(old) \subseteq {c.row}
  BY <1>0 DEF FreesPrevious
<1>8. \A d \in Docks : /\ doors[d].status = "AVAILABLE" => CommittedOn(d) = {}
                       /\ doors[d].status = "RESERVED" => CommittedOn(d) # {}
                       /\ doors[d].status = "UNAVAILABLE" <=> doors[d].reason # Nil
  BY TellsFacts DEF StatusInv
<1>9. ASSUME NEW d \in Docks
      PROVE  /\ doors'[d].status = "AVAILABLE" => CommittedOn(d)' = {}
             /\ doors'[d].status = "RESERVED" => CommittedOn(d)' # {}
             /\ doors'[d].status = "UNAVAILABLE" <=> doors'[d].reason # Nil
             /\ doors'[d].status = "UNAVAILABLE" => doors[d].status = "UNAVAILABLE"
  <2>1. CASE FreesPrevious(r) /\ d = old
    <3>1. c.row # NoRow /\ d # to /\ doors[d].status # "UNAVAILABLE"
      BY <1>3, <1>7, <2>1 DEF Still
    <3>2. CommittedOn(d)' = {}
      BY <1>0, <1>5, <1>7, <2>1, <3>1
    <3> QED
      BY <1>1, <1>6, <1>8, <2>1, <3>1, <3>2, DoorStatuses
  <2>2. CASE ~(FreesPrevious(r) /\ d = old) /\ d = to
    <3>1. CommittedOn(d)' # {}
      BY <1>5, <2>2
    <3>2. doors'[d] = Reserved(d, c)
      BY <1>6, <2>2
    <3>3. c.live # "AVAILABLE" => doors[d].status # "AVAILABLE"
      BY <1>4, <2>2 DEF Still
    <3>4. doors[d].status # "UNAVAILABLE"
      BY <1>4, <2>2 DEF Still
    <3> QED
      BY <1>1, <1>8, <3>1, <3>2, <3>3, <3>4, DoorStatuses
  <2>3. CASE ~(FreesPrevious(r) /\ d = old) /\ d # to
    <3>1. doors'[d] = doors[d] /\ CommittedOn(d)' = CommittedOn(d) \ gone
      BY <1>5, <1>6, <2>3
    <3>2. ASSUME doors[d].status = "RESERVED", c.row \in CommittedOn(d)
          PROVE  CommittedOn(d)' # {}
      <4>1. c.row # NoRow /\ d = old
        <5>1. c.row \in Ids /\ rows[c.row].dock = d
          BY <3>2 DEF CommittedOn
        <5> QED
          BY <1>0, <1>1, <5>1, RowFacts DEF NoRow, TypeOK
      <4>2. c.seen = "RESERVED"
        BY <1>3, <3>2, <4>1 DEF Still
      <4>3. ~(CommittedOn(old) \subseteq {c.row})
        BY <1>0, <2>3, <4>1, <4>2 DEF FreesPrevious
      <4> QED
        BY <1>0, <3>1, <4>1, <4>3
    <3> QED
      BY <1>0, <1>8, <3>1, <3>2
  <2> QED
    BY <2>1, <2>2, <2>3
<1>10. StatusTellsBookings' /\ NoOutage
  BY <1>9, TellsNext DEF NoOutage
<1> QED
  BY <1>0, <1>1, <1>2, <1>10, KnowsWrite, KnowsIdle DEF AssignCommit, Return, Inside

(* releaseDock commits: the door has no booking left, and is handed back    *)
(* unless it is out of service.                                            *)
LEMMA StatusRelease ==
  ASSUME IInv, StatusInv, OneByOne, NEW r \in Reqs, ReleaseCommit(r)
  PROVE  StatusInv'
<1>0. PICK e : e = call[r].dock
  OBVIOUS
<1>1. TypeOK /\ CallOK(r) /\ SnapshotOK(r) /\ KnowsDoors("live", call[r]) /\ pc[r] = "live"
  BY DEF IInv, TypeInv, BookingInv, StatusInv, ReleaseCommit, Running
<1>2. /\ call[r].op = "release" /\ e \in Docks /\ Still(call[r].live, doors[e].status)
      /\ {a.id : a \in call[r].held} = CommittedOn(e)
  BY <1>0, <1>1 DEF CallOK, SnapshotOK, KnowsDoors
<1>3. \A d : CommittedOn(d)' = CommittedOn(d) \ CommittedOn(e)
  BY <1>1, <1>2, HeldRetired DEF ReleaseCommit, RowStatus
<1>4. CommittedOn(e)' = {} /\ \A d : d # e => CommittedOn(d)' = CommittedOn(d)
  <2>1. \A d : d # e => CommittedOn(d) \ CommittedOn(e) = CommittedOn(d)
    BY DEF CommittedOn
  <2> QED
    BY <1>3, <2>1
<1>5. \A d \in Docks : /\ doors[d].status = "AVAILABLE" => CommittedOn(d) = {}
                       /\ doors[d].status = "RESERVED" => CommittedOn(d) # {}
                       /\ doors[d].status = "UNAVAILABLE" <=> doors[d].reason # Nil
  BY TellsFacts DEF StatusInv
<1>6. StatusTellsBookings' /\ NoOutage
  <2>1. CASE call[r].live = "UNAVAILABLE"
    <3>1. doors' = doors /\ doors[e].status = "UNAVAILABLE"
      BY <1>2, <2>1 DEF ReleaseCommit, Still
    <3> QED
      BY <1>4, <1>5, <3>1, TellsNext DEF NoOutage
  <2>2. CASE call[r].live # "UNAVAILABLE"
    <3>1. /\ doors'[e] = HandedBack(e) /\ doors[e].status # "UNAVAILABLE"
          /\ \A d \in Docks : d # e => doors'[d] = doors[d]
      BY <1>0, <1>1, <1>2, <2>2 DEF ReleaseCommit, Still, TypeOK
    <3>2. doors'[e].status = "AVAILABLE" /\ doors'[e].reason = doors[e].reason
      BY <1>1, <1>2, <3>1, DoorStatuses
    <3> QED
      BY <1>2, <1>4, <1>5, <3>1, <3>2, TellsNext DEF NoOutage
  <2> QED
    BY <2>1, <2>2
<1> QED
  BY <1>1, <1>2, <1>6, KnowsWrite, KnowsIdle DEF ReleaseCommit, Return, Inside

(* setDockStatus writes what its read of the bookings made of it.          *)
LEMMA StatusSet ==
  ASSUME IInv, StatusInv, OneByOne, NEW r \in Reqs
  PROVE  TakeDownWrite(r) \/ PutBackWrite(r) => StatusInv'
<1>0. PICK e : e = call[r].dock
  OBVIOUS
<1>1. /\ TypeOK /\ CallOK(r) /\ call[r] \in Call
      /\ KnowsDoors(pc[r], call[r]) /\ AskedFor(pc[r], call[r])
  BY DEF IInv, TypeInv, TypeOK, StatusInv
<1>2. /\ \A d : {a.id : a \in AffectedOn(d)} = CommittedOn(d)
      /\ \A d : \A a \in AffectedOn(d) : rows[a.id].dock = d
  <2>1. \A d : {a.id : a \in AffectedOn(d)} = CommittedOn(d)
    BY <1>1, RowFacts DEF TypeOK
  <2>2. \A d : \A a \in AffectedOn(d) : a.id \in CommittedOn(d)
    BY <2>1
  <2> QED
    BY <2>1, <2>2 DEF CommittedOn
<1>3. \A d \in Docks : /\ doors[d].status = "AVAILABLE" => CommittedOn(d) = {}
                       /\ doors[d].status = "RESERVED" => CommittedOn(d) # {}
                       /\ doors[d].status = "UNAVAILABLE" <=> doors[d].reason # Nil
  BY TellsFacts DEF StatusInv
<1>4. UNCHANGED rows => \A d : CommittedOn(d)' = CommittedOn(d)
  BY DEF CommittedOn, Committed, Ids
<1>5. CASE TakeDownWrite(r)
  <2>1. /\ call[r].op = "takeDown" /\ pc[r] = "read" /\ e \in Docks /\ UNCHANGED rows
        /\ call[r].reason \in Reasons /\ call[r].held = AffectedOn(e)
    BY <1>0, <1>1, <1>5 DEF TakeDownWrite, Running, CallOK, KnowsDoors
  <2>2. /\ doors'[e].status = "UNAVAILABLE" /\ doors'[e].reason = call[r].reason
        /\ \A d \in Docks : d # e => doors'[d] = doors[d]
    BY <1>0, <1>1, <1>5, <2>1 DEF TakeDownWrite, TypeOK, Door
  <2>3. StatusTellsBookings'
    BY <1>3, <1>4, <2>1, <2>2, TellsNext, NilAssumption
  <2>4. CASE Return(r)
    BY <2>1, <2>3, <2>4, KnowsWrite, KnowsIdle DEF Return
  <2>5. CASE Goto(r, "cascade") /\ UNCHANGED call
    <3>1. Learn(r, call[r])
      BY <1>1, <2>5 DEF Learn, TypeOK
    <3>2. KnowsDoors("cascade", call[r])'
      <4>1. call'[r] = call[r]
        BY <2>5
      <4> QED
        BY <1>0, <1>2, <2>1, <2>2, <4>1 DEF KnowsDoors, Cascading
    <3>3. AskedFor("cascade", call[r])
      BY <1>1 DEF AskedFor
    <3> DEFINE c == call[r]
    <3>4. KnowsDoors("cascade", c)'
      BY <3>2
    <3> QED
      BY <2>1, <2>3, <2>5, <3>1, <3>3, <3>4, KnowsWrite
  <2> QED
    BY <1>5, <2>4, <2>5 DEF TakeDownWrite
<1>6. CASE PutBackWrite(r)
  <2>1. /\ call[r].op = "putBack" /\ e \in Docks /\ UNCHANGED rows
        /\ {a.id : a \in call[r].held} = CommittedOn(e)
    BY <1>0, <1>1, <1>2, <1>6 DEF PutBackWrite, Running, CallOK, KnowsDoors
  <2>2. \A d \in Docks : d # e => doors'[d] = doors[d]
    BY <1>0, <1>1, <1>6 DEF PutBackWrite, TypeOK
  <2>5. call[r].held = {} <=> CommittedOn(e) = {}
    BY <2>1
  <2>3. /\ doors'[e].reason = Nil
        /\ doors'[e].status \in {"AVAILABLE", "RESERVED"}
        /\ doors'[e].status = "AVAILABLE" <=> CommittedOn(e) = {}
    <3>1. CASE call[r].held = {}
      <4>1. doors'[e] = [status |-> "AVAILABLE", reason |-> Nil, availableFrom |-> NoTime]
        BY <1>0, <1>1, <1>6, <2>1, <3>1 DEF PutBackWrite, TypeOK
      <4> QED
        BY <2>5, <3>1, <4>1
    <3>2. CASE call[r].held # {}
      <4>1. PICK u : doors'[e] = [status |-> "RESERVED", reason |-> Nil, availableFrom |-> u]
        BY <1>0, <1>1, <1>6, <2>1, <3>2 DEF PutBackWrite, TypeOK
      <4> QED
        BY <2>5, <3>2, <4>1
    <3> QED
      BY <3>1, <3>2
  <2>4. StatusTellsBookings' /\ NoOutage
    BY <1>3, <1>4, <2>1, <2>2, <2>3, TellsNext DEF NoOutage
  <2> QED
    BY <1>6, <2>1, <2>4, KnowsWrite, KnowsIdle DEF PutBackWrite, Return
<1> QED
  BY <1>5, <1>6

(* The cascade has moved a row, or cancelled it: the door it was on is down. *)
LEMMA StatusMoved ==
  ASSUME IInv, StatusInv, OneByOne, NEW r \in Reqs
  PROVE  ReassignCommit(r) \/ ReassignNoDock(r) => StatusInv'
<1> SUFFICES ASSUME ReassignCommit(r) \/ ReassignNoDock(r) PROVE StatusInv'
  OBVIOUS
<1>0. PICK c, from : c = call[r] /\ from = rows[c.row].dock
  OBVIOUS
<1>1. /\ TypeOK /\ CallOK(r) /\ c.op = "takeDown" /\ pc[r] \in {"walking", "moving"}
      /\ KnowsDoors(pc[r], c) /\ AskedFor(pc[r], c) /\ "takeDown" \in Commands
  BY <1>0 DEF IInv, TypeInv, StatusInv, ReassignCommit, ReassignNoDock, Running, AskedFor
<1>2. /\ from = c.dock /\ c.dock \in Docks /\ doors[from].status = "UNAVAILABLE"
      /\ c.row \in Ids /\ rows[c.row].truck = c.truck
      /\ \A a \in c.held : a.id \in Ids /\ rows[a.id].dock = c.dock
  BY <1>0, <1>1 DEF CallOK, KnowsDoors, Cascading
<1>3. \A d \in Docks : /\ doors[d].status = "AVAILABLE" => CommittedOn(d) = {}
                       /\ doors[d].status = "RESERVED" => CommittedOn(d) # {}
                       /\ doors[d].status = "UNAVAILABLE" <=> doors[d].reason # Nil
  BY TellsFacts DEF StatusInv
<1>4. \A d : d # from => c.row \notin CommittedOn(d)
  BY <1>0 DEF CommittedOn
<1>5. Evolves /\ StatusTellsBookings' /\ doors'[c.dock].status = "UNAVAILABLE"
  <2>1. CASE ReassignCommit(r)
    <3>0. PICK to, gone : to = c.pick /\ gone = {c.row}
      OBVIOUS
    <3>1. /\ pc[r] = "moving" /\ to \in Docks /\ c.slot \in Slots
          /\ Still(c.live, doors[to].status) /\ c.live # "UNAVAILABLE"
      BY <1>0, <1>1, <2>1, <3>0 DEF ReassignCommit, Running, CallOK, KnowsDoors
    <3>2. c.truck \in Trucks /\ c.row \in Nat
      BY <1>1, <1>2, RowFacts DEF TypeOK, Row
    <3>3. rows' = Append(WithStatus(gone, "REASSIGNED"),
                         NewRow(c.truck, to, c.slot, c.row))
      BY <1>0, <2>1, <3>0 DEF ReassignCommit
    <3>4. NewRow(c.truck, to, c.slot, c.row) \in Row
      BY <3>1, <3>2 DEF NewRow, Row, RowStatus
    <3>5. Evolves
      BY <1>1, <3>3, <3>4, Placed DEF TypeOK, RowStatus
    <3>6. /\ CommittedOn(to)' # {}
          /\ \A d : d # to => CommittedOn(d)' = CommittedOn(d) \ gone
      <4>1. "REASSIGNED" \in RowStatus /\ "REASSIGNED" # "ASSIGNED"
        BY DEF RowStatus
      <4> QED
        BY <1>1, <3>1, <3>2, <3>3, <4>1, HeldPlaced
    <3>7. doors[to].status # "UNAVAILABLE" /\ to # from
      BY <1>2, <3>1 DEF Still
    <3>8. \A d \in Docks : doors'[d] = IF d = to THEN Reserved(d, c)
                                       ELSE IF d = from THEN ClearedIfUnheld(d, c.row, doors[d])
                                       ELSE doors[d]
      BY <1>0, <2>1, <3>0 DEF ReassignCommit
    <3>9. ASSUME NEW d \in Docks
          PROVE  /\ doors'[d].status = "AVAILABLE" => CommittedOn(d)' = {}
                 /\ doors'[d].status = "RESERVED" => CommittedOn(d)' # {}
                 /\ doors'[d].status = "UNAVAILABLE" <=> doors'[d].reason # Nil
      <4>1. CASE d = to
        <5>1. CommittedOn(d)' # {} /\ doors'[d] = Reserved(d, c)
          BY <3>6, <3>8, <4>1
        <5>2. c.live # "AVAILABLE" => doors[d].status # "AVAILABLE"
          BY <3>1, <4>1 DEF Still
        <5> QED
          BY <1>1, <1>3, <3>7, <4>1, <5>1, <5>2, DoorStatuses
      <4>2. CASE d = from
        <5>1. doors'[d].status = doors[d].status /\ doors'[d].reason = doors[d].reason
          <6>1. doors'[d] = ClearedIfUnheld(d, c.row, doors[d])
            BY <3>7, <3>8, <4>2
          <6> QED
            BY <1>1, <6>1, DoorStatuses
        <5> QED
          BY <1>2, <1>3, <4>2, <5>1
      <4>3. CASE d # to /\ d # from
        BY <3>0, <1>3, <1>4, <3>6, <3>8, <4>3
      <4> QED
        BY <4>1, <4>2, <4>3
    <3>11. doors'[from].status = doors[from].status
      <4>1. doors'[from] = ClearedIfUnheld(from, c.row, doors[from]) /\ from \in Docks
        BY <1>2, <3>7, <3>8
      <4> QED
        BY <1>1, <4>1, DoorStatuses
    <3>10. doors'[c.dock].status = "UNAVAILABLE"
      BY <1>1, <1>2, <3>11
    <3> QED
      BY <3>5, <3>9, <3>10, TellsNext
  <2>2. CASE ReassignNoDock(r)
    <3>1. rows' = WithStatus({c.row}, "CANCELLED")
      BY <1>0, <2>2 DEF ReassignNoDock
    <3>2. Evolves
      BY <1>1, <3>1, Retired DEF TypeOK, RowStatus
    <3>3. \A d : CommittedOn(d)' = CommittedOn(d) \ {c.row}
      BY <1>1, <3>1, HeldRetired DEF RowStatus
    <3>4. \A d \in Docks : doors'[d] = IF d = from THEN ClearedIfUnheld(d, c.row, doors[d])
                                       ELSE doors[d]
      BY <1>0, <1>1, <1>2, <2>2 DEF ReassignNoDock, TypeOK
    <3>5. ASSUME NEW d \in Docks
          PROVE  /\ doors'[d].status = "AVAILABLE" => CommittedOn(d)' = {}
                 /\ doors'[d].status = "RESERVED" => CommittedOn(d)' # {}
                 /\ doors'[d].status = "UNAVAILABLE" <=> doors'[d].reason # Nil
      <4>1. CASE d = from
        <5>1. doors'[d].status = doors[d].status /\ doors'[d].reason = doors[d].reason
          <6>1. doors'[d] = ClearedIfUnheld(d, c.row, doors[d])
            BY <3>4, <4>1
          <6> QED
            BY <1>1, <6>1, DoorStatuses
        <5> QED
          BY <1>2, <1>3, <4>1, <5>1
      <4>2. CASE d # from
        BY <1>3, <1>4, <3>3, <3>4, <4>2
      <4> QED
        BY <4>1, <4>2
    <3>6. doors'[c.dock].status = "UNAVAILABLE"
      <4>1. doors'[from].status = doors[from].status
        <5>1. doors'[from] = ClearedIfUnheld(from, c.row, doors[from]) /\ from \in Docks
          BY <1>2, <3>4
        <5> QED
          BY <1>1, <5>1, DoorStatuses
      <4> QED
        BY <1>2, <4>1
    <3> QED
      BY <3>2, <3>5, <3>6, TellsNext
  <2> QED
    BY <2>1, <2>2
<1>6. PICK p, b : /\ Goto(r, p) /\ Learn(r, b) /\ AskedFor(p, b)
                  /\ \/ p = "idle" /\ b = NoCall
                     \/ /\ p = "cascade" /\ b.op = "takeDown" /\ b.dock = c.dock
                        /\ b.held \subseteq c.held
  BY <1>0, <1>1, NextRowFacts DEF ReassignCommit, ReassignNoDock
<1>7. KnowsDoors(p, b)'
  <2>1. \A a \in c.held : rows'[a.id].dock = c.dock
    BY <1>2, <1>5 DEF Evolves
  <2>2. CASE p = "idle" /\ b = NoCall
    BY <2>2, KnowsIdle
  <2>3. CASE /\ p = "cascade" /\ b.op = "takeDown" /\ b.dock = c.dock
             /\ b.held \subseteq c.held
    BY <1>5, <2>1, <2>3 DEF KnowsDoors, Cascading
  <2> QED
    BY <1>6, <2>2, <2>3
<1> QED
  BY <1>0, <1>1, <1>5, <1>6, <1>7, KnowsWrite

(* A trailer has come to a door that was in service when it was read. *)
LEMMA StatusCome ==
  ASSUME IInv, StatusInv, OneByOne, NEW r \in Reqs, DockedWrite(r) \/ OccupiedWrite(r)
  PROVE  StatusInv'
<1>0. PICK e : e = call[r].dock
  OBVIOUS
<1>1. TypeOK /\ CallOK(r) /\ KnowsDoors(pc[r], call[r])
  BY DEF IInv, TypeInv, StatusInv
<1>2. /\ call[r].op \in {"docked", "occupied"} /\ e \in Docks /\ UNCHANGED rows
      /\ doors[e].status # "UNAVAILABLE" /\ Return(r)
      /\ doors' = [doors EXCEPT ![e] = Occupied(e)]
  BY <1>0, <1>1 DEF DockedWrite, OccupiedWrite, Running, CallOK, KnowsDoors
<1>3. \A d \in Docks : doors'[d] = IF d = e THEN Occupied(e) ELSE doors[d]
  BY <1>1, <1>2 DEF TypeOK
<1>7. doors'[e].status = "OCCUPIED" /\ doors'[e].reason = doors[e].reason
  BY <1>1, <1>2, <1>3, DoorStatuses
<1>4. NoOutage /\ Gentle
  BY <1>2, <1>3, <1>7 DEF NoOutage, Gentle, Still
<1>5. \A d : CommittedOn(d)' = CommittedOn(d)
  BY <1>2 DEF CommittedOn, Committed, Ids
<1>6. StatusTellsBookings'
  <2>1. \A d \in Docks : /\ doors[d].status = "AVAILABLE" => CommittedOn(d) = {}
                         /\ doors[d].status = "RESERVED" => CommittedOn(d) # {}
                         /\ doors[d].status = "UNAVAILABLE" <=> doors[d].reason # Nil
    BY TellsFacts DEF StatusInv
  <2> QED
    BY <1>2, <1>3, <1>5, <1>7, <2>1, TellsNext
<1> QED
  BY <1>2, <1>4, <1>6, KnowsWrite, KnowsIdle DEF Return

(* The invariant of the statuses holds of the seed. *)
LEMMA InitStatus == Init => StatusInv
<1> SUFFICES ASSUME Init PROVE StatusInv
  OBVIOUS
<1>1. \A r \in Reqs : pc[r] = "idle" /\ call[r] = NoCall
  BY DEF Init
<1>2. StatusTellsBookings
  BY SeedStatusAssumption DEF Init, StatusTellsBookings
<1> QED
  BY <1>1, <1>2, KnowsIdle DEF StatusInv

(* Every step keeps it, if handlers work one by one. *)
LEMMA StatusStep ==
  ASSUME IInv, StatusInv, OneByOne, [Next]_vars
  PROVE  StatusInv'
<1>1. ASSUME UNCHANGED <<doors, rows, pc, call>> PROVE StatusInv'
  BY <1>1 DEF StatusInv, StatusTellsBookings, KnowsDoors, Cascading, AskedFor,
              AffectedOn, CommittedOn, Committed, Ids
<1>2. ASSUME NEW t \in Trucks, TruckLeaves(t) PROVE StatusInv'
  BY <1>1, <1>2 DEF TruckLeaves
<1>3. CASE UNCHANGED vars
  BY <1>1, <1>3 DEF vars
<1>4. CASE Crash
  <2>1. \A r \in Reqs : pc'[r] = "idle" /\ call'[r] = NoCall
    BY <1>4 DEF Crash
  <2>2. ASSUME NEW r \in Reqs
        PROVE  (KnowsDoors(pc[r], call[r]) /\ AskedFor(pc[r], call[r]))'
    BY <2>1 DEF KnowsDoors, Cascading, AskedFor, NoCall
  <2>3. StatusTellsBookings'
    BY <1>4 DEF Crash, StatusInv, StatusTellsBookings
  <2> QED
    BY <2>2, <2>3 DEF StatusInv
<1>5. ASSUME NEW r \in Reqs, Proceed(r) PROVE StatusInv'
  BY <1>5, StatusReads, StatusAssign, StatusRelease, StatusSet, StatusMoved, StatusCome
     DEF Proceed
<1> QED
  BY <1>2, <1>3, <1>4, <1>5, StatusArrive DEF Next

(* Only the dock status command puts a door out of service or back.        *)
LEMMA InService ==
  ASSUME IInv, StatusInv, NEW r \in Reqs, Proceed(r), ~TakeDownWrite(r), ~PutBackWrite(r)
  PROVE  \A d \in Docks : doors'[d].status = "UNAVAILABLE" <=> doors[d].status = "UNAVAILABLE"
<1>1. TypeOK /\ CallOK(r) /\ SnapshotOK(r) /\ KnowsDoors(pc[r], call[r])
  BY DEF IInv, TypeInv, BookingInv, StatusInv
<1>2. PICK c : c = call[r]
  OBVIOUS
<1>3. CASE AssignCommit(r)
  <2>1. PICK old : old = rows[c.row].dock
    OBVIOUS
  <2>2. Still(c.live, doors[c.dock].status) /\ c.live # "UNAVAILABLE"
    BY <1>1, <1>2, <1>3 DEF AssignCommit, Running, KnowsDoors
  <2>3. FreesPrevious(r) => doors[old].status # "UNAVAILABLE"
    BY <1>1, <1>2, <1>3, <2>1 DEF AssignCommit, Running, KnowsDoors, FreesPrevious, Still
  <2>4. \A d \in Docks : \/ doors'[d] = HandedBack(d) /\ doors[d].status # "UNAVAILABLE"
                         \/ doors'[d] = Reserved(d, c) /\ d = c.dock
                         \/ doors'[d] = doors[d]
    BY <1>2, <1>3, <2>1, <2>3 DEF AssignCommit
  <2> QED
    BY <1>1, <2>2, <2>4, DoorStatuses DEF Still
<1>4. CASE ReleaseCommit(r)
  <2>1. Still(c.live, doors[c.dock].status) /\ c.dock \in Docks
    BY <1>1, <1>2, <1>4 DEF ReleaseCommit, Running, KnowsDoors, CallOK
  <2>2. \A d \in Docks : \/ doors'[d] = HandedBack(d) /\ doors[d].status # "UNAVAILABLE"
                         \/ doors'[d] = doors[d]
    BY <1>1, <1>2, <1>4, <2>1 DEF ReleaseCommit, Still, TypeOK
  <2> QED
    BY <1>1, <2>2, DoorStatuses
<1>5. CASE ReassignCommit(r)
  <2>1. Still(c.live, doors[c.pick].status) /\ c.live # "UNAVAILABLE"
    BY <1>1, <1>2, <1>5 DEF ReassignCommit, Running, KnowsDoors
  <2>2. \A d \in Docks : \/ doors'[d] = Reserved(d, c) /\ d = c.pick
                         \/ doors'[d] = ClearedIfUnheld(d, c.row, doors[d])
                         \/ doors'[d] = doors[d]
    BY <1>2, <1>5 DEF ReassignCommit
  <2>3. \A d \in Docks : ClearedIfUnheld(d, c.row, doors[d]).status = doors[d].status
    BY <1>1, DoorStatuses
  <2>4. \A d \in Docks : Reserved(d, c).status = IF c.live = "AVAILABLE" THEN "RESERVED"
                                                 ELSE doors[d].status
    BY <1>1, DoorStatuses
  <2> QED
    BY <2>1, <2>2, <2>3, <2>4 DEF Still
<1>6. CASE ReassignNoDock(r)
  <2>1. PICK from : from = rows[c.row].dock
    OBVIOUS
  <2>2. \A d \in Docks : \/ doors'[d] = ClearedIfUnheld(d, c.row, doors[d])
                         \/ doors'[d] = doors[d]
    BY <1>1, <1>2, <1>6, <2>1 DEF ReassignNoDock, TypeOK
  <2>3. \A d \in Docks : ClearedIfUnheld(d, c.row, doors[d]).status = doors[d].status
    BY <1>1, DoorStatuses
  <2> QED
    BY <2>2, <2>3
<1>7. CASE DockedWrite(r) \/ OccupiedWrite(r)
  <2>1. c.dock \in Docks /\ doors[c.dock].status # "UNAVAILABLE"
    BY <1>1, <1>2, <1>7 DEF DockedWrite, OccupiedWrite, Running, CallOK, KnowsDoors
  <2>2. \A d \in Docks : \/ doors'[d] = Occupied(d) /\ d = c.dock
                         \/ doors'[d] = doors[d]
    BY <1>1, <1>2, <1>7, <2>1 DEF DockedWrite, OccupiedWrite, TypeOK
  <2> QED
    BY <1>1, <2>1, <2>2, DoorStatuses
<1>8. CASE UNCHANGED doors
  BY <1>8
<1> QED
  BY <1>3, <1>4, <1>5, <1>6, <1>7, <1>8
     DEF Proceed, AssignRefused, AssignScored, AssignFree, AssignRecheck, AssignConflict,
         ReleaseFound, ReleaseReadLive, TransactionFails, RequestReassign, ReassignScored,
         ReassignSkip, ReassignPick, ReassignThrows

(* What OutOfServiceStays says of one step. *)
OutOfServiceStep ==
  \A d \in Docks :
    doors[d].status = "UNAVAILABLE" /\ doors'[d].status # "UNAVAILABLE"
      => \E r \in Reqs : Running(r, "read", "putBack") /\ call[r].dock = d

(* A door comes back into service by a put-back of that door. *)
LEMMA OutOfServiceKept ==
  ASSUME IInv, StatusInv, [Next]_vars
  PROVE  OutOfServiceStep \/ UNCHANGED doors
<1>1. ASSUME NEW r \in Reqs, Arrive(r) PROVE UNCHANGED doors
  BY <1>1 DEF Arrive, RequestAssign, DockedRead, RequestRelease, PutBackRead, OccupiedRead,
              TakeDownRead
<1>2. ASSUME NEW r \in Reqs, Proceed(r) PROVE OutOfServiceStep
  <2>1. TypeOK /\ CallOK(r)
    BY DEF IInv, TypeInv
  <2>2. CASE TakeDownWrite(r)
    <3>1. \A d \in Docks : doors'[d] = doors[d] \/ doors'[d].status = "UNAVAILABLE"
      BY <2>1, <2>2 DEF TakeDownWrite, TypeOK, Door
    <3> QED
      BY <3>1 DEF OutOfServiceStep
  <2>3. CASE PutBackWrite(r)
    <3>1. Running(r, "read", "putBack") /\ \A d \in Docks : d # call[r].dock => doors'[d] = doors[d]
      BY <2>1, <2>3 DEF PutBackWrite, TypeOK
    <3> QED
      BY <3>1 DEF OutOfServiceStep
  <2> QED
    BY <1>2, <2>2, <2>3, InService DEF OutOfServiceStep
<1> QED
  BY <1>1, <1>2 DEF Next, TruckLeaves, Crash, vars

-----------------------------------------------------------------------------
(* Rows on doors that are down *)

(* A step by which no more rows are left on doors that are down strands    *)
(* none, if its handler still has before it, or has answered for, the rows *)
(* it had before it.                                                       *)
LEMMA StrandKept ==
  ASSUME Sole, StrandInv, NEW r \in Reqs, NEW p, NEW c, pc'[r] = p, call'[r] = c,
         reported \subseteq reported',
         \A d \in Docks : doors'[d].status = "UNAVAILABLE" =>
           /\ doors[d].status = "UNAVAILABLE"
           /\ CommittedOn(d)' \subseteq CommittedOn(d)
           /\ \A i \in CommittedOn(d)' :
                WillMove(pc[r], call[r], i) => i \in reported' \/ WillMove(p, c, i)
  PROVE  StrandInv'
<1> SUFFICES ASSUME NEW d \in Docks, doors'[d].status = "UNAVAILABLE", NEW i \in CommittedOn(d)'
             PROVE  i \in reported' \/ \E q \in Reqs : WillMove(pc'[q], call'[q], i)
  BY DEF StrandInv, WillMove, Cascading
<1>1. i \in reported \/ \E q \in Reqs : WillMove(pc[q], call[q], i)
  BY DEF StrandInv
<1> QED
  BY <1>1 DEF Sole

(* The same of a step that touches neither doors nor rows. *)
LEMMA StrandRead ==
  ASSUME TypeOK, Sole, StrandInv, NEW r \in Reqs, NEW p, NEW c, Goto(r, p), Learn(r, c),
         UNCHANGED <<doors, rows, reported>>,
         Cascading(pc[r], call[r]) => Cascading(p, c) /\ c.held = call[r].held
  PROVE  StrandInv'
<1>1. pc'[r] = p /\ call'[r] = c
  BY OnlyFacts
<1>2. \A d : CommittedOn(d)' = CommittedOn(d)
  BY DEF CommittedOn, Committed, Ids
<1>3. \A i : WillMove(pc[r], call[r], i) => WillMove(p, c, i)
  BY DEF WillMove
<1> QED
  BY <1>1, <1>2, <1>3, StrandKept

(* What the cascade has before it once it is done with a row. *)
LEMMA StrandNext ==
  ASSUME IInv, StatusInv, NEW r \in Reqs, call[r].op = "takeDown", NextRow(r)
  PROVE  \E p, c : /\ pc'[r] = p /\ call'[r] = c
                   /\ \A i : WillMove(pc[r], call[r], i) => i = call[r].row \/ WillMove(p, c, i)
<1>1. TypeOK /\ "takeDown" \in Commands
  BY DEF IInv, TypeInv, StatusInv, AskedFor
<1>2. PICK p, c : /\ Goto(r, p) /\ Learn(r, c)
                  /\ \/ p = "idle" /\ c = NoCall /\ {a \in call[r].held : a.id # call[r].row} = {}
                     \/ /\ p = "cascade" /\ c.op = "takeDown"
                        /\ c.held = {a \in call[r].held : a.id # call[r].row}
  BY <1>1, NextRowFacts
<1>3. pc'[r] = p /\ call'[r] = c
  BY <1>1, <1>2, OnlyFacts
<1>4. ASSUME NEW i, WillMove(pc[r], call[r], i), i # call[r].row
      PROVE  WillMove(p, c, i)
  BY <1>2, <1>4 DEF WillMove, Cascading
<1> QED
  BY <1>3, <1>4

(* A command that arrives strands no truck. *)
LEMMA StrandArrive ==
  ASSUME TypeOK, Sole, StrandInv, NEW r \in Reqs, Arrive(r)
  PROVE  StrandInv'
<1> USE DEF Idle, Cascading
<1>1. ASSUME NEW t \in Trucks, NEW d \in Docks, RequestAssign(r, t, d) PROVE StrandInv'
  BY <1>1, StrandRead DEF RequestAssign
<1>2. ASSUME NEW t \in Trucks, NEW d \in Docks, DockedRead(r, t, d) PROVE StrandInv'
  BY <1>2, StrandRead DEF DockedRead
<1>3. ASSUME NEW d \in Docks, RequestRelease(r, d) PROVE StrandInv'
  BY <1>3, StrandRead DEF RequestRelease
<1>4. ASSUME NEW d \in Docks, PutBackRead(r, d) PROVE StrandInv'
  BY <1>4, StrandRead DEF PutBackRead
<1>5. ASSUME NEW d \in Docks, OccupiedRead(r, d) PROVE StrandInv'
  BY <1>5, StrandRead DEF OccupiedRead
<1>6. ASSUME NEW d \in Docks, NEW why \in Reasons, TakeDownRead(r, d, why) PROVE StrandInv'
  BY <1>6, StrandRead DEF TakeDownRead
<1> QED
  BY <1>1, <1>2, <1>3, <1>4, <1>5, <1>6 DEF Arrive

(* A handler that reads, or that gives up, strands no truck. *)
LEMMA StrandReads ==
  ASSUME IInv, StatusInv, Sole, StrandInv, NEW r \in Reqs
  PROVE  /\ AssignRefused(r) \/ AssignConflict(r) \/ TransactionFails(r) => StrandInv'
         /\ AssignScored(r) \/ AssignFree(r) \/ AssignRecheck(r) => StrandInv'
         /\ ReleaseFound(r) \/ ReleaseReadLive(r) => StrandInv'
         /\ RequestReassign(r) \/ ReassignScored(r) => StrandInv'
         /\ \A d \in Docks : ReassignSkip(r, d) \/ ReassignPick(r, d) => StrandInv'
         /\ ReassignThrows(r) => StrandInv'
<1>1. TypeOK /\ call[r] \in Call /\ SnapshotOK(r)
  BY DEF IInv, TypeInv, TypeOK, BookingInv
<1>2. CASE AssignRefused(r) \/ AssignConflict(r) \/ TransactionFails(r)
  <2>1. ~Cascading(pc[r], call[r])
    BY <1>1, <1>2
       DEF AssignRefused, AssignConflict, TransactionFails, Turn, Running, SnapshotOK, Cascading
  <2> QED
    BY <1>1, <1>2, <2>1, StrandRead DEF AssignRefused, AssignConflict, TransactionFails, Return
<1>3. ASSUME NEW p, NEW c, Goto(r, p), Learn(r, c), UNCHANGED <<doors, rows, reported>>,
             call[r].op # "takeDown"
      PROVE  StrandInv'
  BY <1>1, <1>3, StrandRead DEF Cascading
<1>4. CASE AssignScored(r)
  BY <1>3, <1>4 DEF AssignScored, Turn, Running
<1>5. CASE AssignFree(r)
  <2>1. Learn(r, call[r])
    BY <1>1, <1>5 DEF AssignFree, Learn, TypeOK
  <2> QED
    BY <1>3, <1>5, <2>1 DEF AssignFree, Running
<1>6. CASE AssignRecheck(r)
  BY <1>3, <1>6 DEF AssignRecheck, Running
<1>7. CASE ReleaseFound(r) \/ ReleaseReadLive(r)
  BY <1>3, <1>7 DEF ReleaseFound, ReleaseReadLive, Turn, Running
<1>8. ASSUME NEW p \in {"queued", "walking", "moving"}, NEW c, Goto(r, p), Learn(r, c),
             UNCHANGED <<doors, rows, reported>>, c.op = "takeDown", c.held = call[r].held
      PROVE  StrandInv'
  BY <1>1, <1>8, StrandRead DEF Cascading
<1>9. CASE RequestReassign(r)
  <2>1. PICK a \in call[r].held : Learn(r, [call[r] EXCEPT !.row = a.id, !.truck = a.truck])
    BY <1>9 DEF RequestReassign
  <2> DEFINE c == [call[r] EXCEPT !.row = a.id, !.truck = a.truck]
  <2>2. Learn(r, c) /\ c.op = "takeDown" /\ c.held = call[r].held
    BY <1>1, <1>9, <2>1 DEF RequestReassign, Running, Call
  <2> HIDE DEF c
  <2> QED
    BY <1>8, <1>9, <2>2 DEF RequestReassign
<1>10. CASE ReassignScored(r)
  <2>1. PICK s : Learn(r, [call[r] EXCEPT !.slot = s, !.cands = Options(call[r].truck, s)])
    BY <1>10 DEF ReassignScored
  <2> DEFINE c == [call[r] EXCEPT !.slot = s, !.cands = Options(call[r].truck, s)]
  <2>2. Learn(r, c) /\ c.op = "takeDown" /\ c.held = call[r].held
    BY <1>1, <1>10, <2>1 DEF ReassignScored, Turn, Running, Call
  <2> HIDE DEF c
  <2> QED
    BY <1>8, <1>10, <2>2 DEF ReassignScored
<1>11. ASSUME NEW d \in Docks, ReassignSkip(r, d) PROVE StrandInv'
  <2> DEFINE c == [call[r] EXCEPT !.cands = @ \ {d}]
  <2>1. Learn(r, c) /\ c.op = "takeDown" /\ c.held = call[r].held
    BY <1>1, <1>11 DEF ReassignSkip, Running, Call
  <2> HIDE DEF c
  <2>2. Goto(r, "walking")
    BY <1>1, <1>11 DEF ReassignSkip, Running, Goto, TypeOK
  <2> QED
    BY <1>8, <1>11, <2>1, <2>2 DEF ReassignSkip
<1>12. ASSUME NEW d \in Docks, ReassignPick(r, d) PROVE StrandInv'
  <2> DEFINE c == [call[r] EXCEPT !.pick = d, !.live = doors[d].status]
  <2>1. Learn(r, c) /\ c.op = "takeDown" /\ c.held = call[r].held
    BY <1>1, <1>12 DEF ReassignPick, Running, Call
  <2> HIDE DEF c
  <2> QED
    BY <1>8, <1>12, <2>1 DEF ReassignPick
<1>13. CASE ReassignThrows(r)
  <2>1. call[r].op = "takeDown" /\ NextRow(r) /\ reported' = reported \cup {call[r].row}
    BY <1>13 DEF ReassignThrows, Running
  <2>2. PICK p, c : /\ pc'[r] = p /\ call'[r] = c
                    /\ \A i : WillMove(pc[r], call[r], i) => i = call[r].row \/ WillMove(p, c, i)
    BY <2>1, StrandNext
  <2>3. \A d : CommittedOn(d)' = CommittedOn(d)
    BY <1>13 DEF ReassignThrows, CommittedOn, Committed, Ids
  <2> QED
    BY <1>13, <2>1, <2>2, <2>3, StrandKept DEF ReassignThrows
<1> QED
  BY <1>2, <1>4, <1>5, <1>6, <1>7, <1>9, <1>10, <1>11, <1>12, <1>13

(* A handler that writes strands no truck: what it books is in service, and *)
(* what it takes down it has the rows of before it.                        *)
LEMMA StrandWrites ==
  ASSUME IInv, StatusInv, Sole, StrandInv, NEW r \in Reqs
  PROVE  /\ AssignCommit(r) => StrandInv'
         /\ ReleaseCommit(r) => StrandInv'
         /\ TakeDownWrite(r) => StrandInv'
         /\ PutBackWrite(r) => StrandInv'
         /\ ReassignCommit(r) => StrandInv'
         /\ ReassignNoDock(r) => StrandInv'
         /\ DockedWrite(r) \/ OccupiedWrite(r) => StrandInv'
<1>1. /\ TypeOK /\ CallOK(r) /\ call[r] \in Call /\ SnapshotOK(r)
      /\ KnowsDoors(pc[r], call[r])
  BY DEF IInv, TypeInv, TypeOK, BookingInv, StatusInv
<1>2. PICK c : c = call[r]
  OBVIOUS
<1>3. ASSUME Proceed(r), c.op # "takeDown", NEW q, NEW b, pc'[r] = q, call'[r] = b, NoOutage,
             UNCHANGED reported,
             \A d \in Docks : doors'[d].status = "UNAVAILABLE" => CommittedOn(d)' \subseteq CommittedOn(d)
      PROVE  StrandInv'
  <2>1. \A i : ~WillMove(pc[r], call[r], i)
    BY <1>2, <1>3 DEF WillMove, Cascading
  <2> QED
    BY <1>3, <2>1, StrandKept DEF NoOutage
<1>4. UNCHANGED rows => \A d : CommittedOn(d)' = CommittedOn(d)
  BY DEF CommittedOn, Committed, Ids
<1>5. CASE AssignCommit(r)
  <2>0. PICK to, gone : to = c.dock /\ gone = {c.row}
    OBVIOUS
  <2>1. /\ pc[r] = "checked" /\ c.op = "assign" /\ to \in Docks /\ c.truck \in Trucks
        /\ c.slot \in Slots /\ Still(c.live, doors[to].status) /\ c.live # "UNAVAILABLE"
    BY <1>1, <1>2, <1>5, <2>0 DEF AssignCommit, Running, CallOK, KnowsDoors
  <2>2. rows' = Append(WithStatus(gone, "CANCELLED"), NewRow(c.truck, to, c.slot, NoRow))
    BY <1>2, <1>5, <2>0 DEF AssignCommit
  <2>3. NoRow \in Nat /\ "CANCELLED" \in RowStatus /\ "CANCELLED" # "ASSIGNED"
    BY DEF NoRow, RowStatus
  <2>4. \A d : d # to => CommittedOn(d)' = CommittedOn(d) \ gone
    BY <1>1, <2>1, <2>2, <2>3, HeldPlaced
  <2>5. \A d \in Docks : doors'[d].status = "UNAVAILABLE" <=> doors[d].status = "UNAVAILABLE"
    BY <1>5, InService DEF Proceed, AssignCommit, TakeDownWrite, PutBackWrite, Running
  <2>6. doors[to].status # "UNAVAILABLE"
    BY <2>1 DEF Still
  <2> QED
    BY <1>3, <1>5, <2>1, <2>4, <2>5, <2>6 DEF NoOutage, Proceed, AssignCommit
<1>6. CASE ReleaseCommit(r)
  <2>1. PICK ids : ids = {a.id : a \in c.held}
    OBVIOUS
  <2>2. rows' = WithStatus(ids, "COMPLETED") /\ "COMPLETED" \in RowStatus
    BY <1>2, <1>6, <2>1 DEF ReleaseCommit, RowStatus
  <2>3. \A d : CommittedOn(d)' = CommittedOn(d) \ ids
    BY <1>1, <2>2, HeldRetired
  <2>4. \A d \in Docks : doors'[d].status = "UNAVAILABLE" <=> doors[d].status = "UNAVAILABLE"
    BY <1>6, InService DEF Proceed, ReleaseCommit, TakeDownWrite, PutBackWrite, Running
  <2>5. c.op = "release" /\ UNCHANGED reported
    BY <1>2, <1>6 DEF ReleaseCommit, Running
  <2> QED
    BY <1>3, <1>6, <2>3, <2>4, <2>5 DEF NoOutage, Proceed
<1>7. CASE TakeDownWrite(r)
  <2>0. PICK e : e = c.dock
    OBVIOUS
  <2>1. /\ c.op = "takeDown" /\ pc[r] = "read" /\ e \in Docks /\ UNCHANGED rows
        /\ c.held = AffectedOn(e) /\ reported' = reported \ {a.id : a \in c.held}
    BY <1>1, <1>2, <1>7, <2>0 DEF TakeDownWrite, Running, CallOK, KnowsDoors
  <2>2. \A d \in Docks : d # e => doors'[d] = doors[d]
    BY <1>1, <1>2, <1>7, <2>0, <2>1 DEF TakeDownWrite, TypeOK
  <2>3. {a.id : a \in c.held} = CommittedOn(e)
    BY <1>1, <2>1, RowFacts DEF TypeOK
  <2>4. ASSUME NEW d \in Docks, doors'[d].status = "UNAVAILABLE", NEW i \in CommittedOn(d)'
        PROVE  i \in reported' \/ \E q \in Reqs : WillMove(pc'[q], call'[q], i)
    <3>1. i \in CommittedOn(d)
      BY <1>4, <2>1, <2>4
    <3>2. CASE d = e
      <4>1. \E a \in c.held : a.id = i
        BY <2>3, <3>1, <3>2
      <4>2. Goto(r, "cascade") /\ UNCHANGED call
        BY <1>2, <1>7, <4>1 DEF TakeDownWrite
      <4>3. pc'[r] = "cascade" /\ call'[r] = c
        BY <1>1, <1>2, <4>2, OnlyFacts
      <4> QED
        BY <2>1, <4>1, <4>3 DEF WillMove, Cascading
    <3>3. CASE d # e
      <4>1. \A q \in Reqs : ~WillMove(pc[q], call[q], i)
        BY <2>1 DEF Sole, WillMove, Cascading
      <4>2. i \in reported
        BY <2>2, <2>4, <3>1, <3>3, <4>1 DEF StrandInv
      <4>3. i \notin CommittedOn(e)
        BY <3>1, <3>3 DEF CommittedOn
      <4> QED
        BY <2>1, <2>3, <4>2, <4>3
    <3> QED
      BY <3>2, <3>3
  <2> QED
    BY <2>4 DEF StrandInv, WillMove, Cascading
<1>8. CASE PutBackWrite(r)
  <2>1. \A d \in Docks : doors'[d] = doors[d] \/ doors'[d].status # "UNAVAILABLE"
    <3>1. c.dock \in Docks /\ \A d \in Docks : d # c.dock => doors'[d] = doors[d]
      BY <1>1, <1>2, <1>8 DEF PutBackWrite, Running, CallOK, TypeOK
    <3>2. PICK u : \/ doors'[c.dock] = [status |-> "AVAILABLE", reason |-> Nil, availableFrom |-> u]
                   \/ doors'[c.dock] = [status |-> "RESERVED", reason |-> Nil, availableFrom |-> u]
      BY <1>1, <1>2, <1>8, <3>1 DEF PutBackWrite, TypeOK
    <3> QED
      BY <3>1, <3>2
  <2> QED
    BY <1>2, <1>3, <1>4, <1>8, <2>1 DEF NoOutage, Proceed, PutBackWrite, Running
<1>9. CASE ReassignCommit(r)
  <2>0. PICK to, gone : to = c.pick /\ gone = {c.row}
    OBVIOUS
  <2>1. /\ pc[r] = "moving" /\ c.op = "takeDown" /\ to \in Docks /\ c.slot \in Slots
        /\ c.row \in Ids /\ rows[c.row].truck = c.truck
        /\ Still(c.live, doors[to].status) /\ c.live # "UNAVAILABLE"
    BY <1>1, <1>2, <1>9, <2>0 DEF ReassignCommit, Running, CallOK, KnowsDoors
  <2>2. c.truck \in Trucks /\ c.row \in Nat
    BY <1>1, <2>1, RowFacts DEF TypeOK, Row
  <2>3. rows' = Append(WithStatus(gone, "REASSIGNED"), NewRow(c.truck, to, c.slot, c.row))
    BY <1>2, <1>9, <2>0 DEF ReassignCommit
  <2>4. "REASSIGNED" \in RowStatus /\ "REASSIGNED" # "ASSIGNED"
    BY DEF RowStatus
  <2>5. \A d : d # to => CommittedOn(d)' = CommittedOn(d) \ gone
    BY <1>1, <2>1, <2>2, <2>3, <2>4, HeldPlaced
  <2>6. \A d \in Docks : doors'[d].status = "UNAVAILABLE" <=> doors[d].status = "UNAVAILABLE"
    BY <1>9, InService DEF Proceed, ReassignCommit, TakeDownWrite, PutBackWrite, Running
  <2>7. doors[to].status # "UNAVAILABLE"
    BY <2>1 DEF Still
  <2>8. PICK q, b : /\ pc'[r] = q /\ call'[r] = b
                    /\ \A i : WillMove(pc[r], call[r], i) => i = c.row \/ WillMove(q, b, i)
    BY <1>2, <1>9, <2>1, StrandNext DEF ReassignCommit
  <2>9. UNCHANGED reported
    BY <1>9 DEF ReassignCommit
  <2> QED
    BY <2>0, <2>5, <2>6, <2>7, <2>8, <2>9, StrandKept
<1>10. CASE ReassignNoDock(r)
  <2>0. PICK gone : gone = {c.row}
    OBVIOUS
  <2>1. rows' = WithStatus(gone, "CANCELLED") /\ "CANCELLED" \in RowStatus
    BY <1>2, <1>10, <2>0 DEF ReassignNoDock, RowStatus
  <2>2. \A d : CommittedOn(d)' = CommittedOn(d) \ gone
    BY <1>1, <2>1, HeldRetired
  <2>3. \A d \in Docks : doors'[d].status = "UNAVAILABLE" <=> doors[d].status = "UNAVAILABLE"
    BY <1>10, InService DEF Proceed, ReassignNoDock, TakeDownWrite, PutBackWrite, Running
  <2>4. PICK q, b : /\ pc'[r] = q /\ call'[r] = b
                    /\ \A i : WillMove(pc[r], call[r], i) => i = c.row \/ WillMove(q, b, i)
    BY <1>2, <1>10, StrandNext DEF ReassignNoDock, Running
  <2>5. UNCHANGED reported
    BY <1>10 DEF ReassignNoDock
  <2> QED
    BY <2>0, <2>2, <2>3, <2>4, <2>5, StrandKept
<1>11. CASE DockedWrite(r) \/ OccupiedWrite(r)
  <2>1. \A d \in Docks : doors'[d].status = "UNAVAILABLE" <=> doors[d].status = "UNAVAILABLE"
    BY <1>11, InService
       DEF Proceed, DockedWrite, OccupiedWrite, TakeDownWrite, PutBackWrite, Running
  <2>2. c.op # "takeDown" /\ UNCHANGED <<rows, reported>>
    BY <1>2, <1>11 DEF DockedWrite, OccupiedWrite, Running
  <2> QED
    BY <1>3, <1>4, <1>11, <2>1, <2>2 DEF NoOutage, Proceed
<1> QED
  BY <1>5, <1>6, <1>7, <1>8, <1>9, <1>10, <1>11

(* Every step strands no truck, if one command is handled at a time and the *)
(* process does not end.                                                   *)
LEMMA StrandStep ==
  ASSUME IInv, StatusInv, Sole, ~MayCrash, StrandInv, [Next]_vars
  PROVE  StrandInv'
<1>1. ASSUME UNCHANGED <<doors, rows, pc, call, reported>> PROVE StrandInv'
  BY <1>1 DEF StrandInv, WillMove, Cascading, CommittedOn, Committed, Ids
<1>2. ASSUME NEW t \in Trucks, TruckLeaves(t) PROVE StrandInv'
  BY <1>1, <1>2 DEF TruckLeaves
<1>3. CASE UNCHANGED vars
  BY <1>1, <1>3 DEF vars
<1>4. ASSUME NEW r \in Reqs, Proceed(r) PROVE StrandInv'
  BY <1>4, StrandReads, StrandWrites DEF Proceed
<1>5. TypeOK
  BY DEF IInv, TypeInv
<1> QED
  BY <1>2, <1>3, <1>4, <1>5, StrandArrive DEF Next, Crash

-----------------------------------------------------------------------------
(* Theorems about the statuses *)

(* A door's status and reason tell its bookings in every state, for any    *)
(* number of assignments, releases and trailers in flight together and     *)
(* wherever the process ends, as long as dock status commands come one by  *)
(* one with everything else (setDockStatus writes by a read it made before *)
(* and takes no turn of withYardLock).                                     *)
THEOREM StatusesTold == ASSUME OneByOne PROVE Spec => []StatusTellsBookings
<1>1. IInv /\ StatusInv /\ [Next]_vars => StatusInv'
  BY StatusStep
<1>2. StatusInv => StatusTellsBookings
  BY DEF StatusInv
<1> QED
  BY <1>1, <1>2, InitStatus, Invariant, PTL DEF Spec

(* "A door that is out of service stays out of service", until the put-back *)
(* command (dock-assignment-service.ts): no booking, release, move or       *)
(* trailer ends it, under the same condition.                              *)
THEOREM OutOfServiceHeld == ASSUME OneByOne PROVE Spec => OutOfServiceStays
<1>1. IInv /\ StatusInv /\ [Next]_vars => StatusInv'
  BY StatusStep
<1>2. IInv /\ StatusInv /\ [Next]_vars => OutOfServiceStep \/ UNCHANGED doors
  BY OutOfServiceKept
<1> QED
  BY <1>1, <1>2, InitStatus, Invariant, PTL DEF Spec, OutOfServiceStays, OutOfServiceStep

(* No truck is left on a door that is down without a cascade that moved it  *)
(* or reported it, if one command is handled at a time and the process does *)
(* not end on the way (dock-failure-service.ts).                           *)
THEOREM NobodyStranded ==
  ASSUME Sole, ~MayCrash PROVE Spec => []NoSilentStranding
<1>0. OneByOne
  BY DEF OneByOne
<1>1. IInv /\ StatusInv /\ [Next]_vars => StatusInv'
  BY <1>0, StatusStep
<1>2. IInv /\ StatusInv /\ StrandInv /\ [Next]_vars => StrandInv'
  BY StrandStep
<1>3. Init => StrandInv
  BY SeedStatusAssumption DEF Init, StrandInv, CommittedOn, Committed, Ids, Live
<1>4. IInv /\ StrandInv => NoSilentStranding
  <2> SUFFICES ASSUME IInv, StrandInv, Quiet, NEW i \in Ids, Committed(i),
                      doors[rows[i].dock].status = "UNAVAILABLE"
               PROVE  i \in reported
    BY DEF NoSilentStranding
  <2>1. rows[i].dock \in Docks /\ i \in CommittedOn(rows[i].dock)
    BY RowFacts DEF IInv, TypeInv, TypeOK, Row, CommittedOn
  <2>2. \A r \in Reqs : ~WillMove(pc[r], call[r], i)
    BY DEF Quiet, WillMove, Cascading
  <2> QED
    BY <2>1, <2>2 DEF StrandInv
<1> QED
  BY <1>1, <1>2, <1>3, <1>4, InitStatus, Invariant, PTL DEF Spec
=============================================================================
