----------------------------- MODULE FeedProofs -----------------------------
(***************************************************************************)
(* Theorems about the engine with the WMS feed, where nothing but the      *)
(* barrier keeps ticks, commands and facts apart, for any number of trucks *)
(* and handlers.                                                           *)
(***************************************************************************)
EXTENDS EngineProofs

(* No database call fails, and nobody rewinds the world: what the theorems *)
(* about lost and late writes are about.  A rewind deletes rows under a    *)
(* write, which fails.                                                     *)
Calm == ~MayFail /\ "reset" \notin Commands

(* Beside that the autostart has found trucks on the road, so that no load *)
(* comes after it: one that does can read a row before a fact is written   *)
(* to it and miss the fact.                                                *)
Steady == Calm /\ Booted /\ \E t \in Trucks : World[t].status \in Moving

-----------------------------------------------------------------------------
(* What a handler was told *)

(* What the WMS reports of a truck: it never turns a delay on, and ends it *)
(* with the journey.                                                       *)
Told(c) ==
  /\ c.update.delay \in {Nil, "NORMAL"}
  /\ c.update.status \in InYard => c.update.delay = "NORMAL"
  /\ c.op = "location" => c.update.status = Nil
  /\ c.op = "arrived" => c.update.status = "ARRIVED"
  /\ c.op = "docked" => c.update.status = "DOCKED"

(* What it was asked is a command that arrives, or the interval's tick. *)
AskedAt(step, c) ==
  /\ c.op \in Commands \cup {"none", "tick"}
  /\ step \in {"waiting", "parked", "direct"} /\ c.op \in Facts => Told(c)

AskedInv == \A p \in Procs : AskedAt(pc[p], call[p])

-----------------------------------------------------------------------------
(* No delay in the yard, unless the WMS docks a truck *)

Tidy(s) == s.status \in InYard => s.delay = "NORMAL"

(* What a handler has read or is about to write. *)
TidyAt(step, c) ==
  /\ \A t \in c.todo : Tidy(c.seen[t])
  /\ step \in {"writing", "written"} => Tidy(c.next)
  /\ \A t \in Trucks : c.rows[t] # Nil => Tidy(c.rows[t])

TidyInv == NoDelayInYard /\ \A p \in Procs : TidyAt(pc[p], call[p])

-----------------------------------------------------------------------------
(* Nothing is lost while it is calm *)

(* The barrier's holder has the trucks in memory, lv, to itself. *)
MindAt(step, c, lv) ==
  /\ step \in Holding => \A t \in c.todo : lv[t] = c.seen[t]
  /\ step \in {"writing", "written"} => lv[c.truck] = c.next
  /\ step = "loading" => lv = Nothing

MindInv == \A p \in Procs : MindAt(pc[p], call[p], live)

(* Who stands at step is writing the state of truck t ... *)
Writes(step, c, t) == step \in {"writing", "written"} /\ c.truck = t

(* ... or is a stop that will. *)
Owes(step, c, t) == \/ Writes(step, c, t)
                    \/ step = "draining"
                    \/ step \in Holding /\ c.op = "stop" /\ t \in c.todo

Dirty(t) == live[t] # Nil /\ live[t].dirty

(* A dirty state waits for a checkpoint, for a stop, or for its write. *)
DirtyInv == \A t \in Trucks : Dirty(t) => timer \/ \E p \in Procs : Owes(pc[p], call[p], t)

CalmInv == CoreInv /\ AskedInv /\ MindInv /\ DirtyInv

-----------------------------------------------------------------------------
(* Memory and the rows tell one story while it is steady *)

(* The trucks that were on the road at the start are the live ones, and a  *)
(* fact that is written past the engine is about none of them.             *)
PastAt(step, c) ==
  step \in {"direct", "announce"} => c.truck \in Trucks /\ live[c.truck] = Nil

FixedInv ==
  /\ \A t \in Trucks : live[t] # Nil <=> World[t].status \in Moving
  /\ \A p \in Procs : PastAt(pc[p], call[p])

(* Whoever stands at step will tell memory that truck t is in the yard, or *)
(* the row that it has left it.                                            *)
Tells(step, c, t) ==
  /\ c.truck = t
  /\ \/ c.op = "status" /\ step = "writing"
     \/ c.op = "docked" /\ step \in {"waiting", "parked"}

(* Memory and row disagree on a truck only while one is about to be told. *)
AgreeInv ==
  \A t \in Trucks : live[t] # Nil =>
    /\ live[t].status \in Moving /\ db[t].status \in InYard =>
         \E p \in Procs : Tells(pc[p], call[p], t)
    /\ live[t].status \in InYard /\ db[t].status \in Moving =>
         \E p \in Procs : pc[p] = "writing" /\ call[p].truck = t

(* A row is as far as the last snapshot, the truck less than a checkpoint  *)
(* further, unless its snapshot is being written.                          *)
PaceInv ==
  /\ \A t \in Trucks : live[t] # Nil =>
       /\ (\A p \in Procs : ~(pc[p] = "written" /\ call[p].truck = t))
            => live[t].saved <= db[t].progress
       /\ (\A p \in Procs : ~Writes(pc[p], call[p], t))
            => live[t].progress - live[t].saved < CheckpointStep
  /\ \A p \in Procs : pc[p] = "written" => call[p].next.progress <= db[call[p].truck].progress

SteadyInv == CalmInv /\ FixedInv /\ AgreeInv /\ PaceInv

-----------------------------------------------------------------------------
(* What a handler was told *)

LEMMA OneMoves ==
  ASSUME CoreInv, NEW p \in Procs, NEW step, NEW c, Moves(p, step, c)
  PROVE  /\ pc'[p] = step /\ call'[p] = c
         /\ \A q \in Procs : q # p => pc'[q] = pc[q] /\ call'[q] = call[q]
BY DEF Moves, Goto, Learn, CoreInv, TypeOK

LEMMA AskedKept ==
  ASSUME CoreInv, AskedInv, NEW p \in Procs, NEW step, NEW c, Moves(p, step, c),
         AskedAt(step, c)
  PROVE  AskedInv'
<1>1. \A q \in Procs : q # p => AskedAt(pc[q], call[q])
  BY DEF AskedInv
<1> QED
  BY <1>1, OneMoves DEF AskedInv

LEMMA AskedReturns ==
  ASSUME CoreInv, AskedInv, NEW p \in Procs, Return(p)
  PROVE  AskedInv'
<1>1. AskedAt("idle", NoCall)
  BY DEF AskedAt, NoCall
<1> QED
  BY <1>1, ReturnMoves, AskedKept

(* A handler that goes on knowing what it was asked. *)
LEMMA AskedGoesOn ==
  ASSUME CoreInv, AskedInv, NEW p \in Procs, NEW step, NEW c, Moves(p, step, c),
         c.op = call[p].op,
         step \notin {"waiting", "parked", "direct"} \/ call[p].op \notin Facts
  PROVE  AskedInv'
<1>1. AskedAt(step, c)
  BY DEF AskedInv, AskedAt
<1> QED
  BY <1>1, AskedKept

(* A handler that stays where it is, or goes on, learning nothing. *)
LEMMA AskedStays ==
  ASSUME CoreInv, AskedInv, NEW p \in Procs, NEW step, Goto(p, step), UNCHANGED call,
         step \notin {"waiting", "parked", "direct"} \/ pc[p] \in {"waiting", "parked"}
  PROVE  AskedInv'
<1>1. Moves(p, step, call[p])
  BY StayMoves DEF CoreInv
<1>2. AskedAt(step, call[p])
  BY DEF AskedInv, AskedAt
<1> QED
  BY <1>1, <1>2, AskedKept

LEMMA AskedTicks ==
  ASSUME CoreInv, AskedInv, Tick
  PROVE  AskedInv'
<1>0. Ticker \in Procs
  BY DEF Procs
<1>1. CASE TickBegins
  <2> DEFINE c == [NoCall EXCEPT !.op = "tick", !.seen = live,
                                 !.todo = {t \in routes : live[t] # Nil}]
  <2>1. Moves(Ticker, "ticking", c) /\ AskedAt("ticking", c)
    BY <1>1 DEF TickBegins, Moves, AskedAt, NoCall
  <2> QED
    BY <1>0, <2>1, AskedKept
<1>2. CASE TickEnds
  BY <1>0, <1>2, AskedReturns DEF TickEnds
<1>3. ASSUME NEW step \in {"ticking", "writing"}, NEW c, Learn(Ticker, c),
             Goto(Ticker, step), c.op = "tick", call[Ticker].op = "tick"
      PROVE  AskedInv'
  BY <1>0, <1>3, AskedGoesOn DEF Moves, Facts
<1>4. ASSUME pc[Ticker] = "ticking", UNCHANGED pc PROVE Goto(Ticker, "ticking")
  BY <1>4 DEF Goto, CoreInv, TypeOK
<1>5. ASSUME NEW t \in Trucks, TickPasses(t) PROVE AskedInv'
  <2>1. call[Ticker].op = "tick" /\ [call[Ticker] EXCEPT !.todo = @ \ {t}].op = "tick"
    BY <1>5, TickFacts DEF TickPasses, Call
  <2> QED
    BY <1>3, <1>4, <1>5, <2>1 DEF TickPasses
<1>6. ASSUME NEW t \in Trucks, NEW p \in 0 .. Far, TickAdvances(t, p) PROVE AskedInv'
  <2> DEFINE next == Advanced(call[Ticker].seen[t], p)
             why  == SnapshotReason(call[Ticker].seen[t], next)
             c    == [call[Ticker] EXCEPT !.todo = @ \ {t}]
             d    == [c EXCEPT !.truck = t, !.next = next, !.reason = why]
  <2>1. /\ pc[Ticker] = "ticking"
        /\ \/ Learn(Ticker, c) /\ UNCHANGED pc
           \/ Learn(Ticker, d) /\ Goto(Ticker, "writing")
    BY <1>6 DEF TickAdvances
  <2>2. call[Ticker].op = "tick" /\ c.op = "tick" /\ d.op = "tick"
    BY <2>1, TickFacts DEF Call
  <2> HIDE DEF c, d
  <2> QED
    BY <1>3, <1>4, <2>1, <2>2
<1> QED
  BY <1>1, <1>2, <1>5, <1>6 DEF Tick

LEMMA AskedPersists ==
  ASSUME CoreInv, AskedInv, NEW p \in Procs, Persist(p)
  PROVE  AskedInv'
<1>1. CASE PersistCommits(p)
  BY <1>1, AskedStays DEF PersistCommits
<1>2. CASE Continue(p)
  BY <1>2, AskedStays, AskedReturns DEF Continue
<1> QED
  BY <1>1, <1>2 DEF Persist, PersistFails, PersistDone

LEMMA AskedManages ==
  ASSUME CoreInv, AskedInv, NEW r \in Reqs, Ask(r) \/ Manage(r)
  PROVE  AskedInv'
<1>0. r \in Procs /\ call[r] \in Call
  BY CallFacts DEF Procs
<1>1. ASSUME NEW op \in Commands, op \notin Facts, NEW step, NEW c, Moves(r, step, c), c.op = op
      PROVE  AskedInv'
  BY <1>0, <1>1, AskedKept DEF AskedAt
<1>2. CASE Ask(r)
  <2>1. ASSUME NEW t \in Trucks, NEW d \in Delay, RequestDelay(r, t, d) PROVE AskedInv'
    <3> DEFINE c == [NoCall EXCEPT !.op = "delay", !.truck = t, !.delay = d]
    <3>1. Moves(r, "waiting", c) /\ c.op = "delay" /\ "delay" \in Commands
      BY <2>1 DEF RequestDelay, Idle, Moves, NoCall
    <3> HIDE DEF c
    <3> QED
      BY <1>1, <3>1 DEF Facts
  <2>2. ASSUME NEW op \in {"start", "stop", "reset"}, RequestLifecycle(r, op) PROVE AskedInv'
    <3> DEFINE c == [NoCall EXCEPT !.op = op]
    <3>1. Moves(r, "queued", c) /\ c.op = op /\ op \in Commands
      BY <2>2 DEF RequestLifecycle, Idle, Moves, NoCall
    <3> HIDE DEF c
    <3> QED
      BY <1>1, <3>1 DEF Facts
  <2> QED
    BY <1>2, <2>1, <2>2 DEF Ask
<1>3. CASE Parks(r) \/ ResetDrained(r) \/ ResetClears(r) \/ RewindCommits(r) \/ RewindFails(r)
  BY <1>0, <1>3, AskedStays DEF Parks, ResetDrained, ResetClears, RewindCommits, RewindFails
<1>4. CASE DelayRefused(r) \/ StartIgnored(r) \/ StartResumes(r) \/ LoadDone(r)
           \/ LoadFails(r) \/ StopReturns(r)
  BY <1>0, <1>4, AskedReturns DEF DelayRefused, StartIgnored, StartResumes, LoadDone, LoadFails,
                          StopReturns, Finish
<1>5. ASSUME NEW step \in {"writing", "loading", "draining", "flushing"}, NEW c,
             Moves(r, step, c), c.op = call[r].op
      PROVE  AskedInv'
  BY <1>0, <1>5, AskedGoesOn
<1>6. CASE DelayApplies(r)
  BY <1>0, <1>5, <1>6 DEF DelayApplies, Moves, Call
<1>7. CASE LoadReads(r) \/ StopBegins(r) \/ StopClaims(r) \/ \E t \in Trucks : Flush(r, t)
  BY <1>0, <1>5, <1>7 DEF LoadReads, StopBegins, StopClaims, Flush, Moves, Call
<1> QED
  BY <1>2, <1>3, <1>4, <1>6, <1>7 DEF Manage

LEMMA AskedTold ==
  ASSUME CoreInv, AskedInv, NEW r \in Reqs, Tell(r)
  PROVE  AskedInv'
<1>0. r \in Procs
  BY DEF Procs
<1>1. ASSUME NEW op \in Facts, NEW t, NEW u, NEW why, Report(r, op, t, u, why),
             u.delay \in {Nil, "NORMAL"}, u.status \in InYard => u.delay = "NORMAL",
             op = "location" => u.status = Nil, op = "arrived" => u.status = "ARRIVED",
             op = "docked" => u.status = "DOCKED"
      PROVE  AskedInv'
  <2> DEFINE c == [NoCall EXCEPT !.op = op, !.truck = t, !.saw = db[t],
                                 !.update = u, !.reason = why]
  <2>1. Moves(r, "waiting", c) /\ op \in Commands
    BY <1>1 DEF Report, Moves, Idle
  <2>2. c.op = op /\ c.update = u
    BY DEF NoCall
  <2> HIDE DEF c
  <2>3. AskedAt("waiting", c)
    BY <1>1, <2>1, <2>2 DEF AskedAt, Told
  <2> QED
    BY <1>0, <2>1, <2>3, AskedKept
<1>2. ASSUME NEW t \in Trucks, NEW p \in (0 .. Far) \cup {Nil}, LocationUpdated(r, t, p)
      PROVE  AskedInv'
  <2> DEFINE u == [NoUpdate EXCEPT !.progress = p]
  <2>1. Report(r, "location", t, u, "none")
    BY <1>2 DEF LocationUpdated
  <2>2. u.delay = Nil /\ u.status = Nil /\ Nil \notin InYard /\ "location" \in Facts
    BY EngineAssumption DEF NoUpdate, Status, Facts
  <2> HIDE DEF u
  <2> QED
    BY <1>1, <2>1, <2>2
<1>3. ASSUME NEW t \in Trucks, NEW st \in Reportable, StatusUpdated(r, t, st) PROVE AskedInv'
  <2> DEFINE u   == [NoUpdate EXCEPT !.status = st,
                                     !.delay = IF st \in InYard THEN "NORMAL" ELSE Nil]
             why == IF st \in {"ARRIVING", "ARRIVED"} /\ st # db[t].status THEN st ELSE "none"
  <2>1. Report(r, "status", t, u, why)
    BY <1>3 DEF StatusUpdated
  <2>2. /\ u.status = st /\ u.delay = (IF st \in InYard THEN "NORMAL" ELSE Nil)
        /\ "status" \in Facts
    BY DEF NoUpdate, Facts
  <2> HIDE DEF u, why
  <2> QED
    BY <1>1, <2>1, <2>2
<1>4. ASSUME NEW t \in Trucks, TrailerArrived(r, t) PROVE AskedInv'
  BY <1>1, <1>4 DEF TrailerArrived, Facts
<1>5. ASSUME NEW t \in Trucks, TrailerDocked(r, t) PROVE AskedInv'
  BY <1>1, <1>5 DEF TrailerDocked, Facts
<1> QED
  BY <1>2, <1>3, <1>4, <1>5 DEF Tell

LEMMA AskedHandles ==
  ASSUME CoreInv, AskedInv, NEW r \in Reqs, Handle(r)
  PROVE  AskedInv'
<1>0. r \in Procs /\ call[r] \in Call
  BY CallFacts DEF Procs
<1>1. CASE Absorbs(r)
  BY <1>0, <1>1, AskedGoesOn DEF Absorbs, Moves, Call
<1>2. CASE NotLive(r)
  BY <1>0, <1>2, AskedStays DEF NotLive, Reported, Reaches
<1>3. CASE Mirrors(r) \/ FactFails(r) \/ Announces(r)
  BY <1>0, <1>3, AskedReturns DEF Mirrors, FactFails, Announces
<1>4. CASE DirectCommits(r)
  BY <1>0, <1>4, AskedGoesOn DEF DirectCommits, Moves, Call
<1> QED
  BY <1>1, <1>2, <1>3, <1>4 DEF Handle

LEMMA AskedStep ==
  ASSUME CoreInv, AskedInv, [FeedNext]_vars
  PROVE  AskedInv'
<1>1. CASE UNCHANGED vars
  BY <1>1 DEF vars, AskedInv
<1>2. CASE FeedNext
  BY <1>2, AskedTicks, AskedPersists, AskedManages, AskedTold, AskedHandles
     DEF FeedNext, Next
<1> QED
  BY <1>1, <1>2

LEMMA AskedInvariant == FeedSpec => [](CoreInv /\ AskedInv)
<1>1. Init => CoreInv /\ AskedInv
  <2>1. AskedAt("idle", NoCall)
    BY DEF AskedAt, NoCall
  <2> QED
    BY <2>1, CoreInit DEF Init, AskedInv
<1>2. (CoreInv /\ AskedInv) /\ [FeedNext]_vars => (CoreInv /\ AskedInv)'
  BY CoreStep, AskedStep
<1> QED
  BY <1>1, <1>2, PTL DEF FeedSpec
-----------------------------------------------------------------------------
(* No delay in the yard *)

LEMMA TidyFacts ==
  ASSUME NEW s \in State
  PROVE  /\ Tidy(s) => Tidy(Saved(s))
         /\ \A p \in 0 .. Far : s.status \in Moving => Tidy(Advanced(s, p))
         /\ \A u \in Update, n \in Nat :
              /\ Tidy(s) /\ u.delay \in {Nil, "NORMAL"}
              /\ u.status \in InYard => u.delay = "NORMAL"
              => Tidy(Absorbed(s, u, n))
<1>1. Tidy(s) => Tidy(Saved(s))
  BY DEF Tidy, Saved, State
<1>2. ASSUME NEW p \in 0 .. Far, s.status \in Moving PROVE Tidy(Advanced(s, p))
  <2>1. /\ Advanced(s, p).status = IF p = Far THEN "ARRIVED"
                                   ELSE IF p >= ArrivingAt /\ s.delay = "NORMAL" THEN "ARRIVING"
                                   ELSE s.status
        /\ Advanced(s, p).delay = IF p = Far THEN "NORMAL" ELSE s.delay
    BY DEF Advanced, State
  <2> QED
    BY <1>2, <2>1 DEF Tidy, Moving, InYard
<1>3. ASSUME NEW u \in Update, NEW n \in Nat, Tidy(s), u.delay \in {Nil, "NORMAL"},
             u.status \in InYard => u.delay = "NORMAL"
      PROVE  Tidy(Absorbed(s, u, n))
  <2>1. /\ Absorbed(s, u, n).status = Or(u.status, s.status)
        /\ Absorbed(s, u, n).delay = Or(u.delay, s.delay)
    BY DEF Absorbed, State
  <2>2. Nil # "NORMAL"
    BY EngineAssumption DEF Delay
  <2> QED
    BY <1>3, <2>1, <2>2 DEF Tidy, Or
<1> QED
  BY <1>1, <1>2, <1>3

LEMMA TidyKept ==
  ASSUME CoreInv, TidyInv, NEW p \in Procs, NEW step, NEW c, Moves(p, step, c),
         TidyAt(step, c), UNCHANGED db \/ \A t \in Trucks : Tidy(db'[t]),
         UNCHANGED live \/ \A t \in Trucks : live'[t] # Nil => Tidy(live'[t])
  PROVE  TidyInv'
<1>1. \A q \in Procs : TidyAt(pc'[q], call'[q])
  <2>1. \A q \in Procs : q # p => TidyAt(pc[q], call[q])
    BY DEF TidyInv
  <2> QED
    BY <2>1, OneMoves
<1>2. \A t \in Trucks : Tidy(db'[t]) /\ (live'[t] # Nil => Tidy(live'[t]))
  BY DEF TidyInv, NoDelayInYard, Tidy
<1> QED
  BY <1>1, <1>2 DEF TidyInv, NoDelayInYard, Tidy

LEMMA TidyReturns ==
  ASSUME CoreInv, TidyInv, NEW p \in Procs, Return(p),
         UNCHANGED db \/ \A t \in Trucks : Tidy(db'[t]),
         UNCHANGED live \/ \A t \in Trucks : live'[t] # Nil => Tidy(live'[t])
  PROVE  TidyInv'
<1>1. TidyAt("idle", NoCall)
  BY DEF TidyAt, NoCall, Nothing
<1> QED
  BY <1>1, ReturnMoves, TidyKept

(* A handler that goes on learning nothing that is a state or a row. *)
LEMMA TidyGoesOn ==
  ASSUME CoreInv, TidyInv, NEW p \in Procs, NEW step, NEW c, Moves(p, step, c),
         c.todo \subseteq call[p].todo, c.seen = call[p].seen, c.rows = call[p].rows,
         \/ step \notin {"writing", "written"}
         \/ pc[p] \in {"writing", "written"} /\ c.next = call[p].next
         \/ Tidy(c.next),
         UNCHANGED db \/ \A t \in Trucks : Tidy(db'[t]),
         UNCHANGED live \/ \A t \in Trucks : live'[t] # Nil => Tidy(live'[t])
  PROVE  TidyInv'
<1>1. TidyAt(step, c)
  BY DEF TidyInv, TidyAt
<1> QED
  BY <1>1, TidyKept

LEMMA TidyStays ==
  ASSUME CoreInv, TidyInv, NEW p \in Procs, NEW step, Goto(p, step), UNCHANGED call,
         step \notin {"writing", "written"} \/ pc[p] \in {"writing", "written"},
         UNCHANGED db \/ \A t \in Trucks : Tidy(db'[t]),
         UNCHANGED live \/ \A t \in Trucks : live'[t] # Nil => Tidy(live'[t])
  PROVE  TidyInv'
<1>1. Moves(p, step, call[p])
  BY StayMoves DEF CoreInv
<1> QED
  BY <1>1, TidyGoesOn

LEMMA TidyTicks ==
  ASSUME CoreInv, TidyInv, Tick
  PROVE  TidyInv'
<1>0. Ticker \in Procs
  BY DEF Procs
<1>1. CASE TickBegins
  <2> DEFINE c == [NoCall EXCEPT !.op = "tick", !.seen = live,
                                 !.todo = {t \in routes : live[t] # Nil}]
  <2>1. Moves(Ticker, "ticking", c) /\ UNCHANGED <<db, live>>
    BY <1>1 DEF TickBegins, Moves
  <2>2. \A t \in routes : live[t] # Nil => Tidy(live[t])
    BY DEF TidyInv, NoDelayInYard, Tidy, CoreInv, TypeOK
  <2>3. TidyAt("ticking", c)
    BY <2>2 DEF TidyAt, NoCall, Nothing
  <2> QED
    BY <1>0, <2>1, <2>3, TidyKept
<1>2. CASE TickEnds
  BY <1>0, <1>2, TidyReturns DEF TickEnds
<1>3. ASSUME NEW t \in Trucks, TickPasses(t) PROVE TidyInv'
  <2> DEFINE c == [call[Ticker] EXCEPT !.todo = @ \ {t}]
  <2>1. Moves(Ticker, "ticking", c) /\ UNCHANGED <<db, live>>
    BY <1>3 DEF TickPasses, Moves, Goto, CoreInv, TypeOK
  <2>2. c.todo \subseteq call[Ticker].todo /\ c.seen = call[Ticker].seen
        /\ c.rows = call[Ticker].rows
    BY <1>3, TickFacts DEF TickPasses, Call
  <2> HIDE DEF c
  <2> QED
    BY <1>0, <2>1, <2>2, TidyGoesOn
<1>4. ASSUME NEW t \in Trucks, NEW p \in 0 .. Far, TickAdvances(t, p) PROVE TidyInv'
  <2> DEFINE s    == call[Ticker].seen[t]
             next == Advanced(s, p)
             why  == SnapshotReason(s, next)
             c    == [call[Ticker] EXCEPT !.todo = @ \ {t}]
             d    == [c EXCEPT !.truck = t, !.next = next, !.reason = why]
  <2>1. /\ pc[Ticker] = "ticking" /\ t \in call[Ticker].todo /\ s.status \in Moving
        /\ UNCHANGED db /\ live' = [live EXCEPT ![t] = next]
        /\ \/ Learn(Ticker, c) /\ UNCHANGED pc
           \/ Learn(Ticker, d) /\ Goto(Ticker, "writing")
    BY <1>4 DEF TickAdvances, Put
  <2>2. s \in State /\ Tidy(next)
    BY <2>1, TickFacts, TidyFacts
  <2>3. \A u \in Trucks : live'[u] # Nil => Tidy(live'[u])
    BY <2>1, <2>2 DEF TidyInv, NoDelayInYard, Tidy, CoreInv, TypeOK
  <2>4. /\ c.todo \subseteq call[Ticker].todo /\ c.seen = call[Ticker].seen
        /\ c.rows = call[Ticker].rows
        /\ d.todo = c.todo /\ d.seen = c.seen /\ d.rows = c.rows /\ d.next = next
    BY <2>1, TickFacts DEF Call
  <2> HIDE DEF c, d, next
  <2>5. CASE Learn(Ticker, c) /\ UNCHANGED pc
    <3>1. Moves(Ticker, "ticking", c)
      BY <2>1, <2>5 DEF Moves, Goto, CoreInv, TypeOK
    <3> QED
      BY <1>0, <2>1, <2>3, <2>4, <3>1, TidyGoesOn
  <2>6. CASE Learn(Ticker, d) /\ Goto(Ticker, "writing")
    BY <1>0, <2>1, <2>2, <2>3, <2>4, <2>6, TidyGoesOn DEF Moves
  <2> QED
    BY <2>1, <2>5, <2>6
<1> QED
  BY <1>1, <1>2, <1>3, <1>4 DEF Tick

LEMMA TidyPersists ==
  ASSUME CoreInv, TidyInv, NEW p \in Procs, Persist(p)
  PROVE  TidyInv'
<1> DEFINE c == call[p]
<1>1. pc[p] \in {"writing", "written"}
  BY DEF Persist, PersistCommits, PersistFails, PersistDone
<1>2. c.next \in State /\ c.truck \in Trucks /\ Tidy(c.next)
  BY <1>1, CallFacts DEF HandlerOK, TidyInv, TidyAt
<1>3. \A t \in Trucks : Tidy(db[t]) /\ (live[t] # Nil => Tidy(live[t]))
  BY DEF TidyInv, NoDelayInYard, Tidy
<1>4. CASE PersistCommits(p)
  <2>1. /\ db' = [db EXCEPT ![c.truck] =
             [status |-> c.next.status, delay |-> c.next.delay, progress |-> c.next.progress,
              ship |-> ShipAfter(@.ship, c.next, c.reason)]]
        /\ Goto(p, "written") /\ UNCHANGED <<live, call>>
    BY <1>4 DEF PersistCommits
  <2>2. \A t \in Trucks : Tidy(db'[t])
    BY <1>2, <1>3, <2>1 DEF Tidy, CoreInv, TypeOK
  <2> QED
    BY <1>1, <2>1, <2>2, TidyStays
<1>5. CASE PersistFails(p) \/ PersistDone(p)
  <2>1. Tidy(Saved(c.next))
    BY <1>2, TidyFacts
  <2>2. \A t \in Trucks : live'[t] # Nil => Tidy(live'[t])
    BY <1>2, <1>3, <1>5, <2>1 DEF PersistFails, PersistDone, CoreInv, TypeOK
  <2>3. UNCHANGED db /\ Continue(p)
    BY <1>5 DEF PersistFails, PersistDone
  <2> QED
    BY <2>2, <2>3, TidyReturns, TidyStays DEF Continue
<1> QED
  BY <1>4, <1>5 DEF Persist

LEMMA TidyAnnounced ==
  ASSUME CoreInv, NEW r, NEW lv \in [Trucks -> State \cup {Nil}], NEW rts, Announce(r, lv, rts),
         \A t \in Trucks : lv[t] # Nil => Tidy(lv[t])
  PROVE  \A t \in Trucks : live'[t] # Nil => Tidy(live'[t])
<1> SUFFICES ASSUME NEW t \in Trucks, live'[t] # Nil PROVE Tidy(live'[t])
  OBVIOUS
<1>1. CASE t \in Announced(r, lv, rts)
  <2>1. lv[t] \in State /\ Tidy(lv[t])
    BY <1>1 DEF Announced
  <2>2. live'[t] = [lv[t] EXCEPT !.seq = lastSequence[t] + 1]
    BY <1>1 DEF Announce
  <2> QED
    BY <2>1, <2>2 DEF Tidy, State
<1>2. CASE t \notin Announced(r, lv, rts)
  BY <1>2 DEF Announce
<1> QED
  BY <1>1, <1>2

LEMMA TidyManages ==
  ASSUME CoreInv, TidyInv, NEW r \in Reqs, Ask(r) \/ Manage(r)
  PROVE  TidyInv'
<1>0. /\ r \in Procs /\ call[r] \in Call
      /\ \A t \in Trucks : Tidy(db[t]) /\ (live[t] # Nil => Tidy(live[t]))
  BY CallFacts DEF Procs, TidyInv, NoDelayInYard, Tidy
<1>1. CASE Ask(r)
  <2>1. ASSUME NEW t \in Trucks, NEW d \in Delay, RequestDelay(r, t, d) PROVE TidyInv'
    <3> DEFINE c == [NoCall EXCEPT !.op = "delay", !.truck = t, !.delay = d]
    <3>1. Moves(r, "waiting", c) /\ UNCHANGED <<db, live>> /\ TidyAt("waiting", c)
      BY <2>1 DEF RequestDelay, Moves, NoCall, TidyAt, Nothing
    <3> QED
      BY <1>0, <3>1, TidyKept
  <2>2. ASSUME NEW op, RequestLifecycle(r, op) PROVE TidyInv'
    <3> DEFINE c == [NoCall EXCEPT !.op = op]
    <3>1. Moves(r, "queued", c) /\ UNCHANGED <<db, live>> /\ TidyAt("queued", c)
      BY <2>2 DEF RequestLifecycle, Moves, NoCall, TidyAt, Nothing
    <3> QED
      BY <1>0, <3>1, TidyKept
  <2> QED
    BY <1>1, <2>1, <2>2 DEF Ask
<1>2. CASE Parks(r) \/ ResetDrained(r) \/ RewindFails(r)
  BY <1>0, <1>2, TidyStays DEF Parks, ResetDrained, RewindFails
<1>3. CASE ResetClears(r)
  <2>1. \A t \in Trucks : live'[t] = Nil
    BY <1>3 DEF ResetClears, Nothing
  <2> QED
    BY <1>0, <1>3, <2>1, TidyStays DEF ResetClears
<1>4. CASE RewindCommits(r)
  <2>1. \A t \in Trucks : Tidy(World[t])
    BY WorldAssumption DEF Tidy, InYard
  <2> QED
    BY <1>0, <1>4, <2>1, TidyStays DEF RewindCommits
<1>5. CASE DelayRefused(r) \/ StartIgnored(r) \/ LoadFails(r) \/ StopReturns(r)
  BY <1>0, <1>5, TidyReturns DEF DelayRefused, StartIgnored, LoadFails, StopReturns, Finish
<1>6. CASE StartResumes(r)
  <2>1. live \in [Trucks -> State \cup {Nil}]
    BY DEF CoreInv, TypeOK
  <2>2. \A t \in Trucks : live'[t] # Nil => Tidy(live'[t])
    BY <1>0, <1>6, <2>1, TidyAnnounced DEF StartResumes
  <2> QED
    BY <1>0, <1>6, <2>2, TidyReturns DEF StartResumes, Finish
<1>7. CASE LoadDone(r)
  <2> DEFINE rows == call[r].rows
             lv   == [t \in Trucks |-> IF rows[t] = Nil THEN live[t]
                                       ELSE Loaded(rows[t], lastSequence[t])]
             rts  == routes \cup {t \in Trucks : rows[t] # Nil}
  <2>1. Announce(r, lv, rts) /\ UNCHANGED db /\ Return(r)
    BY <1>7 DEF LoadDone, Finish
  <2>2. \A t \in Trucks : /\ rows[t] \in Row \cup {Nil} /\ (rows[t] # Nil => Tidy(rows[t]))
                          /\ lastSequence[t] \in Nat /\ live[t] \in State \cup {Nil}
    BY <1>0 DEF Call, TidyInv, TidyAt, CoreInv, TypeOK
  <2>3. \A t \in Trucks : rows[t] # Nil => /\ Loaded(rows[t], lastSequence[t]) \in State
                                           /\ Tidy(Loaded(rows[t], lastSequence[t]))
    BY <2>2, LoadedFacts DEF Tidy, Loaded
  <2>4. lv \in [Trucks -> State \cup {Nil}] /\ \A t \in Trucks : lv[t] # Nil => Tidy(lv[t])
    BY <1>0, <2>2, <2>3
  <2> HIDE DEF lv, rts
  <2>5. \A t \in Trucks : live'[t] # Nil => Tidy(live'[t])
    BY <2>1, <2>4, TidyAnnounced
  <2> QED
    BY <1>0, <2>1, <2>5, TidyReturns
<1>8. CASE LoadReads(r)
  <2> DEFINE rows == [t \in Trucks |-> IF db[t].status \in Moving THEN db[t] ELSE Nil]
             c    == [call[r] EXCEPT !.rows = rows]
  <2>1. Moves(r, "loading", c) /\ UNCHANGED <<db, live>>
    BY <1>8 DEF LoadReads, Moves
  <2>2. c.rows = rows /\ c.todo = call[r].todo /\ c.seen = call[r].seen
    BY <1>0 DEF Call
  <2> HIDE DEF c
  <2>3. TidyAt("loading", c)
    BY <1>0, <2>2 DEF TidyAt, TidyInv
  <2> QED
    BY <1>0, <2>1, <2>3, TidyKept
<1>9. CASE StopBegins(r)
  <2>1. Moves(r, "draining", [call[r] EXCEPT !.was = timer]) /\ UNCHANGED <<db, live>>
    BY <1>9 DEF StopBegins, Moves
  <2> QED
    BY <1>0, <2>1, TidyGoesOn DEF Call
<1>10. CASE StopClaims(r)
  <2> DEFINE c == [call[r] EXCEPT !.seen = live,
                     !.todo = {t \in Trucks : live[t] # Nil /\ live[t].dirty}]
  <2>1. Moves(r, "flushing", c) /\ UNCHANGED <<db, live>>
    BY <1>10 DEF StopClaims, Moves
  <2>2. /\ c.seen = live /\ c.rows = call[r].rows
        /\ c.todo = {t \in Trucks : live[t] # Nil /\ live[t].dirty}
    BY <1>0 DEF Call
  <2> HIDE DEF c
  <2>3. TidyAt("flushing", c)
    BY <1>0, <2>2 DEF TidyAt, TidyInv
  <2> QED
    BY <1>0, <2>1, <2>3, TidyKept
<1>11. ASSUME NEW t \in Trucks, Flush(r, t) PROVE TidyInv'
  <2> DEFINE c == [call[r] EXCEPT !.todo = @ \ {t}, !.truck = t, !.next = call[r].seen[t]]
  <2>1. Moves(r, "writing", c) /\ UNCHANGED <<db, live>> /\ t \in call[r].todo
    BY <1>11 DEF Flush, Moves
  <2>2. /\ c.todo \subseteq call[r].todo /\ c.seen = call[r].seen
        /\ c.rows = call[r].rows /\ c.next = call[r].seen[t]
    BY <1>0 DEF Call
  <2> HIDE DEF c
  <2>3. Tidy(c.next)
    BY <1>0, <2>1, <2>2 DEF TidyInv, TidyAt
  <2> QED
    BY <1>0, <2>1, <2>2, <2>3, TidyGoesOn
<1>12. CASE DelayApplies(r)
  <2> DEFINE t    == call[r].truck
             next == Delayed(live[t], call[r].delay, lastSequence[t] + 1)
             c    == [call[r] EXCEPT !.next = next, !.reason = "DELAY"]
  <2>1. /\ Moves(r, "writing", c) /\ UNCHANGED db /\ live' = [live EXCEPT ![t] = next]
        /\ live[t] # Nil /\ pc[r] \in {"waiting", "parked"} /\ call[r].op = "delay"
    BY <1>12 DEF DelayApplies, Moves, Put, Reaches, Accepts
  <2>2. t \in Trucks /\ call[r].delay \in Delay
    BY <2>1, WaitFacts DEF HandlerOK
  <2>3. live[t] \in State /\ lastSequence[t] + 1 \in Nat
    BY <2>1, <2>2 DEF CoreInv, TypeOK
  <2>4. next.status \in Moving
    BY <2>2, <2>3, StateFacts
  <2>5. Tidy(next)
    BY <2>4 DEF Tidy, Moving, InYard
  <2>6. /\ c.todo = call[r].todo /\ c.seen = call[r].seen
        /\ c.rows = call[r].rows /\ c.next = next
    BY <1>0 DEF Call
  <2> HIDE DEF c, next
  <2>7. \A u \in Trucks : live'[u] # Nil => Tidy(live'[u])
    BY <1>0, <2>1, <2>2, <2>5 DEF CoreInv, TypeOK
  <2> QED
    BY <1>0, <2>1, <2>5, <2>6, <2>7, TidyGoesOn
<1> QED
  BY <1>1, <1>2, <1>3, <1>4, <1>5, <1>6, <1>7, <1>8, <1>9, <1>10, <1>11, <1>12 DEF Manage
(* The WMS docks no truck: it would be written DOCKED with its delay on. *)
LEMMA TidyTold ==
  ASSUME CoreInv, TidyInv, "docked" \notin Commands, NEW r \in Reqs, Tell(r)
  PROVE  TidyInv'
<1>1. ASSUME NEW op, NEW t, NEW u, NEW why, Report(r, op, t, u, why), UNCHANGED <<db, live>>
      PROVE  TidyInv'
  <2> DEFINE c == [NoCall EXCEPT !.op = op, !.truck = t, !.saw = db[t],
                                 !.update = u, !.reason = why]
  <2>1. Moves(r, "waiting", c) /\ TidyAt("waiting", c)
    BY <1>1 DEF Report, Moves, NoCall, TidyAt, Nothing
  <2> QED
    BY <1>1, <2>1, TidyKept DEF Procs
<1> QED
  BY <1>1 DEF Tell, LocationUpdated, StatusUpdated, TrailerArrived, TrailerDocked, Report, Idle

LEMMA TidyHandles ==
  ASSUME CoreInv, AskedInv, TidyInv, NEW r \in Reqs, Handle(r)
  PROVE  TidyInv'
<1>0. /\ r \in Procs /\ call[r] \in Call /\ db \in [Trucks -> Row]
      /\ \A t \in Trucks : Tidy(db[t]) /\ (live[t] # Nil => Tidy(live[t]))
  BY CallFacts DEF Procs, TidyInv, NoDelayInYard, Tidy, CoreInv, TypeOK
<1>1. CASE Absorbs(r)
  <2> DEFINE t    == call[r].truck
             next == Absorbed(live[t], call[r].update, lastSequence[t] + 1)
             c    == [call[r] EXCEPT !.next = next]
  <2>1. /\ pc[r] \in {"waiting", "parked"} /\ call[r].op \in Facts /\ live[t] # Nil
        /\ live' = [live EXCEPT ![t] = next] /\ Moves(r, "writing", c) /\ UNCHANGED db
    BY <1>1 DEF Absorbs, Reported, Followed, Reaches, Moves, Put
  <2>2. t \in Trucks /\ call[r].update \in Update /\ Told(call[r])
    BY <1>0, <2>1, WaitFacts DEF HandlerOK, AskedInv, AskedAt
  <2>3. live[t] \in State /\ lastSequence[t] + 1 \in Nat
    BY <2>1, <2>2 DEF CoreInv, TypeOK
  <2>4. Tidy(next)
    BY <1>0, <2>1, <2>2, <2>3, TidyFacts DEF Told
  <2>5. /\ c.todo = call[r].todo /\ c.seen = call[r].seen
        /\ c.rows = call[r].rows /\ c.next = next
    BY <1>0 DEF Call
  <2> HIDE DEF c, next
  <2>6. \A u \in Trucks : live'[u] # Nil => Tidy(live'[u])
    BY <1>0, <2>1, <2>2, <2>4 DEF CoreInv, TypeOK
  <2> QED
    BY <1>0, <2>1, <2>4, <2>5, <2>6, TidyGoesOn
<1>2. CASE NotLive(r)
  BY <1>0, <1>2, TidyStays DEF NotLive
<1>3. CASE FactFails(r) \/ Announces(r)
  BY <1>0, <1>3, TidyReturns DEF FactFails, Announces
<1>4. CASE Mirrors(r)
  <2>1. UNCHANGED db \/ db' = [db EXCEPT ![call[r].truck].ship = Mirrored(r, @)]
    BY <1>4 DEF Mirrors
  <2>2. call[r].truck \in Trucks
    BY <1>4, FactFacts DEF Mirrors
  <2>3. \A t \in Trucks : Tidy(db'[t])
    BY <1>0, <2>1, <2>2 DEF Tidy, Row
  <2> QED
    BY <1>0, <1>4, <2>3, TidyReturns DEF Mirrors
<1>5. CASE DirectCommits(r)
  <2> DEFINE t   == call[r].truck
             u   == call[r].update
             row == [status |-> Or(u.status, db[t].status), delay |-> Or(u.delay, db[t].delay),
                     progress |-> Or(u.progress, db[t].progress),
                     ship |-> Mirrored(r, db[t].ship)]
             c   == [call[r] EXCEPT !.update.status = db'[t].status]
  <2>1. /\ pc[r] = "direct" /\ db' = [db EXCEPT ![t] = row] /\ Moves(r, "announce", c)
        /\ UNCHANGED live
    BY <1>5 DEF DirectCommits, Moves
  <2>2. t \in Trucks /\ Told(call[r]) /\ Nil # "NORMAL"
    BY <1>0, <2>1, FactFacts, EngineAssumption DEF AskedInv, AskedAt, Delay
  <2>3. Tidy(row)
    BY <1>0, <2>2 DEF Tidy, Told, Or
  <2> HIDE DEF row
  <2>4. \A v \in Trucks : Tidy(db'[v])
    BY <1>0, <2>1, <2>2, <2>3
  <2>5. c.todo = call[r].todo /\ c.seen = call[r].seen /\ c.rows = call[r].rows
    BY <1>0 DEF Call
  <2> HIDE DEF c
  <2> QED
    BY <1>0, <2>1, <2>4, <2>5, TidyGoesOn
<1> QED
  BY <1>1, <1>2, <1>3, <1>4, <1>5 DEF Handle

LEMMA TidyStep ==
  ASSUME "docked" \notin Commands, CoreInv, AskedInv, TidyInv, [FeedNext]_vars
  PROVE  TidyInv'
<1>1. CASE UNCHANGED vars
  BY <1>1 DEF vars, TidyInv, NoDelayInYard, TidyAt
<1>2. CASE FeedNext
  BY <1>2, TidyTicks, TidyPersists, TidyManages, TidyTold, TidyHandles DEF FeedNext, Next
<1> QED
  BY <1>1, <1>2

LEMMA TidyInit ==
  ASSUME Init
  PROVE  TidyInv
<1>1. TidyAt("idle", NoCall)
  BY DEF TidyAt, NoCall, Nothing
<1>2. \A t \in Trucks : Tidy(World[t]) /\ Tidy(Loaded(World[t], 0))
  BY WorldAssumption DEF Tidy, InYard, Loaded
<1>3. \A t \in Trucks : live[t] # Nil => live[t] = Loaded(World[t], 0)
  BY DEF Init
<1> QED
  BY <1>1, <1>2, <1>3 DEF Init, TidyInv, NoDelayInYard, Tidy

LEMMA TidyInvariant ==
  ASSUME "docked" \notin Commands
  PROVE  FeedSpec => []TidyInv
<1>1. Init => CoreInv /\ AskedInv /\ TidyInv
  <2>1. Init => AskedInv
    <3>1. AskedAt("idle", NoCall)
      BY DEF AskedAt, NoCall
    <3> QED
      BY <3>1 DEF Init, AskedInv
  <2> QED
    BY <2>1, CoreInit, TidyInit
<1>2. (CoreInv /\ AskedInv /\ TidyInv) /\ [FeedNext]_vars => (CoreInv /\ AskedInv /\ TidyInv)'
  BY CoreStep, AskedStep, TidyStep
<1> QED
  BY <1>1, <1>2, PTL DEF FeedSpec

(* "Arriving ends the scenario", by a tick or by the WMS, with failures    *)
(* and rewinds: no truck is left in the yard with a delay that nothing     *)
(* could clear any more, as long as TRAILER_DOCKED does not write one in.  *)
THEOREM ArrivalEndsDelay ==
  ASSUME "docked" \notin Commands
  PROVE  FeedSpec => []NoDelayInYard
<1>1. TidyInv => NoDelayInYard
  BY DEF TidyInv
<1> QED
  BY <1>1, TidyInvariant, PTL
-----------------------------------------------------------------------------
(* What a step does while it is calm *)

(* p's step touches no row and no truck in memory, and drops nothing that  *)
(* a dirty truck or a truck in the yard waits for.                         *)
Aside(p, step, c) ==
  /\ Moves(p, step, c) /\ UNCHANGED <<db, live>>
  /\ pc[p] \notin {"writing", "written"} /\ step # "written"
  /\ MindAt(step, c, live) /\ PastAt(step, c)
  /\ \A t \in Trucks :
       /\ Dirty(t) /\ (timer \/ Owes(pc[p], call[p], t)) => timer' \/ Owes(step, c, t)
       /\ live[t] # Nil /\ Tells(pc[p], call[p], t) => Tells(step, c, t)

(* p takes live truck t to next in memory: to be written, or as a tick     *)
(* that owes no snapshot.                                                  *)
Takes(p, step, c, t, next) ==
  /\ Moves(p, step, c) /\ UNCHANGED <<db, timer>>
  /\ live[t] \in State /\ next \in State /\ next.saved = live[t].saved
  /\ live' = [live EXCEPT ![t] = next]
  /\ pc[p] \in {"ticking", "waiting", "parked"}
  /\ \A q \in Procs : q # p => pc[q] \notin Holding
  /\ \A u \in c.todo : u # t /\ live[u] = c.seen[u]
  /\ \/ step = "writing" /\ c.truck = t /\ c.next = next
     \/ /\ step = "ticking" /\ p = Ticker /\ next.status \in Moving
        /\ next.progress - next.saved < CheckpointStep
  /\ next.status \in Moving => live[t].status \in Moving \/ Tells(step, c, t)
  /\ \A u \in Trucks : Tells(pc[p], call[p], u) => u = t /\ next.status \in InYard

(* Nobody rewinds, and what loads is a start. *)
LEMMA CalmFacts ==
  ASSUME Calm, CoreInv, AskedInv, NEW p \in Procs
  PROVE  /\ call[p].op # "reset" /\ pc[p] \notin {"drained", "rewinding", "rewound"}
         /\ pc[p] = "loading" => call[p].op = "start"
<1>1. call[p].op # "reset"
  BY DEF Calm, AskedInv, AskedAt
<1> QED
  BY <1>1, CallFacts DEF HandlerOK, Route, Call, Op, Facts

LEMMA AsideTicks ==
  ASSUME Calm, CalmInv, Tick
  PROVE  \/ \E p \in Procs : \E step, c : Aside(p, step, c)
         \/ \E p \in Procs, t \in Trucks : \E step, c, next : Takes(p, step, c, t, next)
<1>0. CoreInv /\ AskedInv /\ MindInv /\ Ticker \in Procs
  BY DEF CalmInv, Procs
<1>1. CASE TickBegins
  <2> DEFINE c == [NoCall EXCEPT !.op = "tick", !.seen = live,
                                 !.todo = {t \in routes : live[t] # Nil}]
  <2>1. Moves(Ticker, "ticking", c) /\ UNCHANGED <<db, live, timer>> /\ pc[Ticker] = "idle"
    BY <1>1 DEF TickBegins, Moves
  <2>2. timer
    BY <1>1 DEF TickBegins
  <2>3. MindAt("ticking", c, live)
    BY DEF MindAt, NoCall
  <2>4. Aside(Ticker, "ticking", c)
    BY <2>1, <2>2, <2>3 DEF Aside, PastAt, Tells
  <2> QED
    BY <1>0, <2>4
<1>2. CASE TickEnds
  <2>1. /\ Moves(Ticker, "idle", NoCall) /\ UNCHANGED <<db, live, timer>>
        /\ pc[Ticker] = "ticking"
    BY <1>2, ReturnMoves DEF TickEnds
  <2>2. call[Ticker].op = "tick"
    BY <1>0, <2>1, TickFacts
  <2>3. Aside(Ticker, "idle", NoCall)
    BY <2>1, <2>2 DEF Aside, PastAt, Tells, MindAt, Owes, Writes, Holding
  <2> QED
    BY <1>0, <2>3
<1>3. ASSUME NEW t \in Trucks, TickPasses(t)
      PROVE  \E step, c : Aside(Ticker, step, c)
  <2> DEFINE c == [call[Ticker] EXCEPT !.todo = @ \ {t}]
  <2>1. /\ Moves(Ticker, "ticking", c) /\ UNCHANGED <<db, live, timer>>
        /\ pc[Ticker] = "ticking"
    BY <1>0, <1>3 DEF TickPasses, Moves, Goto, CoreInv, TypeOK
  <2>2. /\ call[Ticker].op = "tick" /\ c.op = "tick" /\ c.seen = call[Ticker].seen
        /\ c.todo \subseteq call[Ticker].todo
    BY <1>0, <2>1, TickFacts DEF Call
  <2> HIDE DEF c
  <2>3. MindAt("ticking", c, live)
    BY <1>0, <2>1, <2>2 DEF MindInv, MindAt, Holding
  <2>4. Aside(Ticker, "ticking", c)
    BY <2>1, <2>2, <2>3 DEF Aside, PastAt, Tells, Owes, Writes
  <2> QED
    BY <2>4
<1>4. ASSUME NEW t \in Trucks, NEW p \in 0 .. Far, TickAdvances(t, p)
      PROVE  \E step, c, next : Takes(Ticker, step, c, t, next)
  <2> DEFINE s    == call[Ticker].seen[t]
             next == Advanced(s, p)
             why  == SnapshotReason(s, next)
             c    == [call[Ticker] EXCEPT !.todo = @ \ {t}]
             d    == [c EXCEPT !.truck = t, !.next = next, !.reason = why]
  <2>1. /\ pc[Ticker] = "ticking" /\ t \in call[Ticker].todo /\ s.status \in Moving
        /\ UNCHANGED <<db, timer>> /\ live' = [live EXCEPT ![t] = next]
        /\ \/ why = "none" /\ Learn(Ticker, c) /\ UNCHANGED pc
           \/ Learn(Ticker, d) /\ Goto(Ticker, "writing")
    BY <1>4 DEF TickAdvances, Put
  <2>2. /\ s \in State /\ live[t] = s
        /\ \A u \in call[Ticker].todo : live[u] = call[Ticker].seen[u]
        /\ \A q \in Procs : q # Ticker => pc[q] \notin Holding
    BY <1>0, <2>1, TickFacts, Held DEF MindInv, MindAt, Holding
  <2>3. next \in State /\ next.saved = s.saved
    BY <2>2, StateFacts DEF Advanced, State
  <2>4. /\ c.todo = call[Ticker].todo \ {t} /\ c.seen = call[Ticker].seen
        /\ d.todo = c.todo /\ d.seen = c.seen /\ d.truck = t /\ d.next = next
    BY <1>0, <2>1, TickFacts DEF Call
  <2>5. CASE why = "none" /\ Learn(Ticker, c) /\ UNCHANGED pc
    <3>1. Moves(Ticker, "ticking", c)
      BY <1>0, <2>1, <2>5 DEF Moves, Goto, CoreInv, TypeOK
    <3>2. next.status # "ARRIVED" /\ ~(next.progress - next.saved >= CheckpointStep)
      BY <2>5 DEF SnapshotReason
    <3>3. next.status \in Moving
      <4>1. next.status \in {"ARRIVED", "ARRIVING", s.status}
        BY <2>2 DEF Advanced, State
      <4> QED
        BY <2>1, <3>2, <4>1 DEF Moving
    <3>4. next.progress - next.saved < CheckpointStep
      <4>1. next.progress \in Int /\ next.saved \in Int /\ CheckpointStep \in Int
        BY <2>3, EngineAssumption DEF State
      <4> QED
        BY <3>2, <4>1
    <3> HIDE DEF c, next, why
    <3>5. Takes(Ticker, "ticking", c, t, next)
      BY <2>1, <2>2, <2>3, <2>4, <3>1, <3>3, <3>4 DEF Takes, Tells
    <3> QED
      BY <3>5
  <2>6. CASE Learn(Ticker, d) /\ Goto(Ticker, "writing")
    <3>1. Moves(Ticker, "writing", d)
      BY <2>6 DEF Moves
    <3> HIDE DEF c, d, next, why
    <3>2. Takes(Ticker, "writing", d, t, next)
      BY <2>1, <2>2, <2>3, <2>4, <3>1 DEF Takes, Tells
    <3> QED
      BY <3>2
  <2> QED
    BY <2>1, <2>5, <2>6
<1> QED
  BY <1>0, <1>1, <1>2, <1>3, <1>4 DEF Tick

LEMMA AsideManages ==
  ASSUME Calm, CalmInv, NEW r \in Reqs, Ask(r) \/ Manage(r), ~LoadDone(r)
  PROVE  \/ \E step, c : Aside(r, step, c)
         \/ \E t \in Trucks : \E step, c, next : Takes(r, step, c, t, next)
<1>0. /\ CoreInv /\ AskedInv /\ MindInv /\ r \in Procs /\ call[r] \in Call /\ ~MayFail
      /\ HandlerOK(r, pc[r], call[r])
  BY CallFacts DEF CalmInv, Procs, Calm
<1>1. CASE Ask(r)
  <2>1. PICK step \in {"waiting", "queued"} : \E c : Moves(r, step, c)
    BY <1>1 DEF Ask, RequestDelay, RequestLifecycle, Moves
  <2>2. PICK c : Moves(r, step, c)
    BY <2>1
  <2>3. pc[r] = "idle" /\ UNCHANGED <<db, live, timer>>
    BY <1>1 DEF Ask, RequestDelay, RequestLifecycle, Idle
  <2>4. Aside(r, step, c)
    BY <2>1, <2>2, <2>3 DEF Aside, PastAt, Tells, MindAt, Owes, Writes, Holding
  <2> QED
    BY <2>4
<1>2. CASE Parks(r)
  <2>1. Moves(r, "parked", call[r]) /\ pc[r] = "waiting" /\ UNCHANGED <<db, live, timer>>
    BY <1>0, <1>2, StayMoves DEF Parks, CoreInv
  <2>2. Aside(r, "parked", call[r])
    BY <2>1 DEF Aside, PastAt, Tells, MindAt, Owes, Writes, Holding
  <2> QED
    BY <2>2
<1>3. CASE DelayRefused(r)
  <2>1. /\ Moves(r, "idle", NoCall) /\ pc[r] \in {"waiting", "parked"}
        /\ call[r].op = "delay" /\ UNCHANGED <<db, live, timer>>
    BY <1>3, ReturnMoves DEF DelayRefused, Reaches
  <2>2. Aside(r, "idle", NoCall)
    BY <2>1 DEF Aside, PastAt, Tells, MindAt, Owes, Writes, Holding
  <2> QED
    BY <2>2
<1>4. CASE StartIgnored(r) \/ StartResumes(r)
  <2>1. /\ Moves(r, "idle", NoCall) /\ pc[r] = "queued" /\ timer' /\ UNCHANGED db
    BY <1>0, <1>4, ReturnMoves, CalmFacts
       DEF StartIgnored, StartResumes, Finish, Turn, Starting, Running
  <2>2. UNCHANGED live
    <3>1. CASE StartIgnored(r)
      BY <3>1 DEF StartIgnored
    <3>2. CASE StartResumes(r)
      <4>1. Announced(r, live, routes) = {}
        BY <1>0, CalmFacts DEF Announced
      <4>2. live' = [t \in Trucks |-> live[t]]
        BY <3>2, <4>1 DEF StartResumes, Announce
      <4> QED
        BY <1>0, <4>2 DEF CoreInv, TypeOK
    <3> QED
      BY <1>4, <3>1, <3>2
  <2>3. Aside(r, "idle", NoCall)
    BY <2>1, <2>2 DEF Aside, PastAt, Tells, MindAt, Holding
  <2> QED
    BY <2>3
<1>5. CASE LoadReads(r)
  <2> DEFINE c == [call[r] EXCEPT !.rows = [t \in Trucks |->
                                IF db[t].status \in Moving THEN db[t] ELSE Nil]]
  <2>1. /\ Moves(r, "loading", c) /\ pc[r] = "queued" /\ UNCHANGED <<db, live, timer>>
        /\ live = Nothing
    BY <1>0, <1>5, CalmFacts DEF LoadReads, Moves, Starting, Turn, Running
  <2> HIDE DEF c
  <2>2. Aside(r, "loading", c)
    BY <2>1 DEF Aside, PastAt, Tells, MindAt, Owes, Writes, Holding
  <2> QED
    BY <2>2
<1>6. CASE StopBegins(r)
  <2> DEFINE c == [call[r] EXCEPT !.was = timer]
  <2>1. Moves(r, "draining", c) /\ pc[r] = "queued" /\ UNCHANGED <<db, live>>
    BY <1>6 DEF StopBegins, Moves, Turn, Running
  <2> HIDE DEF c
  <2>2. Aside(r, "draining", c)
    BY <2>1 DEF Aside, PastAt, Tells, MindAt, Owes, Holding
  <2> QED
    BY <2>2
<1>7. CASE StopClaims(r)
  <2> DEFINE c == [call[r] EXCEPT !.seen = live,
                     !.todo = {t \in Trucks : live[t] # Nil /\ live[t].dirty}]
  <2>1. /\ Moves(r, "flushing", c) /\ pc[r] = "draining" /\ UNCHANGED <<db, live, timer>>
        /\ call[r].op = "stop"
    BY <1>7 DEF StopClaims, Moves, Running
  <2>2. c.seen = live /\ c.op = "stop" /\ \A t \in Trucks : Dirty(t) => t \in c.todo
    BY <1>0, <2>1 DEF Call, Dirty
  <2> HIDE DEF c
  <2>3. Aside(r, "flushing", c)
    BY <2>1, <2>2 DEF Aside, PastAt, Tells, MindAt, Owes, Holding
  <2> QED
    BY <2>3
<1>8. CASE StopReturns(r)
  <2>1. /\ Moves(r, "idle", NoCall) /\ pc[r] = "flushing" /\ UNCHANGED <<db, live, timer>>
        /\ call[r].todo = {}
    BY <1>8, ReturnMoves DEF StopReturns, Running, Finish
  <2>2. Aside(r, "idle", NoCall)
    BY <2>1 DEF Aside, PastAt, Tells, MindAt, Owes, Writes, Holding
  <2> QED
    BY <2>2
<1>9. ASSUME NEW t \in Trucks, Flush(r, t) PROVE \E step, c : Aside(r, step, c)
  <2> DEFINE c == [call[r] EXCEPT !.todo = @ \ {t}, !.truck = t, !.next = call[r].seen[t]]
  <2>1. /\ Moves(r, "writing", c) /\ pc[r] = "flushing" /\ UNCHANGED <<db, live, timer>>
        /\ t \in call[r].todo /\ call[r].op = "stop"
    BY <1>9 DEF Flush, Moves, Running
  <2>2. /\ c.todo = call[r].todo \ {t} /\ c.seen = call[r].seen /\ c.op = "stop"
        /\ c.truck = t /\ c.next = call[r].seen[t]
    BY <1>0, <2>1 DEF Call
  <2>3. \A u \in call[r].todo : live[u] = call[r].seen[u]
    BY <1>0, <2>1 DEF MindInv, MindAt, Holding
  <2> HIDE DEF c
  <2>4. MindAt("writing", c, live)
    BY <2>1, <2>2, <2>3 DEF MindAt
  <2>5. \A u \in Trucks : Owes("flushing", call[r], u) => Owes("writing", c, u)
    BY <2>2 DEF Owes, Writes, Holding
  <2>6. Aside(r, "writing", c)
    BY <2>1, <2>4, <2>5 DEF Aside, PastAt, Tells
  <2> QED
    BY <2>6
<1>10. CASE DelayApplies(r)
  <2> DEFINE t    == call[r].truck
             next == Delayed(live[t], call[r].delay, lastSequence[t] + 1)
             c    == [call[r] EXCEPT !.next = next, !.reason = "DELAY"]
  <2>1. /\ Moves(r, "writing", c) /\ UNCHANGED <<db, timer>> /\ Free
        /\ live' = [live EXCEPT ![t] = next] /\ live[t] # Nil /\ live[t].status \in Moving
        /\ pc[r] \in {"waiting", "parked"} /\ call[r].op = "delay"
    BY <1>10 DEF DelayApplies, Moves, Put, Reaches, Accepts
  <2>2. t \in Trucks /\ call[r].delay \in Delay /\ call[r].todo = {}
    BY <1>0, <2>1 DEF HandlerOK
  <2>3. live[t] \in State /\ lastSequence[t] + 1 \in Nat
    BY <1>0, <2>1, <2>2 DEF CoreInv, TypeOK
  <2>4. next \in State /\ next.saved = live[t].saved
    <3>1. next \in State
      BY <2>2, <2>3, StateFacts
    <3>2. next.saved = live[t].saved
      BY <2>3 DEF Delayed, State
    <3> QED
      BY <3>1, <3>2
  <2>5. c.todo = {} /\ c.truck = t /\ c.next = next
    BY <1>0, <2>2 DEF Call
  <2>6. \A q \in Procs : pc[q] \notin Holding
    BY <1>0, <2>1, Held
  <2> HIDE DEF c, next
  <2>7. Takes(r, "writing", c, t, next)
    BY <2>1, <2>3, <2>4, <2>5, <2>6 DEF Takes, Tells
  <2> QED
    BY <2>2, <2>7
<1>11. ~(ResetDrained(r) \/ ResetClears(r) \/ RewindCommits(r) \/ RewindFails(r) \/ LoadFails(r))
  BY <1>0, CalmFacts DEF ResetDrained, Running, ResetClears, RewindCommits, RewindFails, LoadFails
<1> QED
  BY <1>1, <1>2, <1>3, <1>4, <1>5, <1>6, <1>7, <1>8, <1>9, <1>10, <1>11 DEF Manage

LEMMA AsideFacts ==
  ASSUME Calm, CalmInv, NEW r \in Reqs, Tell(r) \/ Handle(r)
  PROVE  \/ \E step, c : Aside(r, step, c)
         \/ \E t \in Trucks : \E step, c, next : Takes(r, step, c, t, next)
         \/ \E t \in Trucks : TrailerDocked(r, t)
         \/ Mirrors(r) \/ DirectCommits(r)
<1>0. /\ CoreInv /\ AskedInv /\ MindInv /\ r \in Procs /\ call[r] \in Call /\ ~MayFail
      /\ HandlerOK(r, pc[r], call[r])
  BY CallFacts DEF CalmInv, Procs, Calm
<1>1. ASSUME NEW op, NEW t, NEW u, NEW why, Report(r, op, t, u, why), UNCHANGED <<db, live, timer>>
      PROVE  \E step, c : Aside(r, step, c)
  <2> DEFINE c == [NoCall EXCEPT !.op = op, !.truck = t, !.saw = db[t],
                                 !.update = u, !.reason = why]
  <2>1. Moves(r, "waiting", c) /\ pc[r] = "idle"
    BY <1>1 DEF Report, Moves, Idle
  <2> HIDE DEF c
  <2>2. Aside(r, "waiting", c)
    BY <1>1, <2>1 DEF Aside, PastAt, Tells, MindAt, Owes, Writes, Holding
  <2> QED
    BY <2>2
<1>2. CASE Tell(r)
  BY <1>1, <1>2 DEF Tell, LocationUpdated, StatusUpdated, TrailerArrived
<1>3. CASE NotLive(r)
  <2> DEFINE step == IF call[r].op = "docked" THEN "announce" ELSE "direct"
  <2>1. /\ Moves(r, step, call[r]) /\ pc[r] \in {"waiting", "parked"}
        /\ UNCHANGED <<db, live, timer>> /\ live[call[r].truck] = Nil
    BY <1>0, <1>3, StayMoves DEF NotLive, Reported, Reaches, Followed, CoreInv
  <2>2. step \in {"announce", "direct"} /\ call[r].truck \in Trucks
    BY <1>0, <2>1, WaitFacts
  <2> HIDE DEF step
  <2>3. Aside(r, step, call[r])
    BY <2>1, <2>2 DEF Aside, PastAt, Tells, MindAt, Owes, Writes, Holding
  <2> QED
    BY <2>3
<1>4. CASE Announces(r)
  <2>1. Moves(r, "idle", NoCall) /\ pc[r] = "announce" /\ UNCHANGED <<db, live, timer>>
    BY <1>4, ReturnMoves DEF Announces
  <2>2. Aside(r, "idle", NoCall)
    BY <2>1 DEF Aside, PastAt, Tells, MindAt, Owes, Writes, Holding
  <2> QED
    BY <2>2
<1>5. ~FactFails(r)
  BY <1>0, CalmFacts DEF FactFails, Procs
<1>6. CASE Absorbs(r)
  <2> DEFINE t    == call[r].truck
             u    == call[r].update
             next == Absorbed(live[t], u, lastSequence[t] + 1)
             c    == [call[r] EXCEPT !.next = next]
  <2>1. /\ pc[r] \in {"waiting", "parked"} /\ call[r].op \in Facts /\ live[t] # Nil /\ Free
        /\ live' = [live EXCEPT ![t] = next] /\ Moves(r, "writing", c) /\ UNCHANGED <<db, timer>>
    BY <1>6 DEF Absorbs, Reported, Followed, Reaches, Moves, Put
  <2>2. t \in Trucks /\ u \in Update /\ Told(call[r]) /\ call[r].todo = {}
    BY <1>0, <2>1 DEF HandlerOK, AskedInv, AskedAt, Facts
  <2>3. live[t] \in State /\ lastSequence[t] + 1 \in Nat
    BY <1>0, <2>1, <2>2 DEF CoreInv, TypeOK
  <2>4. /\ next \in State /\ next.saved = live[t].saved
        /\ next.status = Or(u.status, live[t].status)
    BY <2>2, <2>3, StateFacts DEF Absorbed, State
  <2>5. c.todo = {} /\ c.truck = t /\ c.next = next /\ c.op = call[r].op
    BY <1>0, <2>2 DEF Call
  <2>6. \A q \in Procs : pc[q] \notin Holding
    BY <1>0, <2>1, Held
  <2>7. next.status \in Moving => live[t].status \in Moving \/ call[r].op = "status"
    BY <2>1, <2>2, <2>4 DEF Told, Or, Facts, Moving
  <2>8. call[r].op = "docked" => next.status \in InYard
    <3>1. Nil # "DOCKED"
      BY EngineAssumption DEF Status, InYard
    <3> QED
      BY <2>2, <2>4, <3>1 DEF Told, Or, InYard
  <2> HIDE DEF c, next
  <2>9. Takes(r, "writing", c, t, next)
    BY <2>1, <2>3, <2>4, <2>5, <2>6, <2>7, <2>8 DEF Takes, Tells
  <2> QED
    BY <2>2, <2>9
<1> QED
  BY <1>2, <1>3, <1>4, <1>5, <1>6 DEF Handle

(* The steps that are neither write a row or take up what a write or a     *)
(* load has answered.                                                      *)
LEMMA CalmSteps ==
  ASSUME Calm, CalmInv, FeedNext
  PROVE  \/ \E p \in Procs : \E step, c : Aside(p, step, c)
         \/ \E p \in Procs, t \in Trucks : \E step, c, next : Takes(p, step, c, t, next)
         \/ \E p \in Procs : PersistCommits(p) \/ PersistDone(p)
         \/ \E r \in Reqs : \/ LoadDone(r) \/ Mirrors(r) \/ DirectCommits(r)
                            \/ \E t \in Trucks : TrailerDocked(r, t)
<1>1. \A p \in Procs : ~PersistFails(p)
  BY CalmFacts DEF CalmInv, Calm, PersistFails, Procs
<1>2. Reqs \subseteq Procs
  BY DEF Procs
<1> QED
  BY <1>1, <1>2, AsideTicks, AsideManages, AsideFacts DEF FeedNext, Next, Persist
-----------------------------------------------------------------------------
(* Nothing is lost while it is calm *)

(* A handler that writes has its truck in memory. *)
LEMMA WriterMinds ==
  ASSUME CoreInv, MindInv, NEW p \in Procs, pc[p] \in {"writing", "written"}
  PROVE  /\ call[p] \in Call /\ HandlerOK(p, pc[p], call[p])
         /\ call[p].truck \in Trucks /\ call[p].truck \notin call[p].todo
         /\ call[p].next \in State /\ live[call[p].truck] = call[p].next
         /\ live[call[p].truck] # Nil
         /\ \A q \in Procs : q # p => pc[q] \notin Holding /\ pc[q] # "loading"
<1>1. call[p] \in Call /\ HandlerOK(p, pc[p], call[p])
  BY CallFacts
<1>2. /\ call[p].truck \in Trucks /\ call[p].truck \notin call[p].todo
      /\ call[p].next \in State /\ live[call[p].truck] = call[p].next
  BY <1>1 DEF HandlerOK, MindInv, MindAt
<1>3. live[call[p].truck] # Nil
  BY <1>2, EngineAssumption
<1>4. ASSUME NEW q \in Procs PROVE pc[q] # "loading"
  BY <1>2, <1>3 DEF MindInv, MindAt, Nothing
<1>5. \A q \in Procs : q # p => pc[q] \notin Holding
  BY Held DEF Holding
<1> QED
  BY <1>1, <1>2, <1>3, <1>4, <1>5

LEMMA MindKept ==
  ASSUME CoreInv, MindInv, NEW p \in Procs, NEW step, NEW c, Moves(p, step, c),
         MindAt(step, c, live'),
         \/ UNCHANGED live
         \/ \A q \in Procs : q # p => pc[q] \notin Holding /\ pc[q] # "loading"
  PROVE  MindInv'
<1>1. \A q \in Procs : q # p => MindAt(pc[q], call[q], live')
  BY DEF MindInv, MindAt, Holding
<1> QED
  BY <1>1, OneMoves DEF MindInv

(* The answer of a write is taken up: its truck is clean, the others are   *)
(* as they were, and the barrier's holder goes on or gives it back.        *)
LEMMA DoneTakes ==
  ASSUME CoreInv, MindInv, NEW p \in Procs, PersistDone(p)
  PROVE  /\ pc[p] = "written" /\ call[p].truck \in Trucks
         /\ live' = [live EXCEPT ![call[p].truck] = Saved(call[p].next)]
         /\ UNCHANGED <<db, timer>>
         /\ \/ \E step \in {"ticking", "flushing", "absorbed"} : Moves(p, step, call[p])
            \/ Moves(p, "idle", NoCall) /\ call[p].op = "delay"
<1>1. pc[p] = "written" /\ Continue(p) /\ call[p].truck \in Trucks
  BY WriterMinds DEF PersistDone
<1>2. \/ \E step \in {"ticking", "flushing", "absorbed"} : Moves(p, step, call[p])
      \/ Moves(p, "idle", NoCall) /\ call[p].op = "delay"
  BY <1>1, StayMoves, ReturnMoves DEF Continue, CoreInv
<1> QED
  BY <1>1, <1>2 DEF PersistDone

(* A load finds memory empty, and nobody at the barrier with a truck. *)
LEMMA LoadMinds ==
  ASSUME Calm, CalmInv, NEW r \in Reqs, LoadDone(r)
  PROVE  /\ live = Nothing /\ timer' = TRUE /\ UNCHANGED db
         /\ Moves(r, "idle", NoCall)
         /\ \A q \in Procs : q # r => pc[q] \notin {"loading", "writing", "written"}
         /\ \A q \in Procs : pc[q] \in Holding => call[q].todo = {}
<1>0. CoreInv /\ AskedInv /\ MindInv /\ r \in Procs /\ pc[r] = "loading"
  BY DEF CalmInv, Procs, LoadDone
<1>1. live = Nothing /\ call[r].op = "start"
  BY <1>0, CalmFacts DEF MindInv, MindAt
<1>2. timer' = TRUE /\ UNCHANGED db /\ Moves(r, "idle", NoCall)
  BY <1>1, ReturnMoves DEF LoadDone, Finish
<1>3. ASSUME NEW q \in Procs, q # r PROVE pc[q] \notin {"loading", "writing", "written"}
  <2>1. CASE pc[q] = "loading"
    <3>1. q \in Reqs
      BY <1>0, <2>1, LifeReqs, CalmFacts DEF LifeOps
    <3> QED
      BY <1>0, <1>3, <2>1, <3>1, DeepFacts DEF Deep
  <2>2. CASE pc[q] \in {"writing", "written"}
    BY <1>0, <1>1, <2>2, WriterMinds DEF Nothing
  <2> QED
    BY <2>1, <2>2
<1>4. ASSUME NEW q \in Procs, pc[q] \in Holding PROVE call[q].todo = {}
  <2>1. HandlerOK(q, pc[q], call[q]) /\ call[q] \in Call
    BY <1>0, CallFacts
  <2>2. ASSUME NEW t \in call[q].todo PROVE FALSE
    <3>1. t \in Trucks /\ call[q].seen[t] \in State
      BY <2>1 DEF HandlerOK, Call
    <3>2. live[t] = call[q].seen[t]
      BY <1>0, <1>4 DEF MindInv, MindAt
    <3> QED
      BY <1>1, <3>1, <3>2, EngineAssumption DEF Nothing
  <2> QED
    BY <2>2
<1> QED
  BY <1>0, <1>1, <1>2, <1>3, <1>4

(* The steps of the WMS's handlers that write a row. *)
LEMMA FactWrites ==
  ASSUME CoreInv, NEW r \in Reqs,
         Mirrors(r) \/ DirectCommits(r) \/ \E t \in Trucks : TrailerDocked(r, t)
  PROVE  /\ UNCHANGED <<live, timer>> /\ pc[r] \in {"idle", "absorbed", "direct"}
         /\ \E step \in {"idle", "waiting", "announce"} : \E c : Moves(r, step, c)
BY ReturnMoves DEF Mirrors, DirectCommits, TrailerDocked, Report, Idle, Moves

LEMMA MindStep ==
  ASSUME Calm, CalmInv, [FeedNext]_vars
  PROVE  MindInv'
<1>0. CoreInv /\ MindInv /\ CoreInv' /\ live \in [Trucks -> State \cup {Nil}]
  BY CoreStep DEF CalmInv, CoreInv, TypeOK
<1>1. CASE UNCHANGED vars
  BY <1>0, <1>1 DEF vars, MindInv
<1>2. ASSUME NEW p \in Procs, NEW step, NEW c, Aside(p, step, c) PROVE MindInv'
  BY <1>0, <1>2, MindKept DEF Aside
<1>3. ASSUME NEW p \in Procs, NEW t \in Trucks, NEW step, NEW c, NEW next,
             Takes(p, step, c, t, next)
      PROVE  MindInv'
  <2>1. c \in Call /\ c.todo \subseteq Trucks
    BY <1>0, <1>3, OneMoves DEF Takes, CoreInv, TypeOK, Call
  <2>2. MindAt(step, c, live')
    BY <1>0, <1>3, <2>1 DEF Takes, MindAt
  <2>3. \A q \in Procs : pc[q] # "loading"
    BY <1>0, <1>3, EngineAssumption DEF Takes, MindInv, MindAt, Nothing
  <2> QED
    BY <1>0, <1>3, <2>2, <2>3, MindKept DEF Takes
<1>4. ASSUME NEW p \in Procs, PersistCommits(p) PROVE MindInv'
  <2>1. Moves(p, "written", call[p]) /\ UNCHANGED live /\ pc[p] = "writing"
    BY <1>0, <1>4, StayMoves DEF PersistCommits, CoreInv
  <2>2. MindAt("written", call[p], live)
    BY <1>0, <2>1 DEF MindInv, MindAt, Holding
  <2> QED
    BY <1>0, <2>1, <2>2, MindKept
<1>5. ASSUME NEW p \in Procs, PersistDone(p) PROVE MindInv'
  <2>1. /\ pc[p] = "written" /\ call[p].truck \in Trucks
        /\ live' = [live EXCEPT ![call[p].truck] = Saved(call[p].next)]
    BY <1>0, <1>5, DoneTakes
  <2>2. /\ call[p].truck \notin call[p].todo /\ call[p].todo \subseteq Trucks
        /\ \A q \in Procs : q # p => pc[q] \notin Holding /\ pc[q] # "loading"
    BY <1>0, <2>1, WriterMinds DEF Call
  <2>3. \A t \in call[p].todo : live'[t] = call[p].seen[t]
    BY <1>0, <2>1, <2>2 DEF MindInv, MindAt, Holding
  <2>4. CASE \E step \in {"ticking", "flushing", "absorbed"} : Moves(p, step, call[p])
    <3>1. \A step \in {"ticking", "flushing", "absorbed"} : MindAt(step, call[p], live')
      BY <2>3 DEF MindAt
    <3> QED
      BY <1>0, <2>2, <2>4, <3>1, MindKept
  <2>5. CASE Moves(p, "idle", NoCall)
    <3>1. MindAt("idle", NoCall, live')
      BY DEF MindAt, Holding
    <3> QED
      BY <1>0, <2>2, <2>5, <3>1, MindKept
  <2> QED
    BY <1>0, <1>5, <2>4, <2>5, DoneTakes
<1>6. ASSUME NEW r \in Reqs, LoadDone(r) PROVE MindInv'
  <2>1. /\ r \in Procs /\ Moves(r, "idle", NoCall)
        /\ \A q \in Procs : q # r => pc[q] \notin {"loading", "writing", "written"}
        /\ \A q \in Procs : pc[q] \in Holding => call[q].todo = {}
    BY <1>6, LoadMinds DEF Procs
  <2>2. \A q \in Procs : q # r => MindAt(pc[q], call[q], live')
    BY <2>1 DEF MindAt
  <2>3. MindAt("idle", NoCall, live')
    BY DEF MindAt, Holding
  <2> QED
    BY <1>0, <2>1, <2>2, <2>3, OneMoves DEF MindInv
<1>7. ASSUME NEW r \in Reqs,
             Mirrors(r) \/ DirectCommits(r) \/ \E t \in Trucks : TrailerDocked(r, t)
      PROVE  MindInv'
  <2>1. PICK step \in {"idle", "waiting", "announce"} : \E c : Moves(r, step, c)
    BY <1>0, <1>7, FactWrites
  <2>2. PICK c : Moves(r, step, c)
    BY <2>1
  <2>3. MindAt(step, c, live) /\ UNCHANGED live /\ r \in Procs
    BY <1>0, <1>7, <2>1, FactWrites DEF MindAt, Holding, Procs
  <2> QED
    BY <1>0, <2>2, <2>3, MindKept
<1> QED
  BY <1>1, <1>2, <1>3, <1>4, <1>5, <1>6, <1>7, CalmSteps

LEMMA DirtyStep ==
  ASSUME Calm, CalmInv, [FeedNext]_vars
  PROVE  DirtyInv'
<1>0. CoreInv /\ MindInv /\ DirtyInv /\ live \in [Trucks -> State \cup {Nil}]
  BY DEF CalmInv, CoreInv, TypeOK
<1>1. CASE UNCHANGED vars
  BY <1>0, <1>1 DEF vars, DirtyInv, Dirty
(* One handler moves; what it owed it owes still, or the loop runs. *)
<1>2. ASSUME NEW p \in Procs, NEW step, NEW c, Moves(p, step, c),
             \A t \in Trucks : Dirty(t)' =>
               \/ timer' \/ Owes(step, c, t)
               \/ \E q \in Procs : q # p /\ Owes(pc[q], call[q], t)
      PROVE  DirtyInv'
  <2> SUFFICES ASSUME NEW t \in Trucks, Dirty(t)'
               PROVE  timer' \/ \E q \in Procs : Owes(pc'[q], call'[q], t)
    BY DEF DirtyInv
  <2>1. CASE Owes(step, c, t)
    BY <1>0, <1>2, <2>1, OneMoves
  <2>2. ASSUME NEW q \in Procs, q # p, Owes(pc[q], call[q], t)
        PROVE  Owes(pc'[q], call'[q], t)
    BY <1>0, <1>2, <2>2, OneMoves
  <2> QED
    BY <1>2, <2>1, <2>2
<1>3. ASSUME NEW p \in Procs, NEW step, NEW c, Aside(p, step, c) PROVE DirtyInv'
  <2>1. Moves(p, step, c) /\ UNCHANGED live
    BY <1>3 DEF Aside
  <2> SUFFICES ASSUME NEW t \in Trucks, Dirty(t)'
               PROVE  \/ timer' \/ Owes(step, c, t)
                      \/ \E q \in Procs : q # p /\ Owes(pc[q], call[q], t)
    BY <1>2, <2>1
  <2>2. Dirty(t)
    BY <2>1 DEF Dirty
  <2>3. timer \/ \E q \in Procs : Owes(pc[q], call[q], t)
    BY <1>0, <2>2 DEF DirtyInv
  <2>4. timer \/ Owes(pc[p], call[p], t) => timer' \/ Owes(step, c, t)
    BY <1>3, <2>2 DEF Aside
  <2> QED
    BY <2>3, <2>4
<1>4. ASSUME NEW p \in Procs, NEW t \in Trucks, NEW step, NEW c, NEW next,
             Takes(p, step, c, t, next)
      PROVE  DirtyInv'
  <2>1. Moves(p, step, c) /\ UNCHANGED timer /\ pc[p] \in {"ticking", "waiting", "parked"}
    BY <1>4 DEF Takes
  <2> SUFFICES ASSUME NEW u \in Trucks, Dirty(u)'
               PROVE  \/ timer' \/ Owes(step, c, u)
                      \/ \E q \in Procs : q # p /\ Owes(pc[q], call[q], u)
    BY <1>2, <2>1
  <2>2. CASE u = t /\ step = "writing"
    BY <1>4, <2>2 DEF Takes, Owes, Writes
  <2>3. CASE u = t /\ step # "writing"
    <3>1. (p = Ticker /\ timer) \/ \E r \in Reqs : pc[r] = "draining"
      BY <1>0, <1>4, <2>1, <2>3 DEF Takes, CoreInv, TimerInv
    <3>2. \A r \in Reqs : r \in Procs /\ (pc[r] = "draining" => r # p)
      BY <2>1 DEF Procs
    <3> QED
      BY <2>1, <3>1, <3>2 DEF Owes
  <2>4. CASE u # t
    <3>1. Dirty(u)
      BY <1>0, <1>4, <2>4 DEF Takes, Dirty
    <3>2. ~Owes(pc[p], call[p], u)
      <4>1. HandlerOK(p, pc[p], call[p])
        BY <1>0, CallFacts
      <4>2. call[p].op = "stop" => pc[p] \notin {"ticking", "waiting", "parked"}
        BY <4>1 DEF HandlerOK, Route
      <4> QED
        BY <2>1, <4>2 DEF Owes, Writes
    <3> QED
      BY <1>0, <2>1, <3>1, <3>2 DEF DirtyInv
  <2> QED
    BY <2>2, <2>3, <2>4
<1>5. ASSUME NEW p \in Procs, PersistCommits(p) PROVE DirtyInv'
  <2>1. /\ Moves(p, "written", call[p]) /\ UNCHANGED <<live, timer>> /\ pc[p] = "writing"
    BY <1>0, <1>5, StayMoves DEF PersistCommits, CoreInv
  <2>2. \A t \in Trucks : Owes("writing", call[p], t) => Owes("written", call[p], t)
    BY DEF Owes, Writes, Holding
  <2>3. \A t \in Trucks : Dirty(t)' => Dirty(t)
    BY <2>1 DEF Dirty
  <2> QED
    BY <1>0, <1>2, <2>1, <2>2, <2>3 DEF DirtyInv
<1>6. ASSUME NEW p \in Procs, PersistDone(p) PROVE DirtyInv'
  <2>1. /\ pc[p] = "written" /\ call[p].truck \in Trucks /\ call[p].next \in State
        /\ live' = [live EXCEPT ![call[p].truck] = Saved(call[p].next)] /\ UNCHANGED timer
    BY <1>0, <1>6, DoneTakes, WriterMinds
  <2>2. \A t \in Trucks : Dirty(t)' => t # call[p].truck /\ Dirty(t)
    BY <1>0, <2>1 DEF Dirty, Saved, State
  <2>3. ASSUME NEW t \in Trucks, t # call[p].truck, Owes("written", call[p], t)
        PROVE  call[p].op = "stop" /\ \A step \in Holding : Owes(step, call[p], t)
    BY <2>3 DEF Owes, Writes
  <2>4. ASSUME NEW step \in {"ticking", "flushing", "absorbed"}, Moves(p, step, call[p])
        PROVE  DirtyInv'
    <3>1. CASE call[p].op = "stop"
      <4>1. step \in Holding
        <5>1. pc'[p] = step
          BY <1>0, <2>4, OneMoves
        <5>2. pc'[p] = "flushing"
          BY <1>0, <1>6, <3>1 DEF PersistDone, Continue, Goto, CoreInv, TypeOK
        <5> QED
          BY <5>1, <5>2 DEF Holding
      <4> QED
        BY <1>0, <1>2, <2>1, <2>2, <2>3, <2>4, <4>1 DEF DirtyInv
    <3>2. CASE call[p].op # "stop"
      BY <1>0, <1>2, <2>1, <2>2, <2>3, <2>4, <3>2 DEF DirtyInv
    <3> QED
      BY <3>1, <3>2
  <2>5. CASE Moves(p, "idle", NoCall) /\ call[p].op = "delay"
    BY <1>0, <1>2, <2>1, <2>2, <2>3, <2>5 DEF DirtyInv
  <2> QED
    BY <1>0, <1>6, <2>4, <2>5, DoneTakes
<1>7. ASSUME NEW r \in Reqs, LoadDone(r) PROVE DirtyInv'
  BY <1>7, LoadMinds DEF DirtyInv
<1>8. ASSUME NEW r \in Reqs,
             Mirrors(r) \/ DirectCommits(r) \/ \E t \in Trucks : TrailerDocked(r, t)
      PROVE  DirtyInv'
  <2>1. PICK step \in {"idle", "waiting", "announce"} : \E c : Moves(r, step, c)
    BY <1>0, <1>8, FactWrites
  <2>2. PICK c : Moves(r, step, c)
    BY <2>1
  <2>3. UNCHANGED <<live, timer>> /\ r \in Procs /\ pc[r] \in {"idle", "absorbed", "direct"}
    BY <1>0, <1>8, FactWrites DEF Procs
  <2>4. \A t \in Trucks : ~Owes(pc[r], call[r], t) /\ (Dirty(t)' => Dirty(t))
    BY <2>3 DEF Owes, Writes, Holding, Dirty
  <2> QED
    BY <1>0, <1>2, <2>2, <2>3, <2>4 DEF DirtyInv
<1> QED
  BY <1>1, <1>3, <1>4, <1>5, <1>6, <1>7, <1>8, CalmSteps

LEMMA CalmInit ==
  ASSUME Init
  PROVE  CalmInv
<1>1. AskedAt("idle", NoCall)
  BY DEF AskedAt, NoCall
<1>2. MindAt("idle", NoCall, live)
  BY DEF MindAt, Holding
<1>3. DirtyInv
  <2>1. \A t \in Trucks : live[t] # Nil => ~live[t].dirty
    BY DEF Init, Loaded
  <2> QED
    BY <2>1 DEF DirtyInv, Dirty
<1> QED
  BY <1>1, <1>2, <1>3, CoreInit DEF Init, CalmInv, AskedInv, MindInv

LEMMA CalmStep ==
  ASSUME Calm, CalmInv, [FeedNext]_vars
  PROVE  CalmInv'
BY CoreStep, AskedStep, MindStep, DirtyStep DEF CalmInv

LEMMA SavedFromCalm ==
  ASSUME CalmInv
  PROVE  StoppedIsSaved
<1> SUFFICES ASSUME ~timer, lifecycle = <<>>, Free, NEW t \in Trucks, live[t] # Nil
             PROVE  ~live[t].dirty
  BY DEF StoppedIsSaved
<1>1. \A p \in Procs : pc[p] \notin Holding
  BY Held DEF CalmInv
<1>2. ASSUME NEW p \in Procs PROVE pc[p] # "draining"
  <2>1. CASE p \in Reqs
    <3>1. Current(p) => AtHead(p)
      BY <2>1, CurrentFacts DEF CalmInv
    <3> QED
      BY <3>1 DEF Current, AtHead
  <2>2. CASE p = Ticker
    BY <1>1, <2>2, TickHolds DEF CalmInv
  <2> QED
    BY <2>1, <2>2 DEF Procs
<1> QED
  BY <1>1, <1>2 DEF CalmInv, DirtyInv, Dirty, Owes, Writes, Holding

(* stop() loses nothing, nor does a start or a fact that comes before or   *)
(* after it: whenever the loop is off, the queue empty and the barrier     *)
(* free, every state in memory is in the database, as long as no database  *)
(* call fails and nobody rewinds the world under a write.                  *)
THEOREM StopSaves ==
  ASSUME Calm
  PROVE  FeedSpec => []StoppedIsSaved
<1>1. CalmInv /\ [FeedNext]_vars => CalmInv'
  BY CalmStep
<1> QED
  BY <1>1, CalmInit, SavedFromCalm, PTL DEF FeedSpec
-----------------------------------------------------------------------------
(* Memory and the rows tell one story while it is steady *)

(* No load comes: there are live trucks already. *)
LEMMA SteadyLoads ==
  ASSUME Steady, CalmInv, FixedInv, NEW r \in Reqs
  PROVE  ~LoadDone(r)
BY LoadMinds DEF Steady, FixedInv, Nothing

(* Of a live truck, what the WMS's handlers write themselves is that it is *)
(* docked, of which they tell the engine afterwards.                       *)
LEMMA FactRows ==
  ASSUME CoreInv, FixedInv, NEW r \in Reqs,
         Mirrors(r) \/ DirectCommits(r) \/ \E t \in Trucks : TrailerDocked(r, t)
  PROVE  /\ UNCHANGED live /\ pc[r] \in {"idle", "absorbed", "direct"}
         /\ \E step \in {"idle", "waiting", "announce"} : \E c :
              /\ Moves(r, step, c) /\ PastAt(step, c)
              /\ \A t \in Trucks : live[t] # Nil =>
                   \/ db'[t].status = db[t].status /\ db'[t].progress = db[t].progress
                   \/ db'[t].status = "DOCKED" /\ db'[t].progress = Far /\ Tells(step, c, t)
<1>0. db \in [Trucks -> Row] /\ r \in Procs
  BY DEF CoreInv, TypeOK, Procs
<1>1. CASE Mirrors(r)
  <2>1. /\ UNCHANGED live /\ pc[r] = "absorbed" /\ Moves(r, "idle", NoCall)
        /\ UNCHANGED db \/ db' = [db EXCEPT ![call[r].truck].ship = Mirrored(r, @)]
    BY <1>1, ReturnMoves DEF Mirrors
  <2>2. call[r].truck \in Trucks
    BY <2>1, FactFacts
  <2>3. \A t \in Trucks : db'[t].status = db[t].status /\ db'[t].progress = db[t].progress
    BY <1>0, <2>1, <2>2 DEF Row
  <2> QED
    BY <2>1, <2>3 DEF PastAt
<1>2. CASE DirectCommits(r)
  <2> DEFINE c == [call[r] EXCEPT !.update.status = db'[call[r].truck].status]
  <2>1. /\ UNCHANGED live /\ pc[r] = "direct" /\ Moves(r, "announce", c)
        /\ \A t \in Trucks : t # call[r].truck => db'[t] = db[t]
    BY <1>0, <1>2 DEF DirectCommits, Moves
  <2>2. call[r].truck \in Trucks /\ live[call[r].truck] = Nil
    BY <1>0, <2>1 DEF FixedInv, PastAt
  <2>3. c.truck = call[r].truck
    BY <2>1, FactFacts DEF Call
  <2> HIDE DEF c
  <2> QED
    BY <2>1, <2>2, <2>3 DEF PastAt
<1>3. ASSUME NEW t \in Trucks, TrailerDocked(r, t)
      PROVE  /\ UNCHANGED live /\ pc[r] = "idle"
             /\ \E c : /\ Moves(r, "waiting", c)
                       /\ \A u \in Trucks :
                            \/ db'[u].status = db[u].status /\ db'[u].progress = db[u].progress
                            \/ /\ db'[u].status = "DOCKED" /\ db'[u].progress = Far
                               /\ Tells("waiting", c, u)
  <2> DEFINE u == [status |-> "DOCKED", delay |-> "NORMAL", progress |-> Far]
             c == [NoCall EXCEPT !.op = "docked", !.truck = t, !.saw = db[t],
                                 !.update = u, !.reason = "none"]
  <2>1. /\ UNCHANGED live /\ pc[r] = "idle" /\ Moves(r, "waiting", c)
        /\ db' = [db EXCEPT ![t].status = "DOCKED", ![t].progress = Far, ![t].ship = "DOCKED"]
    BY <1>3 DEF TrailerDocked, Report, Idle, Moves
  <2>2. c.truck = t /\ c.op = "docked"
    BY DEF NoCall
  <2> HIDE DEF c
  <2>3. db'[t].status = "DOCKED" /\ db'[t].progress = Far
    BY <1>0, <2>1 DEF Row
  <2>4. \A v \in Trucks : v # t => db'[v] = db[v]
    BY <1>0, <2>1
  <2> QED
    BY <2>1, <2>2, <2>3, <2>4 DEF Tells
<1> QED
  BY <1>1, <1>2, <1>3 DEF PastAt

LEMMA FixedKept ==
  ASSUME CoreInv, FixedInv, NEW p \in Procs, NEW step, NEW c, Moves(p, step, c),
         PastAt(step, c), \A t \in Trucks : live'[t] # Nil <=> live[t] # Nil
  PROVE  FixedInv'
<1>1. \A t \in Trucks : live'[t] # Nil <=> World[t].status \in Moving
  BY DEF FixedInv
<1>2. ASSUME NEW q \in Procs PROVE PastAt(pc[q], call[q])
  BY DEF FixedInv
<1>3. \A q \in Procs : PastAt(pc'[q], call'[q])
  BY <1>2, OneMoves
<1>4. \A q \in Procs : PastAt(pc[q], call[q])'
  BY <1>3 DEF PastAt
<1> QED
  BY <1>1, <1>4 DEF FixedInv

LEMMA FixedStep ==
  ASSUME Steady, CalmInv, FixedInv, [FeedNext]_vars
  PROVE  FixedInv'
<1>0. /\ CoreInv /\ MindInv /\ Calm /\ Nil \notin State
      /\ live \in [Trucks -> State \cup {Nil}]
  BY EngineAssumption DEF CalmInv, CoreInv, TypeOK, Steady
<1>1. CASE UNCHANGED vars
  BY <1>1 DEF vars, FixedInv, PastAt
<1>2. ASSUME NEW p \in Procs, NEW step, NEW c, Aside(p, step, c) PROVE FixedInv'
  BY <1>0, <1>2, FixedKept DEF Aside
<1>3. ASSUME NEW p \in Procs, NEW t \in Trucks, NEW step, NEW c, NEW next,
             Takes(p, step, c, t, next)
      PROVE  FixedInv'
  <2>1. Moves(p, step, c) /\ PastAt(step, c)
    BY <1>3 DEF Takes, PastAt
  <2>2. \A u \in Trucks : live'[u] # Nil <=> live[u] # Nil
    BY <1>0, <1>3 DEF Takes
  <2> QED
    BY <1>0, <2>1, <2>2, FixedKept
<1>4. ASSUME NEW p \in Procs, PersistCommits(p) PROVE FixedInv'
  <2>1. Moves(p, "written", call[p]) /\ UNCHANGED live
    BY <1>0, <1>4, StayMoves DEF PersistCommits, CoreInv
  <2> QED
    BY <1>0, <2>1, FixedKept DEF PastAt
<1>5. ASSUME NEW p \in Procs, PersistDone(p) PROVE FixedInv'
  <2>1. /\ pc[p] = "written" /\ call[p].truck \in Trucks
        /\ live' = [live EXCEPT ![call[p].truck] = Saved(call[p].next)]
    BY <1>0, <1>5, DoneTakes
  <2>2. Saved(call[p].next) \in State /\ live[call[p].truck] # Nil
    BY <1>0, <2>1, WriterMinds, StateFacts
  <2>3. \A u \in Trucks : live'[u] # Nil <=> live[u] # Nil
    BY <1>0, <2>1, <2>2
  <2>4. \E step \in {"ticking", "flushing", "absorbed", "idle"} : \E c : Moves(p, step, c)
    BY <1>0, <1>5, DoneTakes
  <2> QED
    BY <1>0, <2>3, <2>4, FixedKept DEF PastAt
<1>6. ASSUME NEW r \in Reqs,
             Mirrors(r) \/ DirectCommits(r) \/ \E t \in Trucks : TrailerDocked(r, t)
      PROVE  FixedInv'
  <2>1. r \in Procs /\ UNCHANGED live /\ \E step, c : Moves(r, step, c) /\ PastAt(step, c)
    BY <1>0, <1>6, FactRows DEF Procs
  <2> QED
    BY <1>0, <2>1, FixedKept
<1> QED
  BY <1>0, <1>1, <1>2, <1>3, <1>4, <1>5, <1>6, CalmSteps, SteadyLoads

LEMMA AgreeStep ==
  ASSUME Steady, CalmInv, FixedInv, AgreeInv, [FeedNext]_vars
  PROVE  AgreeInv'
<1>0. /\ CoreInv /\ MindInv /\ Calm /\ Nil \notin State /\ Moving \cap InYard = {}
      /\ live \in [Trucks -> State \cup {Nil}] /\ db \in [Trucks -> Row]
  BY EngineAssumption DEF CalmInv, CoreInv, TypeOK, Steady, Moving, InYard
<1>1. CASE UNCHANGED vars
  BY <1>1 DEF vars, AgreeInv
(* One handler moves; of each truck either nothing changes in memory or in *)
(* its row, and the one who moves was not about to tell, or it tells now.  *)
<1>2. ASSUME NEW p \in Procs, NEW step, NEW c, Moves(p, step, c),
             \A t \in Trucks : live'[t] # Nil =>
               /\ live'[t].status \in Moving /\ db'[t].status \in InYard =>
                    \/ Tells(step, c, t)
                    \/ /\ live[t] # Nil /\ live[t].status \in Moving /\ db[t].status \in InYard
                       /\ ~Tells(pc[p], call[p], t)
               /\ live'[t].status \in InYard /\ db'[t].status \in Moving =>
                    \/ step = "writing" /\ c.truck = t
                    \/ /\ live[t] # Nil /\ live[t].status \in InYard /\ db[t].status \in Moving
                       /\ ~(pc[p] = "writing" /\ call[p].truck = t)
      PROVE  AgreeInv'
  <2> SUFFICES ASSUME NEW t \in Trucks, live'[t] # Nil
               PROVE  /\ live'[t].status \in Moving /\ db'[t].status \in InYard =>
                           \E q \in Procs : Tells(pc'[q], call'[q], t)
                      /\ live'[t].status \in InYard /\ db'[t].status \in Moving =>
                           \E q \in Procs : pc'[q] = "writing" /\ call'[q].truck = t
    BY DEF AgreeInv
  <2>1. ASSUME live'[t].status \in Moving, db'[t].status \in InYard
        PROVE  \E q \in Procs : Tells(pc'[q], call'[q], t)
    <3>1. CASE Tells(step, c, t)
      BY <1>0, <1>2, <3>1, OneMoves
    <3>2. CASE ~Tells(step, c, t)
      <4>1. PICK q \in Procs : Tells(pc[q], call[q], t)
        BY <1>2, <2>1, <3>2 DEF AgreeInv
      <4>2. q # p
        BY <1>2, <2>1, <3>2, <4>1
      <4> QED
        BY <1>0, <1>2, <4>1, <4>2, OneMoves
    <3> QED
      BY <3>1, <3>2
  <2>2. ASSUME live'[t].status \in InYard, db'[t].status \in Moving
        PROVE  \E q \in Procs : pc'[q] = "writing" /\ call'[q].truck = t
    <3>1. CASE step = "writing" /\ c.truck = t
      BY <1>0, <1>2, <3>1, OneMoves
    <3>2. CASE ~(step = "writing" /\ c.truck = t)
      <4>1. PICK q \in Procs : pc[q] = "writing" /\ call[q].truck = t
        BY <1>2, <2>2, <3>2 DEF AgreeInv
      <4>2. q # p
        BY <1>2, <2>2, <3>2, <4>1
      <4> QED
        BY <1>0, <1>2, <4>1, <4>2, OneMoves
    <3> QED
      BY <3>1, <3>2
  <2> QED
    BY <2>1, <2>2
<1>3. ASSUME NEW p \in Procs, NEW step, NEW c, Aside(p, step, c) PROVE AgreeInv'
  <2>1. Moves(p, step, c) /\ UNCHANGED <<db, live>> /\ pc[p] # "writing"
    BY <1>3 DEF Aside
  <2>2. \A t \in Trucks : live[t] # Nil /\ Tells(pc[p], call[p], t) => Tells(step, c, t)
    BY <1>3 DEF Aside
  <2> QED
    BY <1>2, <2>1, <2>2
<1>4. ASSUME NEW p \in Procs, NEW t \in Trucks, NEW step, NEW c, NEW next,
             Takes(p, step, c, t, next)
      PROVE  AgreeInv'
  <2>1. /\ Moves(p, step, c) /\ UNCHANGED db /\ live[t] # Nil /\ pc[p] # "writing"
        /\ live'[t] = next /\ \A u \in Trucks : u # t => live'[u] = live[u]
        /\ next.status \in InYard => step = "writing" /\ c.truck = t
        /\ next.status \in Moving => live[t].status \in Moving \/ Tells(step, c, t)
        /\ \A u \in Trucks : Tells(pc[p], call[p], u) => u = t /\ next.status \in InYard
    BY <1>0, <1>4 DEF Takes
  <2> QED
    BY <1>0, <1>2, <2>1
<1>5. ASSUME NEW p \in Procs, PersistCommits(p) PROVE AgreeInv'
  <2> DEFINE t == call[p].truck
  <2>1. Moves(p, "written", call[p]) /\ UNCHANGED live /\ pc[p] = "writing"
    BY <1>0, <1>5, StayMoves DEF PersistCommits, CoreInv
  <2>2. t \in Trucks /\ live[t] = call[p].next
    BY <1>0, <2>1, WriterMinds
  <2>3. db'[t].status = live[t].status /\ \A u \in Trucks : u # t => db'[u] = db[u]
    BY <1>0, <1>5, <2>2 DEF PersistCommits
  <2>4. \A u \in Trucks : Tells(pc[p], call[p], u) => u = t
    BY DEF Tells
  <2> HIDE DEF t
  <2> QED
    BY <1>0, <1>2, <2>1, <2>3, <2>4 DEF t
<1>6. ASSUME NEW p \in Procs, PersistDone(p) PROVE AgreeInv'
  <2> DEFINE t == call[p].truck
  <2>1. /\ pc[p] = "written" /\ t \in Trucks /\ UNCHANGED db
        /\ live' = [live EXCEPT ![t] = Saved(call[p].next)]
    BY <1>0, <1>6, DoneTakes
  <2>2. live[t] # Nil /\ live[t] = call[p].next /\ call[p].next \in State
    BY <1>0, <2>1, WriterMinds
  <2>3. \A u \in Trucks : live'[u] # Nil => live[u] # Nil /\ live'[u].status = live[u].status
    BY <1>0, <2>1, <2>2 DEF Saved, State
  <2>4. \E step, c : Moves(p, step, c)
    BY <1>0, <1>6, DoneTakes
  <2>5. \A u \in Trucks : ~Tells(pc[p], call[p], u)
    BY <2>1 DEF Tells
  <2> HIDE DEF t
  <2> QED
    BY <1>2, <2>1, <2>3, <2>4, <2>5
<1>7. ASSUME NEW r \in Reqs,
             Mirrors(r) \/ DirectCommits(r) \/ \E t \in Trucks : TrailerDocked(r, t)
      PROVE  AgreeInv'
  <2>1. PICK step, c :
          /\ Moves(r, step, c)
          /\ \A t \in Trucks : live[t] # Nil =>
               \/ db'[t].status = db[t].status /\ db'[t].progress = db[t].progress
               \/ db'[t].status = "DOCKED" /\ db'[t].progress = Far /\ Tells(step, c, t)
    BY <1>0, <1>7, FactRows
  <2>2. UNCHANGED live /\ r \in Procs /\ pc[r] \in {"idle", "absorbed", "direct"}
    BY <1>0, <1>7, FactRows DEF Procs
  <2>3. \A t \in Trucks : ~Tells(pc[r], call[r], t)
    BY <2>2 DEF Tells
  <2> QED
    BY <1>0, <1>2, <2>1, <2>2, <2>3 DEF Moving
<1> QED
  BY <1>0, <1>1, <1>3, <1>4, <1>5, <1>6, <1>7, CalmSteps, SteadyLoads
(* Nobody is writing truck t's snapshot, or has written it and not yet     *)
(* taken up the answer.                                                    *)
Unwritten(t) == \A p \in Procs : ~(pc[p] = "written" /\ call[p].truck = t)
Settled(t)   == \A p \in Procs : ~Writes(pc[p], call[p], t)

LEMMA PaceStep ==
  ASSUME Steady, CalmInv, FixedInv, PaceInv, [FeedNext]_vars
  PROVE  PaceInv'
<1>0. /\ CoreInv /\ MindInv /\ Calm /\ Nil \notin State
      /\ live \in [Trucks -> State \cup {Nil}] /\ db \in [Trucks -> Row]
      /\ CheckpointStep \in Nat \ {0} /\ Far \in Nat
  BY EngineAssumption DEF CalmInv, CoreInv, TypeOK, Steady
<1>1. CASE UNCHANGED vars
  BY <1>1 DEF vars, PaceInv
<1>2. \A t \in Trucks : live[t] # Nil =>
        /\ Unwritten(t) => live[t].saved <= db[t].progress
        /\ Settled(t) => live[t].progress - live[t].saved < CheckpointStep
  BY DEF PaceInv, Unwritten, Settled
(* One handler moves, which was not taking up the answer of a write to a   *)
(* truck that stays as it is.                                              *)
<1>3. ASSUME NEW p \in Procs, NEW step, NEW c, Moves(p, step, c),
             \A t \in Trucks : live'[t] # Nil =>
               /\ (step = "written" /\ c.truck = t) \/ live'[t].saved <= db'[t].progress
                  \/ (/\ live[t] # Nil /\ live'[t].saved = live[t].saved
                      /\ db'[t].progress = db[t].progress
                      /\ ~(pc[p] = "written" /\ call[p].truck = t))
               /\ Writes(step, c, t) \/ live'[t].progress - live'[t].saved < CheckpointStep
                  \/ (/\ live[t] # Nil /\ live'[t].saved = live[t].saved
                      /\ live'[t].progress = live[t].progress
                      /\ ~Writes(pc[p], call[p], t)),
             step = "written" => c.next.progress <= db'[c.truck].progress,
             \A q \in Procs : q # p /\ pc[q] = "written" =>
               call[q].next.progress <= db'[call[q].truck].progress
      PROVE  PaceInv'
  <2>1. ASSUME NEW t \in Trucks, live'[t] # Nil,
               \A q \in Procs : ~(pc'[q] = "written" /\ call'[q].truck = t)
        PROVE  live'[t].saved <= db'[t].progress
    <3>1. ~(step = "written" /\ c.truck = t)
      BY <1>0, <1>3, <2>1, OneMoves
    <3>2. \A q \in Procs : q # p => ~(pc[q] = "written" /\ call[q].truck = t)
      BY <1>0, <1>3, <2>1, OneMoves
    <3>3. ~(pc[p] = "written" /\ call[p].truck = t) => Unwritten(t)
      BY <3>2 DEF Unwritten
    <3> QED
      BY <1>2, <1>3, <2>1, <3>1, <3>3
  <2>2. ASSUME NEW t \in Trucks, live'[t] # Nil,
               \A q \in Procs : ~Writes(pc'[q], call'[q], t)
        PROVE  live'[t].progress - live'[t].saved < CheckpointStep
    <3>1. ~Writes(step, c, t)
      BY <1>0, <1>3, <2>2, OneMoves
    <3>2. \A q \in Procs : q # p => ~Writes(pc[q], call[q], t)
      BY <1>0, <1>3, <2>2, OneMoves
    <3>3. ~Writes(pc[p], call[p], t) => Settled(t)
      BY <3>2 DEF Settled
    <3> QED
      BY <1>2, <1>3, <2>2, <3>1, <3>3
  <2>3. ASSUME NEW q \in Procs, pc'[q] = "written"
        PROVE  call'[q].next.progress <= db'[call'[q].truck].progress
    BY <1>0, <1>3, <2>3, OneMoves
  <2>4. \A q \in Procs, t \in Trucks : Writes(pc[q], call[q], t)' <=> Writes(pc'[q], call'[q], t)
    BY DEF Writes
  <2> QED
    BY <2>1, <2>2, <2>3, <2>4 DEF PaceInv
<1>4. ASSUME NEW p \in Procs, NEW step, NEW c, Aside(p, step, c) PROVE PaceInv'
  <2>1. /\ Moves(p, step, c) /\ UNCHANGED <<db, live>> /\ step # "written"
        /\ pc[p] \notin {"writing", "written"}
    BY <1>4 DEF Aside
  <2>2. \A t \in Trucks : ~Writes(pc[p], call[p], t)
    BY <2>1 DEF Writes
  <2>3. \A q \in Procs : pc[q] = "written" => call[q].next.progress <= db[call[q].truck].progress
    BY DEF PaceInv
  <2> QED
    BY <1>3, <2>1, <2>2, <2>3
<1>5. ASSUME NEW p \in Procs, NEW t \in Trucks, NEW step, NEW c, NEW next,
             Takes(p, step, c, t, next)
      PROVE  PaceInv'
  <2>1. /\ Moves(p, step, c) /\ UNCHANGED db /\ live[t] # Nil /\ step # "written"
        /\ live'[t] = next /\ \A u \in Trucks : u # t => live'[u] = live[u]
        /\ next.saved = live[t].saved
        /\ Writes(step, c, t) \/ next.progress - next.saved < CheckpointStep
        /\ \A q \in Procs : pc[q] \notin {"writing", "written"}
    BY <1>0, <1>5 DEF Takes, Writes, Holding
  <2>2. \A u \in Trucks : ~Writes(pc[p], call[p], u)
    BY <2>1 DEF Writes
  <2> QED
    BY <1>3, <2>1, <2>2
<1>6. ASSUME NEW p \in Procs, PersistCommits(p) PROVE PaceInv'
  <2> DEFINE t == call[p].truck
  <2>1. Moves(p, "written", call[p]) /\ UNCHANGED live /\ pc[p] = "writing"
    BY <1>0, <1>6, StayMoves DEF PersistCommits, CoreInv
  <2>2. /\ t \in Trucks /\ call[p].next \in State
        /\ \A q \in Procs : q # p => pc[q] # "written"
    BY <1>0, <2>1, WriterMinds DEF Holding
  <2>3. /\ db'[t].progress = call[p].next.progress
        /\ \A u \in Trucks : u # t => db'[u] = db[u]
    BY <1>0, <1>6, <2>2 DEF PersistCommits
  <2>4. call[p].next.progress <= db'[t].progress
    BY <2>2, <2>3 DEF State
  <2>5. Writes("written", call[p], t) /\ \A u \in Trucks : Writes(pc[p], call[p], u) => u = t
    BY DEF Writes
  <2> HIDE DEF t
  <2> QED
    BY <1>3, <2>1, <2>2, <2>3, <2>4, <2>5 DEF t
<1>7. ASSUME NEW p \in Procs, PersistDone(p) PROVE PaceInv'
  <2> DEFINE t == call[p].truck
  <2>1. /\ pc[p] = "written" /\ t \in Trucks /\ UNCHANGED db
        /\ live' = [live EXCEPT ![t] = Saved(call[p].next)]
    BY <1>0, <1>7, DoneTakes
  <2>2. /\ call[p].next \in State /\ call[p].next.progress <= db[t].progress
        /\ \A q \in Procs : q # p => pc[q] # "written"
    BY <1>0, <2>1, WriterMinds DEF Holding, PaceInv
  <2>3. /\ live'[t].saved <= db'[t].progress
        /\ live'[t].progress - live'[t].saved < CheckpointStep
        /\ \A u \in Trucks : u # t => live'[u] = live[u]
    BY <1>0, <2>1, <2>2 DEF Saved, State
  <2>4. \E step \in {"ticking", "flushing", "absorbed", "idle"} : \E c : Moves(p, step, c)
    BY <1>0, <1>7, DoneTakes
  <2>5. \A u \in Trucks : u # t => ~Writes(pc[p], call[p], u)
    BY DEF Writes
  <2> HIDE DEF t
  <2> QED
    BY <1>3, <2>1, <2>2, <2>3, <2>4, <2>5 DEF t
<1>8. ASSUME NEW r \in Reqs,
             Mirrors(r) \/ DirectCommits(r) \/ \E t \in Trucks : TrailerDocked(r, t)
      PROVE  PaceInv'
  <2>1. PICK step \in {"idle", "waiting", "announce"} : \E c :
          /\ Moves(r, step, c)
          /\ \A t \in Trucks : live[t] # Nil =>
               \/ db'[t].status = db[t].status /\ db'[t].progress = db[t].progress
               \/ db'[t].status = "DOCKED" /\ db'[t].progress = Far /\ Tells(step, c, t)
    BY <1>0, <1>8, FactRows
  <2>2. PICK c :
          /\ Moves(r, step, c)
          /\ \A t \in Trucks : live[t] # Nil =>
               db'[t].progress = db[t].progress \/ db'[t].progress = Far
    BY <2>1
  <2>3. UNCHANGED live /\ r \in Procs /\ pc[r] \in {"idle", "absorbed", "direct"}
    BY <1>0, <1>8, FactRows DEF Procs
  <2>4. \A t \in Trucks : ~Writes(pc[r], call[r], t)
    BY <2>3 DEF Writes
  <2>5. ASSUME NEW q \in Procs, pc[q] = "written"
        PROVE  call[q].next.progress <= db'[call[q].truck].progress
    <3>1. /\ call[q].truck \in Trucks /\ live[call[q].truck] # Nil /\ call[q].next \in State
          /\ call[q].next.progress <= db[call[q].truck].progress
      BY <1>0, <2>5, WriterMinds DEF PaceInv
    <3>2. call[q].next.progress <= Far
      BY <1>0, <3>1 DEF State
    <3> QED
      BY <2>2, <3>1, <3>2
  <2>6. \A t \in Trucks : live[t] # Nil => live[t].saved <= Far
    BY <1>0 DEF State
  <2> QED
    BY <1>3, <2>1, <2>2, <2>3, <2>4, <2>5, <2>6
<1> QED
  BY <1>0, <1>1, <1>4, <1>5, <1>6, <1>7, <1>8, CalmSteps, SteadyLoads

LEMMA SteadyInit ==
  ASSUME Steady, Init
  PROVE  SteadyInv
<1>0. /\ Booted /\ Nil \notin State /\ CheckpointStep \in Nat \ {0}
      /\ \A t \in Trucks : World[t] \in Row /\ Loaded(World[t], 0) \in State
  BY LoadedFacts, EngineAssumption DEF Steady
<1>1. \A p \in Procs : pc[p] = "idle"
  BY DEF Init
<1>2. \A t \in Trucks : /\ live[t] # Nil <=> World[t].status \in Moving
                        /\ live[t] # Nil => live[t] = Loaded(World[t], 0)
                        /\ db[t] = World[t]
  BY <1>0 DEF Init
<1>3. \A t \in Trucks : /\ Loaded(World[t], 0).status = World[t].status
                         /\ Loaded(World[t], 0).saved = World[t].progress
                         /\ Loaded(World[t], 0).progress = World[t].progress
  BY DEF Loaded
<1>4. FixedInv
  BY <1>1, <1>2 DEF FixedInv, PastAt
<1>5. AgreeInv
  <2>1. \A t \in Trucks : live[t] # Nil => live[t].status = db[t].status
    BY <1>2, <1>3
  <2> QED
    BY <2>1 DEF AgreeInv, Moving, InYard
<1>6. PaceInv
  <2>1. ASSUME NEW t \in Trucks, live[t] # Nil
        PROVE  /\ live[t].saved <= db[t].progress
               /\ live[t].progress - live[t].saved < CheckpointStep
    <3>1. /\ live[t].saved = World[t].progress /\ live[t].progress = World[t].progress
          /\ db[t].progress = World[t].progress
      BY <1>2, <1>3, <2>1
    <3>2. World[t].progress \in Nat
      BY <1>0, EngineAssumption DEF Row
    <3> QED
      BY <1>0, <3>1, <3>2
  <2> QED
    BY <1>1, <2>1 DEF PaceInv
<1> QED
  BY <1>4, <1>5, <1>6, CalmInit DEF SteadyInv

LEMMA SteadyStep ==
  ASSUME Steady, SteadyInv, [FeedNext]_vars
  PROVE  SteadyInv'
BY CalmStep, FixedStep, AgreeStep, PaceStep DEF SteadyInv, Steady

LEMMA SteadyInvariant ==
  ASSUME Steady
  PROVE  FeedSpec => []SteadyInv
<1>1. SteadyInv /\ [FeedNext]_vars => SteadyInv'
  BY SteadyStep
<1> QED
  BY <1>1, SteadyInit, PTL DEF FeedSpec

LEMMA SteadyTells ==
  ASSUME SteadyInv
  PROVE  OneStory /\ RowsKeepUp
<1>0. /\ CoreInv /\ MindInv /\ live \in [Trucks -> State \cup {Nil}] /\ db \in [Trucks -> Row]
      /\ CheckpointStep \in Nat
  BY EngineAssumption DEF SteadyInv, CalmInv, CoreInv, TypeOK
<1>1. OneStory
  <2> SUFFICES ASSUME \A p \in Procs : pc[p] = "idle", NEW t \in Trucks, live[t] # Nil
               PROVE  live[t].status \in InYard <=> db[t].status \in InYard
    BY DEF OneStory
  <2>1. live[t].status \in Status /\ db[t].status \in Status
    BY <1>0 DEF State, Row
  <2>2. /\ ~(live[t].status \in Moving /\ db[t].status \in InYard)
        /\ ~(live[t].status \in InYard /\ db[t].status \in Moving)
    BY DEF SteadyInv, AgreeInv, Tells
  <2> QED
    BY <2>1, <2>2 DEF Status
<1>2. RowsKeepUp
  <2> SUFFICES ASSUME Free, NEW t \in Trucks, live[t] # Nil
               PROVE  live[t].progress - db[t].progress < CheckpointStep
    BY DEF RowsKeepUp
  <2>1. \A p \in Procs : pc[p] \notin {"writing", "written"}
    BY <1>0, Held DEF Holding
  <2>2. /\ live[t].saved <= db[t].progress
        /\ live[t].progress - live[t].saved < CheckpointStep
    BY <2>1 DEF SteadyInv, PaceInv, Writes
  <2>3. /\ live[t].progress \in Nat /\ live[t].saved \in Nat /\ db[t].progress \in Nat
    BY <1>0, EngineAssumption DEF State, Row
  <2> QED
    BY <1>0, <2>2, <2>3
<1> QED
  BY <1>1, <1>2

(* The engine that follows a truck and the database agree on whether it is *)
(* in the yard whenever no handler is at work, whatever the WMS reports,   *)
(* docks included: as long as no database call fails, nobody rewinds the   *)
(* world and no load comes after the autostart's.                          *)
THEOREM OneStoryTold ==
  ASSUME Steady
  PROVE  FeedSpec => []OneStory
BY SteadyInvariant, SteadyTells, PTL

(* "Once every checkpointStep percent": the row of a truck is never that   *)
(* far behind it while nobody is at the barrier, across ticks, delays,     *)
(* stops, starts and facts that move a truck back, under the same          *)
(* conditions.                                                             *)
THEOREM CheckpointsKeepUp ==
  ASSUME Steady
  PROVE  FeedSpec => []RowsKeepUp
BY SteadyInvariant, SteadyTells, PTL

LEMMA YardStep ==
  ASSUME Steady, "docked" \notin Commands, SteadyInv, [FeedNext]_vars,
         NEW t \in Trucks, db[t].status \in InYard, db'[t].status \in Moving
  PROVE  \E r \in Reqs : call[r].op = "status" /\ call[r].truck = t
<1>0. /\ CoreInv /\ AskedInv /\ MindInv /\ FixedInv /\ AgreeInv /\ Moving \cap InYard = {}
      /\ db \in [Trucks -> Row] /\ Calm /\ CalmInv
  BY DEF SteadyInv, CalmInv, CoreInv, TypeOK, Moving, InYard, Steady
<1>1. db'[t].status # db[t].status /\ db'[t].status \notin InYard
  BY <1>0
<1>2. ~UNCHANGED vars
  BY <1>1 DEF vars
<1>3. ASSUME NEW p \in Procs, PersistCommits(p)
      PROVE  \E r \in Reqs : call[r].op = "status" /\ call[r].truck = t
  <2>1. /\ pc[p] = "writing" /\ call[p].truck \in Trucks
        /\ live[call[p].truck] = call[p].next /\ live[call[p].truck] # Nil
    BY <1>0, <1>3, WriterMinds DEF PersistCommits
  <2>2. call[p].truck = t
    BY <1>0, <1>1, <1>3, <2>1 DEF PersistCommits
  <2>3. live[t].status = db'[t].status
    BY <1>0, <1>3, <2>1, <2>2 DEF PersistCommits
  <2>4. PICK q \in Procs : Tells(pc[q], call[q], t)
    BY <1>0, <2>1, <2>2, <2>3 DEF AgreeInv
  <2>5. call[q].op # "docked"
    BY <1>0 DEF AskedInv, AskedAt
  <2>6. call[q].op = "status" /\ call[q].truck = t
    BY <2>4, <2>5 DEF Tells
  <2>7. q # Ticker
    BY <1>0, <2>6, CallFacts DEF HandlerOK
  <2> QED
    BY <2>6, <2>7 DEF Procs
<1>4. ASSUME NEW r \in Reqs, DirectCommits(r)
      PROVE  call[r].op = "status" /\ call[r].truck = t
  <2>1. pc[r] = "direct" /\ r \in Procs
    BY <1>4 DEF DirectCommits, Procs
  <2>2. call[r].truck \in Trucks /\ call[r].op \in Facts /\ Told(call[r])
    BY <1>0, <2>1, FactFacts DEF AskedInv, AskedAt
  <2>3. call[r].truck = t
    BY <1>0, <1>1, <1>4, <2>2 DEF DirectCommits
  <2>4. db'[t].status = Or(call[r].update.status, db[t].status)
    BY <1>0, <1>4, <2>2, <2>3 DEF DirectCommits
  <2>5. call[r].update.status \notin InYard /\ call[r].update.status # Nil
    BY <1>1, <2>4 DEF Or
  <2> QED
    BY <2>2, <2>3, <2>5 DEF Told, Facts, InYard
<1>5. ASSUME NEW r \in Reqs PROVE ~Mirrors(r)
  <2>1. ASSUME Mirrors(r) PROVE FALSE
    <3>1. UNCHANGED db \/ db' = [db EXCEPT ![call[r].truck].ship = Mirrored(r, @)]
      BY <2>1 DEF Mirrors
    <3>2. call[r].truck \in Trucks
      BY <1>0, <2>1, FactFacts DEF Mirrors
    <3> QED
      BY <1>0, <1>1, <3>1, <3>2 DEF Row
  <2> QED
    BY <2>1
<1>6. \A r \in Reqs, u \in Trucks : ~TrailerDocked(r, u)
  BY DEF TrailerDocked, Report, Idle
<1>7. /\ \A p \in Procs : \A step, c : ~Aside(p, step, c)
      /\ \A p \in Procs : \A u \in Trucks : \A step, c, next : ~Takes(p, step, c, u, next)
      /\ \A p \in Procs : ~PersistDone(p)
      /\ \A r \in Reqs : ~LoadDone(r)
  BY <1>1 DEF Aside, Takes, PersistDone, LoadDone
<1> QED
  BY <1>0, <1>2, <1>3, <1>4, <1>5, <1>6, <1>7, CalmSteps

(* A trailer that is in the yard stays there until the WMS says otherwise: *)
(* no tick, delay, stop or late write of the engine, each of which may     *)
(* have read the truck before the fact came in, puts it back on the road.  *)
(* No database call fails, nobody rewinds the world, no load comes after   *)
(* the autostart's, and the WMS docks no truck, which it would write past  *)
(* the barrier.                                                            *)
THEOREM YardIsKept ==
  ASSUME Steady, "docked" \notin Commands
  PROVE  FeedSpec => InYardStays
<1>1. SteadyInv /\ [FeedNext]_vars =>
        [\A t \in Trucks :
           db[t].status \in InYard /\ db'[t].status \in Moving =>
             \E r \in Reqs :
               pc[r] = "rewinding" \/ (call[r].op = "status" /\ call[r].truck = t)]_db
  BY YardStep
<1> QED
  BY <1>1, SteadyInvariant, PTL DEF FeedSpec, InYardStays
=============================================================================
