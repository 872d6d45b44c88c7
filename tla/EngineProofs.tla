---------------------------- MODULE EngineProofs ----------------------------
(***************************************************************************)
(* Theorems about the engine, by itself and with the WMS feed, for any     *)
(* number of trucks and handlers, any thresholds and any seed that         *)
(* satisfies WorldAssumption.  MaxSeq plays no part.                       *)
(***************************************************************************)
EXTENDS WmsFeed, TLAPS, SequenceTheorems

-----------------------------------------------------------------------------
(* What holds whatever the WMS reports *)

(* The steps a handler takes while it has the barrier. *)
Holding == {"ticking", "flushing", "writing", "written"}

LifeOps == {"start", "stop", "reset"}

(* Where a handler can be, for what it was asked. *)
Route(step, op) ==
  /\ op = "none" => step = "idle"
  /\ op = "tick" => step \in {"ticking", "writing", "written"}
  /\ op = "delay" => step \in {"waiting", "parked", "writing", "written"}
  /\ op = "start" => step \in {"queued", "loading"}
  /\ op = "stop" => step \in {"queued", "draining", "flushing", "writing", "written"}
  /\ op = "reset" => step \in {"queued", "draining", "drained", "rewinding", "rewound", "loading"}
  /\ op \in Facts => step \in {"waiting", "parked", "writing", "written",
                               "absorbed", "direct", "announce"}

(* Handler p may stand at step, knowing c. *)
HandlerOK(p, step, c) ==
  /\ Route(step, c.op)
  /\ c.op = "none" => c = NoCall
  /\ c.op = "tick" <=> p = Ticker /\ c.op # "none"
  /\ c.op = "delay" => c.truck \in Trucks /\ c.delay \in Delay
  /\ c.op \in Facts => c.truck \in Trucks /\ c.saw \in Row /\ c.update \in Update
  /\ \A t \in c.todo : c.op \in {"tick", "stop"} /\ c.seen[t] \in State
  /\ step \in {"writing", "written"} =>
       c.truck \in Trucks /\ c.next \in State /\ c.truck \notin c.todo
  /\ c.reason = "DELAY" => c.op = "delay" /\ c.next \in State /\ c.next.status \in Moving

CallInv == \A p \in Procs : HandlerOK(p, pc[p], call[p])

(* One handler at most has the barrier, and inFlight says which. *)
LockInv == /\ \A p \in Procs : pc[p] \in Holding => slot = p
           /\ slot # Nil => pc[slot] \in Holding

(* A lifecycle command that has begun and is not over. *)
Begun(r) == call[r].op \in LifeOps /\ pc[r] # "queued"

InLine(r) == \E i \in 1 .. Len(lifecycle) : lifecycle[i] = r

(* The queue holds every lifecycle command once, and only its head has begun. *)
LifeInv ==
  /\ \A i, j \in 1 .. Len(lifecycle) : lifecycle[i] = lifecycle[j] => i = j
  /\ \A r \in Reqs : call[r].op \in LifeOps <=> InLine(r)
  /\ \A r \in Reqs : Begun(r) => lifecycle # <<>> /\ Head(lifecycle) = r

(* The loop is off while a command is under way, and a tick outlives it    *)
(* only as long as that command waits for the barrier.                     *)
TimerInv ==
  /\ \A r \in Reqs : Begun(r) => ~timer
  /\ pc[Ticker] # "idle" => timer \/ \E r \in Reqs : pc[r] = "draining"

CoreInv == TypeOK /\ CallInv /\ LockInv /\ LifeInv /\ TimerInv

-----------------------------------------------------------------------------
(* What holds of the engine by itself *)

NoFacts == \A p \in Procs : call[p].op \notin Facts

(* From the drained barrier to the end of a rewind or a load, nobody has   *)
(* the barrier; with the loop off only a stop can take it.                 *)
QuietInv ==
  /\ \A r \in Reqs : pc[r] \in {"drained", "rewinding", "rewound", "loading"} => Free
  /\ ~timer /\ ~Free => \E r \in Reqs : pc[r] = "draining" \/ (slot = r /\ call[r].op = "stop")

(* While the world is rewound and read, memory is empty and no row moves. *)
LoadInv ==
  \A r \in Reqs :
    /\ pc[r] \in {"rewinding", "rewound", "loading"} => live = Nothing
    /\ pc[r] = "loading" =>
         call[r].rows = [t \in Trucks |-> IF db[t].status \in Moving THEN db[t] ELSE Nil]

(* The barrier's holder has the trucks to itself: what it listed and what  *)
(* it writes is what is in memory, and what it has written is in the row.  *)
HolderOK(p) ==
  LET c == call[p]
  IN  /\ pc[p] \in Holding => \A t \in c.todo : live[t] = c.seen[t]
      /\ pc[p] \in {"writing", "written"} => live[c.truck] = c.next
      /\ pc[p] = "written" => Matches(db[c.truck], c.next)

HolderInv == \A p \in Procs : HolderOK(p)

(* A live truck has a route, and no moving truck is left out of a loaded map. *)
WholeInv ==
  /\ \A t \in Trucks : live[t] # Nil => t \in routes
  /\ live # Nothing => \A t \in Trucks : db[t].status \in Moving => live[t] # Nil

(* Numbers go on from where the truck is, and none that was sent is above. *)
NumberInv ==
  \A t \in Trucks : /\ live[t] # Nil => live[t].seq = lastSequence[t]
                    /\ sent[t] <= lastSequence[t]

DataInv == LoadInv /\ HolderInv /\ CleanMeansSaved /\ WholeInv /\ DelayShown /\ NumberInv

EngineInv == CoreInv /\ NoFacts /\ QuietInv /\ DataInv

-----------------------------------------------------------------------------
(* The handlers, the barrier and the queue *)

(* What the handlers do not own: rows, memory and numbers have their types. *)
DataOK == /\ db \in [Trucks -> Row]
          /\ live \in [Trucks -> State \cup {Nil}]
          /\ routes \subseteq Trucks
          /\ lastSequence \in [Trucks -> Nat]
          /\ sent \in [Trucks -> Nat]

(* Handler p goes to step, knowing c; the others stay where they are. *)
Moves(p, step, c) == Goto(p, step) /\ Learn(p, c)

(* What p's step does to the barrier: nothing, take it, or give it back. *)
Hands(p, step) ==
  \/ UNCHANGED slot /\ (pc[p] \in Holding <=> step \in Holding)
  \/ Free /\ slot' = p /\ step \in Holding
  \/ pc[p] \in Holding /\ slot' = Nil /\ step \notin Holding

AtHead(r) == lifecycle # <<>> /\ Head(lifecycle) = r

(* A handler that returns knows nothing any more. *)
LEMMA ReturnMoves ==
  ASSUME NEW p, Return(p)
  PROVE  Moves(p, "idle", NoCall)
BY DEF Return, Moves

(* A handler that learns nothing keeps its call. *)
LEMMA StayMoves ==
  ASSUME TypeOK, NEW p \in Procs, NEW step, Goto(p, step), UNCHANGED call
  PROVE  Moves(p, step, call[p])
BY DEF Moves, Learn, TypeOK

LEMMA NoCallOK ==
  /\ NoCall \in Call
  /\ \A p \in Procs : HandlerOK(p, "idle", NoCall)
<1>1. NoCall \in Call
  BY DEF NoCall, Call, Op, Nothing, Reason
<1>2. ASSUME NEW p \in Procs PROVE HandlerOK(p, "idle", NoCall)
  BY DEF NoCall, HandlerOK, Route, Facts
<1> QED
  BY <1>1, <1>2

(* A step of one handler, seen by all. *)
LEMMA OneHandler ==
  ASSUME TypeOK, CallInv, NEW p \in Procs, NEW step \in Step, NEW c \in Call,
         Moves(p, step, c), HandlerOK(p, step, c)
  PROVE  /\ pc' \in [Procs -> Step] /\ call' \in [Procs -> Call]
         /\ pc'[p] = step /\ call'[p] = c
         /\ \A q \in Procs : q # p => pc'[q] = pc[q] /\ call'[q] = call[q]
         /\ CallInv'
<1>1. /\ pc' \in [Procs -> Step] /\ call' \in [Procs -> Call]
      /\ pc'[p] = step /\ call'[p] = c
      /\ \A q \in Procs : q # p => pc'[q] = pc[q] /\ call'[q] = call[q]
  BY DEF Moves, Goto, Learn, TypeOK
<1>2. ASSUME NEW q \in Procs PROVE HandlerOK(q, pc'[q], call'[q])
  <2>1. CASE q = p
    BY <1>1, <2>1
  <2>2. CASE q # p
    BY <1>1, <2>2 DEF CallInv
  <2> QED
    BY <2>1, <2>2
<1> QED
  BY <1>1, <1>2 DEF CallInv

LEMMA LockKept ==
  ASSUME TypeOK, CallInv, LockInv, NEW p \in Procs, NEW step \in Step, NEW c \in Call,
         Moves(p, step, c), HandlerOK(p, step, c), Hands(p, step)
  PROVE  LockInv' /\ slot' \in Procs \cup {Nil}
<1>1. /\ pc'[p] = step /\ \A q \in Procs : q # p => pc'[q] = pc[q]
  BY OneHandler
<1>2. Nil \notin Procs
  BY EngineAssumption
<1> QED
  BY <1>1, <1>2 DEF LockInv, Hands, Free, TypeOK

(* A handler at a barrier step has it; nobody has it while it is free. *)
LEMMA Held ==
  ASSUME CoreInv, NEW p \in Procs, pc[p] \in Holding
  PROVE  slot = p /\ ~Free /\ \A q \in Procs : pc[q] \in Holding => q = p
BY EngineAssumption DEF CoreInv, LockInv, Free

(* No tick is under way while the barrier is free. *)
LEMMA TickHolds ==
  ASSUME CoreInv, pc[Ticker] # "idle"
  PROVE  pc[Ticker] \in Holding /\ slot = Ticker /\ ~Free
<1>1. Ticker \in Procs
  BY DEF Procs
<1>2. HandlerOK(Ticker, pc[Ticker], call[Ticker]) /\ pc[Ticker] \in Step
  BY <1>1 DEF CoreInv, CallInv, TypeOK
<1>3. call[Ticker].op = "tick"
  BY <1>2 DEF HandlerOK, Route
<1>4. pc[Ticker] \in Holding
  BY <1>2, <1>3 DEF HandlerOK, Route, Holding
<1> QED
  BY <1>1, <1>4, Held

(* The commands are in Reqs: the ticker never asks for one. *)
LEMMA LifeReqs ==
  ASSUME CoreInv, NEW p \in Procs, call[p].op \in LifeOps
  PROVE  p \in Reqs
BY DEF CoreInv, CallInv, HandlerOK, LifeOps, Procs

(* At most one lifecycle command has begun. *)
LEMMA OneBegun ==
  ASSUME CoreInv, NEW r \in Reqs, AtHead(r), NEW q \in Reqs, Begun(q)
  PROVE  q = r
BY DEF CoreInv, LifeInv, AtHead

(* A step that leaves the queue of lifecycle commands as it is. *)
LEMMA CoreKept ==
  ASSUME CoreInv, NEW p \in Procs, NEW step \in Step, NEW c \in Call,
         Moves(p, step, c), HandlerOK(p, step, c), DataOK', Hands(p, step),
         UNCHANGED lifecycle,
         c.op \in LifeOps <=> call[p].op \in LifeOps,
         c.op \in LifeOps /\ step # "queued" => ~timer' /\ (Begun(p) \/ AtHead(p)),
         UNCHANGED timer \/ (timer' = FALSE /\ step = "draining"),
         p = Ticker /\ pc[p] = "idle" => timer',
         pc[p] = "draining" => Free
  PROVE  CoreInv'
<1>1. /\ pc' \in [Procs -> Step] /\ call' \in [Procs -> Call]
      /\ pc'[p] = step /\ call'[p] = c
      /\ \A q \in Procs : q # p => pc'[q] = pc[q] /\ call'[q] = call[q]
      /\ CallInv'
  BY OneHandler DEF CoreInv
<1>2. LockInv' /\ slot' \in Procs \cup {Nil}
  BY LockKept DEF CoreInv
<1>3. TypeOK'
  BY <1>1, <1>2 DEF CoreInv, TypeOK, DataOK
<1>4. LifeInv'
  BY <1>1 DEF CoreInv, LifeInv, InLine, Begun, AtHead, Procs
<1>5. ASSUME NEW r \in Reqs, Begun(r)' PROVE ~timer'
  BY <1>1, <1>5 DEF CoreInv, TimerInv, Begun, Procs
<1>6. ASSUME pc'[Ticker] # "idle" PROVE timer' \/ \E r \in Reqs : pc'[r] = "draining"
  <2>1. CASE p = Ticker /\ pc[p] = "idle"
    BY <2>1
  <2>2. CASE p = Ticker /\ pc[p] # "idle"
    <3>1. step # "draining"
      BY <1>6, <1>1, <2>2 DEF HandlerOK, Route
    <3>2. \A r \in Reqs : r # p
      BY <2>2, EngineAssumption
    <3> QED
      BY <1>1, <2>2, <3>1, <3>2 DEF CoreInv, TimerInv, Procs
  <2>3. CASE p # Ticker
    <3>1. pc[Ticker] # "idle" /\ p \in Reqs
      BY <1>1, <1>6, <2>3 DEF Procs
    <3>2. ~Free
      BY <3>1, TickHolds
    <3> QED
      BY <1>1, <3>1, <3>2 DEF CoreInv, TimerInv, Procs
  <2> QED
    BY <2>1, <2>2, <2>3
<1> QED
  BY <1>1, <1>2, <1>3, <1>4, <1>5, <1>6 DEF CoreInv, TimerInv

(* A step of a handler that is no lifecycle command. *)
LEMMA CoreOrdinary ==
  ASSUME CoreInv, NEW p \in Procs, NEW step \in Step, NEW c \in Call,
         Moves(p, step, c), HandlerOK(p, step, c), DataOK', Hands(p, step),
         UNCHANGED <<timer, lifecycle>>,
         c.op \notin LifeOps, call[p].op \notin LifeOps,
         p = Ticker /\ pc[p] = "idle" => timer
  PROVE  CoreInv'
<1>1. pc[p] # "draining"
  BY DEF CoreInv, CallInv, HandlerOK, Route, LifeOps, Facts, TypeOK, Call, Op
<1> QED
  BY <1>1, CoreKept

(* The queue without its head, and with one more at its end. *)
LEMMA QueueFacts ==
  ASSUME NEW q \in Seq(Reqs), NEW r \in Reqs
  PROVE  /\ Append(q, r) \in Seq(Reqs) /\ Append(q, r) # <<>>
         /\ Len(Append(q, r)) = Len(q) + 1 /\ Append(q, r)[Len(q) + 1] = r
         /\ \A i \in 1 .. Len(q) : Append(q, r)[i] = q[i]
         /\ q # <<>> => Head(Append(q, r)) = Head(q)
         /\ q # <<>> => /\ Tail(q) \in Seq(Reqs) /\ Len(Tail(q)) = Len(q) - 1
                        /\ Len(q) \in Nat \ {0} /\ Head(q) = q[1]
                        /\ \A i \in 1 .. Len(q) - 1 : Tail(q)[i] = q[i + 1]
<1>1. Append(q, r) \in Seq(Reqs) /\ Append(q, r) # <<>>
  BY AppendProperties
<1>2. /\ Len(Append(q, r)) = Len(q) + 1 /\ Append(q, r)[Len(q) + 1] = r
      /\ \A i \in 1 .. Len(q) : Append(q, r)[i] = q[i]
  BY AppendProperties
<1>3. ASSUME q # <<>>
      PROVE  /\ Tail(q) \in Seq(Reqs) /\ Len(Tail(q)) = Len(q) - 1
             /\ Len(q) \in Nat \ {0} /\ Head(q) = q[1]
             /\ \A i \in 1 .. Len(q) - 1 : Tail(q)[i] = q[i + 1]
  BY <1>3, HeadTailProperties, EmptySeq, LenProperties
<1>4. ASSUME q # <<>> PROVE Head(Append(q, r)) = Head(q)
  <2>1. 1 \in 1 .. Len(q)
    BY <1>3, <1>4
  <2>2. Head(Append(q, r)) = Append(q, r)[1]
    BY <1>1
  <2> QED
    BY <1>2, <1>3, <1>4, <2>1, <2>2
<1> QED
  BY <1>1, <1>2, <1>3, <1>4

(* A lifecycle command joins the queue. *)
LEMMA CoreJoins ==
  ASSUME CoreInv, NEW r \in Reqs, NEW op, RequestLifecycle(r, op)
  PROVE  CoreInv'
<1> DEFINE c == [NoCall EXCEPT !.op = op]
<1>1. /\ op \in LifeOps /\ pc[r] = "idle" /\ Moves(r, "queued", c)
      /\ lifecycle' = Append(lifecycle, r)
      /\ UNCHANGED <<db, live, routes, timer, slot, lastSequence, sent>>
  BY DEF RequestLifecycle, Idle, Moves, LifeOps
<1>2. c \in Call /\ c.op = op /\ HandlerOK(r, "queued", c)
  BY <1>1, NoCallOK, EngineAssumption
     DEF NoCall, Call, Op, HandlerOK, Route, Facts, LifeOps, Nothing, Reason
<1> HIDE DEF c
<1>3. /\ pc' \in [Procs -> Step] /\ call' \in [Procs -> Call]
      /\ pc'[r] = "queued" /\ call'[r] = c
      /\ \A q \in Procs : q # r => pc'[q] = pc[q] /\ call'[q] = call[q]
      /\ CallInv'
  BY <1>1, <1>2, OneHandler DEF CoreInv, Step, Procs
<1>4. LockInv' /\ slot' \in Procs \cup {Nil}
  BY <1>1, <1>2, LockKept DEF CoreInv, Step, Procs, Hands, Holding
<1>5. /\ lifecycle \in Seq(Reqs) /\ Len(lifecycle) \in Nat
  BY LenProperties DEF CoreInv, TypeOK
<1>6. TypeOK'
  BY <1>1, <1>3, <1>4, <1>5, QueueFacts DEF CoreInv, TypeOK
<1>7. call[r].op \notin LifeOps /\ ~InLine(r)
  BY <1>1 DEF CoreInv, CallInv, LifeInv, HandlerOK, Route, LifeOps, Procs
<1>8. \A q \in Reqs : InLine(q)' <=> InLine(q) \/ q = r
  BY <1>1, <1>5, QueueFacts DEF InLine
<1>9. \A i, j \in 1 .. Len(lifecycle') : lifecycle'[i] = lifecycle'[j] => i = j
  <2>1. \A i \in 1 .. Len(lifecycle) : lifecycle[i] # r
    BY <1>7 DEF InLine
  <2>2. \A i, j \in 1 .. Len(lifecycle) : lifecycle[i] = lifecycle[j] => i = j
    BY DEF CoreInv, LifeInv
  <2> QED
    BY <1>1, <1>5, <2>1, <2>2, QueueFacts
<1>10. \A q \in Reqs : Begun(q)' => Begun(q) /\ q # r
  BY <1>2, <1>3 DEF Begun, Procs
<1>11. LifeInv'
  <2>1. \A q \in Reqs : call'[q].op \in LifeOps <=> InLine(q)'
    BY <1>1, <1>2, <1>3, <1>8 DEF CoreInv, LifeInv, Procs
  <2>2. \A q \in Reqs : Begun(q)' => lifecycle' # <<>> /\ Head(lifecycle') = q
    BY <1>1, <1>5, <1>10, QueueFacts DEF CoreInv, LifeInv
  <2> QED
    BY <1>9, <2>1, <2>2 DEF LifeInv
<1>12. TimerInv'
  <2>1. Ticker # r /\ Ticker \in Procs
    BY EngineAssumption DEF Procs
  <2> QED
    BY <1>1, <1>3, <1>10, <2>1 DEF CoreInv, TimerInv, Procs
<1> QED
  BY <1>3, <1>4, <1>6, <1>11, <1>12 DEF CoreInv

(* The command at the head is over. *)
LEMMA CoreFinishes ==
  ASSUME CoreInv, NEW r \in Reqs, AtHead(r), call[r].op \in LifeOps, pc[r] # "draining",
         Finish(r), DataOK', Hands(r, "idle"), timer' \in BOOLEAN, timer => timer'
  PROVE  CoreInv'
<1>1. Moves(r, "idle", NoCall) /\ lifecycle' = Tail(lifecycle)
  BY ReturnMoves DEF Finish
<1>2. NoCall \in Call /\ HandlerOK(r, "idle", NoCall) /\ NoCall.op \notin LifeOps
  BY NoCallOK DEF Procs, NoCall, LifeOps
<1>3. /\ pc' \in [Procs -> Step] /\ call' \in [Procs -> Call]
      /\ pc'[r] = "idle" /\ call'[r] = NoCall
      /\ \A q \in Procs : q # r => pc'[q] = pc[q] /\ call'[q] = call[q]
      /\ CallInv'
  BY <1>1, <1>2, OneHandler DEF CoreInv, Step, Procs
<1>4. LockInv' /\ slot' \in Procs \cup {Nil}
  BY <1>1, <1>2, LockKept DEF CoreInv, Step, Procs
<1>5. /\ lifecycle \in Seq(Reqs) /\ Len(lifecycle) \in Nat \ {0} /\ lifecycle[1] = r
      /\ lifecycle' \in Seq(Reqs) /\ Len(lifecycle') = Len(lifecycle) - 1
      /\ \A i \in 1 .. Len(lifecycle) - 1 : lifecycle'[i] = lifecycle[i + 1]
  BY <1>1, QueueFacts DEF CoreInv, TypeOK, AtHead
<1>6. TypeOK'
  BY <1>3, <1>4, <1>5 DEF TypeOK, DataOK
<1>7. \A i, j \in 1 .. Len(lifecycle) : lifecycle[i] = lifecycle[j] => i = j
  BY DEF CoreInv, LifeInv
<1>8. \A i, j \in 1 .. Len(lifecycle') : lifecycle'[i] = lifecycle'[j] => i = j
  <2> SUFFICES ASSUME NEW i \in 1 .. Len(lifecycle'), NEW j \in 1 .. Len(lifecycle'),
                      lifecycle'[i] = lifecycle'[j]
               PROVE  i = j
    OBVIOUS
  <2>1. i + 1 \in 1 .. Len(lifecycle) /\ j + 1 \in 1 .. Len(lifecycle)
    BY <1>5
  <2>2. lifecycle[i + 1] = lifecycle[j + 1]
    BY <1>5
  <2>3. i + 1 = j + 1
    BY <1>7, <2>1, <2>2
  <2> QED
    BY <1>5, <2>3
<1>9. ASSUME NEW q \in Reqs PROVE InLine(q)' <=> InLine(q) /\ q # r
  <2>1. ASSUME InLine(q), q # r PROVE InLine(q)'
    <3>1. PICK i \in 1 .. Len(lifecycle) : lifecycle[i] = q
      BY <2>1 DEF InLine
    <3>2. i - 1 \in 1 .. Len(lifecycle') /\ lifecycle'[i - 1] = q
      BY <1>5, <2>1, <3>1
    <3> QED
      BY <3>2 DEF InLine
  <2>2. ASSUME InLine(q)' PROVE InLine(q) /\ q # r
    <3>1. PICK i \in 1 .. Len(lifecycle') : lifecycle'[i] = q
      BY <2>2 DEF InLine
    <3>2. i + 1 \in 1 .. Len(lifecycle) /\ lifecycle[i + 1] = q /\ i + 1 # 1
      BY <1>5, <3>1
    <3> QED
      BY <1>5, <1>7, <3>2 DEF InLine
  <2> QED
    BY <2>1, <2>2
<1>10. \A q \in Reqs : ~Begun(q)'
  BY <1>2, <1>3, OneBegun DEF Begun, Procs
<1>11. LifeInv'
  <2>1. \A q \in Reqs : call'[q].op \in LifeOps <=> InLine(q)'
    BY <1>2, <1>3, <1>9 DEF CoreInv, LifeInv, Procs
  <2> QED
    BY <1>8, <1>10, <2>1 DEF LifeInv
<1>12. ASSUME pc'[Ticker] # "idle" PROVE timer'
  <2>1. pc[Ticker] # "idle"
    BY <1>3, <1>12, EngineAssumption DEF Procs
  <2>2. \A q \in Reqs : pc[q] # "draining"
    <3> SUFFICES ASSUME NEW q \in Reqs, pc[q] = "draining" PROVE FALSE
      OBVIOUS
    <3>1. HandlerOK(q, pc[q], call[q]) /\ call[q].op \in Op
      BY DEF CoreInv, CallInv, TypeOK, Call, Procs
    <3>2. Begun(q)
      BY <3>1 DEF HandlerOK, Route, Begun, Op, LifeOps, Facts
    <3> QED
      BY <3>2, OneBegun
  <2> QED
    BY <2>1, <2>2 DEF CoreInv, TimerInv
<1> QED
  BY <1>3, <1>4, <1>6, <1>10, <1>11, <1>12 DEF CoreInv, TimerInv

-----------------------------------------------------------------------------
(* A truck's states and rows *)

(* What a truck becomes is a state. *)
LEMMA StateFacts ==
  ASSUME NEW s \in State
  PROVE  /\ Saved(s) \in State
         /\ \A p \in 0 .. Far : Advanced(s, p) \in State
         /\ \A d \in Delay, n \in Nat : /\ Delayed(s, d, n) \in State
                                        /\ Delayed(s, d, n).status \in Moving
         /\ \A u \in Update, n \in Nat : Absorbed(s, u, n) \in State
<1>1. Saved(s) \in State
  BY DEF Saved, State
<1>2. ASSUME NEW p \in 0 .. Far PROVE Advanced(s, p) \in State
  <2> DEFINE st == IF p = Far THEN "ARRIVED"
                   ELSE IF p >= ArrivingAt /\ s.delay = "NORMAL" THEN "ARRIVING" ELSE s.status
             d  == IF p = Far THEN "NORMAL" ELSE s.delay
             n  == s.seq + 1
  <2>1. st \in Status /\ d \in Delay /\ n \in Nat
    BY DEF State, Status, InYard, Moving, Delay
  <2>2. Advanced(s, p) = [s EXCEPT !.progress = p, !.seq = n, !.dirty = TRUE,
                                   !.status = st, !.delay = d]
    BY DEF Advanced, State
  <2> HIDE DEF st, d, n
  <2> QED
    BY <2>1, <2>2 DEF State
<1>3. ASSUME NEW d \in Delay, NEW n \in Nat
      PROVE  Delayed(s, d, n) \in State /\ Delayed(s, d, n).status \in Moving
  BY DEF Delayed, State, Status, Moving
<1>4. ASSUME NEW u \in Update, NEW n \in Nat PROVE Absorbed(s, u, n) \in State
  BY DEF Absorbed, Or, Update, State
<1> QED
  BY <1>1, <1>2, <1>3, <1>4

LEMMA LoadedFacts ==
  ASSUME NEW row \in Row, NEW n \in Nat
  PROVE  Loaded(row, n) \in State
BY DEF Loaded, Row, State

(* A handler's call, and where it stands. *)
LEMMA CallFacts ==
  ASSUME CoreInv, NEW p \in Procs
  PROVE  call[p] \in Call /\ pc[p] \in Step /\ HandlerOK(p, pc[p], call[p])
BY DEF CoreInv, TypeOK, CallInv

LEMMA DataKept ==
  ASSUME CoreInv, UNCHANGED <<db, live, routes, lastSequence, sent>>
  PROVE  DataOK'
BY DEF CoreInv, TypeOK, DataOK

(* A truck's state is put in the live map, and its number sent. *)
LEMMA DataPut ==
  ASSUME CoreInv, NEW t \in Trucks, NEW s \in State, Put(t, s), UNCHANGED <<db, routes>>
  PROVE  DataOK'
<1>1. s.seq \in Nat
  BY DEF State
<1> QED
  BY <1>1 DEF CoreInv, TypeOK, DataOK, Put

-----------------------------------------------------------------------------
(* persist *)

LEMMA CorePersistCommits ==
  ASSUME CoreInv, NEW p \in Procs, PersistCommits(p)
  PROVE  CoreInv'
<1> DEFINE c == call[p]
<1>1. /\ pc[p] = "writing" /\ Moves(p, "written", c)
      /\ UNCHANGED <<live, routes, timer, slot, lifecycle, lastSequence, sent>>
      /\ db' = [db EXCEPT ![c.truck] =
           [status |-> c.next.status, delay |-> c.next.delay, progress |-> c.next.progress,
            ship |-> ShipAfter(@.ship, c.next, c.reason)]]
  BY StayMoves DEF PersistCommits, CoreInv
<1>2. c \in Call /\ HandlerOK(p, "writing", c)
  BY <1>1, CallFacts
<1>3. c.truck \in Trucks /\ c.next \in State /\ (c.reason = "DELAY" => c.next.status \in Moving)
  BY <1>2 DEF HandlerOK
<1>4. HandlerOK(p, "written", c)
  BY <1>2 DEF HandlerOK, Route
<1> HIDE DEF c
<1>5. db[c.truck] \in Row
  BY <1>3 DEF CoreInv, TypeOK
<1>6. ShipAfter(db[c.truck].ship, c.next, c.reason) \in Ship
  BY <1>3, <1>5 DEF ShipAfter, Ship, Row, Moving
<1>7. [status |-> c.next.status, delay |-> c.next.delay, progress |-> c.next.progress,
       ship |-> ShipAfter(db[c.truck].ship, c.next, c.reason)] \in Row
  BY <1>3, <1>6 DEF State, Row
<1>8. DataOK'
  BY <1>1, <1>3, <1>7 DEF CoreInv, TypeOK, DataOK
<1>9. Hands(p, "written") /\ "written" \in Step
  BY <1>1 DEF Hands, Holding, Step
<1>10. c.op \in LifeOps => ~timer /\ Begun(p)
  BY <1>1, LifeReqs DEF CoreInv, TimerInv, Begun, c
<1>11. p # Ticker \/ pc[p] # "idle"
  BY <1>1
<1> QED
  BY <1>1, <1>2, <1>4, <1>8, <1>9, <1>10, <1>11, CoreKept DEF c

(* The caller of persist goes on: what it had written was already its own. *)
LEMMA CoreContinues ==
  ASSUME CoreInv, NEW p \in Procs, pc[p] \in {"writing", "written"}, Continue(p),
         DataOK', UNCHANGED <<timer, lifecycle>>
  PROVE  CoreInv'
<1> DEFINE c == call[p]
<1>1. c \in Call /\ HandlerOK(p, pc[p], c)
  BY CallFacts
<1>2. CASE c.op \in {"tick", "stop"}
  <2> DEFINE step == IF c.op = "tick" THEN "ticking" ELSE "flushing"
  <2>1. Moves(p, step, c) /\ UNCHANGED slot
    BY <1>2, StayMoves DEF Continue, CoreInv, Facts
  <2>2. HandlerOK(p, step, c)
    BY <1>1, <1>2 DEF HandlerOK, Route, Facts
  <2>3. Hands(p, step) /\ step \in Step
    BY <2>1 DEF Hands, Holding, Step
  <2>4. c.op \in LifeOps => ~timer /\ Begun(p)
    BY <1>2, LifeReqs DEF CoreInv, TimerInv, Begun
  <2> HIDE DEF step
  <2> QED
    BY <1>1, <2>1, <2>2, <2>3, <2>4, CoreKept
<1>3. CASE c.op = "delay"
  <2>1. Moves(p, "idle", NoCall) /\ slot' = Nil
    BY <1>3, ReturnMoves DEF Continue
  <2>2. Hands(p, "idle") /\ "idle" \in Step
    BY <2>1 DEF Hands, Holding, Step
  <2>3. c.op \notin LifeOps /\ NoCall.op \notin LifeOps
    BY <1>3 DEF LifeOps, NoCall
  <2> QED
    BY <2>1, <2>2, <2>3, NoCallOK, CoreOrdinary
<1>4. CASE c.op \in Facts
  <2>1. Moves(p, "absorbed", c) /\ slot' = Nil
    BY <1>4, StayMoves DEF Continue, CoreInv, Facts
  <2>2. HandlerOK(p, "absorbed", c)
    BY <1>1, <1>4 DEF HandlerOK, Route, Facts
  <2>3. Hands(p, "absorbed") /\ "absorbed" \in Step
    BY <2>1 DEF Hands, Holding, Step
  <2>4. c.op \notin LifeOps
    BY <1>4 DEF LifeOps, Facts
  <2> QED
    BY <1>1, <2>1, <2>2, <2>3, <2>4, CoreOrdinary
<1> QED
  BY <1>2, <1>3, <1>4 DEF Continue, Facts

LEMMA CorePersists ==
  ASSUME CoreInv, NEW p \in Procs, Persist(p)
  PROVE  CoreInv'
<1>1. CASE PersistCommits(p)
  BY <1>1, CorePersistCommits
<1>2. CASE PersistFails(p)
  <2>1. DataOK'
    BY <1>2, DataKept DEF PersistFails
  <2> QED
    BY <1>2, <2>1, CoreContinues DEF PersistFails
<1>3. CASE PersistDone(p)
  <2>1. HandlerOK(p, "written", call[p]) /\ pc[p] = "written"
    BY <1>3, CallFacts DEF PersistDone
  <2>2. call[p].truck \in Trucks /\ Saved(call[p].next) \in State
    BY <2>1, StateFacts DEF HandlerOK
  <2>3. DataOK'
    BY <1>3, <2>2 DEF PersistDone, CoreInv, TypeOK, DataOK
  <2> QED
    BY <1>3, <2>1, <2>3, CoreContinues DEF PersistDone
<1> QED
  BY <1>1, <1>2, <1>3 DEF Persist

-----------------------------------------------------------------------------
(* tick *)

LEMMA CoreTickBegins ==
  ASSUME CoreInv, TickBegins
  PROVE  CoreInv'
<1> DEFINE c == [NoCall EXCEPT !.op = "tick", !.seen = live,
                               !.todo = {t \in routes : live[t] # Nil}]
<1>1. /\ pc[Ticker] = "idle" /\ timer /\ Moves(Ticker, "ticking", c)
      /\ Hands(Ticker, "ticking")
      /\ UNCHANGED <<db, live, routes, timer, lifecycle, lastSequence, sent>>
  BY DEF TickBegins, Moves, Hands, Holding
<1>2. c \in Call
  BY DEF CoreInv, TypeOK, NoCall, Call, Op, Nothing, Reason
<1>3. HandlerOK(Ticker, "ticking", c)
  BY DEF HandlerOK, Route, NoCall, Facts, CoreInv, TypeOK
<1>4. c.op \notin LifeOps /\ call[Ticker].op \notin LifeOps /\ Ticker \in Procs
  BY CallFacts DEF HandlerOK, NoCall, LifeOps, Procs
<1> HIDE DEF c
<1> QED
  BY <1>1, <1>2, <1>3, <1>4, DataKept, CoreOrdinary DEF Step

(* A tick under way goes on: it moves to step knowing c. *)
LEMMA CoreTicking ==
  ASSUME CoreInv, pc[Ticker] = "ticking", NEW step \in Step, NEW c \in Call,
         Moves(Ticker, step, c), HandlerOK(Ticker, step, c), c.op = "tick", step \in Holding,
         DataOK', UNCHANGED <<timer, slot, lifecycle>>
  PROVE  CoreInv'
<1>1. call[Ticker].op \notin LifeOps /\ c.op \notin LifeOps /\ Ticker \in Procs
  BY CallFacts DEF HandlerOK, LifeOps, Procs
<1>2. Hands(Ticker, step)
  BY DEF Hands, Holding
<1> QED
  BY <1>1, <1>2, CoreOrdinary

(* What a tick knows while it is under way. *)
LEMMA TickFacts ==
  ASSUME CoreInv, pc[Ticker] = "ticking"
  PROVE  /\ Ticker \in Procs /\ call[Ticker] \in Call /\ call[Ticker].op = "tick"
         /\ HandlerOK(Ticker, "ticking", call[Ticker])
         /\ \A t \in call[Ticker].todo : t \in Trucks /\ call[Ticker].seen[t] \in State
<1>1. Ticker \in Procs /\ call[Ticker] \in Call /\ HandlerOK(Ticker, "ticking", call[Ticker])
  BY CallFacts DEF Procs
<1>2. call[Ticker].op = "tick"
  BY <1>1 DEF HandlerOK, Route
<1> QED
  BY <1>1, <1>2 DEF HandlerOK, Call

(* The reasons of a tick's snapshot are its own. *)
LEMMA TickReason ==
  ASSUME NEW s, NEW next
  PROVE  SnapshotReason(s, next) \in {"none", "PERIODIC", "ARRIVING", "ARRIVED"}
BY DEF SnapshotReason

LEMMA CoreTickAdvances ==
  ASSUME CoreInv, NEW t \in Trucks, NEW p \in 0 .. Far, TickAdvances(t, p)
  PROVE  CoreInv'
<1> DEFINE a    == call[Ticker]
           s    == a.seen[t]
           next == Advanced(s, p)
           why  == SnapshotReason(s, next)
           c    == [a EXCEPT !.todo = @ \ {t}]
           d    == [c EXCEPT !.truck = t, !.next = next, !.reason = why]
<1>1. /\ pc[Ticker] = "ticking" /\ t \in a.todo /\ Put(t, next)
      /\ UNCHANGED <<db, routes, timer, slot, lifecycle>>
      /\ \/ Learn(Ticker, c) /\ UNCHANGED pc
         \/ why # "none" /\ Learn(Ticker, d) /\ Goto(Ticker, "writing")
  BY DEF TickAdvances
<1>2. /\ a \in Call /\ a.op = "tick" /\ HandlerOK(Ticker, "ticking", a) /\ s \in State
      /\ Ticker \in Procs
  BY <1>1, TickFacts
<1>3. next \in State /\ why \in {"none", "PERIODIC", "ARRIVING", "ARRIVED"}
  BY <1>2, StateFacts, TickReason
<1>4. DataOK'
  BY <1>1, <1>3, DataPut
<1> HIDE DEF a, next, why
<1>5. CASE Learn(Ticker, c) /\ UNCHANGED pc
  <2>1. c \in Call /\ c.op = "tick"
    BY <1>2 DEF Call
  <2>2. HandlerOK(Ticker, "ticking", c)
    BY <1>2 DEF HandlerOK, Call
  <2>3. Moves(Ticker, "ticking", c)
    BY <1>1, <1>2, <1>5 DEF Moves, Goto, CoreInv, TypeOK
  <2> QED
    BY <1>1, <1>4, <2>1, <2>2, <2>3, CoreTicking DEF Step, Holding
<1>6. CASE why # "none" /\ Learn(Ticker, d) /\ Goto(Ticker, "writing")
  <2>1. d \in Call /\ d.op = "tick"
    BY <1>2, <1>3 DEF Call, Reason
  <2>2. HandlerOK(Ticker, "writing", d)
    BY <1>2, <1>3 DEF HandlerOK, Call, Route, Facts
  <2>3. Moves(Ticker, "writing", d)
    BY <1>6 DEF Moves
  <2> QED
    BY <1>1, <1>4, <2>1, <2>2, <2>3, CoreTicking DEF Step, Holding
<1> QED
  BY <1>1, <1>5, <1>6

LEMMA CoreTickPasses ==
  ASSUME CoreInv, NEW t \in Trucks, TickPasses(t)
  PROVE  CoreInv'
<1> DEFINE a == call[Ticker]
           c == [a EXCEPT !.todo = @ \ {t}]
<1>1. /\ pc[Ticker] = "ticking" /\ Learn(Ticker, c) /\ UNCHANGED pc
      /\ UNCHANGED <<db, live, routes, timer, slot, lifecycle, lastSequence, sent>>
  BY DEF TickPasses
<1>2. /\ a \in Call /\ a.op = "tick" /\ HandlerOK(Ticker, "ticking", a) /\ Ticker \in Procs
  BY <1>1, TickFacts
<1>3. c \in Call /\ c.op = "tick"
  BY <1>2 DEF Call
<1>4. HandlerOK(Ticker, "ticking", c)
  BY <1>2 DEF HandlerOK, Call
<1>5. Moves(Ticker, "ticking", c)
  BY <1>1, <1>2 DEF Moves, Goto, CoreInv, TypeOK
<1> QED
  BY <1>1, <1>3, <1>4, <1>5, DataKept, CoreTicking DEF Step, Holding

LEMMA CoreTickEnds ==
  ASSUME CoreInv, TickEnds
  PROVE  CoreInv'
<1>1. /\ pc[Ticker] = "ticking" /\ Moves(Ticker, "idle", NoCall) /\ Hands(Ticker, "idle")
      /\ UNCHANGED <<db, live, routes, timer, lifecycle, lastSequence, sent>>
  BY ReturnMoves DEF TickEnds, Hands, Holding
<1>2. call[Ticker].op \notin LifeOps /\ NoCall.op \notin LifeOps /\ Ticker \in Procs
  BY <1>1, TickFacts DEF LifeOps, NoCall
<1> QED
  BY <1>1, <1>2, NoCallOK, DataKept, CoreOrdinary DEF Step

LEMMA CoreTicks ==
  ASSUME CoreInv, Tick
  PROVE  CoreInv'
BY CoreTickBegins, CoreTickAdvances, CoreTickPasses, CoreTickEnds DEF Tick

-----------------------------------------------------------------------------
(* Delay commands, and the barrier *)

(* A handler that is asked for something else than a lifecycle command. *)
LEMMA CoreAsked ==
  ASSUME CoreInv, NEW r \in Reqs, pc[r] = "idle", NEW c \in Call,
         Moves(r, "waiting", c), HandlerOK(r, "waiting", c), c.op \notin LifeOps,
         DataOK', UNCHANGED <<timer, slot, lifecycle>>
  PROVE  CoreInv'
<1>1. r \in Procs /\ r # Ticker
  BY EngineAssumption DEF Procs
<1>2. call[r].op \notin LifeOps
  BY <1>1, CallFacts DEF HandlerOK, Route, LifeOps
<1>3. Hands(r, "waiting") /\ "waiting" \in Step
  BY DEF Hands, Holding, Step
<1> QED
  BY <1>1, <1>2, <1>3, CoreOrdinary

LEMMA CoreRequestDelay ==
  ASSUME CoreInv, NEW r \in Reqs, NEW t \in Trucks, NEW d \in Delay, RequestDelay(r, t, d)
  PROVE  CoreInv'
<1> DEFINE c == [NoCall EXCEPT !.op = "delay", !.truck = t, !.delay = d]
<1>1. /\ pc[r] = "idle" /\ Moves(r, "waiting", c)
      /\ UNCHANGED <<db, live, routes, timer, slot, lifecycle, lastSequence, sent>>
  BY DEF RequestDelay, Idle, Moves
<1>2. c \in Call /\ c.op \notin LifeOps
  BY NoCallOK DEF NoCall, Call, Op, LifeOps, Nothing, Reason
<1>3. HandlerOK(r, "waiting", c)
  BY EngineAssumption DEF HandlerOK, Route, NoCall, Facts
<1> HIDE DEF c
<1> QED
  BY <1>1, <1>2, <1>3, DataKept, CoreAsked

(* Who waits for the barrier, or has just got it, reports or delays. *)
LEMMA WaitFacts ==
  ASSUME CoreInv, NEW r \in Reqs, pc[r] \in {"waiting", "parked"}
  PROVE  /\ r \in Procs /\ r # Ticker /\ call[r] \in Call /\ HandlerOK(r, pc[r], call[r])
         /\ call[r].op \in {"delay"} \cup Facts /\ call[r].op \notin LifeOps
         /\ call[r].truck \in Trucks
<1>1. r \in Procs /\ r # Ticker /\ call[r] \in Call /\ HandlerOK(r, pc[r], call[r])
  BY CallFacts, EngineAssumption DEF Procs
<1>2. call[r].op \in {"delay"} \cup Facts
  BY <1>1 DEF HandlerOK, Route, Call, Op, Facts
<1> QED
  BY <1>1, <1>2 DEF HandlerOK, LifeOps, Facts

LEMMA CoreParks ==
  ASSUME CoreInv, NEW r \in Reqs, Parks(r)
  PROVE  CoreInv'
<1>1. /\ pc[r] = "waiting" /\ Moves(r, "parked", call[r])
      /\ UNCHANGED <<db, live, routes, timer, slot, lifecycle, lastSequence, sent>>
  BY StayMoves DEF Parks, CoreInv, Procs
<1>2. /\ r \in Procs /\ r # Ticker /\ call[r] \in Call /\ HandlerOK(r, "waiting", call[r])
      /\ call[r].op \notin LifeOps
  BY <1>1, WaitFacts
<1>3. HandlerOK(r, "parked", call[r]) /\ Hands(r, "parked") /\ "parked" \in Step
  BY <1>1, <1>2 DEF HandlerOK, Route, Hands, Holding, Step
<1> QED
  BY <1>1, <1>2, <1>3, DataKept, CoreOrdinary

LEMMA CoreDelayRefused ==
  ASSUME CoreInv, NEW r \in Reqs, DelayRefused(r)
  PROVE  CoreInv'
<1>1. /\ pc[r] \in {"waiting", "parked"} /\ Moves(r, "idle", NoCall)
      /\ UNCHANGED <<db, live, routes, timer, slot, lifecycle, lastSequence, sent>>
  BY ReturnMoves DEF DelayRefused, Reaches
<1>2. r \in Procs /\ r # Ticker /\ call[r].op \notin LifeOps /\ NoCall.op \notin LifeOps
  BY <1>1, WaitFacts DEF NoCall, LifeOps
<1>3. Hands(r, "idle") /\ "idle" \in Step
  BY <1>1 DEF Hands, Holding, Step
<1> QED
  BY <1>1, <1>2, <1>3, NoCallOK, DataKept, CoreOrdinary

LEMMA CoreDelayApplies ==
  ASSUME CoreInv, NEW r \in Reqs, DelayApplies(r)
  PROVE  CoreInv'
<1> DEFINE a    == call[r]
           t    == a.truck
           next == Delayed(live[t], a.delay, lastSequence[t] + 1)
           c    == [a EXCEPT !.next = next, !.reason = "DELAY"]
<1>1. /\ pc[r] \in {"waiting", "parked"} /\ a.op = "delay" /\ live[t] # Nil
      /\ Put(t, next) /\ Moves(r, "writing", c) /\ Free /\ slot' = r
      /\ UNCHANGED <<db, routes, timer, lifecycle>>
  BY DEF DelayApplies, Reaches, Accepts, Moves
<1>2. r \in Procs /\ r # Ticker /\ a \in Call /\ HandlerOK(r, pc[r], a)
  BY <1>1, WaitFacts
<1>3. t \in Trucks /\ a.delay \in Delay
  BY <1>1, <1>2 DEF HandlerOK
<1>4. live[t] \in State /\ lastSequence[t] + 1 \in Nat
  BY <1>1, <1>3 DEF CoreInv, TypeOK
<1>5. next \in State /\ next.status \in Moving
  BY <1>3, <1>4, StateFacts
<1>6. DataOK'
  BY <1>1, <1>3, <1>5, DataPut
<1>7. a.todo = {}
  BY <1>1, <1>2 DEF HandlerOK
<1> HIDE DEF next, a
<1>8. c \in Call /\ c.op \notin LifeOps
  BY <1>1, <1>2, <1>5 DEF Call, Reason, LifeOps
<1>9. HandlerOK(r, "writing", c)
  BY <1>1, <1>2, <1>3, <1>5, <1>7 DEF HandlerOK, Call, Route, Facts
<1>10. Hands(r, "writing") /\ "writing" \in Step
  BY <1>1 DEF Hands, Holding, Step
<1> QED
  BY <1>1, <1>2, <1>6, <1>8, <1>9, <1>10, CoreOrdinary DEF a, LifeOps

-----------------------------------------------------------------------------
(* start, stop, reset *)

(* A lifecycle command whose turn it is, or that has begun. *)
Current(r) ==
  \/ \E op \in LifeOps : Turn(r, op)
  \/ pc[r] \in {"loading", "draining", "flushing", "drained", "rewinding", "rewound"}

LEMMA CurrentFacts ==
  ASSUME CoreInv, NEW r \in Reqs, Current(r)
  PROVE  /\ r \in Procs /\ r # Ticker /\ call[r] \in Call /\ HandlerOK(r, pc[r], call[r])
         /\ call[r].op \in LifeOps /\ AtHead(r)
         /\ pc[r] # "queued" => ~timer /\ Begun(r)
<1>1. r \in Procs /\ r # Ticker /\ call[r] \in Call /\ HandlerOK(r, pc[r], call[r])
  BY CallFacts, EngineAssumption DEF Procs
<1>2. CASE \E op \in LifeOps : Turn(r, op)
  BY <1>1, <1>2 DEF Turn, Running, AtHead, LifeOps
<1>3. CASE pc[r] \in {"loading", "draining", "flushing", "drained", "rewinding", "rewound"}
  <2>1. call[r].op \in LifeOps
    BY <1>1, <1>3 DEF HandlerOK, Route, Call, Op, Facts, LifeOps
  <2>2. Begun(r)
    BY <1>3, <2>1 DEF Begun
  <2> QED
    BY <1>1, <2>1, <2>2 DEF CoreInv, LifeInv, TimerInv, AtHead
<1> QED
  BY <1>2, <1>3 DEF Current

LEMMA StartingCurrent ==
  ASSUME CoreInv, NEW r \in Reqs, Starting(r)
  PROVE  Current(r) /\ ~timer /\ pc[r] \in {"queued", "rewound"}
         /\ call[r].op \in {"start", "reset"}
<1>1. Current(r) /\ pc[r] \in {"queued", "rewound"} /\ call[r].op \in {"start", "reset"}
  BY DEF Starting, Current, Turn, Running, LifeOps
<1> QED
  BY <1>1, CurrentFacts DEF Starting, Running

(* The command at the head takes a step of its own: it leaves the queue,    *)
(* the timer and the barrier as they are, or claims the barrier to flush.  *)
LEMMA CoreProceeds ==
  ASSUME CoreInv, NEW r \in Reqs, Current(r), pc[r] # "draining" \/ Free,
         NEW step \in Step, NEW c \in Call, Moves(r, step, c), HandlerOK(r, step, c),
         c.op = call[r].op, Hands(r, step), ~timer, DataOK', UNCHANGED <<timer, lifecycle>>
  PROVE  CoreInv'
<1>1. r \in Procs /\ r # Ticker /\ call[r].op \in LifeOps /\ AtHead(r)
  BY CurrentFacts
<1> QED
  BY <1>1, CoreKept

(* The command at the head ends without touching the barrier. *)
LEMMA CoreEnds ==
  ASSUME CoreInv, NEW r \in Reqs, Current(r), pc[r] \in {"queued", "rewound", "loading"},
         Finish(r), UNCHANGED slot, DataOK', timer' \in BOOLEAN, timer => timer'
  PROVE  CoreInv'
<1>1. Hands(r, "idle")
  BY DEF Hands, Holding
<1> QED
  BY <1>1, CurrentFacts, CoreFinishes

LEMMA DataAnnounced ==
  ASSUME CoreInv, NEW r, NEW lv \in [Trucks -> State \cup {Nil}], NEW rts \in SUBSET Trucks,
         Announce(r, lv, rts), routes' = rts, UNCHANGED db
  PROVE  DataOK'
<1>1. \A t \in Trucks : lastSequence[t] \in Nat /\ sent[t] \in Nat
  BY DEF CoreInv, TypeOK
<1>2. \A t \in Trucks : (IF t \in Announced(r, lv, rts) THEN 1 ELSE 0) \in Nat
  OBVIOUS
<1>3. lastSequence' \in [Trucks -> Nat] /\ sent' \in [Trucks -> Nat]
  BY <1>1, <1>2 DEF Announce
<1>4. live' \in [Trucks -> State \cup {Nil}]
  <2>1. ASSUME NEW t \in Announced(r, lv, rts)
        PROVE  t \in Trucks /\ [lv[t] EXCEPT !.seq = lastSequence[t] + 1] \in State
    <3>1. t \in Trucks /\ lv[t] \in State
      BY DEF Announced
    <3>2. lastSequence[t] + 1 \in Nat
      BY <1>1, <3>1
    <3> QED
      BY <3>1, <3>2 DEF State
  <2> QED
    BY <2>1 DEF Announce
<1> QED
  BY <1>3, <1>4 DEF DataOK, CoreInv, TypeOK

(* What a load reads is a call still, and what it makes of it is live. *)
LEMMA CoreLoads ==
  ASSUME CoreInv, NEW r \in Reqs, LoadReads(r)
  PROVE  CoreInv'
<1> DEFINE rows == [t \in Trucks |-> IF db[t].status \in Moving THEN db[t] ELSE Nil]
           c    == [call[r] EXCEPT !.rows = rows]
<1>1. /\ Moves(r, "loading", c)
      /\ UNCHANGED <<db, live, routes, timer, slot, lifecycle, lastSequence, sent>>
  BY DEF LoadReads, Moves
<1>2. /\ Current(r) /\ ~timer /\ pc[r] \in {"queued", "rewound"}
      /\ call[r].op \in {"start", "reset"}
  <2>1. CASE Starting(r)
    BY <2>1, StartingCurrent
  <2>2. CASE Running(r, "rewound", "reset")
    <3>1. Current(r) /\ pc[r] = "rewound" /\ call[r].op = "reset"
      BY <2>2 DEF Running, Current
    <3> QED
      BY <3>1, CurrentFacts
  <2> QED
    BY <2>1, <2>2 DEF LoadReads
<1>3. r \in Procs /\ call[r] \in Call /\ HandlerOK(r, pc[r], call[r])
  BY <1>2, CurrentFacts
<1>4. rows \in [Trucks -> Row \cup {Nil}]
  BY DEF CoreInv, TypeOK
<1> HIDE DEF rows
<1>5. c \in Call /\ c.op = call[r].op
  BY <1>3, <1>4 DEF Call
<1>6. HandlerOK(r, "loading", c)
  BY <1>2, <1>3 DEF HandlerOK, Call, Route, Facts
<1>7. Hands(r, "loading") /\ "loading" \in Step
  BY <1>1, <1>2 DEF Hands, Holding, Step
<1> HIDE DEF c
<1> QED
  BY <1>1, <1>2, <1>5, <1>6, <1>7, DataKept, CoreProceeds

LEMMA LoadTypes ==
  ASSUME CoreInv, NEW r \in Reqs, pc[r] = "loading"
  PROVE  /\ [t \in Trucks |-> IF call[r].rows[t] = Nil THEN live[t]
                              ELSE Loaded(call[r].rows[t], lastSequence[t])]
              \in [Trucks -> State \cup {Nil}]
         /\ routes \cup {t \in Trucks : call[r].rows[t] # Nil} \in SUBSET Trucks
<1>1. call[r].rows \in [Trucks -> Row \cup {Nil}]
  BY CallFacts DEF Call, Procs
<1>2. ASSUME NEW t \in Trucks, call[r].rows[t] # Nil
      PROVE  Loaded(call[r].rows[t], lastSequence[t]) \in State
  BY <1>1, <1>2, LoadedFacts DEF CoreInv, TypeOK
<1> QED
  BY <1>2 DEF CoreInv, TypeOK

LEMMA CoreStarts ==
  ASSUME CoreInv, NEW r \in Reqs, StartIgnored(r) \/ StartResumes(r) \/ LoadDone(r) \/ LoadFails(r)
  PROVE  CoreInv'
<1>1. CASE StartIgnored(r)
  <2>1. Current(r) /\ pc[r] = "queued"
    BY <1>1 DEF StartIgnored, Current, Turn, Running, LifeOps
  <2>2. DataOK' /\ timer' \in BOOLEAN
    BY <1>1, DataKept DEF StartIgnored, CoreInv, TypeOK
  <2> QED
    BY <1>1, <2>1, <2>2, CoreEnds DEF StartIgnored
<1>2. CASE StartResumes(r)
  <2>1. Current(r) /\ pc[r] \in {"queued", "rewound"}
    BY <1>2, StartingCurrent DEF StartResumes
  <2>2. DataOK'
    BY <1>2, DataAnnounced DEF StartResumes, CoreInv, TypeOK
  <2> QED
    BY <1>2, <2>1, <2>2, CoreEnds DEF StartResumes
<1>3. CASE LoadDone(r)
  <2>1. Current(r) /\ pc[r] = "loading" /\ ~timer /\ call[r].was \in BOOLEAN
    BY <1>3, CurrentFacts DEF LoadDone, Current, Call
  <2>2. DataOK'
    BY <1>3, <2>1, LoadTypes, DataAnnounced DEF LoadDone
  <2>3. timer' \in BOOLEAN
    BY <1>3, <2>1 DEF LoadDone
  <2> QED
    BY <1>3, <2>1, <2>2, <2>3, CoreEnds DEF LoadDone
<1>4. CASE LoadFails(r)
  <2>1. Current(r) /\ pc[r] = "loading"
    BY <1>4 DEF LoadFails, Current
  <2>2. DataOK' /\ timer' \in BOOLEAN
    BY <1>4, DataKept DEF LoadFails, CoreInv, TypeOK
  <2> QED
    BY <1>4, <2>1, <2>2, CoreEnds DEF LoadFails
<1> QED
  BY <1>1, <1>2, <1>3, <1>4

LEMMA CoreStopBegins ==
  ASSUME CoreInv, NEW r \in Reqs, StopBegins(r)
  PROVE  CoreInv'
<1> DEFINE c == [call[r] EXCEPT !.was = timer]
<1>1. /\ Moves(r, "draining", c) /\ timer' = FALSE /\ pc[r] = "queued"
      /\ call[r].op \in {"stop", "reset"} /\ Current(r)
      /\ UNCHANGED <<db, live, routes, slot, lifecycle, lastSequence, sent>>
  BY DEF StopBegins, Moves, Current, Turn, Running, LifeOps
<1>2. r \in Procs /\ r # Ticker /\ call[r] \in Call /\ HandlerOK(r, "queued", call[r]) /\ AtHead(r)
  BY <1>1, CurrentFacts
<1>3. c \in Call /\ c.op = call[r].op
  BY <1>2 DEF Call, CoreInv, TypeOK
<1>4. HandlerOK(r, "draining", c)
  BY <1>1, <1>2 DEF HandlerOK, Call, Route, Facts
<1>5. Hands(r, "draining") /\ "draining" \in Step
  BY <1>1 DEF Hands, Holding, Step
<1> HIDE DEF c
<1> QED
  BY <1>1, <1>2, <1>3, <1>4, <1>5, DataKept, CoreKept

LEMMA CoreStops ==
  ASSUME CoreInv, NEW r \in Reqs, StopClaims(r) \/ StopReturns(r) \/ \E t \in Trucks : Flush(r, t)
  PROVE  CoreInv'
<1>0. pc[r] \in {"draining", "flushing"} /\ call[r].op = "stop" /\ Current(r)
  BY DEF StopClaims, StopReturns, Flush, Running, Current
<1>1. /\ r \in Procs /\ r # Ticker /\ call[r] \in Call /\ HandlerOK(r, pc[r], call[r])
      /\ AtHead(r) /\ ~timer
  BY <1>0, CurrentFacts
<1>2. CASE StopClaims(r)
  <2> DEFINE c == [call[r] EXCEPT !.seen = live,
                     !.todo = {t \in Trucks : live[t] # Nil /\ live[t].dirty}]
  <2>1. /\ Moves(r, "flushing", c) /\ Free /\ slot' = r
        /\ UNCHANGED <<db, live, routes, timer, lifecycle, lastSequence, sent>>
    BY <1>2 DEF StopClaims, Moves
  <2>2. c \in Call /\ c.op = call[r].op
    BY <1>1 DEF Call, CoreInv, TypeOK
  <2>3. HandlerOK(r, "flushing", c)
    BY <1>0, <1>1 DEF HandlerOK, Call, Route, Facts, CoreInv, TypeOK
  <2>4. Hands(r, "flushing") /\ "flushing" \in Step
    BY <2>1 DEF Hands, Holding, Step
  <2> HIDE DEF c
  <2> QED
    BY <1>0, <1>1, <2>1, <2>2, <2>3, <2>4, DataKept, CoreProceeds
<1>3. ASSUME NEW t \in Trucks, Flush(r, t) PROVE CoreInv'
  <2> DEFINE c == [call[r] EXCEPT !.todo = @ \ {t}, !.truck = t, !.next = call[r].seen[t]]
  <2>1. /\ Moves(r, "writing", c) /\ pc[r] = "flushing" /\ t \in call[r].todo
        /\ UNCHANGED <<db, live, routes, timer, slot, lifecycle, lastSequence, sent>>
    BY <1>3 DEF Flush, Running, Moves
  <2>2. call[r].seen[t] \in State
    BY <1>1, <2>1 DEF HandlerOK
  <2>3. c \in Call /\ c.op = call[r].op
    BY <1>1, <2>2 DEF Call
  <2>4. HandlerOK(r, "writing", c)
    BY <1>0, <1>1, <2>2 DEF HandlerOK, Call, Route, Facts
  <2>5. Hands(r, "writing") /\ "writing" \in Step
    BY <2>1 DEF Hands, Holding, Step
  <2> HIDE DEF c
  <2> QED
    BY <1>0, <1>1, <2>1, <2>3, <2>4, <2>5, DataKept, CoreProceeds
<1>4. CASE StopReturns(r)
  <2>1. /\ pc[r] = "flushing" /\ slot' = Nil /\ Finish(r)
        /\ UNCHANGED <<db, live, routes, timer, lastSequence, sent>>
    BY <1>4 DEF StopReturns, Running
  <2>2. Hands(r, "idle") /\ timer' \in BOOLEAN /\ call[r].op \in LifeOps
    BY <1>0, <2>1 DEF Hands, Holding, LifeOps, CoreInv, TypeOK
  <2> QED
    BY <1>0, <1>1, <2>1, <2>2, DataKept, CoreFinishes
<1> QED
  BY <1>2, <1>3, <1>4

LEMMA CoreResets ==
  ASSUME CoreInv, NEW r \in Reqs,
         ResetDrained(r) \/ ResetClears(r) \/ RewindCommits(r) \/ RewindFails(r)
  PROVE  CoreInv'
<1>0. pc[r] \in {"draining", "drained", "rewinding"} /\ Current(r)
  BY DEF ResetDrained, ResetClears, RewindCommits, RewindFails, Running, Current
<1>1. /\ r \in Procs /\ r # Ticker /\ call[r] \in Call /\ HandlerOK(r, pc[r], call[r])
      /\ AtHead(r) /\ ~timer
  BY <1>0, CurrentFacts
<1>2. ASSUME NEW step \in {"drained", "rewinding", "rewound"}, Goto(r, step),
             pc[r] = "draining" => Free /\ call[r].op = "reset",
             DataOK', UNCHANGED <<timer, slot, lifecycle, call>>
      PROVE  CoreInv'
  <2>1. call[r].op = "reset"
    BY <1>0, <1>1, <1>2 DEF HandlerOK, Route, Call, Op, Facts
  <2>2. Moves(r, step, call[r]) /\ step \in Step
    BY <1>1, <1>2, StayMoves DEF CoreInv, Step
  <2>3. HandlerOK(r, step, call[r])
    BY <1>1, <1>2, <2>1 DEF HandlerOK, Route, Facts
  <2>4. Hands(r, step)
    BY <1>0, <1>2 DEF Hands, Holding
  <2> QED
    BY <1>0, <1>1, <1>2, <2>2, <2>3, <2>4, CoreProceeds
<1>3. CASE ResetDrained(r)
  BY <1>2, <1>3, DataKept DEF ResetDrained, Running
<1>4. CASE ResetClears(r)
  <2>1. DataOK'
    BY <1>4 DEF ResetClears, DataOK, CoreInv, TypeOK, Nothing
  <2> QED
    BY <1>2, <1>4, <2>1 DEF ResetClears
<1>5. CASE RewindCommits(r)
  <2>1. DataOK'
    BY <1>5, EngineAssumption DEF RewindCommits, DataOK, CoreInv, TypeOK
  <2> QED
    BY <1>2, <1>5, <2>1 DEF RewindCommits
<1>6. CASE RewindFails(r)
  BY <1>2, <1>6, DataKept DEF RewindFails
<1> QED
  BY <1>3, <1>4, <1>5, <1>6

LEMMA CoreManages ==
  ASSUME CoreInv, NEW r \in Reqs, Ask(r) \/ Manage(r)
  PROVE  CoreInv'
BY CoreRequestDelay, CoreJoins, CoreParks, CoreDelayRefused, CoreDelayApplies, CoreStarts,
   CoreLoads, CoreStopBegins, CoreStops, CoreResets DEF Ask, Manage

-----------------------------------------------------------------------------
(* The WMS's facts *)

LEMMA CoreReports ==
  ASSUME CoreInv, NEW r \in Reqs, NEW op \in Facts, NEW t \in Trucks, NEW u \in Update,
         NEW why \in {"none", "ARRIVING", "ARRIVED"}, Report(r, op, t, u, why),
         DataOK', UNCHANGED <<timer, slot, lifecycle>>
  PROVE  CoreInv'
<1> DEFINE c == [NoCall EXCEPT !.op = op, !.truck = t, !.saw = db[t],
                               !.update = u, !.reason = why]
<1>1. pc[r] = "idle" /\ Moves(r, "waiting", c) /\ db[t] \in Row
  BY DEF Report, Idle, Moves, CoreInv, TypeOK
<1>2. c \in Call /\ c.op \notin LifeOps
  BY <1>1 DEF NoCall, Call, Op, LifeOps, Nothing, Reason, Facts
<1>3. HandlerOK(r, "waiting", c)
  BY <1>1, EngineAssumption DEF HandlerOK, Route, NoCall, Facts
<1> HIDE DEF c
<1> QED
  BY <1>1, <1>2, <1>3, CoreAsked

LEMMA CoreTold ==
  ASSUME CoreInv, NEW r \in Reqs, Tell(r)
  PROVE  CoreInv'
<1>1. NoUpdate \in Update
  BY DEF NoUpdate, Update
<1>2. ASSUME NEW t \in Trucks, NEW p \in (0 .. Far) \cup {Nil}, LocationUpdated(r, t, p)
      PROVE  CoreInv'
  <2>1. [NoUpdate EXCEPT !.progress = p] \in Update
    BY DEF NoUpdate, Update
  <2> QED
    BY <1>2, <2>1, DataKept, CoreReports DEF LocationUpdated, Facts
<1>3. ASSUME NEW t \in Trucks, NEW st \in Reportable, StatusUpdated(r, t, st) PROVE CoreInv'
  <2> DEFINE u   == [NoUpdate EXCEPT !.status = st,
                                     !.delay = IF st \in InYard THEN "NORMAL" ELSE Nil]
             why == IF st \in {"ARRIVING", "ARRIVED"} /\ st # db[t].status THEN st ELSE "none"
  <2>1. u \in Update /\ why \in {"none", "ARRIVING", "ARRIVED"}
    BY DEF NoUpdate, Update, Reportable, Delay
  <2>2. Report(r, "status", t, u, why) /\ "status" \in Facts
    BY <1>3 DEF StatusUpdated, Facts
  <2>3. UNCHANGED <<db, live, routes, timer, slot, lifecycle, lastSequence, sent>>
    BY <1>3 DEF StatusUpdated
  <2> HIDE DEF u, why
  <2> QED
    BY <2>1, <2>2, <2>3, DataKept, CoreReports
<1>4. ASSUME NEW t \in Trucks, TrailerArrived(r, t) PROVE CoreInv'
  <2>1. [status |-> "ARRIVED", delay |-> "NORMAL", progress |-> Far] \in Update
    BY EngineAssumption DEF Update, Status, InYard, Delay
  <2> QED
    BY <1>4, <2>1, DataKept, CoreReports DEF TrailerArrived, Facts
<1>5. ASSUME NEW t \in Trucks, TrailerDocked(r, t) PROVE CoreInv'
  <2>1. [status |-> "DOCKED", delay |-> "NORMAL", progress |-> Far] \in Update
    BY EngineAssumption DEF Update, Status, InYard, Delay
  <2>2. "DOCKED" \in Status /\ "DOCKED" \in Ship /\ Far \in 0 .. Far
    BY EngineAssumption DEF Status, InYard, Ship
  <2>3. DataOK'
    BY <1>5, <2>2 DEF TrailerDocked, DataOK, CoreInv, TypeOK, Row
  <2> QED
    BY <1>5, <2>1, <2>3, CoreReports DEF TrailerDocked, Facts
<1> QED
  BY <1>2, <1>3, <1>4, <1>5 DEF Tell

LEMMA CoreAbsorbs ==
  ASSUME CoreInv, NEW r \in Reqs, Absorbs(r)
  PROVE  CoreInv'
<1> DEFINE a    == call[r]
           t    == a.truck
           next == Absorbed(live[t], a.update, lastSequence[t] + 1)
           c    == [a EXCEPT !.next = next]
<1>1. /\ pc[r] \in {"waiting", "parked"} /\ a.op \in Facts /\ live[t] # Nil
      /\ Put(t, next) /\ Moves(r, "writing", c) /\ Free /\ slot' = r
      /\ UNCHANGED <<db, routes, timer, lifecycle>>
  BY DEF Absorbs, Reported, Followed, Reaches, Moves
<1>2. r \in Procs /\ r # Ticker /\ a \in Call /\ HandlerOK(r, pc[r], a)
  BY <1>1, WaitFacts
<1>3. t \in Trucks /\ a.update \in Update /\ a.todo = {} /\ a.reason # "DELAY"
  BY <1>1, <1>2 DEF HandlerOK, Facts
<1>4. live[t] \in State /\ lastSequence[t] + 1 \in Nat
  BY <1>1, <1>3 DEF CoreInv, TypeOK
<1>5. next \in State
  BY <1>3, <1>4, StateFacts
<1>6. DataOK'
  BY <1>1, <1>3, <1>5, DataPut
<1> HIDE DEF next, a
<1>7. c \in Call /\ c.op \notin LifeOps /\ a.op \notin LifeOps
  BY <1>1, <1>2, <1>5 DEF Call, LifeOps, Facts
<1>8. HandlerOK(r, "writing", c)
  BY <1>1, <1>2, <1>3, <1>5 DEF HandlerOK, Call, Route, Facts
<1>9. Hands(r, "writing") /\ "writing" \in Step
  BY <1>1 DEF Hands, Holding, Step
<1> QED
  BY <1>1, <1>2, <1>6, <1>7, <1>8, <1>9, CoreOrdinary DEF a

(* The mirrored status is one a shipment can have. *)
LEMMA MirroredType ==
  ASSUME NEW r \in Procs, call[r].saw \in Row, call[r].update \in Update, NEW ship \in Ship
  PROVE  Mirrored(r, ship) \in Ship
<1> DEFINE st == Or(call[r].update.status, call[r].saw.status)
<1>1. st \in Status
  BY DEF Or, Update, Row
<1>2. ShipFor(st) \in Ship \cup {Nil}
  <2>1. CASE st = "COMPLETED"
    BY <2>1, Zenon DEF ShipFor, Ship
  <2>2. CASE st = "DELAYED"
    BY <2>2, Zenon DEF ShipFor
  <2>3. CASE st \notin {"COMPLETED", "DELAYED"}
    <3>1. ShipFor(st) = st
      BY <2>3, Zenon DEF ShipFor
    <3>2. st \in Ship
      BY <1>1, <2>3 DEF Status, Moving, InYard, Ship
    <3> QED
      BY <3>1, <3>2
  <2> QED
    BY <2>1, <2>2, <2>3
<1> HIDE DEF st
<1> QED
  BY <1>2 DEF Mirrored, st

(* What the rest of a handler knows, once its fact is absorbed or not. *)
LEMMA FactFacts ==
  ASSUME CoreInv, NEW r \in Reqs, pc[r] \in {"absorbed", "direct", "announce"}
  PROVE  /\ r \in Procs /\ r # Ticker /\ call[r] \in Call /\ HandlerOK(r, pc[r], call[r])
         /\ call[r].op \in Facts /\ call[r].op \notin LifeOps /\ call[r].truck \in Trucks
         /\ call[r].saw \in Row /\ call[r].update \in Update
<1>1. r \in Procs /\ r # Ticker /\ call[r] \in Call /\ HandlerOK(r, pc[r], call[r])
  BY CallFacts, EngineAssumption DEF Procs
<1>2. call[r].op \in Facts
  BY <1>1 DEF HandlerOK, Route, Call, Op, Facts
<1> QED
  BY <1>1, <1>2 DEF HandlerOK, LifeOps, Facts

(* The handler of a fact returns. *)
LEMMA CoreAnswers ==
  ASSUME CoreInv, NEW r \in Reqs, pc[r] \in {"absorbed", "direct", "announce"}, Return(r),
         DataOK', UNCHANGED <<timer, slot, lifecycle>>
  PROVE  CoreInv'
<1>1. Moves(r, "idle", NoCall)
  BY ReturnMoves
<1>2. Hands(r, "idle") /\ "idle" \in Step /\ NoCall.op \notin LifeOps
  BY DEF Hands, Holding, Step, NoCall, LifeOps
<1> QED
  BY <1>1, <1>2, FactFacts, NoCallOK, CoreOrdinary

LEMMA CoreHandles ==
  ASSUME CoreInv, NEW r \in Reqs, Handle(r)
  PROVE  CoreInv'
<1>1. CASE NotLive(r)
  <2> DEFINE step == IF call[r].op = "docked" THEN "announce" ELSE "direct"
  <2>1. /\ pc[r] \in {"waiting", "parked"} /\ call[r].op \in Facts
        /\ Moves(r, step, call[r])
        /\ UNCHANGED <<db, live, routes, timer, slot, lifecycle, lastSequence, sent>>
    BY <1>1, StayMoves DEF NotLive, Reported, Reaches, CoreInv, Procs
  <2>2. /\ r \in Procs /\ r # Ticker /\ call[r] \in Call /\ HandlerOK(r, pc[r], call[r])
        /\ call[r].op \notin LifeOps
    BY <2>1, WaitFacts
  <2>3. HandlerOK(r, step, call[r]) /\ Hands(r, step) /\ step \in Step
    BY <2>1, <2>2 DEF HandlerOK, Route, Facts, Hands, Holding, Step
  <2> HIDE DEF step
  <2> QED
    BY <2>1, <2>2, <2>3, DataKept, CoreOrdinary
<1>2. CASE Mirrors(r)
  <2>1. pc[r] = "absorbed"
    BY <1>2 DEF Mirrors
  <2>2. db[call[r].truck] \in Row /\ call[r].truck \in Trucks
    BY <2>1, FactFacts DEF CoreInv, TypeOK
  <2>3. Mirrored(r, db[call[r].truck].ship) \in Ship
    BY <2>1, <2>2, FactFacts, MirroredType DEF Row
  <2>4. [db[call[r].truck] EXCEPT !.ship = Mirrored(r, @)] \in Row
    BY <2>2, <2>3 DEF Row
  <2>5. UNCHANGED db \/ db' = [db EXCEPT ![call[r].truck].ship = Mirrored(r, @)]
    BY <1>2 DEF Mirrors
  <2>6. db' \in [Trucks -> Row]
    BY <2>2, <2>4, <2>5 DEF CoreInv, TypeOK
  <2>7. DataOK'
    BY <1>2, <2>6 DEF Mirrors, DataOK, CoreInv, TypeOK
  <2> QED
    BY <1>2, <2>1, <2>7, CoreAnswers DEF Mirrors
<1>3. CASE DirectCommits(r)
  <2> DEFINE t   == call[r].truck
             u   == call[r].update
             row == [status |-> Or(u.status, db[t].status), delay |-> Or(u.delay, db[t].delay),
                     progress |-> Or(u.progress, db[t].progress),
                     ship |-> Mirrored(r, db[t].ship)]
             c   == [call[r] EXCEPT !.update.status = db'[t].status]
  <2>1. /\ pc[r] = "direct" /\ db' = [db EXCEPT ![t] = row] /\ Moves(r, "announce", c)
        /\ UNCHANGED <<live, routes, timer, slot, lifecycle, lastSequence, sent>>
    BY <1>3 DEF DirectCommits, Moves
  <2>2. /\ r \in Procs /\ r # Ticker /\ call[r] \in Call /\ HandlerOK(r, "direct", call[r])
        /\ call[r].op \in Facts /\ call[r].op \notin LifeOps /\ t \in Trucks
        /\ call[r].saw \in Row /\ u \in Update
    BY <2>1, FactFacts
  <2>3. row \in Row
    <3>1. db[t] \in Row
      BY <2>2 DEF CoreInv, TypeOK
    <3>2. Mirrored(r, db[t].ship) \in Ship
      BY <2>2, <3>1, MirroredType DEF Row
    <3> QED
      BY <2>2, <3>1, <3>2 DEF Or, Row, Update
  <2>4. DataOK' /\ db'[t] \in Row
    BY <2>1, <2>2, <2>3 DEF DataOK, CoreInv, TypeOK
  <2>5. [u EXCEPT !.status = db'[t].status] \in Update
    BY <2>2, <2>4 DEF Update, Row
  <2>6. c = [call[r] EXCEPT !.update = [u EXCEPT !.status = db'[t].status]]
    BY <2>2 DEF Call
  <2>7. c \in Call /\ c.op = call[r].op
    BY <2>2, <2>5, <2>6 DEF Call
  <2>8. HandlerOK(r, "announce", c)
    BY <2>2, <2>5, <2>6 DEF HandlerOK, Call, Route, Facts
  <2>9. Hands(r, "announce") /\ "announce" \in Step
    BY <2>1 DEF Hands, Holding, Step
  <2> HIDE DEF c, row
  <2> QED
    BY <2>1, <2>2, <2>4, <2>7, <2>8, <2>9, CoreOrdinary
<1>4. CASE FactFails(r)
  BY <1>4, DataKept, CoreAnswers DEF FactFails
<1>5. CASE Announces(r)
  <2> DEFINE t == call[r].truck
             n == (IF call[r].op \in {"location", "arrived"} THEN 1 ELSE 0)
                  + (IF \/ call[r].op = "docked"
                        \/ Or(call[r].update.status, call[r].saw.status) # call[r].saw.status
                     THEN 1 ELSE 0)
  <2>1. /\ pc[r] = "announce" /\ Return(r)
        /\ lastSequence' = [lastSequence EXCEPT ![t] = @ + n]
        /\ sent' = [sent EXCEPT ![t] = IF n = 0 THEN @ ELSE lastSequence[t] + n]
        /\ UNCHANGED <<db, live, routes, timer, slot, lifecycle>>
    BY <1>5 DEF Announces
  <2>2. n \in Nat /\ t \in Trucks
    BY <2>1, FactFacts
  <2> HIDE DEF n
  <2>3. DataOK'
    BY <2>1, <2>2 DEF DataOK, CoreInv, TypeOK
  <2> QED
    BY <2>1, <2>3, CoreAnswers
<1> QED
  BY <1>1, <1>2, <1>3, <1>4, <1>5, CoreAbsorbs DEF Handle

-----------------------------------------------------------------------------
(* The core invariant, of the engine and of the engine with its feed *)

LEMMA CoreInit ==
  ASSUME Init
  PROVE  CoreInv
<1>1. \A t \in Trucks : World[t] \in Row /\ Loaded(World[t], 0) \in State
  BY EngineAssumption, LoadedFacts
<1>2. TypeOK
  <2>1. Nil \notin State /\ World \in [Trucks -> Row]
    BY EngineAssumption
  <2>2. live \in [Trucks -> State \cup {Nil}] /\ routes \subseteq Trucks
    BY <1>1 DEF Init
  <2>3. timer \in BOOLEAN
    BY EngineAssumption DEF Init
  <2>4. lifecycle \in Seq(Reqs)
    BY EmptySeq DEF Init
  <2> QED
    BY <2>1, <2>2, <2>3, <2>4, NoCallOK DEF Init, TypeOK, Step
<1>3. CallInv
  BY NoCallOK DEF Init, CallInv
<1>4. LockInv
  BY DEF Init, LockInv, Holding
<1>5. \A r \in Reqs : call[r].op \notin LifeOps /\ ~Begun(r)
  BY DEF Init, NoCall, LifeOps, Begun, Procs
<1>6. LifeInv
  <2>1. Len(lifecycle) = 0
    BY EmptySeq DEF Init
  <2> QED
    BY <1>5, <2>1 DEF LifeInv, InLine
<1>7. TimerInv
  BY <1>5 DEF Init, TimerInv, Procs
<1> QED
  BY <1>2, <1>3, <1>4, <1>6, <1>7 DEF CoreInv

LEMMA CoreStep ==
  ASSUME CoreInv, [FeedNext]_vars
  PROVE  CoreInv'
<1>1. CASE UNCHANGED vars
  BY <1>1 DEF vars, CoreInv, TypeOK, CallInv, LockInv, LifeInv, InLine, Begun, TimerInv
<1>2. CASE Next
  BY <1>2, CoreTicks, CorePersists, CoreManages DEF Next
<1>3. ASSUME NEW r \in Reqs, Tell(r) \/ Handle(r) PROVE CoreInv'
  BY <1>3, CoreTold, CoreHandles
<1> QED
  BY <1>1, <1>2, <1>3 DEF FeedNext

LEMMA CoreInvariant == Spec => []CoreInv
<1>1. CoreInv /\ [Next]_vars => CoreInv'
  BY CoreStep DEF FeedNext
<1> QED
  BY <1>1, CoreInit, PTL DEF Spec

LEMMA FeedInvariant == FeedSpec => []CoreInv
<1>1. CoreInv /\ [FeedNext]_vars => CoreInv'
  BY CoreStep
<1> QED
  BY <1>1, CoreInit, PTL DEF FeedSpec

(* Rows, memory, queue, barrier and handlers keep their types, the truck a  *)
(* handler writes and the state it writes included.                        *)
THEOREM EngineTypes == Spec => []TypeOK
<1>1. CoreInv => TypeOK
  BY DEF CoreInv
<1> QED
  BY <1>1, CoreInvariant, PTL

(* And they keep them under the facts the WMS reports.                     *)
THEOREM FeedTypes == FeedSpec => []TypeOK
<1>1. CoreInv => TypeOK
  BY DEF CoreInv
<1> QED
  BY <1>1, FeedInvariant, PTL

LEMMA StillFromCore ==
  ASSUME CoreInv
  PROVE  StoppedIsStill
<1>1. ASSUME lifecycle = <<>>, NEW r \in Reqs PROVE pc[r] # "draining"
  <2>1. r \in Procs /\ ~Begun(r)
    BY <1>1 DEF CoreInv, LifeInv, Procs
  <2>2. HandlerOK(r, pc[r], call[r]) /\ call[r] \in Call
    BY <2>1, CallFacts
  <2> QED
    BY <2>1, <2>2 DEF HandlerOK, Route, Begun, Call, Op, Facts, LifeOps
<1> QED
  BY <1>1 DEF StoppedIsStill, CoreInv, TimerInv

(* inFlight and the lifecycle queue are enough: once stop() has returned,  *)
(* and whatever other command is over, no tick is under way that could     *)
(* write to a connection about to close.                                   *)
THEOREM NoTickAfterStop == Spec => []StoppedIsStill
BY CoreInvariant, StillFromCore, PTL

(* And a fact the WMS reports meanwhile does not change that.              *)
THEOREM NoTickAfterStopWithFeed == FeedSpec => []StoppedIsStill
BY FeedInvariant, StillFromCore, PTL

-----------------------------------------------------------------------------
(* The engine by itself: what a step changes *)

(* Only a write that commits and a rewind that commits change a row. *)
LEMMA RowsChange ==
  ASSUME Next
  PROVE  \/ UNCHANGED db
         \/ \E p \in Procs : PersistCommits(p)
         \/ \E r \in Reqs : RewindCommits(r)
BY DEF Next, Tick, TickBegins, TickEnds, TickPasses, TickAdvances, Persist, PersistFails,
       PersistDone, Ask, RequestDelay, RequestLifecycle, Manage, Parks, DelayRefused,
       DelayApplies, StartIgnored, StartResumes, LoadReads, LoadDone, LoadFails, StopBegins,
       StopClaims, StopReturns, Flush, ResetDrained, ResetClears, RewindFails

(* A start, as long as it finds live trucks, changes none of them. *)
LEMMA ResumesSame ==
  ASSUME EngineInv, NEW r \in Reqs, StartResumes(r)
  PROVE  UNCHANGED <<live, lastSequence, sent>> /\ Turn(r, "start")
<1>1. Turn(r, "start") /\ call[r].op = "start"
  BY DEF StartResumes, Starting, EngineInv, DataInv, LoadInv, Running, Turn
<1>2. Announced(r, live, routes) = {}
  BY <1>1 DEF Announced
<1>3. /\ live \in [Trucks -> State \cup {Nil}]
      /\ lastSequence \in [Trucks -> Nat] /\ sent \in [Trucks -> Nat]
  BY DEF EngineInv, CoreInv, TypeOK
<1>4. live' = [t \in Trucks |-> live[t]] /\ sent' = [t \in Trucks |-> sent[t]]
  BY <1>2 DEF StartResumes, Announce
<1>5. lastSequence' = [t \in Trucks |-> lastSequence[t]]
  <2>1. lastSequence' = [t \in Trucks |-> lastSequence[t] + 0]
    BY <1>2 DEF StartResumes, Announce
  <2>2. \A t \in Trucks : lastSequence[t] + 0 = lastSequence[t]
    BY <1>3
  <2> QED
    BY <2>1, <2>2
<1> QED
  BY <1>1, <1>3, <1>4, <1>5

(* The steps that change what is in memory. *)
LEMMA MemoryChanges ==
  ASSUME EngineInv, Next
  PROVE  \/ UNCHANGED <<live, routes, lastSequence, sent>>
         \/ \E p \in Procs : PersistDone(p)
         \/ \E t \in Trucks, p \in 0 .. Far : TickAdvances(t, p)
         \/ \E r \in Reqs : DelayApplies(r) \/ LoadDone(r) \/ ResetClears(r)
<1>1. CASE Tick
  BY <1>1 DEF Tick, TickBegins, TickEnds, TickPasses
<1>2. ASSUME NEW p \in Procs, Persist(p)
      PROVE  UNCHANGED <<live, routes, lastSequence, sent>> \/ PersistDone(p)
  BY <1>2 DEF Persist, PersistCommits, PersistFails
<1>3. ASSUME NEW r \in Reqs, Ask(r)
      PROVE  UNCHANGED <<live, routes, lastSequence, sent>>
  BY <1>3 DEF Ask, RequestDelay, RequestLifecycle
<1>4. ASSUME NEW r \in Reqs, StartResumes(r)
      PROVE  UNCHANGED <<live, routes, lastSequence, sent>>
  BY <1>4, ResumesSame DEF StartResumes
<1>5. ASSUME NEW r \in Reqs, Manage(r), ~StartResumes(r)
      PROVE  \/ UNCHANGED <<live, routes, lastSequence, sent>>
             \/ DelayApplies(r) \/ LoadDone(r) \/ ResetClears(r)
  BY <1>5 DEF Manage, Parks, DelayRefused, StartIgnored, LoadReads, LoadFails, StopBegins,
              StopClaims, StopReturns, Flush, ResetDrained, RewindCommits, RewindFails
<1> QED
  BY <1>1, <1>2, <1>3, <1>4, <1>5 DEF Next

(* No fact comes in. *)
LEMMA NoFactsStep ==
  ASSUME CoreInv, NoFacts, Next
  PROVE  NoFacts'
<1>1. ASSUME NEW p \in Procs, NEW c, c.op \notin Facts, Learn(p, c) PROVE NoFacts'
  BY <1>1 DEF Learn, NoFacts, CoreInv, TypeOK
<1>2. ASSUME UNCHANGED call PROVE NoFacts'
  BY <1>2 DEF NoFacts
<1>3. ASSUME NEW p \in Procs, Return(p) PROVE NoFacts'
  BY <1>1, <1>3 DEF Return, NoCall, Facts
<1>4. \A p \in Procs : call[p] \in Call /\ call[p].op \notin Facts
  BY DEF CoreInv, TypeOK, NoFacts
<1>5. CASE Tick
  <2>0. Ticker \in Procs
    BY DEF Procs
  <2>1. CASE TickBegins
    BY <1>1, <2>0, <2>1 DEF TickBegins, NoCall, Facts
  <2>2. CASE TickEnds
    BY <1>3, <2>0, <2>2 DEF TickEnds
  <2>3. ASSUME NEW t \in Trucks, TickPasses(t) PROVE NoFacts'
    BY <1>1, <1>4, <2>0, <2>3 DEF TickPasses, Call
  <2>4. ASSUME NEW t \in Trucks, NEW p \in 0 .. Far, TickAdvances(t, p) PROVE NoFacts'
    BY <1>1, <1>4, <2>0, <2>4 DEF TickAdvances, Call
  <2> QED
    BY <1>5, <2>1, <2>2, <2>3, <2>4 DEF Tick
<1>6. ASSUME NEW p \in Procs, Persist(p) PROVE NoFacts'
  BY <1>2, <1>3, <1>4, <1>6 DEF Persist, PersistCommits, PersistFails, PersistDone, Continue, Facts
<1>7. ASSUME NEW r \in Reqs, Ask(r) PROVE NoFacts'
  BY <1>1, <1>7 DEF Ask, RequestDelay, RequestLifecycle, NoCall, Facts, Procs
<1>8. ASSUME NEW r \in Reqs, Manage(r) PROVE NoFacts'
  <2>0. r \in Procs
    BY DEF Procs
  <2>1. CASE Parks(r) \/ ResetDrained(r) \/ ResetClears(r) \/ RewindCommits(r) \/ RewindFails(r)
    BY <1>2, <2>1 DEF Parks, ResetDrained, ResetClears, RewindCommits, RewindFails
  <2>2. CASE DelayRefused(r) \/ StartIgnored(r) \/ StartResumes(r) \/ LoadDone(r)
             \/ LoadFails(r) \/ StopReturns(r)
    BY <1>3, <2>0, <2>2 DEF DelayRefused, StartIgnored, StartResumes, LoadDone, LoadFails,
                            StopReturns, Finish
  <2>3. CASE DelayApplies(r)
    BY <1>1, <1>4, <2>0, <2>3 DEF DelayApplies, Call
  <2>4. CASE LoadReads(r) \/ StopBegins(r) \/ StopClaims(r) \/ \E t \in Trucks : Flush(r, t)
    BY <1>1, <1>4, <2>0, <2>4 DEF LoadReads, StopBegins, StopClaims, Flush, Call
  <2> QED
    BY <1>8, <2>1, <2>2, <2>3, <2>4 DEF Manage
<1> QED
  BY <1>5, <1>6, <1>7, <1>8 DEF Next

-----------------------------------------------------------------------------
(* The engine by itself: nobody has the barrier while the world is rewound *)

Deep == {"drained", "rewinding", "rewound", "loading"}

(* A command that is drained or further is the only one, and the loop off. *)
LEMMA DeepFacts ==
  ASSUME CoreInv, NEW r \in Reqs, pc[r] \in Deep \cup {"draining", "flushing"}
  PROVE  /\ ~timer /\ Begun(r) /\ AtHead(r)
         /\ \A q \in Reqs : Begun(q) \/ AtHead(q) => q = r
<1>1. Current(r) /\ pc[r] # "queued"
  BY DEF Current, Deep
<1>2. ~timer /\ Begun(r) /\ AtHead(r)
  BY <1>1, CurrentFacts
<1> QED
  BY <1>2, OneBegun DEF AtHead

(* A handler of another kind than start, stop and reset, or one whose      *)
(* command is still queued, is at none of these steps.                     *)
LEMMA ShallowFacts ==
  ASSUME CoreInv, NEW p \in Procs, call[p].op \notin LifeOps
  PROVE  pc[p] \notin Deep \cup {"draining", "flushing"}
BY CallFacts DEF HandlerOK, Route, Call, Op, Facts, LifeOps, Deep

LEMMA QuietKept ==
  ASSUME CoreInv, QuietInv, NEW p \in Procs, NEW step \in Step, NEW c, Moves(p, step, c),
         UNCHANGED <<timer, slot>> \/ slot' = Nil,
         pc[p] = "draining" => Free,
         ~Free /\ slot = p /\ call[p].op = "stop" => c.op = "stop" \/ slot' = Nil,
         step \in Deep => slot' = Nil
  PROVE  QuietInv'
<1>1. /\ pc'[p] = step /\ call'[p] = c
      /\ \A q \in Procs : q # p => pc'[q] = pc[q] /\ call'[q] = call[q]
  BY DEF Moves, Goto, Learn, CoreInv, TypeOK
<1>2. CASE slot' = Nil
  BY <1>2 DEF QuietInv, Free
<1>3. CASE UNCHANGED <<timer, slot>>
  <2>1. \A q \in Reqs : pc'[q] \in Deep => slot' = Nil
    BY <1>1, <1>3 DEF QuietInv, Free, Procs, Deep
  <2>2. ASSUME ~timer', slot' # Nil
        PROVE  \E q \in Reqs : pc'[q] = "draining" \/ (slot' = q /\ call'[q].op = "stop")
    <3>1. PICK q \in Reqs : pc[q] = "draining" \/ (slot = q /\ call[q].op = "stop")
      BY <1>3, <2>2 DEF QuietInv, Free
    <3>2. CASE q # p
      BY <1>1, <1>3, <3>1, <3>2 DEF Procs
    <3>3. CASE q = p
      BY <1>1, <1>3, <2>2, <3>1, <3>3 DEF Free
    <3> QED
      BY <3>2, <3>3
  <2> QED
    BY <2>1, <2>2 DEF QuietInv, Free, Deep
<1> QED
  BY <1>2, <1>3

LEMMA QuietStep ==
  ASSUME CoreInv, QuietInv, Next
  PROVE  QuietInv'
<1>1. \A p \in Procs : call[p] \in Call /\ pc[p] \in Step
  BY CallFacts
<1>2. CASE Tick
  <2>0. Ticker \in Procs /\ call[Ticker].op \notin LifeOps
    BY CallFacts DEF HandlerOK, LifeOps, Procs
  <2>1. CASE TickBegins
    <3>1. timer' /\ \A q \in Reqs : pc[q] \notin Deep
      BY <2>1, DeepFacts DEF TickBegins
    <3>2. \A q \in Reqs : pc'[q] = pc[q]
      BY <2>1, EngineAssumption DEF TickBegins, Goto, CoreInv, TypeOK, Procs
    <3> QED
      BY <3>1, <3>2 DEF QuietInv, Deep
  <2>2. CASE TickEnds
    BY <2>2 DEF TickEnds, QuietInv, Free
  <2>3. ASSUME NEW t \in Trucks, TickPasses(t) PROVE QuietInv'
    <3>1. pc[Ticker] = "ticking" /\ UNCHANGED <<pc, timer, slot>>
      BY <2>3 DEF TickPasses
    <3>2. \A q \in Reqs : call'[q] = call[q]
      BY <2>3, EngineAssumption DEF TickPasses, Learn, CoreInv, TypeOK, Procs
    <3> QED
      BY <3>1, <3>2 DEF QuietInv, Free
  <2>4. ASSUME NEW t \in Trucks, NEW p \in 0 .. Far, TickAdvances(t, p) PROVE QuietInv'
    <3>1. UNCHANGED <<timer, slot>>
      BY <2>4 DEF TickAdvances
    <3>2. \A q \in Reqs : call'[q] = call[q] /\ pc'[q] = pc[q]
      BY <2>4, EngineAssumption DEF TickAdvances, Goto, Learn, CoreInv, TypeOK, Procs
    <3> QED
      BY <3>1, <3>2 DEF QuietInv, Free
  <2> QED
    BY <1>2, <2>1, <2>2, <2>3, <2>4 DEF Tick
<1>3. ASSUME NEW p \in Procs, Persist(p) PROVE QuietInv'
  <2>1. pc[p] \in {"writing", "written"} /\ UNCHANGED timer
    BY <1>3 DEF Persist, PersistCommits, PersistFails, PersistDone
  <2>2. CASE PersistCommits(p)
    BY <2>1, <2>2, StayMoves, QuietKept DEF PersistCommits, CoreInv, Step, Deep
  <2>3. CASE Continue(p)
    <3>1. CASE slot' = Nil
      BY <3>1 DEF QuietInv, Free
    <3>2. CASE Goto(p, "ticking") /\ UNCHANGED <<slot, call>>
      BY <2>1, <3>2, StayMoves, QuietKept DEF CoreInv, Step, Deep
    <3>3. CASE Goto(p, "flushing") /\ UNCHANGED <<slot, call>>
      BY <2>1, <3>3, StayMoves, QuietKept DEF CoreInv, Step, Deep
    <3> QED
      BY <2>3, <3>1, <3>2, <3>3 DEF Continue
  <2> QED
    BY <1>3, <2>2, <2>3 DEF Persist, PersistFails, PersistDone
<1>4. ASSUME NEW r \in Reqs, Ask(r) PROVE QuietInv'
  <2>1. r \in Procs /\ pc[r] = "idle" /\ UNCHANGED <<timer, slot>>
    BY <1>4 DEF Ask, RequestDelay, RequestLifecycle, Idle, Procs
  <2>2. slot # r \/ Free
    BY <2>1 DEF CoreInv, LockInv, Holding, Free
  <2>3. PICK step \in Step : step \notin Deep /\ \E c : Moves(r, step, c)
    BY <1>4 DEF Ask, RequestDelay, RequestLifecycle, Moves, Step, Deep
  <2> QED
    BY <2>1, <2>2, <2>3, QuietKept
<1>5. ASSUME NEW r \in Reqs, Manage(r) PROVE QuietInv'
  <2>0. r \in Procs
    BY DEF Procs
  <2>1. CASE Parks(r) \/ DelayRefused(r)
    <3>1. PICK step \in Step : step \notin Deep /\ \E c : Moves(r, step, c)
      BY <2>0, <2>1, StayMoves DEF Parks, DelayRefused, Return, Moves, Step, Deep, CoreInv
    <3>2. pc[r] \in {"waiting", "parked"} /\ UNCHANGED <<timer, slot>>
      BY <2>1 DEF Parks, DelayRefused, Reaches
    <3>3. call[r].op # "stop"
      BY <3>2, WaitFacts DEF Facts
    <3> QED
      BY <2>0, <3>1, <3>2, <3>3, QuietKept
  <2>2. CASE DelayApplies(r)
    <3>1. timer /\ UNCHANGED timer /\ pc'[r] = "writing"
      BY <2>0, <2>2 DEF DelayApplies, Accepts, Goto, CoreInv, TypeOK
    <3>2. \A q \in Reqs : q # r => pc'[q] = pc[q]
      BY <2>2 DEF DelayApplies, Goto, CoreInv, TypeOK, Procs
    <3>3. \A q \in Reqs : pc'[q] \notin Deep
      BY <3>1, <3>2, DeepFacts DEF Deep
    <3> QED
      BY <3>1, <3>3 DEF QuietInv, Deep
  <2>3. CASE StartIgnored(r) \/ StartResumes(r)
    <3>1. /\ Moves(r, "idle", NoCall) /\ UNCHANGED slot /\ timer' /\ "idle" \in Step \ Deep
          /\ (Turn(r, "start") \/ call[r].op = "reset")
      BY <2>3, ReturnMoves DEF StartIgnored, StartResumes, Starting, Running, Finish, Step, Deep
    <3>2. Current(r)
      BY <2>3, StartingCurrent DEF StartIgnored, StartResumes, Current, LifeOps
    <3>3. \A q \in Reqs : q # r => ~Begun(q)
      BY <3>2, CurrentFacts, OneBegun
    <3>4. \A q \in Reqs : pc'[q] \notin Deep
      <4> SUFFICES ASSUME NEW q \in Reqs, pc'[q] \in Deep PROVE FALSE
        OBVIOUS
      <4>1. q # r /\ pc[q] \in Deep
        BY <2>0, <3>1 DEF Moves, Goto, CoreInv, TypeOK, Procs
      <4> QED
        BY <3>3, <4>1, DeepFacts
    <3> QED
      BY <3>1, <3>4 DEF QuietInv, Deep
  <2>4. CASE LoadReads(r)
    <3>1. /\ Current(r) /\ ~timer /\ pc[r] \in {"queued", "rewound"}
          /\ call[r].op \in {"start", "reset"}
      <4>1. CASE Starting(r)
        BY <4>1, StartingCurrent
      <4>2. CASE Running(r, "rewound", "reset")
        BY <4>2, DeepFacts DEF Running, Current, Deep
      <4> QED
        BY <2>4, <4>1, <4>2 DEF LoadReads
    <3>2. Free
      <4>1. \A q \in Reqs : Begun(q) => q = r
        BY <3>1, CurrentFacts, OneBegun
      <4> SUFFICES ASSUME ~Free PROVE FALSE
        OBVIOUS
      <4>2. PICK q \in Reqs : pc[q] = "draining" \/ (slot = q /\ call[q].op = "stop")
        BY <3>1 DEF QuietInv
      <4>3. Begun(q)
        BY <4>2, DeepFacts, EngineAssumption
           DEF CoreInv, LockInv, Begun, LifeOps, Holding, Free, Procs
      <4> QED
        BY <3>1, <4>1, <4>2, <4>3
    <3> QED
      BY <3>2, <2>4 DEF LoadReads, QuietInv, Free
  <2>5. CASE LoadDone(r) \/ LoadFails(r)
    BY <2>5 DEF LoadDone, LoadFails, QuietInv, Free
  <2>6. CASE StopBegins(r)
    <3>1. /\ pc'[r] = "draining" /\ slot' = slot /\ Current(r)
          /\ \A q \in Reqs : q # r => pc'[q] = pc[q]
      BY <2>0, <2>6 DEF StopBegins, Current, LifeOps, Goto, CoreInv, TypeOK, Procs
    <3>2. \A q \in Reqs : q # r => pc[q] \notin Deep
      BY <3>1, CurrentFacts, DeepFacts
    <3> QED
      BY <3>1, <3>2 DEF QuietInv, Free, Deep
  <2>7. CASE StopClaims(r)
    <3>1. /\ slot' = r /\ call'[r].op = "stop" /\ pc[r] = "draining" /\ pc'[r] = "flushing"
          /\ \A q \in Reqs : q # r => pc'[q] = pc[q]
      BY <1>1, <2>0, <2>7 DEF StopClaims, Running, Goto, Learn, CoreInv, TypeOK, Call, Procs
    <3>2. \A q \in Reqs : q # r => pc[q] \notin Deep
      BY <3>1, DeepFacts
    <3> QED
      BY <3>1, <3>2 DEF QuietInv, Free, Deep
  <2>8. CASE StopReturns(r)
    BY <2>8 DEF StopReturns, QuietInv, Free
  <2>9. ASSUME NEW t \in Trucks, Flush(r, t) PROVE QuietInv'
    <3> DEFINE c == [call[r] EXCEPT !.todo = @ \ {t}, !.truck = t, !.next = call[r].seen[t]]
    <3>1. Moves(r, "writing", c) /\ UNCHANGED <<timer, slot>> /\ pc[r] = "flushing"
      BY <2>9 DEF Flush, Moves, Running
    <3>2. c.op = "stop"
      BY <1>1, <2>0, <2>9 DEF Flush, Running, Call
    <3> HIDE DEF c
    <3> QED
      BY <2>0, <3>1, <3>2, QuietKept DEF Step, Deep
  <2>10. CASE ResetDrained(r)
    BY <2>10 DEF ResetDrained, QuietInv, Free
  <2>11. CASE ResetClears(r) \/ RewindCommits(r) \/ RewindFails(r)
    <3>1. pc[r] \in Deep /\ UNCHANGED slot
      BY <2>11 DEF ResetClears, RewindCommits, RewindFails, Deep
    <3> QED
      BY <3>1 DEF QuietInv, Free, Deep
  <2> QED
    BY <1>5, <2>1, <2>2, <2>3, <2>4, <2>5, <2>6, <2>7, <2>8, <2>9, <2>10, <2>11 DEF Manage
<1> QED
  BY <1>2, <1>3, <1>4, <1>5 DEF Next

-----------------------------------------------------------------------------
(* The engine by itself: memory is empty while the world is rewound and read *)

Bare == {"rewinding", "rewound", "loading"}

(* Only a reset, and a start that finds no truck, come to these steps. *)
LEMMA IntoBare ==
  ASSUME CoreInv, Next, NEW q \in Reqs, pc'[q] \in Bare
  PROVE  \/ pc'[q] = pc[q] /\ call'[q] = call[q]
         \/ ResetClears(q) \/ RewindCommits(q) \/ RewindFails(q) \/ LoadReads(q)
<1>0. q \in Procs /\ q # Ticker /\ Ticker \in Procs
  BY EngineAssumption DEF Procs
<1>1. ASSUME NEW p \in Procs, NEW step, NEW c, step \notin Bare, Moves(p, step, c)
      PROVE  pc'[q] = pc[q] /\ call'[q] = call[q]
  BY <1>0, <1>1 DEF Moves, Goto, Learn, CoreInv, TypeOK
<1>2. ASSUME NEW p \in Procs, NEW step, step \notin Bare, Goto(p, step), UNCHANGED call
      PROVE  pc'[q] = pc[q] /\ call'[q] = call[q]
  BY <1>0, <1>2 DEF Goto, CoreInv, TypeOK
<1>3. ASSUME NEW p \in Procs, Return(p)
      PROVE  pc'[q] = pc[q] /\ call'[q] = call[q]
  BY <1>1, <1>3 DEF Return, Moves, Bare
<1>4. CASE Tick
  BY <1>0, <1>4 DEF Tick, TickBegins, TickEnds, TickPasses, TickAdvances, Return, Goto, Learn,
                    CoreInv, TypeOK
<1>5. ASSUME NEW p \in Procs, Persist(p) PROVE pc'[q] = pc[q] /\ call'[q] = call[q]
  BY <1>2, <1>3, <1>5
     DEF Persist, PersistCommits, PersistFails, PersistDone, Continue, Bare
<1>6. ASSUME NEW r \in Reqs, Ask(r) PROVE pc'[q] = pc[q] /\ call'[q] = call[q]
  BY <1>1, <1>6 DEF Ask, RequestDelay, RequestLifecycle, Moves, Bare, Procs
<1>7. ASSUME NEW r \in Reqs, Manage(r)
      PROVE  \/ pc'[q] = pc[q] /\ call'[q] = call[q]
             \/ ResetClears(q) \/ RewindCommits(q) \/ RewindFails(q) \/ LoadReads(q)
  <2>0. r \in Procs
    BY DEF Procs
  <2>1. CASE Parks(r) \/ ResetDrained(r)
    BY <1>2, <2>0, <2>1 DEF Parks, ResetDrained, Bare
  <2>2. CASE DelayRefused(r) \/ StartIgnored(r) \/ StartResumes(r) \/ LoadDone(r)
             \/ LoadFails(r) \/ StopReturns(r)
    BY <1>3, <2>0, <2>2 DEF DelayRefused, StartIgnored, StartResumes, LoadDone, LoadFails,
                            StopReturns, Finish
  <2>3. CASE DelayApplies(r) \/ StopBegins(r) \/ StopClaims(r) \/ \E t \in Trucks : Flush(r, t)
    BY <1>1, <2>0, <2>3 DEF DelayApplies, StopBegins, StopClaims, Flush, Moves, Bare
  <2>4. CASE LoadReads(r) \/ ResetClears(r) \/ RewindCommits(r) \/ RewindFails(r)
    <3>1. CASE r = q
      BY <2>4, <3>1
    <3>2. CASE r # q
      BY <1>0, <2>0, <2>4, <3>2
         DEF LoadReads, ResetClears, RewindCommits, RewindFails, Goto, Learn, CoreInv, TypeOK
    <3> QED
      BY <3>1, <3>2
  <2> QED
    BY <1>7, <2>1, <2>2, <2>3, <2>4 DEF Manage
<1> QED
  BY <1>4, <1>5, <1>6, <1>7 DEF Next

(* A drained command keeps every other handler from the barrier. *)
LEMMA DeepAlone ==
  ASSUME CoreInv, QuietInv, NEW r \in Reqs, pc[r] \in Deep
  PROVE  Free /\ \A p \in Procs : pc[p] \notin Holding
BY Held DEF QuietInv, Deep

LEMMA LoadStep ==
  ASSUME EngineInv, Next
  PROVE  LoadInv'
<1> SUFFICES ASSUME NEW q \in Reqs, pc'[q] \in Bare
             PROVE  /\ live' = Nothing
                    /\ pc'[q] = "loading" =>
                         call'[q].rows = [t \in Trucks |->
                            IF db'[t].status \in Moving THEN db'[t] ELSE Nil]
  BY DEF LoadInv, Bare
<1>0. CoreInv /\ QuietInv /\ LoadInv /\ q \in Procs
  BY DEF EngineInv, DataInv, Procs
<1>1. CASE pc'[q] = pc[q] /\ call'[q] = call[q]
  <2>1. /\ pc[q] \in Deep /\ ~timer /\ \A p \in Procs : pc[p] \notin Holding
        /\ \A r \in Reqs : pc[r] \in Deep => r = q
    <3>1. pc[q] \in Deep
      BY <1>1 DEF Bare, Deep
    <3>2. ~timer /\ \A p \in Procs : pc[p] \notin Holding
      BY <1>0, <3>1, DeepFacts, DeepAlone
    <3>3. \A r \in Reqs : pc[r] \in Deep => r = q
      BY <1>0, <3>1, DeepFacts
    <3> QED
      BY <3>1, <3>2, <3>3
  <2>2. live' = Nothing
    <3>1. live = Nothing
      BY <1>0, <1>1 DEF LoadInv, Bare
    <3>2. \A p \in Procs : ~PersistDone(p)
      BY <2>1 DEF PersistDone, Holding
    <3>3. \A t \in Trucks, p \in 0 .. Far : ~TickAdvances(t, p)
      BY <2>1 DEF TickAdvances, Holding, Procs
    <3>4. ASSUME NEW r \in Reqs PROVE ~DelayApplies(r) /\ ~LoadDone(r)
      <4>1. ~DelayApplies(r)
        BY <2>1 DEF DelayApplies, Accepts
      <4>2. ASSUME LoadDone(r) PROVE FALSE
        <5>1. r = q /\ pc'[q] = "idle"
          BY <1>0, <2>1, <4>2 DEF LoadDone, Deep, Finish, Return, Goto, CoreInv, TypeOK
        <5> QED
          BY <5>1 DEF Bare
      <4> QED
        BY <4>1, <4>2
    <3> QED
      BY <3>1, <3>2, <3>3, <3>4, MemoryChanges DEF ResetClears
  <2>3. UNCHANGED db
    <3>1. \A p \in Procs : ~PersistCommits(p)
      BY <2>1 DEF PersistCommits, Holding
    <3>2. ASSUME NEW r \in Reqs, RewindCommits(r) PROVE FALSE
      <4>1. r = q /\ pc[q] = "rewinding" /\ pc'[q] = "rewound"
        BY <1>0, <2>1, <3>2 DEF RewindCommits, Deep, Goto, CoreInv, TypeOK
      <4> QED
        BY <1>1, <4>1
    <3> QED
      BY <3>1, <3>2, RowsChange
  <2> QED
    BY <1>0, <1>1, <2>2, <2>3 DEF LoadInv
<1>2. CASE ResetClears(q)
  BY <1>0, <1>2 DEF ResetClears, Goto, CoreInv, TypeOK
<1>3. CASE RewindCommits(q) \/ RewindFails(q)
  BY <1>0, <1>3 DEF RewindCommits, RewindFails, Goto, CoreInv, TypeOK, LoadInv
<1>4. CASE LoadReads(q)
  <2>1. live = Nothing
    BY <1>0, <1>4 DEF LoadReads, Running, LoadInv
  <2>2. call'[q].rows = [t \in Trucks |-> IF db[t].status \in Moving THEN db[t] ELSE Nil]
    <3>1. call[q] \in Call
      BY <1>0, CallFacts
    <3> QED
      BY <1>0, <1>4, <3>1 DEF LoadReads, Learn, CoreInv, TypeOK, Call
  <2> QED
    BY <1>4, <2>1, <2>2 DEF LoadReads
<1> QED
  BY <1>0, <1>1, <1>2, <1>3, <1>4, IntoBare

-----------------------------------------------------------------------------
(* The engine by itself: the barrier's holder has the trucks to itself *)

(* The step of one handler is the only one that matters. *)
LEMMA HolderKept ==
  ASSUME CoreInv, HolderInv, NEW p \in Procs, NEW step, NEW c, Moves(p, step, c),
         UNCHANGED <<db, live>> \/ \A q \in Procs : q # p => pc[q] \notin Holding,
         HolderOK(p)'
  PROVE  HolderInv'
<1>1. \A q \in Procs : q # p => pc'[q] = pc[q] /\ call'[q] = call[q]
  BY DEF Moves, Goto, Learn, CoreInv, TypeOK
<1>2. ASSUME NEW q \in Procs, q # p PROVE HolderOK(q)'
  <2>1. CASE pc[q] \notin Holding
    BY <1>1, <1>2, <2>1 DEF HolderOK, Holding
  <2>2. CASE UNCHANGED <<db, live>>
    BY <1>1, <1>2, <2>2 DEF HolderInv, HolderOK
  <2> QED
    BY <2>1, <2>2
<1> QED
  BY <1>2 DEF HolderInv

(* A handler that has not got the barrier after its step. *)
LEMMA HolderFree ==
  ASSUME CoreInv, HolderInv, NEW p \in Procs, NEW step, step \notin Holding, NEW c,
         Moves(p, step, c),
         UNCHANGED <<db, live>> \/ \A q \in Procs : q # p => pc[q] \notin Holding
  PROVE  HolderInv'
<1>1. pc'[p] \notin Holding
  BY DEF Moves, Goto, CoreInv, TypeOK
<1>2. HolderOK(p)'
  BY <1>1 DEF HolderOK, Holding
<1> QED
  BY <1>2, HolderKept

LEMMA HolderTicks ==
  ASSUME EngineInv, Tick
  PROVE  HolderInv'
<1>0. CoreInv /\ HolderInv /\ Ticker \in Procs /\ call[Ticker] \in Call
  BY CallFacts DEF EngineInv, DataInv, Procs
<1>1. CASE TickBegins
  <2> DEFINE c == [NoCall EXCEPT !.op = "tick", !.seen = live,
                                 !.todo = {t \in routes : live[t] # Nil}]
  <2>1. Moves(Ticker, "ticking", c) /\ UNCHANGED <<db, live>>
    BY <1>1 DEF TickBegins, Moves
  <2>2. pc'[Ticker] = "ticking" /\ call'[Ticker] = c
    BY <1>0, <2>1 DEF Moves, Goto, Learn, CoreInv, TypeOK
  <2>3. HolderOK(Ticker)'
    BY <2>1, <2>2 DEF HolderOK, NoCall
  <2> QED
    BY <1>0, <2>1, <2>3, HolderKept
<1>2. CASE TickEnds
  BY <1>0, <1>2, ReturnMoves, HolderFree DEF TickEnds, Holding
<1>3. ASSUME NEW t \in Trucks, TickPasses(t) PROVE HolderInv'
  <2> DEFINE c == [call[Ticker] EXCEPT !.todo = @ \ {t}]
  <2>1. Moves(Ticker, "ticking", c) /\ UNCHANGED <<db, live>> /\ pc[Ticker] = "ticking"
    BY <1>0, <1>3 DEF TickPasses, Moves, Goto, CoreInv, TypeOK
  <2>2. pc'[Ticker] = "ticking" /\ call'[Ticker] = c
    BY <1>0, <2>1 DEF Moves, Goto, Learn, CoreInv, TypeOK
  <2>3. c.todo \subseteq call[Ticker].todo /\ c.seen = call[Ticker].seen
    BY <1>0 DEF Call
  <2>4. HolderOK(Ticker)'
    BY <1>0, <2>1, <2>2, <2>3 DEF HolderInv, HolderOK, Holding
  <2> QED
    BY <1>0, <2>1, <2>4, HolderKept
<1>4. ASSUME NEW t \in Trucks, NEW p \in 0 .. Far, TickAdvances(t, p) PROVE HolderInv'
  <2> DEFINE next == Advanced(call[Ticker].seen[t], p)
             c    == [call[Ticker] EXCEPT !.todo = @ \ {t}]
  <2>1. /\ pc[Ticker] = "ticking" /\ t \in call[Ticker].todo /\ UNCHANGED db
        /\ live' = [live EXCEPT ![t] = next]
    BY <1>4 DEF TickAdvances, Put
  <2>2. /\ \A u \in call[Ticker].todo : live[u] = call[Ticker].seen[u]
        /\ \A q \in Procs : q # Ticker => pc[q] \notin Holding
    BY <1>0, <2>1, Held DEF HolderInv, HolderOK, Holding
  <2>3. live'[t] = next /\ \A u \in call[Ticker].todo \ {t} : live'[u] = call[Ticker].seen[u]
    BY <1>0, <2>1, <2>2 DEF CoreInv, TypeOK, Call
  <2>4. c.todo = call[Ticker].todo \ {t} /\ c.seen = call[Ticker].seen
    BY <1>0 DEF Call
  <2>5. CASE Learn(Ticker, c) /\ UNCHANGED pc
    <3>1. Moves(Ticker, "ticking", c) /\ pc'[Ticker] = "ticking" /\ call'[Ticker] = c
      BY <1>0, <2>1, <2>5 DEF Moves, Goto, Learn, CoreInv, TypeOK
    <3>2. HolderOK(Ticker)'
      BY <2>3, <2>4, <3>1 DEF HolderOK
    <3> QED
      BY <1>0, <2>2, <3>1, <3>2, HolderKept
  <2>6. CASE ~(Learn(Ticker, c) /\ UNCHANGED pc)
    <3> DEFINE why == SnapshotReason(call[Ticker].seen[t], next)
               d   == [c EXCEPT !.truck = t, !.next = next, !.reason = why]
    <3>1. Moves(Ticker, "writing", d)
      BY <1>4, <2>6 DEF TickAdvances, Moves
    <3>2. pc'[Ticker] = "writing" /\ call'[Ticker] = d
      BY <1>0, <3>1 DEF Moves, Goto, Learn, CoreInv, TypeOK
    <3>3. d.todo = c.todo /\ d.seen = c.seen /\ d.truck = t /\ d.next = next
      BY <1>0 DEF Call
    <3> HIDE DEF d, c, next
    <3>4. HolderOK(Ticker)'
      BY <2>3, <2>4, <3>2, <3>3 DEF HolderOK
    <3> QED
      BY <1>0, <2>2, <3>1, <3>4, HolderKept
  <2> QED
    BY <2>5, <2>6
<1> QED
  BY <1>1, <1>2, <1>3, <1>4 DEF Tick

LEMMA HolderPersists ==
  ASSUME EngineInv, NEW p \in Procs, Persist(p)
  PROVE  HolderInv'
<1> DEFINE c == call[p]
<1>0. /\ CoreInv /\ HolderInv /\ c \in Call /\ pc[p] \in {"writing", "written"}
      /\ HandlerOK(p, pc[p], c)
  BY CallFacts DEF EngineInv, DataInv, Persist, PersistCommits, PersistFails, PersistDone
<1>1. /\ \A t \in c.todo : live[t] = c.seen[t]
      /\ live[c.truck] = c.next /\ c.truck \in Trucks /\ c.truck \notin c.todo
      /\ c.todo \subseteq Trucks
      /\ \A q \in Procs : q # p => pc[q] \notin Holding
  BY <1>0, Held DEF HolderInv, HolderOK, HandlerOK, Holding, Call
<1>2. CASE PersistCommits(p)
  <2>1. /\ Moves(p, "written", c) /\ UNCHANGED live
        /\ db' = [db EXCEPT ![c.truck] =
             [status |-> c.next.status, delay |-> c.next.delay, progress |-> c.next.progress,
              ship |-> ShipAfter(@.ship, c.next, c.reason)]]
    BY <1>0, <1>2, StayMoves DEF PersistCommits, CoreInv
  <2>2. pc'[p] = "written" /\ call'[p] = c
    BY <1>0, <2>1 DEF Moves, Goto, Learn, CoreInv, TypeOK
  <2>3. Matches(db'[c.truck], c.next)
    BY <1>0, <1>1, <2>1 DEF Matches, CoreInv, TypeOK
  <2>4. HolderOK(p)'
    BY <1>1, <2>1, <2>2, <2>3 DEF HolderOK
  <2> QED
    BY <1>0, <1>1, <2>1, <2>4, HolderKept
<1>3. CASE PersistFails(p) \/ PersistDone(p)
  <2>1. \A t \in c.todo : live'[t] = c.seen[t]
    BY <1>0, <1>1, <1>3 DEF PersistFails, PersistDone, CoreInv, TypeOK
  <2>2. Continue(p)
    BY <1>3 DEF PersistFails, PersistDone
  <2>3. ASSUME NEW step \in {"ticking", "flushing"}, Goto(p, step), UNCHANGED call
        PROVE  HolderInv'
    <3>1. Moves(p, step, c)
      BY <1>0, <2>3, StayMoves DEF CoreInv
    <3>2. pc'[p] = step /\ call'[p] = c
      BY <1>0, <3>1 DEF Moves, Goto, Learn, CoreInv, TypeOK
    <3>3. HolderOK(p)'
      BY <2>1, <3>2 DEF HolderOK
    <3> QED
      BY <1>0, <1>1, <3>1, <3>3, HolderKept
  <2>4. CASE Return(p)
    BY <1>0, <1>1, <2>4, ReturnMoves, HolderFree DEF Holding
  <2>5. CASE Goto(p, "absorbed") /\ UNCHANGED call
    BY <1>0, <1>1, <2>5, StayMoves, HolderFree DEF Holding, CoreInv
  <2> QED
    BY <2>2, <2>3, <2>4, <2>5 DEF Continue
<1> QED
  BY <1>2, <1>3 DEF Persist

LEMMA HolderManages ==
  ASSUME EngineInv, NEW r \in Reqs, Ask(r) \/ Manage(r)
  PROVE  HolderInv'
<1>0. /\ CoreInv /\ HolderInv /\ QuietInv /\ r \in Procs /\ call[r] \in Call
      /\ HandlerOK(r, pc[r], call[r])
  BY CallFacts DEF EngineInv, DataInv, Procs
<1>1. CASE Ask(r)
  BY <1>0, <1>1, HolderFree DEF Ask, RequestDelay, RequestLifecycle, Moves, Holding
<1>2. CASE Parks(r) \/ ResetDrained(r) \/ RewindFails(r)
  BY <1>0, <1>2, StayMoves, HolderFree DEF Parks, ResetDrained, RewindFails, Holding, CoreInv
<1>3. CASE DelayRefused(r) \/ StartIgnored(r) \/ LoadFails(r) \/ StopReturns(r)
  BY <1>0, <1>3, ReturnMoves, HolderFree
     DEF DelayRefused, StartIgnored, LoadFails, StopReturns, Finish, Holding
<1>4. CASE StartResumes(r)
  BY <1>0, <1>4, ResumesSame, ReturnMoves, HolderFree DEF StartResumes, Finish, Holding
<1>5. CASE LoadReads(r) \/ StopBegins(r)
  BY <1>0, <1>5, HolderFree DEF LoadReads, StopBegins, Moves, Holding
<1>6. CASE LoadDone(r)
  <2>1. \A p \in Procs : pc[p] \notin Holding
    BY <1>0, <1>6, DeepAlone DEF LoadDone, Deep
  <2> QED
    BY <1>0, <1>6, <2>1, ReturnMoves, HolderFree DEF LoadDone, Finish, Holding
<1>7. CASE ResetClears(r) \/ RewindCommits(r)
  <2>1. \A p \in Procs : pc[p] \notin Holding
    BY <1>0, <1>7, DeepAlone DEF ResetClears, RewindCommits, Deep
  <2> QED
    BY <1>0, <1>7, <2>1, StayMoves, HolderFree DEF ResetClears, RewindCommits, Holding, CoreInv
<1>8. CASE DelayApplies(r)
  <2> DEFINE a    == call[r]
             next == Delayed(live[a.truck], a.delay, lastSequence[a.truck] + 1)
             c    == [a EXCEPT !.next = next, !.reason = "DELAY"]
  <2>1. /\ Moves(r, "writing", c) /\ live' = [live EXCEPT ![a.truck] = next] /\ Free
        /\ pc[r] \in {"waiting", "parked"}
    BY <1>8 DEF DelayApplies, Moves, Put, Reaches
  <2>2. /\ a.truck \in Trucks /\ a.todo = {}
        /\ \A q \in Procs : pc[q] \notin Holding
    BY <1>0, <1>8, <2>1, WaitFacts, Held DEF HandlerOK, DelayApplies
  <2>3. pc'[r] = "writing" /\ call'[r] = c /\ live'[a.truck] = next
    BY <1>0, <2>1, <2>2 DEF Moves, Goto, Learn, CoreInv, TypeOK
  <2>4. c.todo = {} /\ c.truck = a.truck /\ c.next = next
    BY <1>0, <2>2 DEF Call
  <2> HIDE DEF c, next
  <2>5. HolderOK(r)'
    BY <2>3, <2>4 DEF HolderOK
  <2> QED
    BY <1>0, <2>1, <2>2, <2>5, HolderKept
<1>9. CASE StopClaims(r)
  <2> DEFINE c == [call[r] EXCEPT !.seen = live,
                     !.todo = {t \in Trucks : live[t] # Nil /\ live[t].dirty}]
  <2>1. Moves(r, "flushing", c) /\ UNCHANGED <<db, live>>
    BY <1>9 DEF StopClaims, Moves
  <2>2. pc'[r] = "flushing" /\ call'[r] = c
    BY <1>0, <2>1 DEF Moves, Goto, Learn, CoreInv, TypeOK
  <2>3. c.seen = live
    BY <1>0 DEF Call
  <2> HIDE DEF c
  <2>4. HolderOK(r)'
    BY <2>1, <2>2, <2>3 DEF HolderOK
  <2> QED
    BY <1>0, <2>1, <2>4, HolderKept
<1>10. ASSUME NEW t \in Trucks, Flush(r, t) PROVE HolderInv'
  <2> DEFINE a == call[r]
             c == [a EXCEPT !.todo = @ \ {t}, !.truck = t, !.next = a.seen[t]]
  <2>1. /\ Moves(r, "writing", c) /\ UNCHANGED <<db, live>> /\ pc[r] = "flushing"
        /\ t \in a.todo
    BY <1>10 DEF Flush, Moves, Running
  <2>2. pc'[r] = "writing" /\ call'[r] = c
    BY <1>0, <2>1 DEF Moves, Goto, Learn, CoreInv, TypeOK
  <2>3. c.seen = a.seen /\ c.todo \subseteq a.todo /\ c.truck = t /\ c.next = a.seen[t]
    BY <1>0 DEF Call
  <2>4. \A u \in a.todo : live[u] = a.seen[u]
    BY <1>0, <2>1 DEF HolderInv, HolderOK, Holding
  <2> HIDE DEF c
  <2>5. HolderOK(r)'
    BY <2>1, <2>2, <2>3, <2>4 DEF HolderOK
  <2> QED
    BY <1>0, <2>1, <2>5, HolderKept
<1> QED
  BY <1>1, <1>2, <1>3, <1>4, <1>5, <1>6, <1>7, <1>8, <1>9, <1>10 DEF Manage

LEMMA HolderStep ==
  ASSUME EngineInv, Next
  PROVE  HolderInv'
BY HolderTicks, HolderPersists, HolderManages DEF Next

-----------------------------------------------------------------------------
(* The engine by itself: the data *)

(* Under a write, the truck is live as it is being written. *)
LEMMA WriterFacts ==
  ASSUME EngineInv, NEW p \in Procs, pc[p] \in {"writing", "written"}
  PROVE  /\ call[p].truck \in Trucks /\ call[p].next \in State /\ call[p].next # Nil
         /\ live[call[p].truck] = call[p].next
         /\ pc[p] = "written" => Matches(db[call[p].truck], call[p].next)
<1>1. CoreInv /\ HolderInv
  BY DEF EngineInv, DataInv
<1>2. HandlerOK(p, pc[p], call[p])
  BY <1>1, CallFacts
<1> QED
  BY <1>1, <1>2, EngineAssumption DEF HolderInv, HolderOK, HandlerOK

(* A write that commits changes one row, to what its truck is. *)
LEMMA CommitFacts ==
  ASSUME EngineInv, NEW p \in Procs, PersistCommits(p)
  PROVE  /\ UNCHANGED <<live, routes, lastSequence, sent>>
         /\ \E t \in Trucks : /\ live[t] \in State /\ live[t] # Nil
                              /\ Matches(db'[t], live[t])
                              /\ \A u \in Trucks : u # t => db'[u] = db[u]
<1>1. /\ call[p].truck \in Trucks /\ call[p].next \in State /\ call[p].next # Nil
      /\ live[call[p].truck] = call[p].next
  BY WriterFacts DEF PersistCommits
<1>2. db \in [Trucks -> Row]
  BY DEF EngineInv, CoreInv, TypeOK
<1>3. Matches(db'[call[p].truck], call[p].next)
  BY <1>1, <1>2 DEF PersistCommits, Matches
<1>4. \A u \in Trucks : u # call[p].truck => db'[u] = db[u]
  BY <1>1, <1>2 DEF PersistCommits
<1> QED
  BY <1>1, <1>3, <1>4 DEF PersistCommits

(* A live truck goes from s to next in memory, its number handed out and   *)
(* sent, by a tick or a delay command.                                     *)
Steps(t, next) ==
  /\ live[t] \in State /\ live[t] # Nil /\ next \in State
  /\ live' = [live EXCEPT ![t] = next]
  /\ next.seq = lastSequence[t] + 1 /\ next.dirty
  /\ live[t].status = "DELAYED" <=> live[t].delay # "NORMAL"
     => (next.status = "DELAYED" <=> next.delay # "NORMAL")
  /\ lastSequence' = [lastSequence EXCEPT ![t] = next.seq]
  /\ sent' = [sent EXCEPT ![t] = next.seq]

LEMMA TickSteps ==
  ASSUME EngineInv, NEW t \in Trucks, NEW p \in 0 .. Far, TickAdvances(t, p)
  PROVE  UNCHANGED <<db, routes>> /\ \E next : Steps(t, next)
<1> DEFINE s == call[Ticker].seen[t]
           next == Advanced(s, p)
<1>1. /\ pc[Ticker] = "ticking" /\ t \in call[Ticker].todo /\ Put(t, next)
      /\ UNCHANGED <<db, routes>>
  BY DEF TickAdvances
<1>2. CoreInv /\ HolderInv /\ NumberInv /\ Ticker \in Procs
  BY DEF EngineInv, DataInv, Procs
<1>3. live[t] = s /\ s \in State /\ s # Nil
  BY <1>1, <1>2, TickFacts, EngineAssumption DEF HolderInv, HolderOK, Holding
<1>4. next \in State
  BY <1>3, StateFacts
<1>5. next.seq = lastSequence[t] + 1 /\ next.dirty
  BY <1>2, <1>3 DEF Advanced, State, NumberInv
<1>6. (s.status = "DELAYED" <=> s.delay # "NORMAL")
      => (next.status = "DELAYED" <=> next.delay # "NORMAL")
  BY <1>3 DEF Advanced, State
<1> HIDE DEF next
<1> QED
  BY <1>1, <1>3, <1>4, <1>5, <1>6 DEF Steps, Put

LEMMA DelaySteps ==
  ASSUME EngineInv, NEW r \in Reqs, DelayApplies(r)
  PROVE  UNCHANGED <<db, routes>> /\ \E t \in Trucks : \E next : Steps(t, next)
<1> DEFINE t    == call[r].truck
           d    == call[r].delay
           next == Delayed(live[t], d, lastSequence[t] + 1)
<1>1. /\ pc[r] \in {"waiting", "parked"} /\ call[r].op = "delay" /\ live[t] # Nil
      /\ Put(t, next) /\ UNCHANGED <<db, routes>>
  BY DEF DelayApplies, Reaches, Accepts
<1>2. CoreInv
  BY DEF EngineInv
<1>3. t \in Trucks /\ d \in Delay
  BY <1>1, <1>2, WaitFacts DEF HandlerOK
<1>4. live[t] \in State /\ lastSequence[t] + 1 \in Nat
  BY <1>1, <1>2, <1>3 DEF CoreInv, TypeOK
<1>5. next \in State
  BY <1>3, <1>4, StateFacts
<1>6. /\ next.seq = lastSequence[t] + 1 /\ next.dirty
      /\ next.status = "DELAYED" <=> next.delay # "NORMAL"
  BY <1>4 DEF Delayed, State
<1> HIDE DEF next
<1> QED
  BY <1>1, <1>3, <1>4, <1>5, <1>6 DEF Steps, Put

(* A load makes the trucks on the road live, as their rows say they are. *)
LEMMA LoadSteps ==
  ASSUME EngineInv, NEW r \in Reqs, LoadDone(r)
  PROVE  /\ UNCHANGED db
         /\ \A t \in Trucks :
              /\ live'[t] # Nil <=> db[t].status \in Moving
              /\ live'[t] # Nil => /\ Matches(db[t], live'[t])
                                  /\ live'[t].seq = lastSequence'[t]
              /\ lastSequence'[t] >= lastSequence[t]
              /\ sent'[t] = sent[t] \/ sent'[t] = lastSequence'[t]
              /\ db[t].status \in Moving => t \in routes'
<1> DEFINE rows == call[r].rows
           lv   == [t \in Trucks |-> IF rows[t] = Nil THEN live[t]
                                     ELSE Loaded(rows[t], lastSequence[t])]
           rts  == routes \cup {t \in Trucks : rows[t] # Nil}
<1>1. /\ pc[r] = "loading" /\ UNCHANGED db /\ routes' = rts /\ Announce(r, lv, rts)
  BY DEF LoadDone
<1>2. /\ live = Nothing
      /\ rows = [t \in Trucks |-> IF db[t].status \in Moving THEN db[t] ELSE Nil]
  BY <1>1 DEF EngineInv, DataInv, LoadInv
<1>3. /\ db \in [Trucks -> Row] /\ lastSequence \in [Trucks -> Nat] /\ Nil \notin Row
  BY EngineAssumption DEF EngineInv, CoreInv, TypeOK
<1> SUFFICES ASSUME NEW t \in Trucks
             PROVE  /\ live'[t] # Nil <=> db[t].status \in Moving
                    /\ live'[t] # Nil => /\ Matches(db[t], live'[t])
                                        /\ live'[t].seq = lastSequence'[t]
                    /\ lastSequence'[t] >= lastSequence[t]
                    /\ sent'[t] = sent[t] \/ sent'[t] = lastSequence'[t]
                    /\ db[t].status \in Moving => t \in routes'
  BY <1>1
<1> DEFINE ann == Announced(r, lv, rts)
<1>4. /\ lv[t] = IF db[t].status \in Moving THEN Loaded(db[t], lastSequence[t]) ELSE Nil
      /\ db[t].status \in Moving <=> rows[t] # Nil
  BY <1>2, <1>3 DEF Nothing
<1>5. t \in ann => db[t].status \in Moving
  BY <1>4 DEF Announced
<1>6. /\ live'[t] = IF t \in ann THEN [lv[t] EXCEPT !.seq = lastSequence[t] + 1] ELSE lv[t]
      /\ lastSequence'[t] = lastSequence[t] + (IF t \in ann THEN 1 ELSE 0)
      /\ sent'[t] = IF t \in ann THEN lastSequence[t] + 1 ELSE sent[t]
  BY <1>1 DEF Announce
<1>7. db[t].status \in Moving => t \in routes'
  BY <1>1, <1>4
<1> HIDE DEF lv, ann, rts
<1>8. CASE t \in ann
  <2>1. lastSequence'[t] = lastSequence[t] + 1
    BY <1>6, <1>8
  <2> DEFINE s == [lv[t] EXCEPT !.seq = lastSequence[t] + 1]
  <2>2. lv[t] = Loaded(db[t], lastSequence[t]) /\ live'[t] = s /\ db[t].status \in Moving
    BY <1>4, <1>5, <1>6, <1>8
  <2>3. /\ s.status = db[t].status /\ s.delay = db[t].delay /\ s.progress = db[t].progress
        /\ s.seq = lastSequence[t] + 1
    BY <2>2 DEF Loaded
  <2>4. live'[t] # Nil
    <3>1. Loaded(db[t], lastSequence[t]) \in State /\ lastSequence[t] + 1 \in Nat
      BY <1>3, LoadedFacts
    <3>2. s \in State
      BY <2>2, <3>1 DEF State
    <3> QED
      BY <2>2, <3>2, EngineAssumption
  <2> QED
    BY <1>3, <1>6, <1>7, <1>8, <2>1, <2>2, <2>3, <2>4 DEF Matches
<1>9. CASE t \notin ann
  <2>1. lastSequence'[t] = lastSequence[t] /\ sent'[t] = sent[t] /\ live'[t] = lv[t]
    BY <1>3, <1>6, <1>9
  <2>2. CASE db[t].status \in Moving
    <3>1. live'[t] = Loaded(db[t], lastSequence[t])
      BY <1>4, <2>1, <2>2
    <3>2. Matches(db[t], live'[t]) /\ live'[t].seq = lastSequence[t]
      BY <3>1 DEF Matches, Loaded
    <3>3. live'[t] # Nil
      BY <1>3, <3>1, LoadedFacts, EngineAssumption
    <3> QED
      BY <1>3, <1>7, <2>1, <2>2, <3>2, <3>3
  <2>3. CASE db[t].status \notin Moving
    <3>1. live'[t] = Nil
      BY <1>4, <2>1, <2>3
    <3> QED
      BY <1>3, <1>7, <2>1, <2>3, <3>1
  <2> QED
    BY <2>2, <2>3
<1> QED
  BY <1>8, <1>9

(* A write that landed leaves its truck clean, the rest of it as it was. *)
LEMMA DoneFacts ==
  ASSUME EngineInv, NEW p \in Procs, PersistDone(p)
  PROVE  /\ UNCHANGED <<db, routes, lastSequence, sent>>
         /\ \E t \in Trucks :
              /\ live[t] \in State /\ live[t] # Nil /\ Matches(db[t], live[t])
              /\ live' = [live EXCEPT ![t] = Saved(live[t])] /\ Saved(live[t]) # Nil
<1>1. /\ call[p].truck \in Trucks /\ call[p].next \in State /\ call[p].next # Nil
      /\ live[call[p].truck] = call[p].next /\ Matches(db[call[p].truck], call[p].next)
  BY WriterFacts DEF PersistDone
<1>2. Saved(call[p].next) # Nil
  BY <1>1, StateFacts, EngineAssumption
<1> QED
  BY <1>1, <1>2 DEF PersistDone

(* When a rewind commits, and when a reset has cleared it, memory is empty. *)
LEMMA RewindFacts ==
  ASSUME EngineInv, NEW r \in Reqs, RewindCommits(r)
  PROVE  live = Nothing /\ live' = Nothing /\ db' = World
BY DEF RewindCommits, EngineInv, DataInv, LoadInv

(* The typed functions that the data invariants speak of. *)
LEMMA DataTypes ==
  ASSUME EngineInv
  PROVE  /\ db \in [Trucks -> Row] /\ live \in [Trucks -> State \cup {Nil}]
         /\ lastSequence \in [Trucks -> Nat] /\ sent \in [Trucks -> Nat]
         /\ Nil \notin State
BY EngineAssumption DEF EngineInv, CoreInv, TypeOK

LEMMA CleanStep ==
  ASSUME EngineInv, Next
  PROVE  CleanMeansSaved'
<1>0. CleanMeansSaved
  BY DEF EngineInv, DataInv
<1>1. ASSUME NEW p \in Procs, PersistCommits(p) PROVE CleanMeansSaved'
  BY <1>0, <1>1, CommitFacts, DataTypes DEF CleanMeansSaved
<1>2. ASSUME NEW r \in Reqs, RewindCommits(r) PROVE CleanMeansSaved'
  BY <1>2, RewindFacts DEF CleanMeansSaved, Nothing
<1>3. CASE UNCHANGED db
  <2>1. CASE UNCHANGED <<live, routes, lastSequence, sent>>
    BY <1>0, <1>3, <2>1 DEF CleanMeansSaved
  <2>2. ASSUME NEW p \in Procs, PersistDone(p) PROVE CleanMeansSaved'
    <3>1. PICK t \in Trucks :
            /\ live[t] \in State /\ live[t] # Nil /\ Matches(db[t], live[t])
            /\ live' = [live EXCEPT ![t] = Saved(live[t])] /\ Saved(live[t]) # Nil
      BY <2>2, DoneFacts
    <3>2. Matches(db[t], Saved(live[t]))
      BY <3>1 DEF Matches, Saved, State
    <3> QED
      BY <1>0, <1>3, <3>1, <3>2, DataTypes DEF CleanMeansSaved
  <2>3. ASSUME NEW t \in Trucks, NEW next, Steps(t, next) PROVE CleanMeansSaved'
    BY <1>0, <1>3, <2>3, DataTypes DEF CleanMeansSaved, Steps
  <2>4. ASSUME NEW r \in Reqs, LoadDone(r) PROVE CleanMeansSaved'
    BY <1>3, <2>4, LoadSteps DEF CleanMeansSaved
  <2>5. ASSUME NEW r \in Reqs, ResetClears(r) PROVE CleanMeansSaved'
    BY <2>5 DEF CleanMeansSaved, ResetClears, Nothing
  <2> QED
    BY <2>1, <2>2, <2>3, <2>4, <2>5, MemoryChanges, TickSteps, DelaySteps
<1> QED
  BY <1>1, <1>2, <1>3, RowsChange

LEMMA WholeStep ==
  ASSUME EngineInv, Next
  PROVE  WholeInv'
<1>0. WholeInv
  BY DEF EngineInv, DataInv
<1>1. ASSUME NEW p \in Procs, PersistCommits(p) PROVE WholeInv'
  BY <1>0, <1>1, CommitFacts DEF WholeInv
<1>2. ASSUME NEW r \in Reqs, RewindCommits(r) PROVE WholeInv'
  BY <1>2, RewindFacts DEF WholeInv, Nothing
<1>3. CASE UNCHANGED db
  <2>0. ASSUME NEW t \in Trucks, live[t] # Nil PROVE live # Nothing
    BY <2>0 DEF Nothing
  <2>1. CASE UNCHANGED <<live, routes, lastSequence, sent>>
    BY <1>0, <1>3, <2>1 DEF WholeInv
  <2>2. ASSUME NEW t \in Trucks, NEW s, live[t] # Nil, s # Nil,
               live' = [live EXCEPT ![t] = s], UNCHANGED routes
        PROVE  WholeInv'
    BY <1>0, <1>3, <2>0, <2>2, DataTypes DEF WholeInv
  <2>3. ASSUME NEW p \in Procs, PersistDone(p) PROVE WholeInv'
    BY <2>2, <2>3, DoneFacts
  <2>4. ASSUME NEW t \in Trucks, NEW next, Steps(t, next), UNCHANGED routes PROVE WholeInv'
    BY <2>2, <2>4, DataTypes DEF Steps
  <2>5. ASSUME NEW r \in Reqs, LoadDone(r) PROVE WholeInv'
    BY <1>3, <2>5, LoadSteps DEF WholeInv
  <2>6. ASSUME NEW r \in Reqs, ResetClears(r) PROVE WholeInv'
    BY <2>6 DEF WholeInv, ResetClears, Nothing
  <2> QED
    BY <2>1, <2>3, <2>4, <2>5, <2>6, MemoryChanges, TickSteps, DelaySteps
<1> QED
  BY <1>1, <1>2, <1>3, RowsChange

LEMMA ShownStep ==
  ASSUME EngineInv, Next
  PROVE  DelayShown'
<1>0. DelayShown
  BY DEF EngineInv, DataInv
<1>1. ASSUME NEW p \in Procs, PersistCommits(p) PROVE DelayShown'
  BY <1>0, <1>1, CommitFacts, DataTypes DEF DelayShown, Matches
<1>2. ASSUME NEW r \in Reqs, RewindCommits(r) PROVE DelayShown'
  BY <1>2, RewindFacts, WorldAssumption DEF DelayShown, Nothing
<1>3. CASE UNCHANGED db
  <2>1. CASE UNCHANGED <<live, routes, lastSequence, sent>>
    BY <1>0, <1>3, <2>1 DEF DelayShown
  <2>2. ASSUME NEW t \in Trucks, NEW s, live[t] # Nil,
               s.status = "DELAYED" <=> s.delay # "NORMAL", live' = [live EXCEPT ![t] = s]
        PROVE  DelayShown'
    BY <1>0, <1>3, <2>2, DataTypes DEF DelayShown
  <2>3. ASSUME NEW p \in Procs, PersistDone(p) PROVE DelayShown'
    <3>1. PICK t \in Trucks :
            /\ live[t] \in State /\ live[t] # Nil
            /\ live' = [live EXCEPT ![t] = Saved(live[t])]
      BY <2>3, DoneFacts
    <3>2. Saved(live[t]).status = live[t].status /\ Saved(live[t]).delay = live[t].delay
      BY <3>1 DEF Saved, State
    <3> QED
      BY <1>0, <2>2, <3>1, <3>2 DEF DelayShown
  <2>4. ASSUME NEW t \in Trucks, NEW next, Steps(t, next) PROVE DelayShown'
    <3>1. next.status = "DELAYED" <=> next.delay # "NORMAL"
      BY <1>0, <2>4 DEF DelayShown, Steps
    <3> QED
      BY <2>2, <2>4, <3>1 DEF Steps
  <2>5. ASSUME NEW r \in Reqs, LoadDone(r) PROVE DelayShown'
    BY <1>0, <1>3, <2>5, LoadSteps DEF DelayShown, Matches
  <2>6. ASSUME NEW r \in Reqs, ResetClears(r) PROVE DelayShown'
    BY <1>0, <1>3, <2>6 DEF DelayShown, ResetClears, Nothing
  <2> QED
    BY <2>1, <2>3, <2>4, <2>5, <2>6, MemoryChanges, TickSteps, DelaySteps
<1> QED
  BY <1>1, <1>2, <1>3, RowsChange

(* Numbers are kept, and those that are sent only climb. *)
LEMMA NumberStep ==
  ASSUME EngineInv, Next
  PROVE  NumberInv' /\ \A t \in Trucks : sent'[t] >= sent[t]
<1>0. NumberInv
  BY DEF EngineInv, DataInv
<1>1. CASE UNCHANGED <<live, routes, lastSequence, sent>>
  BY <1>0, <1>1, DataTypes DEF NumberInv
<1>2. ASSUME NEW p \in Procs, PersistDone(p)
      PROVE  NumberInv' /\ \A t \in Trucks : sent'[t] >= sent[t]
  <2>1. PICK t \in Trucks :
          /\ live[t] \in State /\ live[t] # Nil
          /\ live' = [live EXCEPT ![t] = Saved(live[t])]
    BY <1>2, DoneFacts
  <2>2. Saved(live[t]).seq = live[t].seq
    BY <2>1 DEF Saved, State
  <2>3. UNCHANGED <<lastSequence, sent>>
    BY <1>2, DoneFacts
  <2> QED
    BY <1>0, <2>1, <2>2, <2>3, DataTypes DEF NumberInv
<1>3. ASSUME NEW t \in Trucks, NEW next, Steps(t, next)
      PROVE  NumberInv' /\ \A u \in Trucks : sent'[u] >= sent[u]
  <2>1. /\ next.seq = lastSequence[t] + 1 /\ live' = [live EXCEPT ![t] = next]
        /\ lastSequence' = [lastSequence EXCEPT ![t] = next.seq]
        /\ sent' = [sent EXCEPT ![t] = next.seq]
    BY <1>3 DEF Steps
  <2> QED
    BY <1>0, <2>1, DataTypes DEF NumberInv
<1>4. ASSUME NEW r \in Reqs, LoadDone(r)
      PROVE  NumberInv' /\ \A t \in Trucks : sent'[t] >= sent[t]
  <2>1. lastSequence' \in [Trucks -> Nat]
    BY CoreStep DEF EngineInv, CoreInv, TypeOK, FeedNext
  <2>2. ASSUME NEW t \in Trucks
        PROVE  /\ live'[t] # Nil => live'[t].seq = lastSequence'[t]
               /\ sent'[t] <= lastSequence'[t] /\ sent'[t] >= sent[t]
    <3>1. /\ live'[t] # Nil => live'[t].seq = lastSequence'[t]
          /\ lastSequence'[t] >= lastSequence[t]
          /\ sent'[t] = sent[t] \/ sent'[t] = lastSequence'[t]
      BY <1>4, LoadSteps
    <3>2. sent[t] <= lastSequence[t]
      BY <1>0 DEF NumberInv
    <3> QED
      BY <2>1, <3>1, <3>2, DataTypes
  <2> QED
    BY <2>2 DEF NumberInv
<1>5. ASSUME NEW r \in Reqs, ResetClears(r)
      PROVE  NumberInv' /\ \A t \in Trucks : sent'[t] >= sent[t]
  BY <1>0, <1>5, DataTypes DEF NumberInv, ResetClears, Nothing
<1> QED
  BY <1>1, <1>2, <1>3, <1>4, <1>5, MemoryChanges, TickSteps, DelaySteps

-----------------------------------------------------------------------------
(* The engine by itself: the theorems *)

LEMMA EngineInit ==
  ASSUME Init
  PROVE  EngineInv
<1>0. World \in [Trucks -> Row] /\ Nil \notin State
  BY EngineAssumption
<1>1. CoreInv
  BY CoreInit
<1>2. NoFacts
  BY DEF Init, NoFacts, NoCall, Facts
<1>3. QuietInv
  BY DEF Init, QuietInv, Free
<1>4. LoadInv /\ HolderInv
  BY DEF Init, LoadInv, HolderInv, HolderOK, Holding, Procs
<1>5. \A t \in Trucks : live[t] = IF Booted /\ World[t].status \in Moving
                                  THEN Loaded(World[t], 0) ELSE Nil
  BY DEF Init
<1>6. \A t \in Trucks : Loaded(World[t], 0) # Nil
  BY <1>0, LoadedFacts
<1>7. ASSUME NEW t \in Trucks
      PROVE  /\ Loaded(World[t], 0).seq = 0 /\ Matches(World[t], Loaded(World[t], 0))
             /\ Loaded(World[t], 0).status = World[t].status
             /\ Loaded(World[t], 0).delay = World[t].delay
  BY DEF Loaded, Matches
<1>8. CleanMeansSaved
  BY <1>5, <1>7 DEF Init, CleanMeansSaved
<1>9. WholeInv
  <2>1. \A t \in Trucks : live[t] # Nil => t \in routes
    BY DEF Init
  <2>2. ASSUME live # Nothing PROVE Booted
    BY <2>2 DEF Init, Nothing
  <2> QED
    BY <1>5, <1>6, <2>1, <2>2 DEF Init, WholeInv
<1>10. DelayShown
  BY <1>5, <1>7, WorldAssumption DEF Init, DelayShown
<1>11. NumberInv
  <2> SUFFICES ASSUME NEW t \in Trucks
               PROVE  /\ live[t] # Nil => live[t].seq = lastSequence[t]
                      /\ sent[t] <= lastSequence[t]
    BY DEF NumberInv
  <2>1. lastSequence[t] = 0 /\ sent[t] = 0
    BY DEF Init
  <2> QED
    BY <1>5, <1>7, <2>1
<1> QED
  BY <1>1, <1>2, <1>3, <1>4, <1>8, <1>9, <1>10, <1>11 DEF EngineInv, DataInv

LEMMA EngineStep ==
  ASSUME EngineInv, [Next]_vars
  PROVE  EngineInv'
<1>1. CASE Next
  <2>1. CoreInv'
    BY <1>1, CoreStep DEF EngineInv, FeedNext
  <2>2. NoFacts' /\ QuietInv'
    BY <1>1, NoFactsStep, QuietStep DEF EngineInv
  <2> QED
    BY <1>1, <2>1, <2>2, LoadStep, HolderStep, CleanStep, WholeStep, ShownStep, NumberStep
       DEF EngineInv, DataInv
<1>2. CASE UNCHANGED vars
  <2>1. CoreInv'
    BY <1>2, CoreStep DEF EngineInv
  <2>2. NoFacts' /\ QuietInv' /\ LoadInv'
    BY <1>2 DEF EngineInv, DataInv, vars, NoFacts, QuietInv, Free, LoadInv
  <2>3. HolderInv' /\ CleanMeansSaved' /\ WholeInv' /\ DelayShown' /\ NumberInv'
    BY <1>2 DEF EngineInv, DataInv, vars, HolderInv, HolderOK, CleanMeansSaved, WholeInv,
                DelayShown, NumberInv
  <2> QED
    BY <2>1, <2>2, <2>3 DEF EngineInv, DataInv
<1> QED
  BY <1>1, <1>2

LEMMA EngineInvariant == Spec => []EngineInv
BY EngineInit, EngineStep, PTL DEF Spec

(* No write lands after a newer one, and none that failed is taken for one *)
(* that landed: a live truck that is not dirty is what its row says.       *)
THEOREM CleanIsSaved == Spec => []CleanMeansSaved
<1>1. EngineInv => CleanMeansSaved
  BY DEF EngineInv, DataInv
<1> QED
  BY <1>1, EngineInvariant, PTL

(* The scenario and the status DELAYED come and go together, in memory and *)
(* in every row, through delays, arrivals, failed writes and rewinds.      *)
THEOREM DelayIsShown == Spec => []DelayShown
<1>1. EngineInv => DelayShown
  BY DEF EngineInv, DataInv
<1> QED
  BY <1>1, EngineInvariant, PTL

(* A rewind, or a load, that fails leaves memory empty or whole. *)
THEOREM LoadLeavesWhole == Spec => []LoadedIsWhole
<1>1. EngineInv => LoadedIsWhole
  BY DEF EngineInv, DataInv, WholeInv, LoadedIsWhole
<1> QED
  BY <1>1, EngineInvariant, PTL

(* No dashboard drops an event of the engine as out of date: the numbers of *)
(* a truck's events never go back, not even across a rewind.               *)
THEOREM NumbersClimb == Spec => SequencesClimb
<1>1. EngineInv /\ [Next]_vars => [\A t \in Trucks : sent'[t] >= sent[t]]_sent
  BY NumberStep DEF vars
<1> QED
  BY <1>1, EngineInvariant, PTL DEF Spec, SequencesClimb

-----------------------------------------------------------------------------
(* The engine by itself: shipments follow their trucks, if no write fails   *)

(* A write mirrors the status it brings, or brings none. *)
BringsStatus(c) ==
  /\ c.reason \in {"ARRIVING", "ARRIVED"} => c.next.status = c.reason
  /\ c.reason \in {"none", "PERIODIC"} => c.next.status = db[c.truck].status

(* A stop writes what is dirty, and mirrors nothing. *)
Plain(c) == c.op = "stop" => c.reason = "none"

PlainInv == \A p \in Procs : Plain(call[p])

(* A truck whose status its row has not got yet is being written. *)
Even(t) == live[t] # Nil /\ (\A p \in Procs : ~(pc[p] = "writing" /\ call[p].truck = t))
             => live[t].status = db[t].status

MirrorInv == /\ ShipmentFollows
             /\ \A t \in Trucks : Even(t)
             /\ \A p \in Procs : pc[p] = "writing" => BringsStatus(call[p])

LEMMA PlainMoves ==
  ASSUME CoreInv, PlainInv, NEW p \in Procs, NEW c, Learn(p, c), Plain(c)
  PROVE  PlainInv'
<1>1. \A q \in Procs : Plain(call'[q])
  BY DEF PlainInv, Learn, CoreInv, TypeOK
<1> QED
  BY <1>1 DEF PlainInv, Plain

LEMMA PlainStep ==
  ASSUME CoreInv, PlainInv, Next
  PROVE  PlainInv'
<1>0. Ticker \in Procs /\ Plain(NoCall) /\ \A r \in Reqs : r \in Procs
  BY DEF Procs, Plain, NoCall
<1>1. CASE UNCHANGED call
  BY <1>1 DEF PlainInv, Plain
<1>2. ASSUME NEW p \in Procs, Return(p) PROVE PlainInv'
  BY <1>0, <1>2, PlainMoves DEF Return
<1>3. CASE Tick
  <2>1. CASE TickBegins \/ \E t \in Trucks : TickPasses(t) \/ \E p \in 0 .. Far : TickAdvances(t, p)
    <3>1. PICK c : Learn(Ticker, c)
      BY <2>1 DEF TickBegins, TickPasses, TickAdvances
    <3>2. HandlerOK(Ticker, pc[Ticker], call[Ticker]) /\ call[Ticker] \in Call
      BY <1>0, CallFacts
    <3>3. ASSUME pc[Ticker] = "ticking" PROVE call[Ticker].op = "tick"
      BY <3>3, TickFacts
    <3> QED
      BY <1>0, <2>1, <3>2, <3>3, PlainMoves
         DEF TickBegins, TickPasses, TickAdvances, Plain, NoCall, Call
  <2> QED
    BY <1>0, <1>2, <1>3, <2>1 DEF Tick, TickEnds
<1>4. ASSUME NEW p \in Procs, Persist(p) PROVE PlainInv'
  BY <1>1, <1>2, <1>4 DEF Persist, PersistCommits, PersistFails, PersistDone, Continue
<1>5. ASSUME NEW r \in Reqs, Ask(r) PROVE PlainInv'
  <2>1. ASSUME NEW t \in Trucks, NEW d \in Delay, RequestDelay(r, t, d) PROVE PlainInv'
    BY <1>0, <2>1, PlainMoves DEF RequestDelay, Plain, NoCall
  <2>2. ASSUME NEW op \in {"start", "stop", "reset"}, RequestLifecycle(r, op) PROVE PlainInv'
    BY <1>0, <2>2, PlainMoves DEF RequestLifecycle, Plain, NoCall
  <2> QED
    BY <1>5, <2>1, <2>2 DEF Ask
<1>6. ASSUME NEW r \in Reqs, Manage(r) PROVE PlainInv'
  <2> DEFINE a == call[r]
  <2>0. r \in Procs /\ a \in Call /\ Plain(a)
    BY <1>0, CallFacts DEF PlainInv
  <2>1. CASE DelayApplies(r)
    <3>1. a.op = "delay"
      BY <2>1 DEF DelayApplies
    <3> DEFINE next == Delayed(live[a.truck], a.delay, lastSequence[a.truck] + 1)
               c    == [a EXCEPT !.next = next, !.reason = "DELAY"]
    <3>2. Learn(r, c) /\ c.op = a.op
      BY <2>0, <2>1 DEF DelayApplies, Call
    <3> QED
      BY <2>0, <3>1, <3>2, PlainMoves DEF Plain
  <2>2. CASE LoadReads(r) \/ StopBegins(r) \/ StopClaims(r) \/ \E t \in Trucks : Flush(r, t)
    <3>1. PICK c : Learn(r, c) /\ c.op = a.op /\ c.reason = a.reason
      <4>1. CASE LoadReads(r)
        BY <2>0, <4>1 DEF LoadReads, Call
      <4>2. CASE StopBegins(r)
        BY <2>0, <4>2 DEF StopBegins, Call
      <4>3. CASE StopClaims(r)
        <5> DEFINE c == [a EXCEPT !.seen = live,
                           !.todo = {t \in Trucks : live[t] # Nil /\ live[t].dirty}]
        <5>1. c.op = a.op /\ c.reason = a.reason
          BY <2>0 DEF Call
        <5>2. Learn(r, c)
          BY <4>3 DEF StopClaims
        <5> QED
          BY <5>1, <5>2
      <4>4. CASE \E t \in Trucks : Flush(r, t)
        <5>1. PICK t \in Trucks : Flush(r, t)
          BY <4>4
        <5> DEFINE c == [a EXCEPT !.todo = @ \ {t}, !.truck = t, !.next = a.seen[t]]
        <5>2. c.op = a.op /\ c.reason = a.reason
          BY <2>0 DEF Call
        <5>3. Learn(r, c)
          BY <5>1 DEF Flush
        <5> QED
          BY <5>2, <5>3
      <4> QED
        BY <2>2, <4>1, <4>2, <4>3, <4>4
    <3> QED
      BY <2>0, <3>1, PlainMoves DEF Plain
  <2> QED
    BY <1>1, <1>2, <1>6, <2>0, <2>1, <2>2
       DEF Manage, Parks, DelayRefused, StartIgnored, StartResumes, LoadDone, LoadFails,
           StopReturns, ResetDrained, ResetClears, RewindCommits, RewindFails, Finish
<1> QED
  BY <1>3, <1>4, <1>5, <1>6 DEF Next

(* Only its own steps bring a handler to a write, or away from one. *)
LEMMA MirrorKept ==
  ASSUME CoreInv, MirrorInv, NEW p \in Procs, NEW step, NEW c, Moves(p, step, c),
         pc[p] # "writing", step # "writing", UNCHANGED <<db, live>>
  PROVE  MirrorInv'
<1>1. /\ pc'[p] = step
      /\ \A q \in Procs : q # p => pc'[q] = pc[q] /\ call'[q] = call[q]
  BY DEF Moves, Goto, Learn, CoreInv, TypeOK
<1>2. ShipmentFollows'
  BY DEF MirrorInv, ShipmentFollows
<1>3. ASSUME NEW t \in Trucks PROVE Even(t)'
  BY <1>1 DEF MirrorInv, Even
<1>4. ASSUME NEW q \in Procs, pc'[q] = "writing" PROVE BringsStatus(call[q])'
  BY <1>1, <1>4 DEF MirrorInv, BringsStatus
<1> QED
  BY <1>2, <1>3, <1>4 DEF MirrorInv

(* A step of the barrier's holder, or of the one who takes it. *)
LEMMA MirrorAlone ==
  ASSUME CoreInv, NEW p \in Procs, NEW step, NEW c, Moves(p, step, c),
         \A q \in Procs : q # p => pc[q] \notin Holding
  PROVE  /\ pc'[p] = step /\ call'[p] = c
         /\ \A q \in Procs : q # p => pc'[q] = pc[q] /\ call'[q] = call[q]
                                       /\ pc'[q] # "writing"
BY DEF Moves, Goto, Learn, CoreInv, TypeOK, Holding

(* While nobody writes, every row has its truck's status. *)
LEMMA AllEven ==
  ASSUME MirrorInv, \A q \in Procs : pc[q] # "writing", NEW t \in Trucks, live[t] # Nil
  PROVE  live[t].status = db[t].status
BY DEF MirrorInv, Even

(* A tick that changes a truck's status has a reason that mirrors it. *)
LEMMA TickMirrors ==
  ASSUME NEW s \in State, NEW p \in 0 .. Far
  PROVE  LET next == Advanced(s, p)
             why  == SnapshotReason(s, next)
         IN  /\ why \in {"ARRIVING", "ARRIVED"} => next.status = why
             /\ why \in {"none", "PERIODIC"} => next.status = s.status
<1> DEFINE next == Advanced(s, p)
           why  == SnapshotReason(s, next)
<1>1. next.status = IF p = Far THEN "ARRIVED"
                    ELSE IF p >= ArrivingAt /\ s.delay = "NORMAL" THEN "ARRIVING" ELSE s.status
  BY DEF Advanced, State
<1>2. why = IF next.status = "ARRIVED" THEN "ARRIVED"
            ELSE IF next.status = "ARRIVING" /\ s.status # "ARRIVING" THEN "ARRIVING"
            ELSE IF next.progress - next.saved >= CheckpointStep THEN "PERIODIC"
            ELSE "none"
  BY DEF SnapshotReason
<1> HIDE DEF next, why
<1>3. /\ why \in {"ARRIVING", "ARRIVED"} => next.status = why
      /\ why \in {"none", "PERIODIC"} => next.status = s.status
  BY <1>1, <1>2
<1> QED
  BY <1>3 DEF next, why

LEMMA MirrorInit ==
  ASSUME Init
  PROVE  MirrorInv /\ PlainInv
<1>0. /\ db = World
      /\ \A p \in Procs : pc[p] = "idle"
      /\ \A t \in Trucks : live[t] = IF Booted /\ World[t].status \in Moving
                                      THEN Loaded(World[t], 0) ELSE Nil
  <2>1. db = World
    BY DEF Init
  <2>2. \A p \in Procs : pc[p] = "idle"
    BY DEF Init
  <2>3. \A t \in Trucks : live[t] = IF Booted /\ World[t].status \in Moving
                                    THEN Loaded(World[t], 0) ELSE Nil
    BY DEF Init
  <2> QED
    BY <2>1, <2>2, <2>3
<1>1. ShipmentFollows
  BY <1>0, ShipmentAssumption DEF ShipmentFollows
<1>2. \A p \in Procs : pc[p] # "writing"
  BY <1>0
<1>3. ASSUME NEW t \in Trucks, live[t] # Nil PROVE live[t].status = db[t].status
  <2>1. live[t] = Loaded(World[t], 0)
    BY <1>0, <1>3
  <2> QED
    BY <1>0, <2>1 DEF Loaded
<1>4. PlainInv
  BY DEF Init, PlainInv, Plain, NoCall
<1> QED
  BY <1>1, <1>2, <1>3, <1>4 DEF MirrorInv, Even

LEMMA MirrorPersists ==
  ASSUME EngineInv, MirrorInv, ~MayFail, NEW p \in Procs, Persist(p)
  PROVE  MirrorInv'
<1> DEFINE c == call[p]
<1>0. /\ CoreInv /\ QuietInv /\ c \in Call /\ pc[p] \in {"writing", "written"}
      /\ c.truck \in Trucks /\ c.next \in State /\ live[c.truck] = c.next
      /\ pc[p] = "written" => Matches(db[c.truck], c.next)
  BY CallFacts, WriterFacts
     DEF EngineInv, Persist, PersistCommits, PersistFails, PersistDone
<1>1. ~Free /\ \A q \in Procs : q # p => pc[q] \notin Holding
  BY <1>0, Held DEF Holding
<1>2. CASE PersistCommits(p)
  <2> DEFINE row == [status |-> c.next.status, delay |-> c.next.delay,
                     progress |-> c.next.progress,
                     ship |-> ShipAfter(db[c.truck].ship, c.next, c.reason)]
  <2>1. /\ Moves(p, "written", c) /\ UNCHANGED live /\ pc[p] = "writing"
        /\ db' = [db EXCEPT ![c.truck] = row]
    BY <1>0, <1>2, StayMoves DEF PersistCommits, CoreInv
  <2>2. /\ pc'[p] = "written" /\ call'[p] = c
        /\ \A q \in Procs : pc'[q] # "writing"
    BY <1>0, <1>1, <2>1, MirrorAlone
  <2>3. /\ db'[c.truck] = row /\ \A u \in Trucks : u # c.truck => db'[u] = db[u]
        /\ row.status = c.next.status
        /\ row.ship = ShipAfter(db[c.truck].ship, c.next, c.reason)
    BY <1>0, <2>1 DEF CoreInv, TypeOK
  <2>4. BringsStatus(c) /\ ShipmentFollows
    BY <2>1 DEF MirrorInv
  <2> HIDE DEF row
  <2>5. row.status \in Ship => row.ship = row.status
    <3>1. db[c.truck].status \in Ship => db[c.truck].ship = db[c.truck].status
      BY <1>0, <2>4 DEF ShipmentFollows
    <3>2. row.ship = IF c.reason = "DELAY" THEN c.next.status
                     ELSE IF c.reason \in {"ARRIVING", "ARRIVED"} THEN c.reason
                     ELSE db[c.truck].ship
      BY <2>3 DEF ShipAfter
    <3>3. CASE c.reason \in {"DELAY", "ARRIVING", "ARRIVED"}
      BY <2>3, <2>4, <3>1, <3>2, <3>3 DEF BringsStatus
    <3>4. CASE c.reason \in {"none", "PERIODIC"}
      BY <2>3, <2>4, <3>1, <3>2, <3>4 DEF BringsStatus
    <3>5. c.reason \in Reason
      BY <1>0 DEF Call
    <3> QED
      BY <3>3, <3>4, <3>5 DEF Reason
  <2>6. ShipmentFollows'
    BY <2>3, <2>4, <2>5 DEF ShipmentFollows
  <2>7. ASSUME NEW t \in Trucks PROVE Even(t)'
    <3>1. CASE t = c.truck
      BY <1>0, <2>1, <2>3, <3>1 DEF Even
    <3>2. CASE t # c.truck
      <4>1. \A q \in Procs : ~(pc[q] = "writing" /\ call[q].truck = t)
        BY <1>1, <3>2 DEF Holding
      <4> QED
        BY <2>1, <2>3, <3>2, <4>1 DEF MirrorInv, Even
    <3> QED
      BY <3>1, <3>2
  <2> QED
    BY <2>2, <2>6, <2>7 DEF MirrorInv
<1>3. CASE PersistFails(p)
  BY <1>1, <1>3 DEF PersistFails, QuietInv, EngineInv
<1>4. CASE PersistDone(p)
  <2>1. /\ pc[p] = "written" /\ UNCHANGED db /\ Continue(p)
        /\ live' = [live EXCEPT ![c.truck] = Saved(c.next)]
    BY <1>4 DEF PersistDone
  <2>2. \A q \in Procs : pc[q] # "writing"
    BY <1>1, <2>1 DEF Holding
  <2>3. \A q \in Procs : pc'[q] # "writing"
    BY <1>0, <2>1, <2>2 DEF Continue, Return, Goto, CoreInv, TypeOK
  <2>4. \A t \in Trucks : live[t] # Nil => live[t].status = db[t].status
    BY <2>2, AllEven
  <2>5. Saved(c.next).status = c.next.status
    BY <1>0 DEF Saved, State
  <2>6. ASSUME NEW t \in Trucks, live'[t] # Nil PROVE live'[t].status = db'[t].status
    BY <1>0, <2>1, <2>4, <2>5, <2>6 DEF CoreInv, TypeOK, Matches
  <2>7. ShipmentFollows'
    BY <2>1 DEF MirrorInv, ShipmentFollows
  <2> QED
    BY <2>3, <2>6, <2>7 DEF MirrorInv, Even
<1> QED
  BY <1>2, <1>3, <1>4 DEF Persist

LEMMA MirrorTicks ==
  ASSUME EngineInv, MirrorInv, Tick
  PROVE  MirrorInv'
<1>0. CoreInv /\ HolderInv /\ Ticker \in Procs /\ call[Ticker] \in Call
  BY CallFacts DEF EngineInv, DataInv, Procs
<1>1. CASE TickBegins
  BY <1>0, <1>1, MirrorKept DEF TickBegins, Moves
<1>2. CASE TickEnds
  BY <1>0, <1>2, ReturnMoves, MirrorKept DEF TickEnds
<1>3. ASSUME NEW t \in Trucks, TickPasses(t) PROVE MirrorInv'
  <2>1. Moves(Ticker, "ticking", [call[Ticker] EXCEPT !.todo = @ \ {t}])
    BY <1>0, <1>3 DEF TickPasses, Moves, Goto, CoreInv, TypeOK
  <2> QED
    BY <1>0, <1>3, <2>1, MirrorKept DEF TickPasses
<1>4. ASSUME NEW t \in Trucks, NEW p \in 0 .. Far, TickAdvances(t, p) PROVE MirrorInv'
  <2> DEFINE s    == call[Ticker].seen[t]
             next == Advanced(s, p)
             why  == SnapshotReason(s, next)
             c    == [call[Ticker] EXCEPT !.todo = @ \ {t}]
             d    == [c EXCEPT !.truck = t, !.next = next, !.reason = why]
  <2>1. /\ pc[Ticker] = "ticking" /\ t \in call[Ticker].todo /\ UNCHANGED db
        /\ live' = [live EXCEPT ![t] = next]
        /\ \/ why = "none" /\ Learn(Ticker, c) /\ UNCHANGED pc
           \/ why # "none" /\ Learn(Ticker, d) /\ Goto(Ticker, "writing")
    BY <1>4 DEF TickAdvances, Put
  <2>2. /\ s \in State /\ s # Nil /\ live[t] = s
        /\ \A q \in Procs : q # Ticker => pc[q] \notin Holding
    BY <1>0, <2>1, TickFacts, Held, EngineAssumption DEF HolderInv, HolderOK, Holding
  <2>3. \A u \in Trucks : live[u] # Nil => live[u].status = db[u].status
    BY <2>1, <2>2, AllEven DEF Holding
  <2>4. /\ why \in {"ARRIVING", "ARRIVED"} => next.status = why
        /\ why \in {"none", "PERIODIC"} => next.status = db[t].status
    BY <2>2, <2>3, TickMirrors
  <2>5. /\ live'[t] = next
        /\ \A u \in Trucks : u # t => live'[u] = live[u]
    BY <1>0, <2>1 DEF CoreInv, TypeOK
  <2>6. ShipmentFollows'
    BY <2>1 DEF MirrorInv, ShipmentFollows
  <2>7. d.truck = t /\ d.next = next /\ d.reason = why
    BY <1>0 DEF Call
  <2> HIDE DEF next, why, c, d, s
  <2>8. CASE why = "none" /\ Learn(Ticker, c) /\ UNCHANGED pc
    <3>1. Moves(Ticker, "ticking", c)
      BY <1>0, <2>1, <2>8 DEF Moves, Goto, CoreInv, TypeOK
    <3>2. \A q \in Procs : pc'[q] # "writing"
      BY <2>1, <2>2, <2>8 DEF Holding
    <3>3. \A u \in Trucks : live'[u] # Nil => live'[u].status = db'[u].status
      BY <2>1, <2>3, <2>4, <2>5, <2>8
    <3> QED
      BY <2>6, <3>2, <3>3 DEF MirrorInv, Even
  <2>9. CASE why # "none" /\ Learn(Ticker, d) /\ Goto(Ticker, "writing")
    <3>1. Moves(Ticker, "writing", d)
      BY <2>9 DEF Moves
    <3>2. /\ pc'[Ticker] = "writing" /\ call'[Ticker] = d
          /\ \A q \in Procs : q # Ticker => pc'[q] # "writing"
      BY <1>0, <2>2, <3>1, MirrorAlone
    <3>3. ASSUME NEW u \in Trucks PROVE Even(u)'
      BY <1>0, <2>1, <2>3, <2>5, <2>7, <3>2 DEF Even
    <3>4. ASSUME NEW q \in Procs, pc'[q] = "writing" PROVE BringsStatus(call[q])'
      BY <2>1, <2>4, <2>7, <3>2, <3>4 DEF BringsStatus
    <3> QED
      BY <2>6, <3>3, <3>4 DEF MirrorInv
  <2> QED
    BY <2>1, <2>8, <2>9
<1> QED
  BY <1>1, <1>2, <1>3, <1>4 DEF Tick

LEMMA MirrorManages ==
  ASSUME EngineInv, MirrorInv, PlainInv, NEW r \in Reqs, Ask(r) \/ Manage(r)
  PROVE  MirrorInv'
<1>0. /\ CoreInv /\ HolderInv /\ QuietInv /\ r \in Procs /\ call[r] \in Call
      /\ HandlerOK(r, pc[r], call[r])
  BY CallFacts DEF EngineInv, DataInv, Procs
<1>1. CASE Ask(r)
  <2>1. pc[r] = "idle" /\ UNCHANGED <<db, live>>
    BY <1>1 DEF Ask, RequestDelay, RequestLifecycle, Idle
  <2>2. PICK step, c : Moves(r, step, c) /\ step # "writing"
    BY <1>1 DEF Ask, RequestDelay, RequestLifecycle, Moves
  <2> QED
    BY <1>0, <2>1, <2>2, MirrorKept
<1>2. CASE Parks(r) \/ ResetDrained(r) \/ RewindFails(r)
  BY <1>0, <1>2, StayMoves, MirrorKept DEF Parks, ResetDrained, RewindFails, Running, CoreInv
<1>3. CASE DelayRefused(r) \/ StartIgnored(r) \/ LoadFails(r) \/ StopReturns(r)
  BY <1>0, <1>3, ReturnMoves, MirrorKept
     DEF DelayRefused, Reaches, StartIgnored, Turn, LoadFails, StopReturns, Running, Finish
<1>4. CASE StartResumes(r)
  BY <1>0, <1>4, ResumesSame, ReturnMoves, MirrorKept DEF StartResumes, Turn, Running, Finish
<1>5. CASE LoadReads(r) \/ StopBegins(r)
  BY <1>0, <1>5, MirrorKept DEF LoadReads, Starting, StopBegins, Turn, Running, Moves
<1>6. CASE LoadDone(r) \/ ResetClears(r) \/ RewindCommits(r)
  <2>1. \A p \in Procs : pc[p] \notin Holding
    BY <1>0, <1>6, DeepAlone DEF LoadDone, ResetClears, RewindCommits, Deep
  <2>2. PICK step, c : Moves(r, step, c) /\ step # "writing"
    BY <1>0, <1>6, ReturnMoves, StayMoves
       DEF LoadDone, ResetClears, RewindCommits, Finish, CoreInv
  <2>3. \A p \in Procs : pc'[p] # "writing"
    BY <1>0, <2>1, <2>2, MirrorAlone
  <2>4. CASE LoadDone(r)
    <3>1. ShipmentFollows'
      BY <2>4, LoadSteps DEF MirrorInv, ShipmentFollows
    <3>2. \A t \in Trucks : live'[t] # Nil => live'[t].status = db'[t].status
      BY <2>4, LoadSteps DEF Matches
    <3> QED
      BY <2>3, <3>1, <3>2 DEF MirrorInv, Even
  <2>5. CASE ResetClears(r) \/ RewindCommits(r)
    <3>1. ShipmentFollows'
      BY <2>5, ShipmentAssumption DEF ResetClears, RewindCommits, MirrorInv, ShipmentFollows
    <3>2. \A t \in Trucks : live'[t] = Nil
      BY <2>5, RewindFacts DEF ResetClears, Nothing
    <3> QED
      BY <2>3, <3>1, <3>2 DEF MirrorInv, Even
  <2> QED
    BY <1>6, <2>4, <2>5
<1>7. CASE DelayApplies(r)
  <2> DEFINE a    == call[r]
             t    == a.truck
             next == Delayed(live[t], a.delay, lastSequence[t] + 1)
             c    == [a EXCEPT !.next = next, !.reason = "DELAY"]
  <2>1. /\ Moves(r, "writing", c) /\ live' = [live EXCEPT ![t] = next] /\ Free
        /\ UNCHANGED db /\ pc[r] \in {"waiting", "parked"}
    BY <1>7 DEF DelayApplies, Moves, Put, Reaches
  <2>2. t \in Trucks /\ \A q \in Procs : pc[q] \notin Holding
    BY <1>0, <2>1, WaitFacts, Held
  <2>3. c.truck = t /\ c.reason = "DELAY"
    BY <1>0 DEF Call
  <2> HIDE DEF c, next
  <2>4. /\ pc'[r] = "writing" /\ call'[r] = c
        /\ \A q \in Procs : q # r => pc'[q] # "writing"
    BY <1>0, <2>1, <2>2, MirrorAlone
  <2>5. \A u \in Trucks : u # t => live'[u] = live[u]
    BY <1>0, <2>1 DEF CoreInv, TypeOK
  <2>6. \A u \in Trucks : live[u] # Nil => live[u].status = db[u].status
    BY <2>2, AllEven DEF Holding
  <2>7. ASSUME NEW u \in Trucks PROVE Even(u)'
    BY <1>0, <2>1, <2>3, <2>4, <2>5, <2>6 DEF Even
  <2>8. ShipmentFollows'
    BY <2>1 DEF MirrorInv, ShipmentFollows
  <2>9. ASSUME NEW q \in Procs, pc'[q] = "writing" PROVE BringsStatus(call[q])'
    BY <2>3, <2>4, <2>9 DEF BringsStatus
  <2> QED
    BY <2>7, <2>8, <2>9 DEF MirrorInv
<1>8. CASE StopClaims(r)
  BY <1>0, <1>8, MirrorKept DEF StopClaims, Running, Moves
<1>9. ASSUME NEW t \in Trucks, Flush(r, t) PROVE MirrorInv'
  <2> DEFINE a == call[r]
             c == [a EXCEPT !.todo = @ \ {t}, !.truck = t, !.next = a.seen[t]]
  <2>1. /\ Moves(r, "writing", c) /\ UNCHANGED <<db, live>> /\ pc[r] = "flushing"
        /\ t \in a.todo
    BY <1>9 DEF Flush, Moves, Running
  <2>2. /\ live[t] = a.seen[t] /\ a.seen[t] \in State /\ a.seen[t] # Nil
        /\ \A q \in Procs : q # r => pc[q] \notin Holding
    BY <1>0, <2>1, Held, EngineAssumption DEF HolderInv, HolderOK, HandlerOK, Holding
  <2>3. c.truck = t /\ c.next = a.seen[t] /\ c.reason = "none"
    BY <1>0, <1>9 DEF Call, Flush, Running, PlainInv, Plain
  <2>4. \A u \in Trucks : live[u] # Nil => live[u].status = db[u].status
    BY <2>1, <2>2, AllEven DEF Holding
  <2> HIDE DEF c
  <2>5. /\ pc'[r] = "writing" /\ call'[r] = c
        /\ \A q \in Procs : q # r => pc'[q] # "writing"
    BY <1>0, <2>1, <2>2, MirrorAlone
  <2>6. ASSUME NEW q \in Procs, pc'[q] = "writing" PROVE BringsStatus(call[q])'
    <3>1. q = r
      BY <2>5, <2>6
    <3>2. /\ call'[q].next.status = db'[call'[q].truck].status
          /\ call'[q].reason = "none"
      BY <2>1, <2>2, <2>3, <2>4, <2>5, <3>1
    <3> QED
      BY <3>2 DEF BringsStatus
  <2>7. ShipmentFollows' /\ \A u \in Trucks : Even(u)'
    BY <2>1, <2>4 DEF MirrorInv, ShipmentFollows, Even
  <2> QED
    BY <2>6, <2>7 DEF MirrorInv
<1> QED
  BY <1>1, <1>2, <1>3, <1>4, <1>5, <1>6, <1>7, <1>8, <1>9 DEF Manage

LEMMA MirrorStep ==
  ASSUME EngineInv, MirrorInv, PlainInv, ~MayFail, [Next]_vars
  PROVE  MirrorInv' /\ PlainInv'
<1>1. CASE Next
  BY <1>1, PlainStep, MirrorTicks, MirrorPersists, MirrorManages DEF Next, EngineInv
<1>2. CASE UNCHANGED vars
  BY <1>2 DEF vars, MirrorInv, ShipmentFollows, Even, BringsStatus, PlainInv, Plain
<1> QED
  BY <1>1, <1>2

(* As long as no write fails, a truck's shipment has its truck's status,   *)
(* through ticks, delays, stops and rewinds: a write that fails is the one *)
(* way for them to part.                                                   *)
THEOREM ShipmentsFollow ==
  ASSUME ~MayFail
  PROVE  Spec => []ShipmentFollows
<1>1. MirrorInv => ShipmentFollows
  BY DEF MirrorInv
<1>2. EngineInv /\ MirrorInv /\ PlainInv /\ [Next]_vars => MirrorInv' /\ PlainInv'
  BY MirrorStep
<1>3. Init => MirrorInv /\ PlainInv
  BY MirrorInit
<1> QED
  BY <1>1, <1>2, <1>3, EngineInvariant, PTL DEF Spec
=============================================================================
