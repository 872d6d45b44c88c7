---------------------------- MODULE ServerProofs ----------------------------
(***************************************************************************)
(* Theorems about the process around the engine, for any number of         *)
(* connections: what was proved of the engine with its feed is true of it  *)
(* in the process, and the order of the shutdown does what it is for.      *)
(***************************************************************************)
EXTENDS Server, FeedProofs

(* The loop is off and no lifecycle command is left. *)
Off == ~timer /\ lifecycle = <<>>

(* shutdown()'s stop() is asked for last, and when it is over nothing can  *)
(* start the loop any more.                                                *)
ShutInv ==
  /\ stage \in {"booting", "serving"} => pc[Term] = "idle"
  /\ call[Term].op \in {"none", "stop"} /\ call[Boot].op \in {"none", "start"}
  /\ stage = "stopping" /\ pc[Term] # "idle" =>
       lifecycle # <<>> /\ lifecycle[Len(lifecycle)] = Term
  /\ stage = "stopping" /\ pc[Term] = "idle" => Off
  /\ stage \in {"closing", "disconnecting"} => Off

ServerInv == CoreInv /\ ServerTypeOK /\ ShutInv

(* No connection is left when the database is. *)
LeftInv == (stage = "disconnecting" => HttpClosed) /\ CleanExitOwesNothing

-----------------------------------------------------------------------------
(* The process runs the engine with its feed *)

LEMMA ReqFacts ==
  /\ Clients \subseteq Reqs /\ Boot \in Reqs /\ Term \in Reqs /\ Reqs \subseteq Procs
  /\ Boot # Term /\ Boot \notin Clients /\ Term \notin Clients
BY ServerAssumption DEF Procs

LEMMA WorksFeed ==
  ASSUME Works
  PROVE  FeedNext
BY DEF Works, FeedNext, Next

LEMMA ServerSteps ==
  ASSUME [ServerNext]_all
  PROVE  [FeedNext]_vars
<1>1. ASSUME UNCHANGED engine PROVE UNCHANGED vars
  BY <1>1 DEF engine, vars
<1>2. ASSUME NEW r \in Reqs, Ask(r) \/ Tell(r) PROVE FeedNext
  BY <1>2 DEF FeedNext, Next
<1>3. CASE UNCHANGED all
  BY <1>1, <1>3 DEF all
<1>4. CASE Works
  BY <1>4, WorksFeed
<1>5. CASE Listening
  <2>1. RequestLifecycle(Boot, "start") => Ask(Boot)
    BY DEF Ask
  <2> QED
    BY <1>1, <1>2, <1>5, <2>1, ReqFacts DEF Listening
<1>6. ASSUME NEW c \in Clients, Serving(c) PROVE [FeedNext]_vars
  BY <1>1, <1>2, <1>6, ReqFacts DEF Serving, Connects, Upgrades, Commanded, Queried, Responds,
                               Closes, Abandons
<1>7. ASSUME NEW exitCode \in {0, 1}, Shutdown(exitCode) PROVE FeedNext
  BY <1>2, <1>7, ReqFacts DEF Shutdown, Ask
<1>8. CASE Leaves \/ ForceExit
  BY <1>1, <1>8 DEF Leaves, CloseWebsocket, AwaitHttpClosed, DisconnectPrisma, ForceExit
<1> QED
  BY <1>1, <1>3, <1>4, <1>5, <1>6, <1>7, <1>8 DEF ServerNext

(* The process with its connections and its shutdown does nothing to the   *)
(* engine that the engine with its feed does not do: what holds of that    *)
(* holds of the process.                                                   *)
THEOREM ServerImplementsFeed == ServerSpec => FeedSpec
<1>1. ServerInit => Init
  BY DEF ServerInit
<1>2. [ServerNext]_all => [FeedNext]_vars
  BY ServerSteps
<1> QED
  BY <1>1, <1>2, PTL DEF ServerSpec, FeedSpec

-----------------------------------------------------------------------------
(* No handler wakes by itself *)

(* The one that moves had begun, and goes on with what it was asked or     *)
(* returns.                                                                *)
LEMMA OneWorks ==
  ASSUME CoreInv, NEW p \in Procs, p = Ticker \/ pc[p] # "idle",
         UNCHANGED pc \/ \E step : Goto(p, step),
         UNCHANGED call \/ \E c : Learn(p, c) /\ (p = Ticker \/ c.op \in {call[p].op, "none"}),
         NEW r \in Reqs
  PROVE  /\ pc[r] = "idle" => pc'[r] = "idle"
         /\ call'[r].op \in {call[r].op, "none"}
<1>1. r \in Procs /\ r # Ticker
  BY EngineAssumption DEF Procs
<1>2. pc[r] = "idle" => pc'[r] = "idle"
  BY <1>1 DEF Goto, CoreInv, TypeOK
<1>3. call'[r].op \in {call[r].op, "none"}
  BY <1>1 DEF Learn, CoreInv, TypeOK
<1> QED
  BY <1>2, <1>3

LEMMA OneReturns ==
  ASSUME NEW p, Return(p)
  PROVE  /\ \E step : Goto(p, step)
         /\ \E c : Learn(p, c) /\ c.op = "none"
BY DEF Return, NoCall

LEMMA WorksWakesNone ==
  ASSUME CoreInv, Works, NEW r \in Reqs
  PROVE  /\ pc[r] = "idle" => pc'[r] = "idle"
         /\ call'[r].op \in {call[r].op, "none"}
<1> DEFINE Goal == /\ pc[r] = "idle" => pc'[r] = "idle"
                   /\ call'[r].op \in {call[r].op, "none"}
<1>1. ASSUME NEW p \in Procs, p = Ticker \/ pc[p] # "idle",
             UNCHANGED pc \/ \E step : Goto(p, step),
             UNCHANGED call \/ \E c : Learn(p, c) /\ (p = Ticker \/ c.op \in {call[p].op, "none"})
      PROVE  Goal
  BY <1>1, OneWorks
<1>2. ASSUME NEW p \in Procs, pc[p] # "idle", Return(p) PROVE Goal
  BY <1>2, <1>1, OneReturns
<1> HIDE DEF Goal
<1>3. CASE Tick
  <2>1. Ticker \in Procs
    BY DEF Procs
  <2>2. UNCHANGED pc \/ \E step : Goto(Ticker, step)
    BY <1>3 DEF Tick, TickBegins, TickEnds, TickPasses, TickAdvances, Return
  <2>3. \E c : Learn(Ticker, c)
    BY <1>3 DEF Tick, TickBegins, TickEnds, TickPasses, TickAdvances, Return
  <2>4. r \in Procs /\ r # Ticker
    BY EngineAssumption DEF Procs
  <2> QED
    BY <2>1, <2>2, <2>3, <2>4 DEF Goal, Goto, Learn, CoreInv, TypeOK
<1>4. ASSUME NEW p \in Procs, Persist(p) PROVE Goal
  <2>1. pc[p] # "idle"
    BY <1>4 DEF Persist, PersistCommits, PersistFails, PersistDone
  <2>2. ((\E step : Goto(p, step)) /\ UNCHANGED call) \/ Return(p)
    BY <1>4 DEF Persist, PersistCommits, PersistFails, PersistDone, Continue
  <2> QED
    BY <1>1, <1>2, <2>1, <2>2
<1>5. ASSUME NEW q \in Reqs, Manage(q) PROVE Goal
  <2>0. q \in Procs /\ call[q] \in Call
    BY CallFacts, ReqFacts
  <2>1. pc[q] # "idle"
    BY <1>5 DEF Manage, Parks, DelayRefused, DelayApplies, Reaches, StartIgnored, StartResumes,
            Starting, Turn, Running, LoadReads, LoadDone, LoadFails, StopBegins, StopClaims,
            StopReturns, Flush, ResetDrained, ResetClears, RewindCommits, RewindFails
  <2>2. CASE Parks(q) \/ ResetDrained(q) \/ ResetClears(q) \/ RewindCommits(q) \/ RewindFails(q)
    <3>1. (\E step : Goto(q, step)) /\ UNCHANGED call
      BY <2>2 DEF Parks, ResetDrained, ResetClears, RewindCommits, RewindFails
    <3> QED
      BY <1>1, <2>0, <2>1, <3>1
  <2>3. CASE DelayRefused(q) \/ StartIgnored(q) \/ StartResumes(q) \/ LoadDone(q)
             \/ LoadFails(q) \/ StopReturns(q)
    <3>1. Return(q)
      BY <2>3 DEF DelayRefused, StartIgnored, StartResumes, LoadDone, LoadFails, StopReturns,
                  Finish
    <3> QED
      BY <1>2, <2>0, <2>1, <3>1
  <2>4. CASE DelayApplies(q) \/ LoadReads(q) \/ StopBegins(q) \/ StopClaims(q)
             \/ \E t \in Trucks : Flush(q, t)
    <3>1. \E step : Goto(q, step)
      BY <2>4 DEF DelayApplies, LoadReads, StopBegins, StopClaims, Flush
    <3>2. \E c : Learn(q, c) /\ c.op = call[q].op
      <4>1. CASE DelayApplies(q)
        <5> DEFINE n == Delayed(live[call[q].truck], call[q].delay, lastSequence[call[q].truck] + 1)
                   c == [call[q] EXCEPT !.next = n, !.reason = "DELAY"]
        <5>1. c.op = call[q].op
          BY <2>0 DEF Call
        <5> QED
          BY <4>1, <5>1 DEF DelayApplies
      <4>2. CASE LoadReads(q)
        <5> DEFINE c == [call[q] EXCEPT !.rows = [t \in Trucks |->
                                          IF db[t].status \in Moving THEN db[t] ELSE Nil]]
        <5>1. c.op = call[q].op
          BY <2>0 DEF Call
        <5> QED
          BY <4>2, <5>1 DEF LoadReads
      <4>3. CASE StopBegins(q)
        <5> DEFINE c == [call[q] EXCEPT !.was = timer]
        <5>1. c.op = call[q].op
          BY <2>0 DEF Call
        <5> QED
          BY <4>3, <5>1 DEF StopBegins
      <4>4. CASE StopClaims(q)
        <5> DEFINE c == [call[q] EXCEPT !.seen = live,
                           !.todo = {t \in Trucks : live[t] # Nil /\ live[t].dirty}]
        <5>1. c.op = call[q].op
          BY <2>0 DEF Call
        <5> QED
          BY <4>4, <5>1 DEF StopClaims
      <4>5. ASSUME NEW t \in Trucks, Flush(q, t) PROVE \E c : Learn(q, c) /\ c.op = call[q].op
        <5> DEFINE c == [call[q] EXCEPT !.todo = @ \ {t}, !.truck = t, !.next = call[q].seen[t]]
        <5>1. c.op = call[q].op
          BY <2>0 DEF Call
        <5> QED
          BY <4>5, <5>1 DEF Flush
      <4> QED
        BY <2>4, <4>1, <4>2, <4>3, <4>4, <4>5
    <3> QED
      BY <1>1, <2>0, <2>1, <3>1, <3>2
  <2> QED
    BY <1>5, <2>2, <2>3, <2>4 DEF Manage
<1>6. ASSUME NEW q \in Reqs, Handle(q) PROVE Goal
  <2>0. q \in Procs /\ call[q] \in Call
    BY CallFacts, ReqFacts
  <2>1. pc[q] # "idle"
    BY <1>6 DEF Handle, Absorbs, NotLive, Reported, Reaches, Mirrors, DirectCommits, FactFails,
            Announces
  <2>2. CASE Mirrors(q) \/ FactFails(q) \/ Announces(q)
    <3>1. Return(q)
      BY <2>2 DEF Mirrors, FactFails, Announces
    <3> QED
      BY <1>2, <2>0, <2>1, <3>1
  <2>3. CASE NotLive(q)
    BY <1>1, <2>0, <2>1, <2>3 DEF NotLive
  <2>4. CASE Absorbs(q) \/ DirectCommits(q)
    <3>1. \E step : Goto(q, step)
      BY <2>4 DEF Absorbs, DirectCommits
    <3>2. \E c : Learn(q, c) /\ c.op = call[q].op
      BY <2>0, <2>4 DEF Absorbs, DirectCommits, Call
    <3> QED
      BY <1>1, <2>0, <2>1, <3>1, <3>2
  <2> QED
    BY <1>6, <2>2, <2>3, <2>4 DEF Handle
<1> QED
  BY <1>3, <1>4, <1>5, <1>6 DEF Works, Goal
-----------------------------------------------------------------------------
(* What a step of the engine does to the queue and the timer *)

(* The queue stays and the loop is at most put out, or the command at the  *)
(* head is over, and a stop leaves the loop off.                           *)
QueueMoves ==
  \/ UNCHANGED lifecycle /\ (timer' => timer)
  \/ \E r \in Reqs : /\ AtHead(r) /\ lifecycle' = Tail(lifecycle) /\ pc'[r] = "idle"
                     /\ call[r].op = "stop" => ~timer'

LEMMA Finishes ==
  ASSUME CoreInv, NEW r \in Reqs, AtHead(r), Finish(r), call[r].op = "stop" => ~timer'
  PROVE  QueueMoves
<1>1. pc'[r] = "idle"
  BY ReqFacts DEF Finish, Return, Goto, CoreInv, TypeOK
<1> QED
  BY <1>1 DEF Finish, QueueMoves

LEMMA WorksQueue ==
  ASSUME CoreInv, Works
  PROVE  QueueMoves
<1>1. CASE Tick
  BY <1>1 DEF Tick, TickBegins, TickEnds, TickPasses, TickAdvances, QueueMoves
<1>2. ASSUME NEW p \in Procs, Persist(p) PROVE QueueMoves
  BY <1>2 DEF Persist, PersistCommits, PersistFails, PersistDone, QueueMoves
<1>3. ASSUME NEW r \in Reqs, Handle(r) PROVE QueueMoves
  BY <1>3 DEF Handle, Absorbs, NotLive, Mirrors, DirectCommits, FactFails, Announces, QueueMoves
<1>4. ASSUME NEW r \in Reqs, Manage(r) PROVE QueueMoves
  <2>1. CASE StartIgnored(r) \/ StartResumes(r) \/ LoadDone(r) \/ LoadFails(r)
    <3>1. Current(r) /\ Finish(r)
      BY <2>1, StartingCurrent
         DEF StartIgnored, StartResumes, LoadDone, LoadFails, Current, Turn, Running, LifeOps
    <3>2. call[r].op # "stop"
      <4>1. CASE StartIgnored(r) \/ StartResumes(r)
        BY <4>1, StartingCurrent DEF StartIgnored, StartResumes, Turn, Running
      <4>2. CASE LoadDone(r) \/ LoadFails(r)
        <5>1. HandlerOK(r, "loading", call[r])
          BY <4>2, <3>1, CurrentFacts DEF LoadDone, LoadFails
        <5> QED
          BY <5>1 DEF HandlerOK, Route
      <4> QED
        BY <2>1, <4>1, <4>2
    <3> QED
      BY <3>1, <3>2, CurrentFacts, Finishes
  <2>2. CASE StopReturns(r)
    <3>1. Current(r) /\ Finish(r) /\ pc[r] # "queued" /\ UNCHANGED timer
      BY <2>2 DEF StopReturns, Running, Current
    <3> QED
      BY <3>1, CurrentFacts, Finishes
  <2>3. CASE \/ Parks(r) \/ DelayRefused(r) \/ DelayApplies(r) \/ LoadReads(r)
             \/ StopBegins(r) \/ StopClaims(r) \/ (\E t \in Trucks : Flush(r, t))
             \/ ResetDrained(r) \/ ResetClears(r) \/ RewindCommits(r) \/ RewindFails(r)
    BY <2>3 DEF Parks, DelayRefused, DelayApplies, LoadReads, StopBegins, StopClaims, Flush,
                ResetDrained, ResetClears, RewindCommits, RewindFails, QueueMoves
  <2> QED
    BY <1>4, <2>1, <2>2, <2>3 DEF Manage
<1> QED
  BY <1>1, <1>2, <1>3, <1>4 DEF Works

(* Who is asked or told something had nothing to do; the others go on.     *)
LEMMA AskMoves ==
  ASSUME CoreInv, NEW r \in Reqs, Ask(r) \/ Tell(r)
  PROVE  /\ pc[r] = "idle"
         /\ \A q \in Procs : q # r => pc'[q] = pc[q] /\ call'[q] = call[q]
<1>1. /\ pc[r] = "idle"
      /\ \E step : Goto(r, step)
      /\ \E c : Learn(r, c)
  BY DEF Ask, RequestDelay, RequestLifecycle, Tell, LocationUpdated, StatusUpdated,
         TrailerArrived, TrailerDocked, Report, Idle
<1> QED
  BY <1>1 DEF Goto, Learn, CoreInv, TypeOK

LEMMA LifeAsked ==
  ASSUME CoreInv, NEW r \in Reqs, NEW op, RequestLifecycle(r, op)
  PROVE  /\ lifecycle' = Append(lifecycle, r) /\ UNCHANGED timer
         /\ pc'[r] = "queued" /\ call'[r].op = op
         /\ \A q \in Procs : q # r => pc'[q] = pc[q] /\ call'[q] = call[q]
<1>1. [NoCall EXCEPT !.op = op].op = op
  BY DEF NoCall
<1> QED
  BY <1>1, ReqFacts DEF RequestLifecycle, Goto, Learn, CoreInv, TypeOK
-----------------------------------------------------------------------------
(* The connections *)

Conns == {"closed", "idle", "busy", "socket"}

(* One connection becomes something else, and its handler has not begun     *)
(* unless a request is on it.                                              *)
LEMMA ConnKept ==
  ASSUME ServerTypeOK, NEW c \in Clients, NEW what \in Conns, Becomes(c, what),
         pc'[c] # "idle" => what \in {"busy", "closed"},
         \A q \in Clients : q # c => pc'[q] = pc[q],
         UNCHANGED <<stage, code, io>>
  PROVE  ServerTypeOK'
<1>1. /\ conn' \in [Clients -> Conns] /\ conn'[c] = what
      /\ \A q \in Clients : q # c => conn'[q] = conn[q]
  BY DEF Becomes, ServerTypeOK, Conns
<1>2. \A q \in Clients : pc'[q] # "idle" => conn'[q] \in {"busy", "closed"}
  BY <1>1 DEF ServerTypeOK
<1> QED
  BY <1>1, <1>2 DEF ServerTypeOK, Conns

LEMMA ConnSteps ==
  ASSUME CoreInv, ServerTypeOK, NEW c \in Clients, Serving(c)
  PROVE  ServerTypeOK'
<1>0. conn[c] \in Conns /\ (pc[c] # "idle" => conn[c] \in {"busy", "closed"})
  BY DEF ServerTypeOK, Conns
<1>1. CASE Connects(c) \/ Upgrades(c) \/ Queried(c) \/ Responds(c) \/ Closes(c) \/ Abandons(c)
  <2>1. UNCHANGED pc /\ UNCHANGED <<stage, code, io>>
    BY <1>1 DEF Connects, Upgrades, Queried, Responds, Closes, Abandons, engine
  <2>2. \E what \in Conns : Becomes(c, what) /\ (pc[c] # "idle" => what \in {"busy", "closed"})
    BY <1>0, <1>1 DEF Connects, Upgrades, Queried, Responds, Closes, Abandons, Conns
  <2> QED
    BY <2>1, <2>2, ConnKept
<1>2. CASE Commanded(c)
  <2>1. \A q \in Clients : q # c => pc'[q] = pc[q]
    BY <1>2, AskMoves, ReqFacts DEF Commanded
  <2> QED
    BY <1>2, <2>1, ConnKept DEF Commanded, Conns
<1> QED
  BY <1>1, <1>2 DEF Serving

LEMMA ServerTypeStep ==
  ASSUME CoreInv, ServerTypeOK, [ServerNext]_all
  PROVE  ServerTypeOK'
<1>1. CASE UNCHANGED all
  BY <1>1 DEF all, engine, shell, ServerTypeOK
<1>2. CASE Works /\ UNCHANGED shell
  <2>1. \A c \in Clients : pc[c] = "idle" => pc'[c] = "idle"
    BY <1>2, WorksWakesNone, ReqFacts
  <2> QED
    BY <1>2, <2>1 DEF ServerTypeOK, shell
<1>3. CASE Listening
  <2>1. \A c \in Clients : pc'[c] = pc[c]
    BY <1>3, LifeAsked, ReqFacts DEF Listening, engine
  <2> QED
    BY <1>3, <2>1 DEF ServerTypeOK, Listening
<1>4. ASSUME NEW c \in Clients, Serving(c) PROVE ServerTypeOK'
  BY <1>4, ConnSteps
<1>5. ASSUME NEW exitCode \in {0, 1}, Shutdown(exitCode) PROVE ServerTypeOK'
  <2>1. \A c \in Clients : pc'[c] = pc[c]
    BY <1>5, LifeAsked, ReqFacts DEF Shutdown
  <2> QED
    BY <1>5, <2>1 DEF ServerTypeOK, Shutdown, Proceed
<1>6. CASE Leaves \/ ForceExit
  <2>1. UNCHANGED pc
    BY <1>6 DEF Leaves, CloseWebsocket, AwaitHttpClosed, DisconnectPrisma, ForceExit, engine
  <2> QED
    BY <1>6, <2>1 DEF Leaves, CloseWebsocket, AwaitHttpClosed, DisconnectPrisma, ForceExit,
                      ServerTypeOK, Proceed, Exit
<1> QED
  BY <1>1, <1>2, <1>3, <1>4, <1>5, <1>6 DEF ServerNext

LEMMA ServerStarts ==
  ASSUME ServerInit
  PROVE  CoreInv /\ ServerTypeOK /\ ShutInv
<1>1. Init /\ pc = [p \in Procs |-> "idle"] /\ call = [p \in Procs |-> NoCall]
  BY DEF ServerInit, Init
<1>2. ServerTypeOK
  BY <1>1, ReqFacts DEF ServerInit, ServerTypeOK
<1>3. pc[Term] = "idle" /\ call[Term].op = "none" /\ call[Boot].op = "none"
  BY <1>1, ReqFacts DEF NoCall
<1>4. ShutInv
  BY <1>3 DEF ServerInit, ShutInv
<1> QED
  BY <1>1, <1>2, <1>4, CoreInit

LEMMA ServerCore ==
  ASSUME CoreInv, [ServerNext]_all
  PROVE  CoreInv'
BY ServerSteps, CoreStep

(* A connection is one of its kinds, the stages come as shutdown() takes   *)
(* them, and no handler is at work for a connection that waits for a       *)
(* request or was upgraded.                                                *)
THEOREM ServerTypes == ServerSpec => []ServerTypeOK
<1>1. ServerInit => CoreInv /\ ServerTypeOK
  BY ServerStarts
<1>2. CoreInv /\ ServerTypeOK /\ [ServerNext]_all => (CoreInv /\ ServerTypeOK)'
  BY ServerCore, ServerTypeStep
<1> QED
  BY <1>1, <1>2, PTL DEF ServerSpec
-----------------------------------------------------------------------------
(* The shutdown's stop() *)

(* A handler of Term's or Boot's kind that is idle is in no queue.         *)
LEMMA IdleOut ==
  ASSUME CoreInv, NEW r \in Reqs
  PROVE  /\ pc[r] = "idle" => ~InLine(r)
         /\ call[r].op \in {"none", "start", "stop"} /\ ~InLine(r) => pc[r] = "idle"
<1>1. HandlerOK(r, pc[r], call[r]) /\ (InLine(r) <=> call[r].op \in LifeOps)
  BY CallFacts, ReqFacts DEF CoreInv, LifeInv
<1> QED
  BY <1>1 DEF HandlerOK, Route, LifeOps

(* The last in the queue stays the last until it is over, and then nothing *)
(* is left in the queue.                                                   *)
LEMMA LastMoves ==
  ASSUME CoreInv, CoreInv', QueueMoves, lifecycle # <<>>, NEW r \in Reqs,
         lifecycle[Len(lifecycle)] = r, call[r].op = "stop"
  PROVE  /\ pc'[r] # "idle" => lifecycle' # <<>> /\ lifecycle'[Len(lifecycle')] = r
         /\ pc'[r] = "idle" => Off'
<1>1. /\ lifecycle \in Seq(Reqs) /\ Len(lifecycle) \in Nat \ {0} /\ Head(lifecycle) = lifecycle[1]
      /\ Tail(lifecycle) \in Seq(Reqs) /\ Len(Tail(lifecycle)) = Len(lifecycle) - 1
      /\ \A i \in 1 .. Len(lifecycle) - 1 : Tail(lifecycle)[i] = lifecycle[i + 1]
  BY QueueFacts DEF CoreInv, TypeOK
<1>2. pc'[r] = "idle" => ~InLine(r)'
  <2>1. (HandlerOK(r, pc[r], call[r]) /\ (InLine(r) <=> call[r].op \in LifeOps))'
    BY ReqFacts DEF CoreInv, LifeInv, CallInv
  <2> QED
    BY <2>1 DEF HandlerOK, Route, LifeOps
<1>3. CASE UNCHANGED lifecycle
  <2>1. InLine(r)'
    BY <1>1, <1>3 DEF InLine
  <2> QED
    BY <1>2, <1>3, <2>1
<1>4. CASE \E q \in Reqs : /\ AtHead(q) /\ lifecycle' = Tail(lifecycle) /\ pc'[q] = "idle"
                           /\ call[q].op = "stop" => ~timer'
  <2>1. PICK q \in Reqs : /\ AtHead(q) /\ lifecycle' = Tail(lifecycle) /\ pc'[q] = "idle"
                          /\ call[q].op = "stop" => ~timer'
    BY <1>4
  <2>2. CASE Len(lifecycle) = 1
    <3>1. q = r /\ lifecycle' = <<>>
      BY <1>1, <2>1, <2>2, EmptySeq DEF AtHead
    <3> QED
      BY <2>1, <3>1 DEF Off
  <2>3. CASE Len(lifecycle) # 1
    <3>1. Len(lifecycle) - 1 \in 1 .. Len(lifecycle) - 1 /\ Len(lifecycle') = Len(lifecycle) - 1
      BY <1>1, <2>1, <2>3
    <3>2. lifecycle'[Len(lifecycle')] = r /\ lifecycle' # <<>>
      <4>1. Tail(lifecycle)[Len(lifecycle) - 1] = lifecycle[Len(lifecycle) - 1 + 1]
        BY <1>1, <3>1
      <4>2. Len(lifecycle) - 1 + 1 = Len(lifecycle)
        BY <1>1
      <4>3. lifecycle' # <<>>
        BY <3>1
      <4> QED
        BY <2>1, <3>1, <4>1, <4>2, <4>3
    <3>3. InLine(r)'
      BY <3>1, <3>2 DEF InLine
    <3> QED
      BY <1>2, <3>2, <3>3
  <2> QED
    BY <2>2, <2>3
<1> QED
  BY <1>3, <1>4 DEF QueueMoves

LEMMA ShutWorks ==
  ASSUME CoreInv, CoreInv', ShutInv, Works, UNCHANGED shell
  PROVE  ShutInv'
<1>1. UNCHANGED stage
  BY DEF shell
<1>2. QueueMoves
  BY WorksQueue
<1>3. /\ pc[Term] = "idle" => pc'[Term] = "idle"
      /\ call'[Term].op \in {call[Term].op, "none"} /\ call'[Boot].op \in {call[Boot].op, "none"}
  BY WorksWakesNone, ReqFacts
<1>4. Off => Off'
  BY <1>2 DEF Off, QueueMoves, AtHead
<1>5. ASSUME stage = "stopping", pc[Term] # "idle"
      PROVE  /\ pc'[Term] # "idle" => lifecycle' # <<>> /\ lifecycle'[Len(lifecycle')] = Term
             /\ pc'[Term] = "idle" => Off'
  <2>1. call[Term].op = "stop"
    BY <1>5, CallFacts, ReqFacts DEF ShutInv, HandlerOK, Route
  <2> QED
    BY <1>2, <1>5, <2>1, LastMoves, ReqFacts DEF ShutInv
<1> QED
  BY <1>1, <1>3, <1>4, <1>5 DEF ShutInv

LEMMA ShutStep ==
  ASSUME CoreInv, CoreInv', ShutInv, [ServerNext]_all
  PROVE  ShutInv'
<1>0. Boot \in Procs /\ Term \in Procs /\ Boot # Term
  BY ReqFacts
<1>1. CASE UNCHANGED all
  BY <1>1 DEF all, engine, shell, ShutInv, Off
<1>2. CASE Works /\ UNCHANGED shell
  BY <1>2, ShutWorks
<1>3. CASE Listening
  <2>1. stage = "booting" /\ stage' = "serving"
    BY <1>3 DEF Listening
  <2>2. /\ pc'[Term] = pc[Term] /\ call'[Term] = call[Term]
        /\ call'[Boot].op \in {call[Boot].op, "start"}
    BY <1>0, <1>3, LifeAsked, ReqFacts DEF Listening, engine
  <2> QED
    BY <2>1, <2>2 DEF ShutInv
<1>4. ASSUME NEW c \in Clients, Serving(c) PROVE ShutInv'
  <2>1. UNCHANGED stage
    BY <1>4 DEF Serving, Connects, Upgrades, Commanded, Queried, Responds, Closes, Abandons
  <2>2. CASE UNCHANGED engine
    BY <2>1, <2>2 DEF ShutInv, Off, engine
  <2>3. CASE Commanded(c)
    <3>1. stage \in {"booting", "serving"}
      BY <2>3 DEF Commanded, Passes, isShuttingDown
    <3>2. /\ pc'[Term] = pc[Term] /\ call'[Term] = call[Term] /\ call'[Boot] = call[Boot]
      BY <1>0, <2>3, AskMoves, ReqFacts DEF Commanded
    <3> QED
      BY <2>1, <3>1, <3>2 DEF ShutInv
  <2> QED
    BY <1>4, <2>2, <2>3 DEF Serving, Connects, Upgrades, Queried, Responds, Closes, Abandons
<1>5. ASSUME NEW exitCode \in {0, 1}, Shutdown(exitCode) PROVE ShutInv'
  <2>1. stage' = "stopping" /\ RequestLifecycle(Term, "stop")
    BY <1>5 DEF Shutdown, Proceed
  <2>2. /\ lifecycle' = Append(lifecycle, Term) /\ pc'[Term] = "queued"
        /\ call'[Term].op = "stop" /\ call'[Boot] = call[Boot]
    BY <1>0, <2>1, LifeAsked, ReqFacts
  <2>3. lifecycle' # <<>> /\ lifecycle'[Len(lifecycle')] = Term
    <3>1. lifecycle \in Seq(Reqs) /\ Term \in Reqs
      BY ReqFacts DEF CoreInv, TypeOK
    <3>2. /\ Append(lifecycle, Term) # <<>>
          /\ Append(lifecycle, Term)[Len(lifecycle) + 1] = Term
          /\ Len(Append(lifecycle, Term)) = Len(lifecycle) + 1
      BY <3>1, QueueFacts
    <3> QED
      BY <2>2, <3>2
  <2> QED
    BY <2>1, <2>2, <2>3 DEF ShutInv
<1>6. CASE Leaves \/ ForceExit
  <2>1. UNCHANGED <<pc, call, timer, lifecycle>>
    BY <1>6 DEF Leaves, CloseWebsocket, AwaitHttpClosed, DisconnectPrisma, ForceExit, engine
  <2>2. \/ stage = "stopping" /\ pc[Term] = "idle" /\ stage' = "closing"
        \/ stage = "closing" /\ stage' = "disconnecting"
        \/ stage' = "exited"
    BY <1>6 DEF Leaves, CloseWebsocket, AwaitHttpClosed, DisconnectPrisma, ForceExit, Proceed, Exit
  <2> QED
    BY <2>1, <2>2 DEF ShutInv, Off
<1> QED
  BY <1>1, <1>2, <1>3, <1>4, <1>5, <1>6 DEF ServerNext

LEMMA ServerInvariant == ServerSpec => []ServerInv
<1>1. ServerInit => ServerInv
  BY ServerStarts DEF ServerInv
<1>2. ServerInv /\ [ServerNext]_all => ServerInv'
  BY ServerCore, ServerTypeStep, ShutStep DEF ServerInv
<1> QED
  BY <1>1, <1>2, PTL DEF ServerSpec

(* The gate and the lifecycle queue are enough: after shutdown()'s stop()  *)
(* is over nothing starts the loop again, neither a start queued before    *)
(* the signal nor a request on a connection that was kept open.            *)
THEOREM ShutdownIsFinal == ServerSpec => []StoppedForGood
<1>1. ServerInv => StoppedForGood
  BY StillFromCore DEF ServerInv, ShutInv, Off, StoppedForGood, StoppedIsStill
<1> QED
  BY <1>1, ServerInvariant, PTL

-----------------------------------------------------------------------------
(* What the process leaves behind *)

LEMMA AllIdle ==
  ASSUME ServerInv, stage = "disconnecting", \A c \in Clients : pc[c] = "idle"
  PROVE  ~timer /\ lifecycle = <<>> /\ Free
<1>1. ~timer /\ lifecycle = <<>> /\ pc[Ticker] = "idle"
  BY StillFromCore DEF ServerInv, ShutInv, Off, StoppedIsStill
<1>2. pc[Term] = "idle" /\ pc[Boot] = "idle"
  <2>1. ~InLine(Term) /\ ~InLine(Boot)
    BY <1>1 DEF InLine
  <2> QED
    BY <2>1, IdleOut, ReqFacts DEF ServerInv, ShutInv
<1>3. \A p \in Procs : pc[p] = "idle"
  BY <1>1, <1>2, ServerAssumption DEF Procs
<1>4. Free
  BY <1>3 DEF ServerInv, CoreInv, LockInv, TypeOK, Free, Holding
<1> QED
  BY <1>1, <1>4

LEMMA LeftStep ==
  ASSUME ServerInv, CalmInv, LeftInv, [ServerNext]_all
  PROVE  LeftInv'
<1>1. CASE UNCHANGED all
  BY <1>1 DEF all, engine, shell, LeftInv, HttpClosed, CleanExitOwesNothing
<1>2. CASE stage' \notin {"disconnecting", "exited"}
  BY <1>2 DEF LeftInv, CleanExitOwesNothing
<1>3. CASE Up /\ UNCHANGED stage /\ stage = "disconnecting" /\ ServerNext
  <2>1. HttpClosed
    BY <1>3 DEF LeftInv
  <2>2. UNCHANGED conn
    BY <1>3, <2>1 DEF ServerNext, shell, Listening, Serving, Connects, Upgrades, Commanded, Queried,
                Responds, Closes, Abandons, Shutdown, HttpClosed, Leaves, CloseWebsocket,
                AwaitHttpClosed, DisconnectPrisma, ForceExit, Proceed, Exit, Up
  <2> QED
    BY <1>3, <2>1, <2>2 DEF LeftInv, HttpClosed, CleanExitOwesNothing
<1>4. CASE AwaitHttpClosed
  BY <1>4 DEF AwaitHttpClosed, Proceed, LeftInv, HttpClosed, CleanExitOwesNothing
<1>5. CASE DisconnectPrisma
  <2>1. stage = "disconnecting" /\ stage' = "exited" /\ UNCHANGED <<engine, conn>>
    BY <1>5 DEF DisconnectPrisma, Exit
  <2>2. CASE \E c \in Clients : pc[c] # "idle"
    BY <2>1, <2>2 DEF LeftInv, HttpClosed, CleanExitOwesNothing, engine
  <2>3. CASE \A c \in Clients : pc[c] = "idle"
    <3>1. \A t \in Trucks : live[t] # Nil => ~live[t].dirty
      BY <2>1, <2>3, AllIdle, SavedFromCalm DEF StoppedIsSaved
    <3> QED
      BY <2>1, <3>1 DEF LeftInv, CleanExitOwesNothing, engine
  <2> QED
    BY <2>2, <2>3
<1>6. CASE ForceExit
  BY <1>6 DEF ForceExit, Exit, LeftInv, CleanExitOwesNothing
<1> QED
  BY <1>1, <1>2, <1>3, <1>4, <1>5, <1>6
     DEF ServerNext, shell, Listening, Serving, Connects, Upgrades, Commanded, Queried,
         Responds, Closes, Abandons, Shutdown, Leaves, CloseWebsocket, Proceed, Up

(* A process that ends with 0 has written everything it absorbed, after    *)
(* the flush too, unless a client has left its request behind: it waits    *)
(* for the requests under way, and nothing else can be under way.          *)
THEOREM CleanExit ==
  ASSUME Calm
  PROVE  ServerSpec => []CleanExitOwesNothing
<1>1. ServerInit => CalmInv /\ LeftInv
  BY CalmInit DEF ServerInit, LeftInv, CleanExitOwesNothing
<1>2. CalmInv /\ [ServerNext]_all => CalmInv'
  BY ServerSteps, CalmStep
<1>3. ServerInv /\ CalmInv /\ LeftInv /\ [ServerNext]_all => LeftInv'
  BY LeftStep
<1>4. LeftInv => CleanExitOwesNothing
  BY DEF LeftInv
<1> QED
  BY <1>1, <1>2, <1>3, <1>4, ServerInvariant, PTL DEF ServerSpec

(* What holds of the engine with its feed holds in the process: what stop  *)
(* saves, and that memory and rows tell one story that no delay outlives.  *)
THEOREM ServerKeepsFeed ==
  /\ ServerSpec => []StoppedIsStill
  /\ Calm => (ServerSpec => []StoppedIsSaved)
  /\ Steady => (ServerSpec => [](OneStory /\ RowsKeepUp))
  /\ "docked" \notin Commands => (ServerSpec => []NoDelayInYard)
  /\ Steady /\ "docked" \notin Commands => (ServerSpec => InYardStays)
<1>1. ServerSpec => []StoppedIsStill
  BY ServerImplementsFeed, NoTickAfterStopWithFeed, PTL
<1>2. ASSUME Calm PROVE ServerSpec => []StoppedIsSaved
  <2>1. FeedSpec => []StoppedIsSaved
    BY <1>2, StopSaves
  <2> QED
    BY <2>1, ServerImplementsFeed, PTL
<1>3. ASSUME Steady PROVE ServerSpec => [](OneStory /\ RowsKeepUp)
  <2>1. (FeedSpec => []OneStory) /\ (FeedSpec => []RowsKeepUp)
    BY <1>3, OneStoryTold, CheckpointsKeepUp
  <2> QED
    BY <2>1, ServerImplementsFeed, PTL
<1>4. ASSUME "docked" \notin Commands PROVE ServerSpec => []NoDelayInYard
  <2>1. FeedSpec => []NoDelayInYard
    BY <1>4, ArrivalEndsDelay
  <2> QED
    BY <2>1, ServerImplementsFeed, PTL
<1>5. ASSUME Steady, "docked" \notin Commands PROVE ServerSpec => InYardStays
  <2>1. FeedSpec => InYardStays
    BY <1>5, YardIsKept
  <2> QED
    BY <2>1, ServerImplementsFeed, PTL
<1> QED
  BY <1>1, <1>2, <1>3, <1>4, <1>5
=============================================================================
