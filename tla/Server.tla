------------------------------- MODULE Server -------------------------------
(***************************************************************************)
(* The process around the engine: the autostart, the connections requests  *)
(* come in on, the gate that refuses commands once a shutdown has begun,   *)
(* and the shutdown itself (server.ts, app.ts, shutdown-state.ts,          *)
(* websocket/index.ts), which stops the engine, closes Socket.IO, waits    *)
(* for the HTTP server and leaves the database, in that order.             *)
(*                                                                         *)
(* A connection carries one request at a time.  The address listened on is *)
(* numeric (HOST), so the server listens before a signal can be handled.   *)
(***************************************************************************)
EXTENDS WmsFeed

CONSTANTS Clients,   \* connections, each with the handler of its request
          Boot,      \* the autostart's call of start()
          Term,      \* shutdown()'s call of stop()
          GivesUp    \* whether a client may leave before it is answered

VARIABLES stage,   \* how far shutdown() has come
          code,    \* the exit code it was given, or ended with
          io,      \* whether there is a Socket.IO server
          conn     \* conn[c]: what connection c is

engine == <<db, live, routes, timer, slot, lifecycle, lastSequence, sent, pc, call>>
shell  == <<stage, code, io, conn>>
all    == <<engine, shell>>

ASSUME ServerAssumption ==
  /\ Reqs = Clients \cup {Boot, Term} /\ Boot # Term
  /\ Clients \cap {Boot, Term} = {}
  /\ {"start", "stop"} \subseteq Commands
  /\ GivesUp \in BOOLEAN

Up             == stage # "exited"
isShuttingDown == stage \notin {"booting", "serving"}

ServerInit == /\ Init
              /\ stage = (IF Booted THEN "serving" ELSE "booting")
              /\ code = 0 /\ io = TRUE
              /\ conn = [c \in Clients |-> "closed"]

(* The server listens; SIMULATION_AUTOSTART makes start() the first         *)
(* lifecycle command.                                                      *)
Listening ==
  /\ stage = "booting"
  /\ stage' = "serving"
  /\ RequestLifecycle(Boot, "start") \/ UNCHANGED engine
  /\ UNCHANGED <<code, io, conn>>

-----------------------------------------------------------------------------
(* Connections *)

Becomes(c, what) == conn' = [conn EXCEPT ![c] = what]

(* close() refuses new connections; an open one can still be upgraded to a *)
(* socket as long as there is a Socket.IO server.                          *)
Connects(c) ==
  /\ conn[c] = "closed" /\ pc[c] = "idle" /\ stage = "serving"
  /\ Becomes(c, "idle")
  /\ UNCHANGED <<engine, stage, code, io>>

Upgrades(c) ==
  /\ conn[c] = "idle" /\ io
  /\ Becomes(c, "socket")
  /\ UNCHANGED <<engine, stage, code, io>>

(* Mutant: there is no gate, only the closed door.                         *)
PassesAlways == TRUE

(* The gate: a command is refused with a 503 and nothing else happens. *)
Passes == ~isShuttingDown

Commanded(c) ==
  /\ conn[c] = "idle" /\ Passes
  /\ Becomes(c, "busy")
  /\ Ask(c) \/ Tell(c)
  /\ UNCHANGED <<stage, code, io>>

(* A GET is answered at any time. *)
Queried(c) ==
  /\ conn[c] = "idle"
  /\ Becomes(c, "busy")
  /\ UNCHANGED <<engine, stage, code, io>>

(* Mutant: the answer does not wait for the handler.                       *)
RespondsAtOnce(c) ==
  /\ conn[c] = "busy"
  /\ Becomes(c, "idle")
  /\ UNCHANGED <<engine, stage, code, io>>

Responds(c) ==
  /\ conn[c] = "busy" /\ pc[c] = "idle"
  /\ Becomes(c, "idle")
  /\ UNCHANGED <<engine, stage, code, io>>

(* An idle connection times out or its client closes it; so does a socket. *)
Closes(c) ==
  /\ conn[c] \in {"idle", "socket"}
  /\ Becomes(c, "closed")
  /\ UNCHANGED <<engine, stage, code, io>>

(* The client is gone, its handler goes on.                                *)
Abandons(c) ==
  /\ GivesUp /\ conn[c] = "busy"
  /\ Becomes(c, "closed")
  /\ UNCHANGED <<engine, stage, code, io>>

-----------------------------------------------------------------------------
(* shutdown(signal, exitCode) *)

Proceed(to) == stage' = to

Exit(with) == stage' = "exited" /\ code' = with

(* A signal or an uncaught exception, the first of them: the gate falls,   *)
(* the door and the idle connections are closed, and stop() is queued, all *)
(* before anything else runs.                                              *)
Shutdown(exitCode) ==
  /\ stage = "serving"
  /\ code' = exitCode
  /\ conn' = [c \in Clients |-> IF conn[c] = "idle" THEN "closed" ELSE conn[c]]
  /\ Proceed("stopping")
  /\ RequestLifecycle(Term, "stop")
  /\ UNCHANGED io

(* Every connection has ended: close() is over. *)
HttpClosed == \A c \in Clients : conn[c] = "closed"

(* Mutant: the close of the HTTP server is awaited before Socket.IO's.     *)
CloseWebsocketLast ==
  /\ stage = "stopping" /\ pc[Term] = "idle" /\ HttpClosed
  /\ io' = FALSE
  /\ conn' = [c \in Clients |-> IF conn[c] = "socket" THEN "closed" ELSE conn[c]]
  /\ Proceed("closing")
  /\ UNCHANGED <<engine, code>>

(* stop() is over; closeWebsocket disconnects every socket.                *)
CloseWebsocket ==
  /\ stage = "stopping" /\ pc[Term] = "idle"
  /\ io' = FALSE
  /\ conn' = [c \in Clients |-> IF conn[c] = "socket" THEN "closed" ELSE conn[c]]
  /\ Proceed("closing")
  /\ UNCHANGED <<engine, code>>

(* Mutant: the requests that are still being handled are not waited for.   *)
AwaitHttpClosedUnasked ==
  /\ stage = "closing"
  /\ Proceed("disconnecting")
  /\ UNCHANGED <<engine, code, io, conn>>

AwaitHttpClosed ==
  /\ stage = "closing" /\ HttpClosed
  /\ Proceed("disconnecting")
  /\ UNCHANGED <<engine, code, io, conn>>

(* The database is left, or that fails; the process exits either way. *)
DisconnectPrisma ==
  /\ stage = "disconnecting"
  /\ Exit(code) \/ Exit(1)
  /\ UNCHANGED <<engine, io, conn>>

(* SHUTDOWN_TIMEOUT_MS is over. *)
ForceExit ==
  /\ isShuttingDown /\ Up
  /\ Exit(1)
  /\ UNCHANGED <<engine, io, conn>>

-----------------------------------------------------------------------------

Works == \/ Tick
         \/ \E p \in Procs : Persist(p)
         \/ \E r \in Reqs : Manage(r) \/ Handle(r)

Serving(c) == \/ Connects(c) \/ Upgrades(c) \/ Commanded(c) \/ Queried(c)
              \/ Responds(c) \/ Closes(c) \/ Abandons(c)

Leaves == CloseWebsocket \/ AwaitHttpClosed \/ DisconnectPrisma

ServerNext ==
  \/ Up /\ (\/ Works /\ UNCHANGED shell
            \/ Listening
            \/ \E c \in Clients : Serving(c)
            \/ \E exitCode \in {0, 1} : Shutdown(exitCode)
            \/ Leaves \/ ForceExit)
  \/ ~Up /\ UNCHANGED all

ServerSpec == ServerInit /\ [][ServerNext]_all

(* Node runs every promise whose await has resolved, and Postgres answers; *)
(* handlers that wait for the barrier wake in the order they came, so none *)
(* of them is passed over for ever.  The interval need not fire.           *)
(* shutdown() goes on when what it awaits has come, a handler that is done *)
(* answers, and a client does not ask for ever on a connection it keeps.   *)
(* Nothing makes the timer go off.                                         *)
Runs(A) == Up /\ A /\ UNCHANGED shell

ServerFairness ==
  /\ \A r \in Reqs : SF_all(Runs(Persist(r) \/ Manage(r) \/ Handle(r)))
  /\ WF_all(Runs(Persist(Ticker) \/ TickGoesOn))
  /\ \A c \in Clients : /\ WF_all(Up /\ Responds(c))
                        /\ SF_all(Up /\ conn[c] = "idle" /\ Closes(c))
  /\ WF_all(Leaves)

FairServerSpec == ServerSpec /\ ServerFairness

-----------------------------------------------------------------------------
(* Properties *)

(* Every connection is one of its kinds, and one that waits for a request  *)
(* has no handler at work.                                                 *)
ServerTypeOK ==
  /\ stage \in {"booting", "serving", "stopping", "closing", "disconnecting", "exited"}
  /\ code \in {0, 1} /\ io \in BOOLEAN
  /\ conn \in [Clients -> {"closed", "idle", "busy", "socket"}]
  /\ \A c \in Clients : pc[c] # "idle" => conn[c] \in {"busy", "closed"}

(* "A client on an existing keep-alive [could] land a POST                 *)
(* /simulation/start after the loop has stopped and flushed": once stop()  *)
(* has returned the engine is off, no tick is under way and no lifecycle   *)
(* command is left that could start it, whatever was queued before.        *)
StoppedForGood ==
  stage \in {"closing", "disconnecting"} =>
    ~timer /\ lifecycle = <<>> /\ pc[Ticker] = "idle"

(* A process that ends with 0 owes the database nothing: no state is left  *)
(* in memory only, what was absorbed after the flush included, unless a    *)
(* client has left its request behind.  No database call fails.            *)
CleanExitOwesNothing ==
  stage = "exited" /\ code = 0 =>
    \/ \E c \in Clients : pc[c] # "idle" /\ conn[c] = "closed"
    \/ \A t \in Trucks : live[t] # Nil => ~live[t].dirty

(* A shutdown comes to its end without the timer: the comment's deadlock   *)
(* of close() and the sockets does not happen.                             *)
GracefulExit == isShuttingDown ~> stage = "exited"

(* Every command is answered, before a shutdown and during it: neither the *)
(* lifecycle queue nor the barrier wedges, whatever fails in front of it,  *)
(* unless the process ends first.                                          *)
EveryCommandEnds == \A r \in Reqs : pc[r] # "idle" ~> (pc[r] = "idle" \/ ~Up)
=============================================================================
