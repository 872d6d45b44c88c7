------------------------------ MODULE Realtime ------------------------------
(***************************************************************************)
(* The Socket.IO layer: subscriptions answered with an opening snapshot    *)
(* (socket-server.ts, snapshots.ts), events sent to the rooms of what they *)
(* name (rooms.ts, realtime-service.ts), and a client that keeps what it   *)
(* was told last.  The engine and the WMS feed are seen from outside: a    *)
(* truck's state is a number that grows with every change (its story).     *)
(*                                                                         *)
(* An answer from the live map needs no I/O, so the join, the snapshot and *)
(* the ack are one step; a row is read in a step and answered in another.  *)
(***************************************************************************)
EXTENDS Integers, Sequences

CONSTANTS Trucks, Shipments,
          TruckOf,       \* the truck of a name (id or reference), Nil if none
          ShipmentOf,    \* the shipment of a name (id, reference, tracking number)
          Carrier,       \* the truck a shipment rides on
          OnRoad,        \* trucks whose rows are moving: those that load() takes
          Reported,      \* trucks the WMS tells of while the engine has not got them
          Sockets,       \* client connections
          Reqs,          \* subscriptions that can be waiting at one time
          Booted,        \* whether the autostart is over
          Commands,      \* what operators ask for, and whether connections are lost
          Pages,         \* what a client may ask for, a page being a set of it
          Patient,       \* whether a client waits for one answer before it asks again
          MaxStory,      \* bound: changes of each truck
          MaxWire,       \* bound: a client asks when it is not further behind
          MayFail,       \* whether a database call may fail
          Nil

VARIABLES live,      \* the trucks in the live map
          story,     \* what each truck is, by now
          row,       \* what its row says
          last,      \* lastSequence
          said,      \* the number and the story of the last event of each truck
          facts,     \* facts written to a row and not announced yet: the story, or 0
          reset,     \* how far the one reset has come
          rooms,     \* the rooms a socket is in
          joined,    \* joinedTruckRooms, joinedShipmentRooms: room by kind and name
          wire,      \* messages to a client that it has not handled yet
          page,      \* the client: what it shows
          wants,     \* the client: what it has asked for and not left, by the names it used
          view,      \* the client: number and story it holds of each truck
          pc, call   \* a subscription: where it stands, what it knows

world   == <<live, story, row, last, said, facts, reset>>
clients == <<wire, page, wants, view>>
vars    == <<world, rooms, joined, clients, pc, call>>

-----------------------------------------------------------------------------
(* Rooms and messages *)

Operations      == <<"operations", Nil>>
truckRoom(n)    == <<"truck", n>>
shipmentRoom(n) == <<"shipment", n>>

RoomOf(kind, n) == IF kind = "truck" THEN truckRoom(n) ELSE shipmentRoom(n)

(* The rooms of an event that names a truck, and the shipment on it. *)
RoomsFor(t) == {Operations, truckRoom(t)}
                 \cup {shipmentRoom(s) : s \in {x \in Shipments : Carrier[x] = t}}

Kinds  == {"truck", "shipment"}
NamesOf(kind) == IF kind = "truck" THEN DOMAIN TruckOf ELSE DOMAIN ShipmentOf
Names  == DOMAIN TruckOf \cup DOMAIN ShipmentOf
Rooms  == {Operations} \cup {truckRoom(t) : t \in Trucks}
                       \cup {shipmentRoom(s) : s \in Shipments}

(* What a name stands for, and the truck to show for it. *)
Named(kind, n) == IF kind = "truck" THEN TruckOf[n] ELSE ShipmentOf[n]
Shown(kind, n) == IF kind = "truck" THEN TruckOf[n] ELSE Carrier[ShipmentOf[n]]

State == [number : Nat, story : Nat]

(* The room that something a client may ask for stands for. *)
Target(w) == IF w = Operations THEN w ELSE RoomOf(w[1], Named(w[1], w[2]))

(* What the server could tell of each truck. *)
Current == [t \in Trucks |-> IF t \in live THEN story[t] ELSE row[t]]

(* A truck's events carry its number and what it is. *)
Payload(n, what) == [number |-> n, story |-> what]

Live(t) == Payload(last[t], story[t])   \* toWireView
Row(t)  == Payload(0, row[t])           \* rowToWireView

Message(type, what, states) == [type |-> type, what |-> what, states |-> states]

ASSUME RealtimeAssumption ==
  /\ Trucks \subseteq DOMAIN TruckOf /\ \A t \in Trucks : TruckOf[t] = t
  /\ Shipments \subseteq DOMAIN ShipmentOf /\ \A s \in Shipments : ShipmentOf[s] = s
  /\ \A n \in DOMAIN TruckOf : TruckOf[n] \in Trucks \cup {Nil}
  /\ \A n \in DOMAIN ShipmentOf : ShipmentOf[n] \in Shipments \cup {Nil}
  /\ Nil \notin Trucks \cup Shipments \cup Rooms
  /\ Carrier \in [Shipments -> Trucks]
  /\ OnRoad \subseteq Trucks /\ Reported \subseteq Trucks
  /\ MaxStory \in [Trucks -> Nat]

-----------------------------------------------------------------------------

(* Handlers and their clients *)

NoCall == [socket |-> Nil, kind |-> "none", name |-> Nil, since |-> <<>>, answer |-> <<>>]

Init == /\ live = IF Booted THEN OnRoad ELSE {}
        /\ story = [t \in Trucks |-> 0] /\ row = story /\ last = story
        /\ said = [t \in Trucks |-> [number |-> 0, story |-> 0]]
        /\ facts = [t \in Trucks |-> 0]
        /\ reset = "none"
        /\ rooms = [s \in Sockets |-> {}]
        /\ joined = [s \in Sockets |-> [kn \in Kinds \X Names |-> Nil]]
        /\ wire = [s \in Sockets |-> <<>>]
        /\ page \in [Sockets -> Pages]
        /\ wants = [s \in Sockets |-> {}]
        /\ view = [s \in Sockets |-> [t \in Trucks |-> Nil]]
        /\ pc = [q \in Reqs |-> "idle"]
        /\ call = [q \in Reqs |-> NoCall]

Goto(q, step) == pc' = [pc EXCEPT ![q] = step]
Learn(q, c)   == call' = [call EXCEPT ![q] = c]
Return(q)     == Goto(q, "idle") /\ Learn(q, NoCall)

-----------------------------------------------------------------------------
(* Events *)

(* RealtimeService.emit: one copy to every socket in one of the rooms. *)
Emit(t, state) ==
  /\ said' = [said EXCEPT ![t] = state]
  /\ wire' = [s \in Sockets |->
       IF rooms[s] \cap RoomsFor(t) = {} THEN wire[s]
       ELSE Append(wire[s], Message("event", Nil, [x \in {t} |-> state]))]

(* A tick, a delay command or an absorbed fact changes a live truck; its   *)
(* row follows or not.                                                     *)
Advance(t) ==
  /\ t \in live /\ story[t] < MaxStory[t]
  /\ story' = [story EXCEPT ![t] = @ + 1]
  /\ last' = [last EXCEPT ![t] = @ + 1]
  /\ row' \in {row, [row EXCEPT ![t] = story'[t]]}
  /\ Emit(t, Payload(last'[t], story'[t]))
  /\ UNCHANGED <<live, facts, reset, rooms, joined, page, wants, view, pc, call>>

(* A fact about a truck the engine has not got: its row is written ... *)
FactCommits(t) ==
  /\ t \in Reported \ live /\ facts[t] = 0 /\ story[t] < MaxStory[t]
  /\ story' = [story EXCEPT ![t] = @ + 1]
  /\ row' = [row EXCEPT ![t] = story'[t]]
  /\ facts' = [facts EXCEPT ![t] = story'[t]]
  /\ UNCHANGED <<live, last, said, reset, rooms, joined, clients, pc, call>>

(* ... and announced with the engine's next number for it. *)
FactAnnounced(t) ==
  /\ facts[t] # 0
  /\ last' = [last EXCEPT ![t] = @ + 1]
  /\ Emit(t, Payload(last'[t], facts[t]))
  /\ facts' = [facts EXCEPT ![t] = 0]
  /\ UNCHANGED <<live, story, row, reset, rooms, joined, page, wants, view, pc, call>>

(* start(): nothing is announced. *)
Start ==
  /\ "start" \in Commands /\ live = {} /\ reset \in {"none", "over"}
  /\ live' = OnRoad
  /\ UNCHANGED <<story, row, last, said, facts, reset, rooms, joined, clients, pc, call>>

(* reset(): the live map is emptied, the rows are rewound, and the trucks  *)
(* that are loaded are announced past their highest number.                *)
ResetClears ==
  /\ "reset" \in Commands /\ reset = "none"
  /\ live' = {}
  /\ reset' = "cleared"
  /\ UNCHANGED <<story, row, last, said, facts, rooms, joined, clients, pc, call>>

ResetRewinds ==
  /\ reset = "cleared"
  /\ story' = [t \in Trucks |-> story[t] + 1] /\ row' = story'
  /\ reset' = "rewound"
  /\ UNCHANGED <<live, last, said, facts, rooms, joined, clients, pc, call>>

(* Mutant: the rewind is announced with the numbers starting over.         *)
ResetReloadsFromOne ==
  /\ reset = "rewound"
  /\ live' = OnRoad
  /\ last' = [t \in Trucks |-> IF t \in OnRoad THEN 1 ELSE last[t]]
  /\ said' = [t \in Trucks |-> IF t \in OnRoad THEN Payload(1, row[t]) ELSE said[t]]
  /\ wire' = [s \in Sockets |->
       LET told == {t \in OnRoad : rooms[s] \cap RoomsFor(t) # {}}
       IN  IF told = {} THEN wire[s]
           ELSE Append(wire[s], Message("event", Nil, [t \in told |-> said'[t]]))]
  /\ reset' = "over"
  /\ UNCHANGED <<story, row, facts, rooms, joined, page, wants, view, pc, call>>

ResetReloads ==
  /\ reset = "rewound"
  /\ live' = OnRoad
  /\ last' = [t \in Trucks |-> IF t \in OnRoad THEN last[t] + 1 ELSE last[t]]
  /\ said' = [t \in Trucks |-> IF t \in OnRoad THEN Payload(last'[t], row[t])
                               ELSE said[t]]
  /\ wire' = [s \in Sockets |->
       LET told == {t \in OnRoad : rooms[s] \cap RoomsFor(t) # {}}
       IN  IF told = {} THEN wire[s]
           ELSE Append(wire[s], Message("event", Nil, [t \in told |-> said'[t]]))]
  /\ reset' = "over"
  /\ UNCHANGED <<story, row, facts, rooms, joined, page, wants, view, pc, call>>

-----------------------------------------------------------------------------
(* Subscriptions *)

Send(s, m) == wire' = [wire EXCEPT ![s] = Append(@, m)]

(* Mutant: the room is named after what the client sent.                   *)
JoinByName(s, kind, n) ==
  /\ rooms' = [rooms EXCEPT ![s] = @ \cup {RoomOf(kind, n)}]
  /\ joined' = [joined EXCEPT ![s][<<kind, n>>] = RoomOf(kind, n)]

(* Mutant: only the canonical id is kept.                                  *)
JoinForgetsAlias(s, kind, n) ==
  LET id == Named(kind, n)
  IN  /\ rooms' = [rooms EXCEPT ![s] = @ \cup {RoomOf(kind, id)}]
      /\ joined' = [joined EXCEPT ![s][<<kind, id>>] = RoomOf(kind, id)]

(* Joins by canonical id; the alias and the id lead to the room again. *)
Join(s, kind, n) ==
  LET id == Named(kind, n)
  IN  /\ rooms' = [rooms EXCEPT ![s] = @ \cup {RoomOf(kind, id)}]
      /\ joined' = [joined EXCEPT ![s][<<kind, n>>] = RoomOf(kind, id),
                                  ![s][<<kind, id>>] = RoomOf(kind, id)]

(* A command from a client, and what a handler was asked for. *)
Settled(s) == wire[s] = <<>> /\ \A q \in Reqs : call[q].socket # s

Asks(s, what) == /\ what \in page[s] /\ Len(wire[s]) < MaxWire
                 /\ Patient => Settled(s)

Asked(c) == IF c.kind = "operations" THEN Operations ELSE <<c.kind, c.name>>

SubscribeOperations(q, s) ==
  /\ pc[q] = "idle" /\ Asks(s, Operations)
  /\ wants' = [wants EXCEPT ![s] = @ \cup {Operations}]
  /\ rooms' = [rooms EXCEPT ![s] = @ \cup {Operations}]
  /\ \/ /\ live # {}
        /\ Send(s, Message("snapshot", Operations, [t \in live |-> Live(t)]))
        /\ UNCHANGED <<pc, call>>
     \/ /\ live = {}
        /\ Goto(q, "reading")
        /\ Learn(q, [NoCall EXCEPT !.socket = s, !.kind = "operations", !.since = Current])
        /\ UNCHANGED wire
  /\ UNCHANGED <<world, joined, page, view>>

Subscribe(q, s, kind, n) ==
  /\ pc[q] = "idle" /\ Asks(s, <<kind, n>>)
  /\ IF Named(kind, n) = Nil THEN UNCHANGED wants
     ELSE wants' = [wants EXCEPT ![s] = @ \cup {<<kind, n>>}]
  /\ Goto(q, "looking")
  /\ Learn(q, [NoCall EXCEPT !.socket = s, !.kind = kind, !.name = n])
  /\ UNCHANGED <<world, rooms, joined, wire, page, view>>

(* The name is looked up, and what it stands for. *)
LooksUp(q) ==
  /\ pc[q] = "looking"
  /\ LET c == call[q]
     IN  IF Named(c.kind, c.name) = Nil
         THEN /\ Send(c.socket, Message("refused", <<c.kind, c.name>>, <<>>))
              /\ Return(q)
         ELSE /\ Learn(q, [c EXCEPT !.answer =
                   [t \in {Shown(c.kind, c.name)} |-> IF t \in live THEN Live(t) ELSE Row(t)]])
              /\ Goto(q, "found")
              /\ UNCHANGED wire
  /\ UNCHANGED <<world, rooms, joined, page, wants, view>>

(* Mutant: the client is answered with what was looked up before it joined. *)
JoinsWithResolved(q) ==
  /\ pc[q] = "found"
  /\ LET c == call[q]
     IN  /\ Join(c.socket, c.kind, c.name)
         /\ Goto(q, "answering")
         /\ Learn(q, [c EXCEPT !.since = Current])
  /\ UNCHANGED <<world, clients>>

(* It joins, and only then is the opening state taken.  A live truck is    *)
(* there at once; a shipment is looked up again before its truck is.       *)
Joins(q) ==
  /\ pc[q] = "found"
  /\ LET c == call[q]
         t == Shown(c.kind, c.name)
     IN  /\ Join(c.socket, c.kind, c.name)
         /\ \/ /\ c.kind = "truck" /\ t \in live
               /\ Send(c.socket, Message("snapshot", Asked(c), [x \in {t} |-> Live(x)]))
               /\ Return(q)
            \/ /\ c.kind = "shipment" \/ t \notin live
               /\ Goto(q, "reading")
               /\ Learn(q, [c EXCEPT !.since = Current, !.answer = <<>>])
               /\ UNCHANGED wire
  /\ UNCHANGED <<world, page, wants, view>>

(* The shipment's truck is live. *)
AnswersLive(q) ==
  /\ pc[q] = "reading" /\ call[q].kind = "shipment"
  /\ LET t == Shown("shipment", call[q].name)
     IN  /\ t \in live
         /\ Send(call[q].socket, Message("snapshot", Asked(call[q]), [x \in {t} |-> Live(x)]))
  /\ Return(q)
  /\ UNCHANGED <<world, rooms, joined, page, wants, view>>

(* The rows that are read: one truck's, or those of all on the road. *)
Reads(q) ==
  /\ pc[q] = "reading"
  /\ LET c  == call[q]
         ts == IF c.kind = "operations" THEN OnRoad ELSE {Shown(c.kind, c.name)}
     IN  /\ c.kind = "shipment" => ts \cap live = {}
         /\ Learn(q, [c EXCEPT !.answer = [t \in ts |-> Row(t)]])
  /\ Goto(q, "answering")
  /\ UNCHANGED <<world, rooms, joined, clients>>

Answers(q) ==
  /\ pc[q] = "answering"
  /\ Send(call[q].socket, Message("snapshot", Asked(call[q]), call[q].answer))
  /\ Return(q)
  /\ UNCHANGED <<world, rooms, joined, page, wants, view>>

(* Mutant: a handler that throws answers nothing.                          *)
GuardCatchesNothing(q) ==
  /\ MayFail /\ pc[q] \in {"looking", "reading"}
  /\ Goto(q, "thrown")
  /\ UNCHANGED <<world, rooms, joined, clients, call>>

(* guard: a lookup that fails is answered with an error. *)
Guard(q) ==
  /\ MayFail /\ pc[q] \in {"looking", "reading"}
  /\ Send(call[q].socket, Message("refused", Asked(call[q]), <<>>))
  /\ Return(q)
  /\ UNCHANGED <<world, rooms, joined, page, wants, view>>

UnsubscribeOperations(s) ==
  /\ Asks(s, Operations) /\ Operations \in wants[s]
  /\ rooms' = [rooms EXCEPT ![s] = @ \ {Operations}]
  /\ wants' = [wants EXCEPT ![s] = @ \ {Operations}]
  /\ Send(s, Message("left", Operations, <<>>))
  /\ UNCHANGED <<world, joined, page, view, pc, call>>

(* The room is the one the name was joined with, not looked up again. *)
Unsubscribe(s, kind, n) ==
  /\ Asks(s, <<kind, n>>)
  /\ Named(kind, n) # Nil /\ \E w \in wants[s] : Target(w) = Target(<<kind, n>>)
  /\ LET was  == joined[s][<<kind, n>>]
         room == IF was = Nil THEN RoomOf(kind, n) ELSE was
     IN  /\ rooms' = [rooms EXCEPT ![s] = @ \ {room}]
         /\ joined' = [joined EXCEPT ![s] =
                         [kn \in DOMAIN @ |-> IF @[kn] = room THEN Nil ELSE @[kn]]]
         /\ Send(s, Message("left", <<kind, n>>, <<>>))
  /\ wants' = [wants EXCEPT ![s] = {w \in @ : Target(w) # Target(<<kind, n>>)}]
  /\ UNCHANGED <<world, page, view, pc, call>>

(* The connection is lost with what is on it; the client comes back with   *)
(* another and an empty view.  Its handlers have nobody left to answer.    *)
Disconnect(s) ==
  /\ "disconnect" \in Commands
  /\ rooms' = [rooms EXCEPT ![s] = {}]
  /\ joined' = [joined EXCEPT ![s] = [kn \in DOMAIN @ |-> Nil]]
  /\ wire' = [wire EXCEPT ![s] = <<>>]
  /\ wants' = [wants EXCEPT ![s] = {}]
  /\ pc' = [q \in Reqs |-> IF call[q].socket = s THEN "idle" ELSE pc[q]]
  /\ call' = [q \in Reqs |-> IF call[q].socket = s THEN NoCall ELSE call[q]]
  /\ view' = [view EXCEPT ![s] = [t \in Trucks |-> Nil]]
  /\ UNCHANGED <<world, page>>

-----------------------------------------------------------------------------
(* The client: a snapshot is the new baseline, an event below it is dropped, *)
(* and trucks it no longer follows are forgotten.                          *)

Follows(wanted, t) == {Target(w) : w \in wanted} \cap RoomsFor(t) # {}

Takes(held, m, t) == \/ m.type = "snapshot"
                     \/ held = Nil
                     \/ m.states[t].number >= held.number

Handle(s) ==
  /\ wire[s] # <<>>
  /\ wire' = [wire EXCEPT ![s] = Tail(@)]
  /\ LET m == Head(wire[s])
     IN  /\ wants' = [wants EXCEPT ![s] = IF m.type = "refused" THEN @ \ {m.what} ELSE @]
         /\ view' = [view EXCEPT ![s] = [t \in Trucks |->
              IF m.type \in {"left", "refused"} /\ ~Follows(wants'[s], t) THEN Nil
              ELSE IF t \in DOMAIN m.states /\ Takes(@[t], m, t) THEN m.states[t]
              ELSE @[t]]]
  /\ UNCHANGED <<world, rooms, joined, page, pc, call>>

-----------------------------------------------------------------------------

World == \/ Start \/ ResetClears \/ ResetRewinds \/ ResetReloads
         \/ \E t \in Trucks : Advance(t) \/ FactCommits(t) \/ FactAnnounced(t)

Serve(q) == LooksUp(q) \/ Joins(q) \/ AnswersLive(q) \/ Reads(q) \/ Answers(q) \/ Guard(q)

Client(s) ==
  \/ UnsubscribeOperations(s) \/ Disconnect(s) \/ Handle(s)
  \/ \E kind \in Kinds : \E n \in NamesOf(kind) :
       Unsubscribe(s, kind, n) \/ \E q \in Reqs : Subscribe(q, s, kind, n)
  \/ \E q \in Reqs : SubscribeOperations(q, s)

Next == World \/ (\E q \in Reqs : Serve(q)) \/ (\E s \in Sockets : Client(s))

Spec == Init /\ [][Next]_vars

FairSpec == Spec /\ \A q \in Reqs : WF_vars(Serve(q))

-----------------------------------------------------------------------------
(* Properties *)

TypeOK == /\ live \subseteq Trucks
          /\ said \in [Trucks -> State]
          /\ rooms \in [Sockets -> SUBSET Rooms]
          /\ \A s \in Sockets : page[s] \in Pages /\ wants[s] \subseteq page[s]
          /\ joined \in [Sockets -> [Kinds \X Names -> Rooms \cup {Nil}]]
          /\ view \in [Sockets -> [Trucks -> State \cup {Nil}]]
          /\ pc \in [Reqs -> {"idle", "looking", "found", "reading", "answering"}]
          /\ \A q \in Reqs : pc[q] = "idle" <=> call[q] = NoCall

(* A client whose messages are all handled and whose commands are all      *)
(* answered is in every room it has asked for and not left: an alias, a    *)
(* shipment's tracking number and the canonical id lead to one room.       *)
WantedIsJoined ==
  \A s \in Sockets : Settled(s) => \A w \in wants[s] : Target(w) \in rooms[s]

(* "A database hiccup can never strand a socket in a room it cannot leave": *)
(* without a lookup, every name a client has subscribed with leads to the  *)
(* room it is in, and every room it is in can be left by some name.        *)
NoStrandedSocket ==
  \A s \in Sockets :
    /\ Settled(s) => \A w \in wants[s] \ {Operations} : joined[s][w] = Target(w)
    /\ \A room \in rooms[s] \ {Operations} : \E kn \in DOMAIN joined[s] : joined[s][kn] = room

(* "So a truck joined by cuid can still be left by reference": a client    *)
(* that was told it has left, by whichever name, gets no more of the room. *)
LeftIsLeft ==
  \A s \in Sockets : Settled(s) => rooms[s] \subseteq {Target(w) : w \in wants[s]}

(* "The opening state must be at least as new as the room membership": an  *)
(* answer is not older than what was known when its client joined.         *)
OpeningIsFresh ==
  reset = "none" =>
    \A q \in Reqs : pc[q] = "answering" =>
      \A t \in DOMAIN call[q].answer : call[q].answer[t].story >= call[q].since[t]

(* A dashboard misses nothing: a client that follows a truck, and has      *)
(* nothing left to handle, holds the truck's last event, through loads and *)
(* rewinds, unless a row answered it last (number 0).  Trucks off the road *)
(* are not announced by a rewind and count until there is one.  A client   *)
(* that asks again before it has handled the answer may miss an event of a *)
(* parked truck, which the dashboard's snapshot does not tell again.       *)
FollowerIsCurrent ==
  \A s \in Sockets, t \in Trucks :
    /\ Settled(s) /\ Follows(wants[s], t) /\ view[s][t] # Nil /\ view[s][t].number > 0
    /\ t \in OnRoad \/ reset = "none"
    => view[s][t] = said[t]

(* Every subscription is answered, found or not, database or not.          *)
EverySubscriptionAnswered == \A q \in Reqs : pc[q] # "idle" ~> pc[q] = "idle"
=============================================================================
