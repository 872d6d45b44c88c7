-------------------------- MODULE RealtimeProofs ---------------------------
(***************************************************************************)
(* Theorems about subscriptions, rooms and opening snapshots, for any      *)
(* trucks, shipments, names, clients and handlers, with failures, resets   *)
(* and lost connections.                                                   *)
(***************************************************************************)
EXTENDS Realtime, SequenceTheorems, TLAPS

-----------------------------------------------------------------------------
(* Types *)

(* What a message may say of some trucks. *)
Told == UNION {[D -> State] : D \in SUBSET Trucks}

Messages == [type   : {"event", "snapshot", "left", "refused"},
             what   : {Nil, Operations} \cup (Kinds \X Names),
             states : Told]

Calls == [socket : Sockets \cup {Nil}, kind : Kinds \cup {"operations", "none"},
          name : Names \cup {Nil}, since : [Trucks -> Nat] \cup {<<>>}, answer : Told]

(* The names that stand for something. *)
Nameable == {w \in Kinds \X Names : w[2] \in NamesOf(w[1]) /\ Named(w[1], w[2]) # Nil}

WorldOK == /\ live \subseteq Trucks
           /\ story \in [Trucks -> Nat] /\ row \in [Trucks -> Nat]
           /\ last \in [Trucks -> Nat] /\ facts \in [Trucks -> Nat]
           /\ said \in [Trucks -> State]

RoomsOK == /\ rooms \in [Sockets -> SUBSET Rooms]
           /\ joined \in [Sockets -> [Kinds \X Names -> Rooms \cup {Nil}]]

ClientsOK == /\ wire \in [Sockets -> Seq(Messages)]
             /\ page \in [Sockets -> Pages]
             /\ wants \in [Sockets -> SUBSET ({Operations} \cup Nameable)]
             /\ \A s \in Sockets : wants[s] \subseteq page[s]
             /\ view \in [Sockets -> [Trucks -> State \cup {Nil}]]

(* A handler knows what it needs at the step it stands at. *)
CallOK(step, c) ==
  \/ step = "idle" /\ c = NoCall
  \/ /\ step \in {"looking", "found", "reading", "answering"}
     /\ c.socket \in Sockets
     /\ \/ c.kind = "operations" /\ step \in {"reading", "answering"}
        \/ /\ c.kind \in Kinds /\ c.name \in NamesOf(c.kind)
           /\ step # "looking" => Named(c.kind, c.name) # Nil
     /\ step \in {"reading", "answering"} => c.since \in [Trucks -> Nat]

CallsOK == /\ pc \in [Reqs -> {"idle", "looking", "found", "reading", "answering"}]
           /\ call \in [Reqs -> Calls]
           /\ \A q \in Reqs : CallOK(pc[q], call[q])

TypeInv == WorldOK /\ RoomsOK /\ ClientsOK /\ CallsOK

-----------------------------------------------------------------------------
(* Rooms *)

(* What has been asked for is joined, on its way, or refused. *)
Kept(s, w) == Target(w) \in rooms[s] /\ (w # Operations => joined[s][w] = Target(w))

Pending(s, w) == \E q \in Reqs : /\ pc[q] \in {"looking", "found"}
                                 /\ call[q].socket = s /\ Asked(call[q]) = w

Refused(s, w) == \E i \in DOMAIN wire[s] : wire[s][i].type = "refused" /\ wire[s][i].what = w

Pledged == \A s \in Sockets : \A w \in wants[s] : Kept(s, w) \/ Pending(s, w) \/ Refused(s, w)

(* The alias maps lead to where the names lead, and to every room. *)
Mapped ==
  \A s \in Sockets :
    /\ \A w \in Kinds \X Names :
         joined[s][w] # Nil => w \in Nameable /\ joined[s][w] = Target(w)
    /\ \A room \in rooms[s] \ {Operations} :
         \E w \in Kinds \X Names : joined[s][w] = room

RoomsInv == TypeInv /\ Pledged /\ Mapped

-----------------------------------------------------------------------------
(* Opening snapshots *)

(* The trucks that an answer may tell of. *)
Asking(c) == IF c.kind = "operations" THEN Trucks ELSE {Shown(c.kind, c.name)}

(* Until a reset, no row is older than it was when a client joined whose   *)
(* answer will be read from it.                                            *)
ReadFresh(c) ==
  \A t \in Asking(c) : c.since[t] <= row[t] \/ (c.kind = "shipment" /\ t \in live)

AnswerFresh(c) == \A t \in DOMAIN c.answer : c.since[t] <= c.answer[t].story

Fresh ==
  reset = "none" =>
    /\ \A t \in Trucks : row[t] <= story[t]
    /\ \A q \in Reqs : /\ pc[q] = "reading" => ReadFresh(call[q])
                       /\ pc[q] = "answering" => AnswerFresh(call[q])

-----------------------------------------------------------------------------
(* Lemmas about rooms, names and messages *)

(* Each name that stands for something has a room, and so has what it      *)
(* stands for; a truck or a shipment is a name of its own.                 *)
LEMMA NameFacts ==
  ASSUME NEW kind \in Kinds, NEW n \in NamesOf(kind), Named(kind, n) # Nil
  PROVE  /\ n \in Names /\ <<kind, n>> \in Nameable
         /\ Named(kind, n) \in NamesOf(kind) /\ Named(kind, n) \in Names
         /\ Named(kind, Named(kind, n)) = Named(kind, n)
         /\ <<kind, Named(kind, n)>> \in Nameable
         /\ RoomOf(kind, Named(kind, n)) \in Rooms
         /\ RoomOf(kind, Named(kind, n)) # Operations
         /\ Target(<<kind, n>>) = RoomOf(kind, Named(kind, n))
         /\ Target(<<kind, Named(kind, n)>>) = RoomOf(kind, Named(kind, n))
         /\ Shown(kind, n) \in Trucks
<1>1. CASE kind = "truck"
  <2>1. /\ n \in DOMAIN TruckOf /\ Named(kind, n) = TruckOf[n] /\ TruckOf[n] \in Trucks
        /\ TruckOf[n] \in DOMAIN TruckOf /\ TruckOf[TruckOf[n]] = TruckOf[n]
        /\ Shown(kind, n) = TruckOf[n]
    BY <1>1, RealtimeAssumption DEF NamesOf, Named, Shown
  <2>2. RoomOf(kind, Named(kind, n)) = truckRoom(TruckOf[n])
    BY <1>1, <2>1 DEF RoomOf
  <2> QED
    BY <1>1, <2>1, <2>2, RealtimeAssumption
    DEF NamesOf, Named, Names, Nameable, Target, RoomOf, Rooms, Operations, truckRoom
<1>2. CASE kind = "shipment"
  <2>1. /\ n \in DOMAIN ShipmentOf /\ Named(kind, n) = ShipmentOf[n] /\ ShipmentOf[n] \in Shipments
        /\ ShipmentOf[n] \in DOMAIN ShipmentOf /\ ShipmentOf[ShipmentOf[n]] = ShipmentOf[n]
        /\ Shown(kind, n) = Carrier[ShipmentOf[n]] /\ Carrier[ShipmentOf[n]] \in Trucks
    BY <1>2, RealtimeAssumption DEF NamesOf, Named, Shown
  <2>2. RoomOf(kind, Named(kind, n)) = shipmentRoom(ShipmentOf[n])
    BY <1>2, <2>1 DEF RoomOf
  <2> QED
    BY <1>2, <2>1, <2>2, RealtimeAssumption
    DEF NamesOf, Named, Names, Nameable, Target, RoomOf, Rooms, Operations, shipmentRoom
<1> QED
  BY <1>1, <1>2 DEF Kinds

LEMMA NameableFacts ==
  ASSUME NEW w \in Nameable
  PROVE  /\ w = <<w[1], w[2]>> /\ w[1] \in Kinds /\ w[2] \in NamesOf(w[1])
         /\ Named(w[1], w[2]) # Nil /\ w # Operations
         /\ Target(w) = RoomOf(w[1], Named(w[1], w[2])) /\ Target(w) \in Rooms
         /\ Target(w) # Operations
<1>1. /\ w = <<w[1], w[2]>> /\ w[1] \in Kinds /\ w[2] \in NamesOf(w[1])
      /\ Named(w[1], w[2]) # Nil
  BY DEF Nameable
<1>2. w # Operations
  BY <1>1 DEF Operations, Kinds
<1> DEFINE k == w[1]
           n == w[2]
<1>3. w = <<k, n>> /\ k \in Kinds /\ n \in NamesOf(k) /\ Named(k, n) # Nil
  BY <1>1
<1> HIDE DEF k, n
<1>4. /\ RoomOf(k, Named(k, n)) \in Rooms /\ RoomOf(k, Named(k, n)) # Operations
      /\ Target(<<k, n>>) = RoomOf(k, Named(k, n))
  BY <1>3, NameFacts
<1>5. Target(w) = RoomOf(k, Named(k, n))
  BY <1>3, <1>4
<1> QED
  BY <1>2, <1>3, <1>4, <1>5 DEF k, n

LEMMA EmptyTold == <<>> \in Told /\ DOMAIN <<>> = {}
<1>1. <<>> \in Seq(State) /\ Len(<<>>) = 0
  BY EmptySeq
<1>2. <<>> \in [1 .. 0 -> State]
  BY <1>1, LenProperties
<1>3. 1 .. 0 = {}
  OBVIOUS
<1>4. <<>> \in [{} -> State] /\ {} \in SUBSET Trucks
  BY <1>2, <1>3
<1> QED
  BY <1>4 DEF Told

LEMMA ToldFacts ==
  ASSUME NEW D \in SUBSET Trucks, NEW f \in [D -> State]
  PROVE  f \in Told
BY DEF Told

LEMMA SendFacts ==
  ASSUME wire \in [Sockets -> Seq(Messages)], NEW s \in Sockets, NEW m \in Messages, Send(s, m)
  PROVE  /\ wire' \in [Sockets -> Seq(Messages)]
         /\ wire'[s] = Append(wire[s], m)
         /\ \A r \in Sockets \ {s} : wire'[r] = wire[r]
<1>1. wire' = [wire EXCEPT ![s] = Append(wire[s], m)]
  BY DEF Send
<1>2. wire[s] \in Seq(Messages)
  OBVIOUS
<1>3. Append(wire[s], m) \in Seq(Messages)
  BY <1>2, AppendProperties
<1> QED
  BY <1>1, <1>3

LEMMA MessageFacts ==
  ASSUME NEW type \in {"event", "snapshot", "left", "refused"},
         NEW what \in {Nil, Operations} \cup (Kinds \X Names), NEW states \in Told
  PROVE  /\ Message(type, what, states) \in Messages
         /\ Message(type, what, states).type = type
         /\ Message(type, what, states).what = what
         /\ Message(type, what, states).states = states
BY DEF Message, Messages

LEMMA PayloadFacts ==
  ASSUME NEW n \in Nat, NEW what \in Nat
  PROVE  /\ Payload(n, what) \in State
         /\ Payload(n, what).number = n /\ Payload(n, what).story = what
BY DEF Payload, State

LEMMA EmitFacts ==
  ASSUME WorldOK, wire \in [Sockets -> Seq(Messages)],
         NEW t \in Trucks, NEW x \in State, Emit(t, x)
  PROVE  /\ said' \in [Trucks -> State]
         /\ wire' \in [Sockets -> Seq(Messages)]
<1> DEFINE m == Message("event", Nil, [y \in {t} |-> x])
<1>1. m \in Messages
  <2>1. [y \in {t} |-> x] \in Told
    BY ToldFacts
  <2> QED
    BY <2>1, MessageFacts
<1> HIDE DEF m
<1>2. \A s \in Sockets : Append(wire[s], m) \in Seq(Messages)
  BY <1>1, AppendProperties
<1>3. wire' = [s \in Sockets |-> IF rooms[s] \cap RoomsFor(t) = {} THEN wire[s]
                                 ELSE Append(wire[s], m)]
  BY DEF Emit, m
<1>4. said' \in [Trucks -> State]
  BY DEF Emit, WorldOK
<1> QED
  BY <1>2, <1>3, <1>4

(* A handler's next step leaves the others where they are. *)
LEMMA StepFacts ==
  ASSUME CallsOK, NEW q \in Reqs, NEW step \in {"idle", "looking", "found", "reading", "answering"},
         NEW c \in Calls, CallOK(step, c), Goto(q, step), Learn(q, c)
  PROVE  CallsOK'
<1>1. /\ pc' = [pc EXCEPT ![q] = step] /\ call' = [call EXCEPT ![q] = c]
  BY DEF Goto, Learn
<1>2. /\ pc' \in [Reqs -> {"idle", "looking", "found", "reading", "answering"}]
      /\ call' \in [Reqs -> Calls]
  BY <1>1 DEF CallsOK
<1>3. \A p \in Reqs : CallOK(pc'[p], call'[p])
  <2>1. \A p \in Reqs \ {q} : pc'[p] = pc[p] /\ call'[p] = call[p]
    BY <1>1 DEF CallsOK
  <2>2. pc'[q] = step /\ call'[q] = c
    BY <1>1 DEF CallsOK
  <2> QED
    BY <2>1, <2>2 DEF CallsOK
<1> QED
  BY <1>2, <1>3 DEF CallsOK, CallOK

LEMMA NoCallFacts == NoCall \in Calls /\ CallOK("idle", NoCall)
BY EmptyTold DEF NoCall, Calls, CallOK

LEMMA ReturnFacts ==
  ASSUME CallsOK, NEW q \in Reqs, Return(q)
  PROVE  CallsOK'
BY NoCallFacts, StepFacts DEF Return

LEMMA AskedType ==
  ASSUME NEW c, c.kind = "operations" \/ (c.kind \in Kinds /\ c.name \in NamesOf(c.kind))
  PROVE  Asked(c) \in {Nil, Operations} \cup (Kinds \X Names)
<1>1. CASE c.kind = "operations"
  BY <1>1 DEF Asked
<1>2. CASE c.kind # "operations"
  <2>1. c.kind \in Kinds /\ c.name \in Names
    BY <1>2 DEF NamesOf, Names
  <2> QED
    BY <1>2, <2>1 DEF Asked
<1> QED
  BY <1>1, <1>2

LEMMA JoinFacts ==
  ASSUME RoomsOK, NEW s \in Sockets, NEW kind \in Kinds, NEW n \in NamesOf(kind),
         Named(kind, n) # Nil, Join(s, kind, n)
  PROVE  LET room == RoomOf(kind, Named(kind, n))
         IN  /\ RoomsOK'
             /\ rooms'[s] = rooms[s] \cup {room}
             /\ joined'[s][<<kind, n>>] = room /\ joined'[s][<<kind, Named(kind, n)>>] = room
             /\ \A w \in (Kinds \X Names) \ {<<kind, n>>, <<kind, Named(kind, n)>>} :
                  joined'[s][w] = joined[s][w]
             /\ \A r \in Sockets \ {s} : rooms'[r] = rooms[r] /\ joined'[r] = joined[r]
<1> DEFINE id   == Named(kind, n)
           room == RoomOf(kind, id)
           a    == <<kind, n>>
           b    == <<kind, id>>
           j    == [joined EXCEPT ![s][a] = room]
<1>1. room \in Rooms /\ a \in Kinds \X Names /\ b \in Kinds \X Names
  BY NameFacts
<1>2. rooms' = [rooms EXCEPT ![s] = rooms[s] \cup {room}]
  BY DEF Join
<1>3. joined' = [j EXCEPT ![s][b] = room]
  BY DEF Join
<1> HIDE DEF room, a, b
<1>4. /\ j \in [Sockets -> [Kinds \X Names -> Rooms \cup {Nil}]]
      /\ j[s][a] = room
      /\ \A w \in (Kinds \X Names) \ {a} : j[s][w] = joined[s][w]
      /\ \A r \in Sockets \ {s} : j[r] = joined[r]
  BY <1>1 DEF RoomsOK
<1> HIDE DEF j
<1>5. /\ joined' \in [Sockets -> [Kinds \X Names -> Rooms \cup {Nil}]]
      /\ joined'[s][b] = room
      /\ \A w \in (Kinds \X Names) \ {b} : joined'[s][w] = j[s][w]
      /\ \A r \in Sockets \ {s} : joined'[r] = j[r]
  BY <1>1, <1>3, <1>4
<1>6. /\ rooms' \in [Sockets -> SUBSET Rooms] /\ rooms'[s] = rooms[s] \cup {room}
      /\ \A r \in Sockets \ {s} : rooms'[r] = rooms[r]
  BY <1>1, <1>2 DEF RoomsOK
<1>7. joined'[s][a] = room
  BY <1>1, <1>4, <1>5
<1> QED
  BY <1>1, <1>4, <1>5, <1>6, <1>7 DEF RoomsOK, room, a, b
-----------------------------------------------------------------------------
(* Every step keeps the types *)

LEMMA TypeStart == Init => TypeInv
<1> SUFFICES ASSUME Init PROVE TypeInv
  OBVIOUS
<1>1. WorldOK
  BY RealtimeAssumption DEF Init, WorldOK, State
<1>2. RoomsOK
  BY DEF Init, RoomsOK
<1>3. ClientsOK
  <2>1. wire \in [Sockets -> Seq(Messages)]
    BY EmptySeq DEF Init
  <2> QED
    BY <2>1 DEF Init, ClientsOK
<1>4. CallsOK
  BY NoCallFacts DEF Init, CallsOK
<1> QED
  BY <1>1, <1>2, <1>3, <1>4 DEF TypeInv

LEMMA AdvanceTypes ==
  ASSUME TypeInv, NEW t \in Trucks, Advance(t)
  PROVE  TypeInv'
<1>1. /\ story' = [story EXCEPT ![t] = @ + 1] /\ last' = [last EXCEPT ![t] = @ + 1]
      /\ row' \in {row, [row EXCEPT ![t] = story'[t]]}
      /\ Emit(t, Payload(last'[t], story'[t]))
      /\ UNCHANGED <<live, facts, reset, rooms, joined, page, wants, view, pc, call>>
  BY DEF Advance
<1>2. /\ story' \in [Trucks -> Nat] /\ last' \in [Trucks -> Nat] /\ row' \in [Trucks -> Nat]
      /\ story'[t] \in Nat /\ last'[t] \in Nat
  BY <1>1 DEF TypeInv, WorldOK
<1>3. said' \in [Trucks -> State] /\ wire' \in [Sockets -> Seq(Messages)]
  BY <1>1, <1>2, PayloadFacts, EmitFacts DEF TypeInv, ClientsOK
<1>4. WorldOK'
  BY <1>1, <1>2, <1>3 DEF TypeInv, WorldOK
<1>5. RoomsOK' /\ ClientsOK' /\ CallsOK'
  BY <1>1, <1>3 DEF TypeInv, RoomsOK, ClientsOK, CallsOK
<1> QED
  BY <1>4, <1>5 DEF TypeInv

LEMMA FactTypes ==
  ASSUME TypeInv, NEW t \in Trucks, FactCommits(t) \/ FactAnnounced(t)
  PROVE  TypeInv'
<1>1. CASE FactCommits(t)
  <2>1. /\ story' = [story EXCEPT ![t] = @ + 1] /\ row' = [row EXCEPT ![t] = story'[t]]
        /\ facts' = [facts EXCEPT ![t] = story'[t]]
        /\ UNCHANGED <<live, last, said, rooms, joined, clients, pc, call>>
    BY <1>1 DEF FactCommits
  <2>2. WorldOK'
    BY <2>1 DEF TypeInv, WorldOK
  <2>3. RoomsOK' /\ ClientsOK' /\ CallsOK'
    BY <2>1 DEF TypeInv, RoomsOK, ClientsOK, CallsOK, clients
  <2> QED
    BY <2>2, <2>3 DEF TypeInv
<1>2. CASE FactAnnounced(t)
  <2>1. /\ last' = [last EXCEPT ![t] = @ + 1] /\ facts' = [facts EXCEPT ![t] = 0]
        /\ Emit(t, Payload(last'[t], facts[t]))
        /\ UNCHANGED <<live, story, row, rooms, joined, page, wants, view, pc, call>>
    BY <1>2 DEF FactAnnounced
  <2>2. /\ last' \in [Trucks -> Nat] /\ facts' \in [Trucks -> Nat]
        /\ facts[t] \in Nat /\ last'[t] \in Nat
    BY <2>1 DEF TypeInv, WorldOK
  <2>3. said' \in [Trucks -> State] /\ wire' \in [Sockets -> Seq(Messages)]
    BY <2>1, <2>2, PayloadFacts, EmitFacts DEF TypeInv, ClientsOK
  <2>4. WorldOK'
    BY <2>1, <2>2, <2>3 DEF TypeInv, WorldOK
  <2>5. RoomsOK' /\ ClientsOK' /\ CallsOK'
    BY <2>1, <2>3 DEF TypeInv, RoomsOK, ClientsOK, CallsOK
  <2> QED
    BY <2>4, <2>5 DEF TypeInv
<1> QED
  BY <1>1, <1>2

LEMMA LoadTypes ==
  ASSUME TypeInv, Start \/ ResetClears \/ ResetRewinds
  PROVE  TypeInv'
<1>1. WorldOK'
  <2>1. CASE Start
    BY <2>1, RealtimeAssumption DEF Start, TypeInv, WorldOK
  <2>2. CASE ResetClears
    BY <2>2 DEF ResetClears, TypeInv, WorldOK
  <2>3. CASE ResetRewinds
    BY <2>3 DEF ResetRewinds, TypeInv, WorldOK
  <2> QED
    BY <2>1, <2>2, <2>3
<1>2. UNCHANGED <<rooms, joined, wire, page, wants, view, pc, call>>
  BY DEF Start, ResetClears, ResetRewinds, clients
<1>3. RoomsOK' /\ ClientsOK' /\ CallsOK'
  BY <1>2 DEF TypeInv, RoomsOK, ClientsOK, CallsOK
<1> QED
  BY <1>1, <1>3 DEF TypeInv

LEMMA ReloadTypes ==
  ASSUME TypeInv, ResetReloads
  PROVE  TypeInv'
<1>1. /\ live' = OnRoad
      /\ last' = [t \in Trucks |-> IF t \in OnRoad THEN last[t] + 1 ELSE last[t]]
      /\ said' = [t \in Trucks |-> IF t \in OnRoad THEN Payload(last'[t], row[t]) ELSE said[t]]
      /\ UNCHANGED <<story, row, facts, rooms, joined, page, wants, view, pc, call>>
  BY DEF ResetReloads
<1>2. last' \in [Trucks -> Nat]
  BY <1>1 DEF TypeInv, WorldOK
<1>3. said' \in [Trucks -> State]
  <2>1. \A t \in Trucks : Payload(last'[t], row[t]) \in State
    BY <1>2, PayloadFacts DEF TypeInv, WorldOK
  <2> QED
    BY <1>1, <2>1 DEF TypeInv, WorldOK
<1>4. wire' \in [Sockets -> Seq(Messages)]
  <2> DEFINE told(s) == {t \in OnRoad : rooms[s] \cap RoomsFor(t) # {}}
             m(s)    == Message("event", Nil, [t \in told(s) |-> said'[t]])
  <2>1. ASSUME NEW s \in Sockets PROVE m(s) \in Messages
    <3>1. told(s) \in SUBSET Trucks
      BY RealtimeAssumption
    <3>2. [t \in told(s) |-> said'[t]] \in [told(s) -> State]
      BY <1>3, <3>1
    <3> QED
      BY <3>1, <3>2, ToldFacts, MessageFacts
  <2>2. wire' = [s \in Sockets |-> IF told(s) = {} THEN wire[s] ELSE Append(wire[s], m(s))]
    BY DEF ResetReloads
  <2> HIDE DEF m
  <2>3. \A s \in Sockets : Append(wire[s], m(s)) \in Seq(Messages)
    BY <2>1, AppendProperties DEF TypeInv, ClientsOK
  <2> QED
    BY <2>2, <2>3 DEF TypeInv, ClientsOK
<1>5. WorldOK'
  BY <1>1, <1>2, <1>3, RealtimeAssumption DEF TypeInv, WorldOK
<1>6. RoomsOK' /\ ClientsOK' /\ CallsOK'
  BY <1>1, <1>4 DEF TypeInv, RoomsOK, ClientsOK, CallsOK
<1> QED
  BY <1>5, <1>6 DEF TypeInv

LEMMA CurrentType ==
  ASSUME WorldOK
  PROVE  Current \in [Trucks -> Nat]
BY DEF WorldOK, Current

(* What is told of a live truck, and of a row. *)
LEMMA LiveTold ==
  ASSUME WorldOK, NEW D \in SUBSET Trucks
  PROVE  /\ [t \in D |-> Live(t)] \in Told /\ [t \in D |-> Row(t)] \in Told
         /\ \A t \in D : Live(t) \in State /\ Row(t) \in State
<1>1. \A t \in D : Live(t) \in State /\ Row(t) \in State
  BY PayloadFacts DEF Live, Row, WorldOK
<1> QED
  BY <1>1, ToldFacts

LEMMA SubscribeOperationsTypes ==
  ASSUME TypeInv, NEW s \in Sockets, NEW q \in Reqs, SubscribeOperations(q, s)
  PROVE  TypeInv'
<1> DEFINE c == [NoCall EXCEPT !.socket = s, !.kind = "operations", !.since = Current]
<1>1. /\ pc[q] = "idle" /\ Operations \in page[s]
      /\ wants' = [wants EXCEPT ![s] = @ \cup {Operations}]
      /\ rooms' = [rooms EXCEPT ![s] = @ \cup {Operations}]
      /\ UNCHANGED <<world, joined, page, view>>
  BY DEF SubscribeOperations, Asks
<1>2. \/ /\ Send(s, Message("snapshot", Operations, [t \in live |-> Live(t)]))
         /\ UNCHANGED <<pc, call>>
      \/ Goto(q, "reading") /\ Learn(q, c) /\ UNCHANGED wire
  BY DEF SubscribeOperations
<1>3. WorldOK'
  BY <1>1 DEF TypeInv, WorldOK, world
<1>4. RoomsOK'
  BY <1>1 DEF TypeInv, RoomsOK, Rooms
<1>5. wire' \in [Sockets -> Seq(Messages)]
  <2>1. Message("snapshot", Operations, [t \in live |-> Live(t)]) \in Messages
    BY LiveTold, MessageFacts DEF TypeInv, WorldOK
  <2> QED
    BY <1>2, <2>1, SendFacts DEF TypeInv, ClientsOK
<1>6. ClientsOK'
  BY <1>1, <1>5 DEF TypeInv, ClientsOK
<1>7. CallsOK'
  <2>1. Current \in [Trucks -> Nat]
    BY CurrentType DEF TypeInv
  <2>2. c \in Calls /\ CallOK("reading", c)
    BY <2>1, EmptyTold DEF NoCall, Calls, CallOK
  <2> HIDE DEF c
  <2>3. CASE UNCHANGED <<pc, call>>
    BY <2>3 DEF TypeInv, CallsOK
  <2>4. CASE Goto(q, "reading") /\ Learn(q, c)
    BY <2>2, <2>4, StepFacts DEF TypeInv
  <2> QED
    BY <1>2, <2>3, <2>4
<1> QED
  BY <1>3, <1>4, <1>6, <1>7 DEF TypeInv

LEMMA SubscribeTypes ==
  ASSUME TypeInv, NEW s \in Sockets, NEW q \in Reqs, NEW kind \in Kinds, NEW n \in NamesOf(kind),
         Subscribe(q, s, kind, n)
  PROVE  TypeInv'
<1> DEFINE c == [NoCall EXCEPT !.socket = s, !.kind = kind, !.name = n]
<1>1. /\ <<kind, n>> \in page[s]
      /\ IF Named(kind, n) = Nil THEN UNCHANGED wants
         ELSE wants' = [wants EXCEPT ![s] = @ \cup {<<kind, n>>}]
      /\ Goto(q, "looking") /\ Learn(q, c)
      /\ UNCHANGED <<world, rooms, joined, wire, page, view>>
  BY DEF Subscribe, Asks
<1>2. WorldOK' /\ RoomsOK'
  BY <1>1 DEF TypeInv, WorldOK, RoomsOK, world
<1>3. ClientsOK'
  <2>1. CASE Named(kind, n) = Nil
    BY <1>1, <2>1 DEF TypeInv, ClientsOK
  <2>2. CASE Named(kind, n) # Nil
    <3> DEFINE w == <<kind, n>>
    <3>1. w \in Nameable /\ w \in page[s] /\ wants' = [wants EXCEPT ![s] = wants[s] \cup {w}]
      BY <1>1, <2>2, NameFacts
    <3>2. UNCHANGED <<wire, page, view>>
      BY <1>1
    <3> HIDE DEF w
    <3> QED
      BY <3>1, <3>2 DEF TypeInv, ClientsOK
  <2> QED
    BY <2>1, <2>2
<1>4. CallsOK'
  <2>1. kind \in {"truck", "shipment"} /\ n \in Names
    BY DEF Kinds, NamesOf, Names
  <2>2. c \in Calls /\ CallOK("looking", c)
    BY <2>1, EmptyTold DEF NoCall, Calls, CallOK, Kinds
  <2> HIDE DEF c
  <2> QED
    BY <1>1, <2>2, StepFacts DEF TypeInv
<1> QED
  BY <1>2, <1>3, <1>4 DEF TypeInv

(* What a handler that is under way knows. *)
LEMMA UnderWay ==
  ASSUME CallsOK, NEW q \in Reqs, pc[q] # "idle"
  PROVE  LET c == call[q]
         IN  /\ c \in Calls /\ c.socket \in Sockets /\ c.answer \in Told
             /\ \/ c.kind = "operations" /\ pc[q] \in {"reading", "answering"}
                \/ /\ c.kind \in Kinds /\ c.name \in NamesOf(c.kind) /\ c.kind # "operations"
                   /\ pc[q] # "looking" => Named(c.kind, c.name) # Nil
             /\ pc[q] \in {"reading", "answering"} => c.since \in [Trucks -> Nat]
             /\ Asked(c) \in {Nil, Operations} \cup (Kinds \X Names)
<1>1. CallOK(pc[q], call[q]) /\ call[q] \in Calls
  BY DEF CallsOK
<1>2. \/ call[q].kind = "operations"
      \/ call[q].kind \in Kinds /\ call[q].name \in NamesOf(call[q].kind)
  BY <1>1 DEF CallOK
<1>3. Asked(call[q]) \in {Nil, Operations} \cup (Kinds \X Names)
  BY <1>2, AskedType
<1> QED
  BY <1>1, <1>3 DEF CallOK, Calls, Kinds
LEMMA LooksUpTypes ==
  ASSUME TypeInv, NEW q \in Reqs, LooksUp(q)
  PROVE  TypeInv'
<1> DEFINE c == call[q]
           t == Shown(c.kind, c.name)
           a == [x \in {t} |-> IF x \in live THEN Live(x) ELSE Row(x)]
           e == [c EXCEPT !.answer = a]
<1>1. pc[q] = "looking" /\ UNCHANGED <<world, rooms, joined, page, wants, view>>
  BY DEF LooksUp
<1>2. /\ c \in Calls /\ c.socket \in Sockets
      /\ c.kind \in Kinds /\ c.name \in NamesOf(c.kind) /\ c.kind # "operations"
      /\ Asked(c) \in {Nil, Operations} \cup (Kinds \X Names)
  BY <1>1, UnderWay DEF TypeInv
<1>3. WorldOK' /\ RoomsOK'
  BY <1>1 DEF TypeInv, WorldOK, RoomsOK, world
<1>4. CASE Named(c.kind, c.name) = Nil
  <2> DEFINE m == Message("refused", <<c.kind, c.name>>, <<>>)
  <2>1. Send(c.socket, m) /\ Return(q)
    BY <1>4 DEF LooksUp
  <2>2. m \in Messages
    <3>1. <<c.kind, c.name>> \in {Nil, Operations} \cup (Kinds \X Names)
      BY <1>2 DEF Asked
    <3> QED
      BY <3>1, EmptyTold, MessageFacts
  <2> HIDE DEF m
  <2>3. wire' \in [Sockets -> Seq(Messages)]
    BY <1>2, <2>1, <2>2, SendFacts DEF TypeInv, ClientsOK
  <2>4. ClientsOK'
    BY <1>1, <2>3 DEF TypeInv, ClientsOK
  <2>5. CallsOK'
    BY <2>1, ReturnFacts DEF TypeInv
  <2> QED
    BY <1>3, <2>4, <2>5 DEF TypeInv
<1>5. CASE Named(c.kind, c.name) # Nil
  <2>1. Learn(q, e) /\ Goto(q, "found") /\ UNCHANGED wire
    BY <1>5 DEF LooksUp
  <2>2. t \in Trucks
    BY <1>2, <1>5, NameFacts
  <2>3. a \in Told
    <3>1. Live(t) \in State /\ Row(t) \in State
      BY <2>2, LiveTold DEF TypeInv
    <3> QED
      BY <2>2, <3>1, ToldFacts
  <2> HIDE DEF a
  <2>4. e \in Calls /\ CallOK("found", e)
    BY <1>2, <1>5, <2>3 DEF Calls, CallOK
  <2> HIDE DEF e
  <2>5. CallsOK'
    BY <2>1, <2>4, StepFacts DEF TypeInv
  <2>6. ClientsOK'
    BY <1>1, <2>1 DEF TypeInv, ClientsOK
  <2> QED
    BY <1>3, <2>5, <2>6 DEF TypeInv
<1> QED
  BY <1>4, <1>5

LEMMA JoinsTypes ==
  ASSUME TypeInv, NEW q \in Reqs, Joins(q)
  PROVE  TypeInv'
<1> DEFINE c == call[q]
           t == Shown(c.kind, c.name)
           m == Message("snapshot", Asked(c), [x \in {t} |-> Live(x)])
           e == [c EXCEPT !.since = Current, !.answer = <<>>]
<1>1. /\ pc[q] = "found" /\ Join(c.socket, c.kind, c.name)
      /\ UNCHANGED <<world, page, wants, view>>
      /\ \/ Send(c.socket, m) /\ Return(q)
         \/ Goto(q, "reading") /\ Learn(q, e) /\ UNCHANGED wire
  BY DEF Joins
<1>2. /\ c \in Calls /\ c.socket \in Sockets
      /\ c.kind \in Kinds /\ c.name \in NamesOf(c.kind) /\ c.kind # "operations"
      /\ Named(c.kind, c.name) # Nil
      /\ Asked(c) \in {Nil, Operations} \cup (Kinds \X Names)
  BY <1>1, UnderWay DEF TypeInv
<1>3. WorldOK'
  BY <1>1 DEF TypeInv, WorldOK, world
<1>4. RoomsOK'
  BY <1>1, <1>2, JoinFacts DEF TypeInv
<1>5. m \in Messages
  <2>1. {t} \in SUBSET Trucks
    BY <1>2, NameFacts
  <2>2. [x \in {t} |-> Live(x)] \in Told
    BY <2>1, LiveTold DEF TypeInv
  <2> QED
    BY <1>2, <2>2, MessageFacts
<1>6. e \in Calls /\ CallOK("reading", e)
  <2>1. Current \in [Trucks -> Nat]
    BY CurrentType DEF TypeInv
  <2> QED
    BY <1>2, <2>1, EmptyTold DEF Calls, CallOK
<1> HIDE DEF m, e
<1>7. wire' \in [Sockets -> Seq(Messages)] /\ CallsOK'
  <2>1. CASE Send(c.socket, m) /\ Return(q)
    BY <1>2, <1>5, <2>1, SendFacts, ReturnFacts DEF TypeInv, ClientsOK
  <2>2. CASE Goto(q, "reading") /\ Learn(q, e) /\ UNCHANGED wire
    BY <1>6, <2>2, StepFacts DEF TypeInv, ClientsOK
  <2> QED
    BY <1>1, <2>1, <2>2
<1>8. ClientsOK'
  BY <1>1, <1>7 DEF TypeInv, ClientsOK
<1> QED
  BY <1>3, <1>4, <1>7, <1>8 DEF TypeInv

(* The steps that end a call with an answer. *)
LEMMA SendsTypes ==
  ASSUME TypeInv, NEW q \in Reqs, NEW m \in Messages, pc[q] # "idle",
         Send(call[q].socket, m), Return(q),
         UNCHANGED <<world, rooms, joined, page, wants, view>>
  PROVE  TypeInv'
<1>1. WorldOK' /\ RoomsOK'
  BY DEF TypeInv, WorldOK, RoomsOK, world
<1>2. call[q].socket \in Sockets
  BY UnderWay DEF TypeInv
<1>3. wire' \in [Sockets -> Seq(Messages)] /\ CallsOK'
  BY <1>2, SendFacts, ReturnFacts DEF TypeInv, ClientsOK
<1>4. ClientsOK'
  BY <1>3 DEF TypeInv, ClientsOK
<1> QED
  BY <1>1, <1>3, <1>4 DEF TypeInv

LEMMA ServeTypes ==
  ASSUME TypeInv, NEW q \in Reqs, AnswersLive(q) \/ Reads(q) \/ Answers(q) \/ Guard(q)
  PROVE  TypeInv'
<1> DEFINE c == call[q]
<1>0. pc[q] # "idle"
  BY DEF AnswersLive, Reads, Answers, Guard
<1>1. /\ c \in Calls /\ c.socket \in Sockets /\ c.answer \in Told
      /\ Asked(c) \in {Nil, Operations} \cup (Kinds \X Names)
  BY <1>0, UnderWay DEF TypeInv
<1>2. CASE AnswersLive(q)
  <2> DEFINE t == Shown("shipment", c.name)
             m == Message("snapshot", Asked(c), [x \in {t} |-> Live(x)])
  <2>1. /\ t \in live /\ Send(c.socket, m) /\ Return(q)
        /\ UNCHANGED <<world, rooms, joined, page, wants, view>>
    BY <1>2 DEF AnswersLive
  <2>2. [x \in {t} |-> Live(x)] \in Told
    BY <2>1, LiveTold DEF TypeInv, WorldOK
  <2>3. m \in Messages
    BY <1>1, <2>2, MessageFacts
  <2> HIDE DEF m
  <2> QED
    BY <1>0, <2>1, <2>3, SendsTypes
<1>3. CASE Answers(q)
  <2> DEFINE m == Message("snapshot", Asked(c), c.answer)
  <2>1. /\ Send(c.socket, m) /\ Return(q)
        /\ UNCHANGED <<world, rooms, joined, page, wants, view>>
    BY <1>3 DEF Answers
  <2>2. m \in Messages
    BY <1>1, MessageFacts
  <2> HIDE DEF m
  <2> QED
    BY <1>0, <2>1, <2>2, SendsTypes
<1>4. CASE Guard(q)
  <2> DEFINE m == Message("refused", Asked(c), <<>>)
  <2>1. /\ Send(c.socket, m) /\ Return(q)
        /\ UNCHANGED <<world, rooms, joined, page, wants, view>>
    BY <1>4 DEF Guard
  <2>2. m \in Messages
    BY <1>1, EmptyTold, MessageFacts
  <2> HIDE DEF m
  <2> QED
    BY <1>0, <2>1, <2>2, SendsTypes
<1>5. CASE Reads(q)
  <2> DEFINE ts == IF c.kind = "operations" THEN OnRoad ELSE {Shown(c.kind, c.name)}
             a  == [t \in ts |-> Row(t)]
             e  == [c EXCEPT !.answer = a]
  <2>1. /\ pc[q] = "reading" /\ Learn(q, e) /\ Goto(q, "answering")
        /\ UNCHANGED <<world, rooms, joined, clients>>
    BY <1>5 DEF Reads
  <2>2. /\ c.kind = "operations" \/ /\ c.kind \in Kinds /\ c.name \in NamesOf(c.kind)
                                    /\ Named(c.kind, c.name) # Nil
        /\ c.since \in [Trucks -> Nat]
    BY <2>1, UnderWay DEF TypeInv
  <2>3. ts \in SUBSET Trucks
    <3>1. CASE c.kind = "operations"
      BY <3>1, RealtimeAssumption
    <3>2. CASE c.kind # "operations"
      <4>1. Shown(c.kind, c.name) \in Trucks
        BY <2>2, <3>2, NameFacts
      <4> QED
        BY <3>2, <4>1
    <3> QED
      BY <3>1, <3>2
  <2>4. a \in Told
    BY <2>3, LiveTold DEF TypeInv
  <2> HIDE DEF a
  <2>5. e \in Calls /\ CallOK("answering", e)
    BY <1>1, <2>2, <2>4 DEF Calls, CallOK
  <2> HIDE DEF e
  <2>6. CallsOK'
    BY <2>1, <2>5, StepFacts DEF TypeInv
  <2>7. WorldOK' /\ RoomsOK' /\ ClientsOK'
    BY <2>1 DEF TypeInv, WorldOK, RoomsOK, ClientsOK, world, clients
  <2> QED
    BY <2>6, <2>7 DEF TypeInv
<1> QED
  BY <1>2, <1>3, <1>4, <1>5

LEMMA LeaveTypes ==
  ASSUME TypeInv, NEW s \in Sockets,
         \/ UnsubscribeOperations(s)
         \/ \E kind \in Kinds : \E n \in NamesOf(kind) : Unsubscribe(s, kind, n)
  PROVE  TypeInv'
<1>1. CASE UnsubscribeOperations(s)
  <2>1. /\ rooms' = [rooms EXCEPT ![s] = @ \ {Operations}]
        /\ wants' = [wants EXCEPT ![s] = @ \ {Operations}]
        /\ Send(s, Message("left", Operations, <<>>))
        /\ UNCHANGED <<world, joined, page, view, pc, call>>
    BY <1>1 DEF UnsubscribeOperations
  <2>2. wire' \in [Sockets -> Seq(Messages)]
    BY <2>1, EmptyTold, MessageFacts, SendFacts DEF TypeInv, ClientsOK
  <2>3. WorldOK' /\ RoomsOK' /\ CallsOK'
    BY <2>1 DEF TypeInv, WorldOK, RoomsOK, CallsOK, world
  <2>4. ClientsOK'
    BY <2>1, <2>2 DEF TypeInv, ClientsOK
  <2> QED
    BY <2>3, <2>4 DEF TypeInv
<1>2. ASSUME NEW kind \in Kinds, NEW n \in NamesOf(kind), Unsubscribe(s, kind, n)
      PROVE  TypeInv'
  <2> DEFINE room == IF joined[s][<<kind, n>>] = Nil THEN RoomOf(kind, n)
                     ELSE joined[s][<<kind, n>>]
             goal == Target(<<kind, n>>)
  <2>1. /\ rooms' = [rooms EXCEPT ![s] = @ \ {room}]
        /\ joined' = [joined EXCEPT ![s] =
                        [kn \in DOMAIN @ |-> IF @[kn] = room THEN Nil ELSE @[kn]]]
        /\ Send(s, Message("left", <<kind, n>>, <<>>))
        /\ wants' = [wants EXCEPT ![s] = {w \in @ : Target(w) # goal}]
        /\ UNCHANGED <<world, page, view, pc, call>>
    BY <1>2 DEF Unsubscribe
  <2> HIDE DEF room, goal
  <2>2. <<kind, n>> \in Kinds \X Names
    BY DEF NamesOf, Names
  <2>3. wire' \in [Sockets -> Seq(Messages)]
    BY <2>1, <2>2, EmptyTold, MessageFacts, SendFacts DEF TypeInv, ClientsOK
  <2>4. RoomsOK'
    <3>1. rooms' \in [Sockets -> SUBSET Rooms]
      BY <2>1 DEF TypeInv, RoomsOK
    <3>2. joined' \in [Sockets -> [Kinds \X Names -> Rooms \cup {Nil}]]
      <4>1. joined[s] \in [Kinds \X Names -> Rooms \cup {Nil}]
        BY DEF TypeInv, RoomsOK
      <4>2. [kn \in DOMAIN joined[s] |-> IF joined[s][kn] = room THEN Nil ELSE joined[s][kn]]
              \in [Kinds \X Names -> Rooms \cup {Nil}]
        BY <4>1
      <4> QED
        BY <2>1, <4>2 DEF TypeInv, RoomsOK
    <3> QED
      BY <3>1, <3>2 DEF RoomsOK
  <2>5. WorldOK' /\ CallsOK'
    BY <2>1 DEF TypeInv, WorldOK, CallsOK, world
  <2>6. ClientsOK'
    BY <2>1, <2>3 DEF TypeInv, ClientsOK
  <2> QED
    BY <2>4, <2>5, <2>6 DEF TypeInv
<1> QED
  BY <1>1, <1>2

LEMMA DisconnectTypes ==
  ASSUME TypeInv, NEW s \in Sockets, Disconnect(s)
  PROVE  TypeInv'
<1>1. /\ rooms' = [rooms EXCEPT ![s] = {}]
      /\ joined' = [joined EXCEPT ![s] = [kn \in DOMAIN @ |-> Nil]]
      /\ wire' = [wire EXCEPT ![s] = <<>>]
      /\ wants' = [wants EXCEPT ![s] = {}]
      /\ pc' = [q \in Reqs |-> IF call[q].socket = s THEN "idle" ELSE pc[q]]
      /\ call' = [q \in Reqs |-> IF call[q].socket = s THEN NoCall ELSE call[q]]
      /\ view' = [view EXCEPT ![s] = [t \in Trucks |-> Nil]]
      /\ UNCHANGED <<world, page>>
  BY DEF Disconnect
<1>2. WorldOK'
  BY <1>1 DEF TypeInv, WorldOK, world
<1>3. RoomsOK'
  <2>1. [kn \in DOMAIN joined[s] |-> Nil] \in [Kinds \X Names -> Rooms \cup {Nil}]
    BY DEF TypeInv, RoomsOK
  <2> QED
    BY <1>1, <2>1 DEF TypeInv, RoomsOK
<1>4. ClientsOK'
  <2>1. <<>> \in Seq(Messages)
    BY EmptySeq
  <2> QED
    BY <1>1, <2>1 DEF TypeInv, ClientsOK
<1>5. CallsOK'
  <2>1. ASSUME NEW q \in Reqs
        PROVE  /\ pc'[q] \in {"idle", "looking", "found", "reading", "answering"}
               /\ call'[q] \in Calls /\ CallOK(pc'[q], call'[q])
    <3>1. pc'[q] = (IF call[q].socket = s THEN "idle" ELSE pc[q])
          /\ call'[q] = (IF call[q].socket = s THEN NoCall ELSE call[q])
      BY <1>1
    <3> QED
      BY <3>1, NoCallFacts DEF TypeInv, CallsOK
  <2>2. pc' \in [Reqs -> {"idle", "looking", "found", "reading", "answering"}]
    BY <1>1, <2>1
  <2>3. call' \in [Reqs -> Calls]
    BY <1>1, <2>1
  <2> QED
    BY <2>1, <2>2, <2>3 DEF CallsOK, CallOK
<1> QED
  BY <1>2, <1>3, <1>4, <1>5 DEF TypeInv

LEMMA HandleTypes ==
  ASSUME TypeInv, NEW s \in Sockets, Handle(s)
  PROVE  TypeInv'
<1> DEFINE m == Head(wire[s])
           f == [t \in Trucks |->
                   IF m.type \in {"left", "refused"} /\ ~Follows(wants'[s], t) THEN Nil
                   ELSE IF t \in DOMAIN m.states /\ Takes(view[s][t], m, t) THEN m.states[t]
                   ELSE view[s][t]]
<1>1. /\ wire[s] # <<>> /\ wire' = [wire EXCEPT ![s] = Tail(@)]
      /\ wants' = [wants EXCEPT ![s] = IF m.type = "refused" THEN @ \ {m.what} ELSE @]
      /\ view' = [view EXCEPT ![s] = f]
      /\ UNCHANGED <<world, rooms, joined, page, pc, call>>
  BY DEF Handle
<1>2. wire[s] \in Seq(Messages) /\ m \in Messages /\ Tail(wire[s]) \in Seq(Messages)
  BY <1>1, HeadTailProperties DEF TypeInv, ClientsOK
<1> HIDE DEF m
<1>3. \A t \in DOMAIN m.states : m.states[t] \in State
  BY <1>2 DEF Messages, Told
<1>4. f \in [Trucks -> State \cup {Nil}]
  <2>1. \A t \in Trucks : view[s][t] \in State \cup {Nil}
    BY DEF TypeInv, ClientsOK
  <2> QED
    BY <1>3, <2>1
<1> HIDE DEF f
<1>5. ClientsOK'
  <2>1. wire' \in [Sockets -> Seq(Messages)] /\ view' \in [Sockets -> [Trucks -> State \cup {Nil}]]
    BY <1>1, <1>2, <1>4 DEF TypeInv, ClientsOK
  <2>2. /\ wants' \in [Sockets -> SUBSET ({Operations} \cup Nameable)]
        /\ \A r \in Sockets : wants'[r] \subseteq page[r]
    BY <1>1 DEF TypeInv, ClientsOK
  <2> QED
    BY <1>1, <2>1, <2>2 DEF TypeInv, ClientsOK
<1>6. WorldOK' /\ RoomsOK' /\ CallsOK'
  BY <1>1 DEF TypeInv, WorldOK, RoomsOK, CallsOK, world
<1> QED
  BY <1>5, <1>6 DEF TypeInv

LEMMA TypeStep == TypeInv /\ [Next]_vars => TypeInv'
<1> SUFFICES ASSUME TypeInv, [Next]_vars PROVE TypeInv'
  OBVIOUS
<1>1. CASE World
  <2>1. CASE Start \/ ResetClears \/ ResetRewinds
    BY <2>1, LoadTypes
  <2>2. CASE ResetReloads
    BY <2>2, ReloadTypes
  <2>3. CASE \E t \in Trucks : Advance(t) \/ FactCommits(t) \/ FactAnnounced(t)
    BY <2>3, AdvanceTypes, FactTypes
  <2> QED
    BY <1>1, <2>1, <2>2, <2>3 DEF World
<1>2. ASSUME NEW q \in Reqs, Serve(q) PROVE TypeInv'
  BY <1>2, LooksUpTypes, JoinsTypes, ServeTypes DEF Serve
<1>3. ASSUME NEW s \in Sockets, Client(s) PROVE TypeInv'
  BY <1>3, LeaveTypes, DisconnectTypes, HandleTypes, SubscribeTypes, SubscribeOperationsTypes
  DEF Client
<1>4. CASE UNCHANGED vars
  BY <1>4 DEF vars, world, clients, TypeInv, WorldOK, RoomsOK, ClientsOK, CallsOK
<1> QED
  BY <1>1, <1>2, <1>3, <1>4 DEF Next

LEMMA TypesAreKept == Spec => []TypeInv
BY TypeStart, TypeStep, PTL DEF Spec

(* The rooms, the alias maps, the clients' views and the handlers are what *)
(* they are meant to be, whatever the clients, the engine and the feed do. *)
THEOREM RealtimeTypes == Spec => []TypeOK
<1>1. TypeInv => TypeOK
  <2> SUFFICES ASSUME TypeInv PROVE TypeOK
    OBVIOUS
  <2>1. ASSUME NEW q \in Reqs PROVE pc[q] = "idle" <=> call[q] = NoCall
    BY DEF TypeInv, CallsOK, CallOK, NoCall, Kinds
  <2> QED
    BY <2>1 DEF TypeInv, WorldOK, RoomsOK, ClientsOK, CallsOK, TypeOK
<1> QED
  BY <1>1, TypesAreKept, PTL
-----------------------------------------------------------------------------
(* Every step keeps the pledges and the maps *)

(* Nothing that was sent is lost. *)
Longer == \A s \in Sockets : \/ wire'[s] = wire[s]
                             \/ \E m \in Messages : wire'[s] = Append(wire[s], m)

(* Only something that stands for nothing is refused. *)
Honest(m) == m.type = "refused" => m.what \notin {Operations} \cup Nameable

SpeaksTruly == \A s \in Sockets : \/ wire'[s] = wire[s]
                                  \/ \E m \in Messages : Honest(m) /\ wire'[s] = Append(wire[s], m)

LEMMA AppendFacts ==
  ASSUME NEW s \in Seq(Messages), NEW m \in Messages
  PROVE  /\ DOMAIN s = 1 .. Len(s) /\ Len(s) \in Nat
         /\ DOMAIN Append(s, m) = 1 .. (Len(s) + 1)
         /\ \A i \in DOMAIN s : i \in DOMAIN Append(s, m) /\ Append(s, m)[i] = s[i]
         /\ Len(s) + 1 \in DOMAIN Append(s, m) /\ Append(s, m)[Len(s) + 1] = m
<1>1. Append(s, m) \in Seq(Messages) /\ Len(Append(s, m)) = Len(s) + 1
  BY AppendProperties
<1>2. /\ DOMAIN s = 1 .. Len(s) /\ Len(s) \in Nat
      /\ DOMAIN Append(s, m) = 1 .. (Len(s) + 1)
  BY <1>1, LenProperties
<1> QED
  BY <1>2, AppendProperties

LEMMA RefusedLonger ==
  ASSUME TypeInv, Longer, NEW s \in Sockets, NEW w, Refused(s, w)
  PROVE  Refused(s, w)'
<1>1. PICK i \in DOMAIN wire[s] : wire[s][i].type = "refused" /\ wire[s][i].what = w
  BY DEF Refused
<1>2. i \in DOMAIN wire'[s] /\ wire'[s][i] = wire[s][i]
  <2>1. CASE wire'[s] = wire[s]
    BY <1>1, <2>1
  <2>2. ASSUME NEW m \in Messages, wire'[s] = Append(wire[s], m)
        PROVE  i \in DOMAIN wire'[s] /\ wire'[s][i] = wire[s][i]
    <3>1. wire[s] \in Seq(Messages)
      BY DEF TypeInv, ClientsOK
    <3> QED
      BY <1>1, <2>2, <3>1, AppendFacts
  <2> QED
    BY <2>1, <2>2 DEF Longer
<1> QED
  BY <1>1, <1>2 DEF Refused

LEMMA SendLonger ==
  ASSUME TypeInv, NEW s \in Sockets, NEW m \in Messages, Send(s, m)
  PROVE  Longer
BY SendFacts DEF TypeInv, ClientsOK, Longer

LEMMA EmitLonger ==
  ASSUME TypeInv, NEW t \in Trucks, NEW x \in State, Emit(t, x)
  PROVE  Longer /\ SpeaksTruly
<1> DEFINE m == Message("event", Nil, [y \in {t} |-> x])
<1>1. m \in Messages /\ Honest(m)
  <2>1. [y \in {t} |-> x] \in Told
    BY ToldFacts
  <2> QED
    BY <2>1, MessageFacts DEF Honest
<1>2. \A s \in Sockets : wire'[s] = IF rooms[s] \cap RoomsFor(t) = {} THEN wire[s]
                                    ELSE Append(wire[s], m)
  BY DEF Emit
<1> HIDE DEF m
<1> QED
  BY <1>1, <1>2 DEF Longer, SpeaksTruly

LEMMA WorldLonger ==
  ASSUME TypeInv, World
  PROVE  Longer /\ SpeaksTruly /\ UNCHANGED <<rooms, joined, wants, page, view, pc, call>>
<1>1. CASE Start \/ ResetClears \/ ResetRewinds
  BY <1>1 DEF Start, ResetClears, ResetRewinds, clients, Longer, SpeaksTruly
<1>2. CASE ResetReloads
  <2> DEFINE told(s) == {t \in OnRoad : rooms[s] \cap RoomsFor(t) # {}}
             m(s)    == Message("event", Nil, [t \in told(s) |-> said'[t]])
  <2>1. said' \in [Trucks -> State]
    BY <1>2, ReloadTypes DEF TypeInv, WorldOK
  <2>2. ASSUME NEW s \in Sockets PROVE m(s) \in Messages /\ Honest(m(s))
    <3>1. told(s) \in SUBSET Trucks
      BY RealtimeAssumption
    <3>2. [t \in told(s) |-> said'[t]] \in [told(s) -> State]
      BY <2>1, <3>1
    <3> QED
      BY <3>1, <3>2, ToldFacts, MessageFacts DEF Honest
  <2>3. wire' = [s \in Sockets |-> IF told(s) = {} THEN wire[s] ELSE Append(wire[s], m(s))]
    BY <1>2 DEF ResetReloads
  <2> HIDE DEF m
  <2>4. Longer /\ SpeaksTruly
    BY <2>2, <2>3 DEF Longer, SpeaksTruly
  <2> QED
    BY <1>2, <2>4 DEF ResetReloads
<1>3. ASSUME NEW t \in Trucks, Advance(t) \/ FactCommits(t) \/ FactAnnounced(t)
      PROVE  Longer /\ SpeaksTruly /\ UNCHANGED <<rooms, joined, wants, page, view, pc, call>>
  <2>1. CASE Advance(t)
    <3>1. /\ Emit(t, Payload(last'[t], story'[t]))
          /\ UNCHANGED <<rooms, joined, wants, page, view, pc, call>>
      BY <2>1 DEF Advance
    <3>2. last'[t] \in Nat /\ story'[t] \in Nat
      BY <2>1, AdvanceTypes DEF TypeInv, WorldOK
    <3> QED
      BY <3>1, <3>2, PayloadFacts, EmitLonger
  <2>2. CASE FactCommits(t)
    BY <2>2 DEF FactCommits, clients, Longer, SpeaksTruly
  <2>3. CASE FactAnnounced(t)
    <3>1. /\ Emit(t, Payload(last'[t], facts[t]))
          /\ UNCHANGED <<rooms, joined, wants, page, view, pc, call>>
      BY <2>3 DEF FactAnnounced
    <3>2. last'[t] \in Nat /\ facts[t] \in Nat
      BY <2>3, FactTypes DEF TypeInv, WorldOK
    <3> QED
      BY <3>1, <3>2, PayloadFacts, EmitLonger
  <2> QED
    BY <1>3, <2>1, <2>2, <2>3
<1> QED
  BY <1>1, <1>2, <1>3 DEF World

(* A pledge that is not q's stays what it is, or is met. *)
LEMMA PledgeStays ==
  ASSUME TypeInv, Pledged, NEW q \in Reqs, NEW s \in Sockets, NEW w \in wants[s],
         Kept(s, w) => Kept(s, w)',
         Refused(s, w) => Refused(s, w)',
         \A p \in Reqs \ {q} : pc'[p] = pc[p] /\ call'[p] = call[p]
  PROVE  \/ Kept(s, w)' \/ Pending(s, w)' \/ Refused(s, w)'
         \/ pc[q] \in {"looking", "found"} /\ call[q].socket = s /\ Asked(call[q]) = w
BY DEF Pledged, Pending, Asked

LEMMA OneCallChanges ==
  ASSUME TypeInv, NEW q \in Reqs, NEW step, NEW c, Goto(q, step), Learn(q, c)
  PROVE  /\ \A p \in Reqs \ {q} : pc'[p] = pc[p] /\ call'[p] = call[p]
         /\ pc'[q] = step /\ call'[q] = c
BY DEF Goto, Learn, TypeInv, CallsOK

LEMMA KeptUnchanged ==
  ASSUME UNCHANGED <<rooms, joined>>, NEW s, NEW w
  PROVE  Kept(s, w)' <=> Kept(s, w)
BY DEF Kept, Target

LEMMA MappedUnchanged ==
  ASSUME Mapped, UNCHANGED <<rooms, joined>>
  PROVE  Mapped'
BY DEF Mapped, Target

LEMMA WorldKeeps ==
  ASSUME RoomsInv, World
  PROVE  Pledged' /\ Mapped'
<1>1. Longer /\ UNCHANGED <<rooms, joined, wants, page, view, pc, call>>
  BY WorldLonger DEF RoomsInv
<1>2. Mapped'
  BY <1>1, MappedUnchanged DEF RoomsInv
<1>3. ASSUME NEW s \in Sockets, NEW w \in wants[s]
      PROVE  Kept(s, w)' \/ Pending(s, w)' \/ Refused(s, w)'
  BY <1>1, KeptUnchanged, RefusedLonger DEF RoomsInv, Pledged, Pending, Asked
<1> QED
  BY <1>1, <1>2, <1>3 DEF Pledged

LEMMA SubscribeOperationsKeeps ==
  ASSUME RoomsInv, NEW s \in Sockets, NEW q \in Reqs, SubscribeOperations(q, s)
  PROVE  Pledged' /\ Mapped'
<1> DEFINE c == [NoCall EXCEPT !.socket = s, !.kind = "operations", !.since = Current]
           m == Message("snapshot", Operations, [t \in live |-> Live(t)])
<1>1. /\ pc[q] = "idle"
      /\ wants' = [wants EXCEPT ![s] = @ \cup {Operations}]
      /\ rooms' = [rooms EXCEPT ![s] = @ \cup {Operations}]
      /\ UNCHANGED joined
      /\ \/ Send(s, m) /\ UNCHANGED <<pc, call>>
         \/ Goto(q, "reading") /\ Learn(q, c) /\ UNCHANGED wire
  BY DEF SubscribeOperations
<1>2. m \in Messages
  BY LiveTold, MessageFacts DEF RoomsInv, TypeInv, WorldOK
<1> HIDE DEF m, c
<1>3. Longer /\ \A p \in Reqs \ {q} : pc'[p] = pc[p] /\ call'[p] = call[p]
  <2>1. CASE Send(s, m) /\ UNCHANGED <<pc, call>>
    BY <1>2, <2>1, SendLonger DEF RoomsInv
  <2>2. CASE Goto(q, "reading") /\ Learn(q, c) /\ UNCHANGED wire
    BY <2>2, OneCallChanges DEF RoomsInv, Longer
  <2> QED
    BY <1>1, <2>1, <2>2
<1>4. /\ rooms'[s] = rooms[s] \cup {Operations} /\ wants'[s] = wants[s] \cup {Operations}
      /\ \A r \in Sockets \ {s} : rooms'[r] = rooms[r] /\ wants'[r] = wants[r]
  BY <1>1 DEF RoomsInv, TypeInv, RoomsOK, ClientsOK
<1>5. \A r \in Sockets : \A w : Kept(r, w) => Kept(r, w)'
  BY <1>1, <1>4 DEF Kept, Target
<1>6. Kept(s, Operations)'
  BY <1>4 DEF Kept, Target
<1>7. ASSUME NEW r \in Sockets, NEW w \in wants'[r]
      PROVE  Kept(r, w)' \/ Pending(r, w)' \/ Refused(r, w)'
  <2>1. CASE r = s /\ w = Operations
    BY <1>6, <2>1
  <2>2. CASE ~ (r = s /\ w = Operations)
    <3>1. w \in wants[r]
      BY <1>4, <1>7, <2>2
    <3>2. Refused(r, w) => Refused(r, w)'
      BY <1>3, RefusedLonger DEF RoomsInv
    <3> QED
      BY <1>1, <1>3, <1>5, <3>1, <3>2, PledgeStays DEF RoomsInv
  <2> QED
    BY <2>1, <2>2
<1>8. Pledged'
  BY <1>7 DEF Pledged
<1>9. Mapped'
  <2>1. \A r \in Sockets : rooms'[r] \ {Operations} = rooms[r] \ {Operations}
    BY <1>4
  <2> QED
    BY <1>1, <2>1 DEF RoomsInv, Mapped, Target
<1> QED
  BY <1>8, <1>9

LEMMA SubscribeKeeps ==
  ASSUME RoomsInv, NEW s \in Sockets, NEW q \in Reqs, NEW kind \in Kinds, NEW n \in NamesOf(kind),
         Subscribe(q, s, kind, n)
  PROVE  Pledged' /\ Mapped'
<1> DEFINE c == [NoCall EXCEPT !.socket = s, !.kind = kind, !.name = n]
<1>1. /\ pc[q] = "idle"
      /\ IF Named(kind, n) = Nil THEN UNCHANGED wants
         ELSE wants' = [wants EXCEPT ![s] = @ \cup {<<kind, n>>}]
      /\ Goto(q, "looking") /\ Learn(q, c)
      /\ UNCHANGED <<rooms, joined, wire>>
  BY DEF Subscribe
<1>2. c.socket = s /\ Asked(c) = <<kind, n>>
  BY DEF NoCall, Asked, Kinds
<1> HIDE DEF c
<1>3. /\ \A p \in Reqs \ {q} : pc'[p] = pc[p] /\ call'[p] = call[p]
      /\ pc'[q] = "looking" /\ call'[q] = c
  BY <1>1, OneCallChanges DEF RoomsInv
<1>4. Pending(s, <<kind, n>>)'
  BY <1>2, <1>3 DEF Pending, Asked
<1>5. ASSUME NEW r \in Sockets, NEW w \in wants'[r]
      PROVE  Kept(r, w)' \/ Pending(r, w)' \/ Refused(r, w)'
  <2>1. w \in wants[r] \/ (r = s /\ w = <<kind, n>>)
    BY <1>1, <1>5 DEF RoomsInv, TypeInv, ClientsOK
  <2>2. CASE w \in wants[r]
    <3>1. (Kept(r, w) => Kept(r, w)') /\ (Refused(r, w) => Refused(r, w)')
      BY <1>1, KeptUnchanged DEF Refused
    <3> QED
      BY <1>1, <1>3, <2>2, <3>1, PledgeStays DEF RoomsInv
  <2> QED
    BY <1>4, <2>1, <2>2
<1>6. Pledged'
  BY <1>5 DEF Pledged
<1> QED
  BY <1>1, <1>6, MappedUnchanged DEF RoomsInv

(* A handler that has said no has met its pledge. *)
LEMMA RefusalKeeps ==
  ASSUME RoomsInv, NEW q \in Reqs, pc[q] # "idle", NEW m \in Messages,
         NEW s \in Sockets, s = call[q].socket, NEW a, a = Asked(call[q]),
         m.type = "refused", m.what = a, Send(s, m), Return(q),
         UNCHANGED <<rooms, joined, wants>>
  PROVE  Pledged' /\ Mapped'
<1>2. Longer
  BY SendLonger DEF RoomsInv
<1>3. Refused(s, a)'
  <2>1. wire'[s] = Append(wire[s], m) /\ wire[s] \in Seq(Messages)
    BY SendFacts DEF RoomsInv, TypeInv, ClientsOK
  <2> DEFINE i == Len(wire[s]) + 1
  <2>2. i \in DOMAIN wire'[s] /\ wire'[s][i] = m
    BY <2>1, AppendFacts
  <2> HIDE DEF i
  <2> QED
    BY <2>2 DEF Refused
<1>4. \A p \in Reqs \ {q} : pc'[p] = pc[p] /\ call'[p] = call[p]
  BY OneCallChanges DEF RoomsInv, Return
<1>5. ASSUME NEW r \in Sockets, NEW w \in wants[r]
      PROVE  Kept(r, w)' \/ Pending(r, w)' \/ Refused(r, w)'
  <2>1. (Kept(r, w) => Kept(r, w)') /\ (Refused(r, w) => Refused(r, w)')
    BY <1>2, KeptUnchanged, RefusedLonger DEF RoomsInv
  <2> QED
    BY <1>3, <1>4, <2>1, PledgeStays DEF RoomsInv
<1>6. Pledged'
  BY <1>5 DEF Pledged
<1> QED
  BY <1>6, MappedUnchanged DEF RoomsInv
LEMMA LooksUpKeeps ==
  ASSUME RoomsInv, NEW q \in Reqs, LooksUp(q)
  PROVE  Pledged' /\ Mapped'
<1>1. pc[q] = "looking" /\ UNCHANGED <<rooms, joined, wants>>
  BY DEF LooksUp
<1>2. /\ call[q].socket \in Sockets
      /\ call[q].kind \in Kinds /\ call[q].name \in NamesOf(call[q].kind)
      /\ call[q].kind # "operations"
  BY <1>1, UnderWay DEF RoomsInv, TypeInv
<1>3. Asked(call[q]) = <<call[q].kind, call[q].name>>
  BY <1>2 DEF Asked
<1>4. CASE Named(call[q].kind, call[q].name) = Nil
  <2> DEFINE m == Message("refused", <<call[q].kind, call[q].name>>, <<>>)
  <2>1. Send(call[q].socket, m) /\ Return(q)
    BY <1>4 DEF LooksUp
  <2>2. Asked(call[q]) \in {Nil, Operations} \cup (Kinds \X Names)
    BY <1>1, UnderWay DEF RoomsInv, TypeInv
  <2>3. m \in Messages /\ m.type = "refused" /\ m.what = Asked(call[q])
    BY <1>3, <2>2, EmptyTold, MessageFacts
  <2> HIDE DEF m
  <2> QED
    BY <1>1, <1>2, <2>1, <2>3, RefusalKeeps
<1>5. CASE Named(call[q].kind, call[q].name) # Nil
  <2> DEFINE a == [t \in {Shown(call[q].kind, call[q].name)} |-> IF t \in live THEN Live(t) ELSE Row(t)]
             e == [call[q] EXCEPT !.answer = a]
  <2>1. Learn(q, e) /\ Goto(q, "found") /\ UNCHANGED wire
    BY <1>5 DEF LooksUp
  <2>2. call[q] \in Calls
    BY DEF RoomsInv, TypeInv, CallsOK
  <2>3. e.socket = call[q].socket /\ e.kind = call[q].kind /\ e.name = call[q].name
    BY <2>2 DEF Calls
  <2> HIDE DEF a, e
  <2>4. Asked(e) = Asked(call[q])
    BY <2>3 DEF Asked
  <2>5. /\ \A p \in Reqs \ {q} : pc'[p] = pc[p] /\ call'[p] = call[p]
        /\ pc'[q] = "found" /\ call'[q] = e
    BY <2>1, OneCallChanges DEF RoomsInv
  <2>6. ASSUME NEW r \in Sockets, NEW w \in wants[r]
        PROVE  Kept(r, w)' \/ Pending(r, w)' \/ Refused(r, w)'
    <3>1. (Kept(r, w) => Kept(r, w)') /\ (Refused(r, w) => Refused(r, w)')
      BY <1>1, <2>1, KeptUnchanged DEF Refused
    <3>2. call[q].socket = r /\ Asked(call[q]) = w => Pending(r, w)'
      BY <2>3, <2>4, <2>5 DEF Pending, Asked
    <3> QED
      BY <2>5, <3>1, <3>2, PledgeStays DEF RoomsInv
  <2>7. Pledged'
    BY <1>1, <2>6 DEF Pledged
  <2> QED
    BY <1>1, <2>7, MappedUnchanged DEF RoomsInv
<1> QED
  BY <1>4, <1>5

LEMMA JoinsKeeps ==
  ASSUME RoomsInv, NEW q \in Reqs, Joins(q)
  PROVE  Pledged' /\ Mapped'
<1>1. PICK s, kind, n : s = call[q].socket /\ kind = call[q].kind /\ n = call[q].name
  OBVIOUS
<1> DEFINE id   == Named(kind, n)
           room == RoomOf(kind, id)
           a    == <<kind, n>>
           b    == <<kind, id>>
           m    == Message("snapshot", Asked(call[q]), [x \in {Shown(kind, n)} |-> Live(x)])
           e    == [call[q] EXCEPT !.since = Current, !.answer = <<>>]
<1>2. /\ pc[q] = "found" /\ Join(s, kind, n)
      /\ UNCHANGED <<wants>>
      /\ \/ Send(s, m) /\ Return(q)
         \/ Goto(q, "reading") /\ Learn(q, e) /\ UNCHANGED wire
  BY <1>1 DEF Joins
<1>3. /\ s \in Sockets /\ kind \in Kinds /\ n \in NamesOf(kind) /\ kind # "operations"
      /\ Named(kind, n) # Nil
      /\ Asked(call[q]) \in {Nil, Operations} \cup (Kinds \X Names)
  BY <1>1, <1>2, UnderWay DEF RoomsInv, TypeInv
<1>4. Asked(call[q]) = a
  BY <1>1, <1>3 DEF Asked
<1>5. /\ a \in Nameable /\ b \in Nameable /\ room \in Rooms /\ room # Operations
      /\ Target(a) = room /\ Target(b) = room /\ Shown(kind, n) \in Trucks
  BY <1>3, NameFacts
<1>6. m \in Messages
  <2>1. {Shown(kind, n)} \in SUBSET Trucks
    BY <1>5
  <2>2. [x \in {Shown(kind, n)} |-> Live(x)] \in Told
    BY <2>1, LiveTold DEF RoomsInv, TypeInv
  <2> QED
    BY <1>3, <2>2, MessageFacts
<1> HIDE DEF m, e
<1>7. Longer /\ \A p \in Reqs \ {q} : pc'[p] = pc[p] /\ call'[p] = call[p]
  <2>1. CASE Send(s, m) /\ Return(q)
    BY <1>3, <1>6, <2>1, SendLonger, OneCallChanges DEF RoomsInv, Return
  <2>2. CASE Goto(q, "reading") /\ Learn(q, e) /\ UNCHANGED wire
    BY <2>2, OneCallChanges DEF RoomsInv, Longer
  <2> QED
    BY <1>2, <2>1, <2>2
<1>8. /\ rooms'[s] = rooms[s] \cup {room}
      /\ joined'[s][a] = room /\ joined'[s][b] = room
      /\ \A w \in (Kinds \X Names) \ {a, b} : joined'[s][w] = joined[s][w]
      /\ \A r \in Sockets \ {s} : rooms'[r] = rooms[r] /\ joined'[r] = joined[r]
  BY <1>2, <1>3, JoinFacts DEF RoomsInv, TypeInv
<1> HIDE DEF a, b, room
<1>9. ASSUME NEW r \in Sockets, NEW w \in wants[r], Kept(r, w) PROVE Kept(r, w)'
  <2>1. CASE r # s
    BY <1>8, <1>9, <2>1 DEF Kept, Target
  <2>2. CASE r = s
    <3>1. Target(w) \in rooms'[s]
      BY <1>8, <1>9, <2>2 DEF Kept
    <3>2. w # Operations => joined'[s][w] = Target(w)
      <4>1. w # Operations => w \in Kinds \X Names
        BY DEF RoomsInv, TypeInv, ClientsOK, Nameable
      <4> QED
        BY <1>5, <1>8, <1>9, <2>2, <4>1 DEF Kept
    <3> QED
      BY <2>2, <3>1, <3>2 DEF Kept, Target
  <2> QED
    BY <2>1, <2>2
<1>10. Kept(s, a)'
  BY <1>5, <1>8 DEF Kept, Target
<1>11. ASSUME NEW r \in Sockets, NEW w \in wants[r]
       PROVE  Kept(r, w)' \/ Pending(r, w)' \/ Refused(r, w)'
  <2>1. Refused(r, w) => Refused(r, w)'
    BY <1>7, RefusedLonger DEF RoomsInv
  <2>2. r = s /\ w = a => Kept(r, w)'
    BY <1>10
  <2> QED
    BY <1>1, <1>4, <1>7, <1>9, <2>1, <2>2, PledgeStays DEF RoomsInv
<1>12. Pledged'
  BY <1>2, <1>11 DEF Pledged
<1>13. ASSUME NEW r \in Sockets, NEW w \in Kinds \X Names, joined'[r][w] # Nil
       PROVE  w \in Nameable /\ joined'[r][w] = Target(w)
  <2>1. CASE r = s /\ w \in {a, b}
    BY <1>5, <1>8, <2>1
  <2>2. CASE ~ (r = s /\ w \in {a, b})
    BY <1>8, <1>13, <2>2 DEF RoomsInv, Mapped
  <2> QED
    BY <2>1, <2>2
<1>14. ASSUME NEW r \in Sockets, NEW x \in rooms'[r] \ {Operations}
       PROVE  \E w \in Kinds \X Names : joined'[r][w] = x
  <2>1. CASE r = s /\ x = room
    <3>1. a \in Kinds \X Names
      BY <1>5 DEF Nameable
    <3> QED
      BY <1>8, <2>1, <3>1
  <2>2. CASE ~ (r = s /\ x = room)
    <3>1. x \in rooms[r] \ {Operations} /\ x \in Rooms
      BY <1>8, <1>14, <2>2 DEF RoomsInv, TypeInv, RoomsOK
    <3>2. PICK w \in Kinds \X Names : joined[r][w] = x
      BY <3>1 DEF RoomsInv, Mapped
    <3>3. x # Nil
      BY <3>1, RealtimeAssumption
    <3>4. joined[r][w] = Target(w)
      BY <3>2, <3>3 DEF RoomsInv, Mapped
    <3>5. joined'[r][w] = x
      BY <1>5, <1>8, <3>2, <3>4
    <3> QED
      BY <3>5
  <2> QED
    BY <2>1, <2>2
<1>15. Mapped'
  BY <1>13, <1>14 DEF Mapped, Target
<1> QED
  BY <1>12, <1>15

(* The steps of a handler that has joined. *)
LEMMA AnswerKeeps ==
  ASSUME RoomsInv, NEW q \in Reqs, AnswersLive(q) \/ Reads(q) \/ Answers(q)
  PROVE  Pledged' /\ Mapped'
<1>1. /\ pc[q] \in {"reading", "answering"} /\ UNCHANGED <<rooms, joined, wants>>
  BY DEF AnswersLive, Reads, Answers, clients
<1>2. /\ call[q].socket \in Sockets /\ call[q].answer \in Told
      /\ Asked(call[q]) \in {Nil, Operations} \cup (Kinds \X Names)
  BY <1>1, UnderWay DEF RoomsInv, TypeInv
<1>3. Longer /\ \A p \in Reqs \ {q} : pc'[p] = pc[p] /\ call'[p] = call[p]
  <2>1. CASE AnswersLive(q)
    <3> DEFINE t == Shown("shipment", call[q].name)
               m == Message("snapshot", Asked(call[q]), [x \in {t} |-> Live(x)])
    <3>1. t \in live /\ Send(call[q].socket, m) /\ Return(q)
      BY <2>1 DEF AnswersLive
    <3>2. [x \in {t} |-> Live(x)] \in Told
      BY <3>1, LiveTold DEF RoomsInv, TypeInv, WorldOK
    <3>3. m \in Messages
      BY <1>2, <3>2, MessageFacts
    <3> HIDE DEF m
    <3> QED
      BY <1>2, <3>1, <3>3, SendLonger, OneCallChanges DEF RoomsInv, Return
  <2>2. CASE Answers(q)
    <3> DEFINE m == Message("snapshot", Asked(call[q]), call[q].answer)
    <3>1. Send(call[q].socket, m) /\ Return(q)
      BY <2>2 DEF Answers
    <3>2. m \in Messages
      BY <1>2, MessageFacts
    <3> HIDE DEF m
    <3> QED
      BY <1>2, <3>1, <3>2, SendLonger, OneCallChanges DEF RoomsInv, Return
  <2>3. CASE Reads(q)
    <3> DEFINE ts == IF call[q].kind = "operations" THEN OnRoad
                     ELSE {Shown(call[q].kind, call[q].name)}
               e  == [call[q] EXCEPT !.answer = [t \in ts |-> Row(t)]]
    <3>1. Learn(q, e) /\ Goto(q, "answering") /\ UNCHANGED clients
      BY <2>3 DEF Reads
    <3> HIDE DEF e
    <3> QED
      BY <3>1, OneCallChanges DEF RoomsInv, Longer, clients
  <2> QED
    BY <2>1, <2>2, <2>3
<1>4. ASSUME NEW r \in Sockets, NEW w \in wants[r]
      PROVE  Kept(r, w)' \/ Pending(r, w)' \/ Refused(r, w)'
  <2>1. (Kept(r, w) => Kept(r, w)') /\ (Refused(r, w) => Refused(r, w)')
    BY <1>1, <1>3, KeptUnchanged, RefusedLonger DEF RoomsInv
  <2> QED
    BY <1>1, <1>3, <2>1, PledgeStays DEF RoomsInv
<1>5. Pledged'
  BY <1>1, <1>4 DEF Pledged
<1> QED
  BY <1>1, <1>5, MappedUnchanged DEF RoomsInv

LEMMA GuardKeeps ==
  ASSUME RoomsInv, NEW q \in Reqs, Guard(q)
  PROVE  Pledged' /\ Mapped'
<1> DEFINE m == Message("refused", Asked(call[q]), <<>>)
<1>1. /\ pc[q] # "idle" /\ Send(call[q].socket, m) /\ Return(q)
      /\ UNCHANGED <<rooms, joined, wants>>
  BY DEF Guard
<1>2. /\ call[q].socket \in Sockets
      /\ Asked(call[q]) \in {Nil, Operations} \cup (Kinds \X Names)
  BY <1>1, UnderWay DEF RoomsInv, TypeInv
<1>3. m \in Messages /\ m.type = "refused" /\ m.what = Asked(call[q])
  BY <1>2, EmptyTold, MessageFacts
<1> HIDE DEF m
<1> QED
  BY <1>1, <1>2, <1>3, RefusalKeeps
LEMMA UnsubscribeOperationsKeeps ==
  ASSUME RoomsInv, NEW s \in Sockets, UnsubscribeOperations(s)
  PROVE  Pledged' /\ Mapped'
<1> DEFINE m == Message("left", Operations, <<>>)
<1>1. /\ rooms' = [rooms EXCEPT ![s] = @ \ {Operations}]
      /\ wants' = [wants EXCEPT ![s] = @ \ {Operations}]
      /\ Send(s, m) /\ UNCHANGED <<joined, pc, call>>
  BY DEF UnsubscribeOperations
<1>2. m \in Messages
  BY EmptyTold, MessageFacts
<1> HIDE DEF m
<1>3. Longer
  BY <1>1, <1>2, SendLonger DEF RoomsInv
<1>4. /\ rooms'[s] = rooms[s] \ {Operations} /\ wants'[s] = wants[s] \ {Operations}
      /\ \A r \in Sockets \ {s} : rooms'[r] = rooms[r] /\ wants'[r] = wants[r]
  BY <1>1 DEF RoomsInv, TypeInv, RoomsOK, ClientsOK
<1>5. ASSUME NEW r \in Sockets, NEW w \in wants'[r]
      PROVE  Kept(r, w)' \/ Pending(r, w)' \/ Refused(r, w)'
  <2>1. w \in wants[r] /\ (r = s => w \in Nameable)
    BY <1>4, <1>5 DEF RoomsInv, TypeInv, ClientsOK
  <2>2. Kept(r, w) => Kept(r, w)'
    <3>1. r = s => Target(w) # Operations
      BY <2>1, NameableFacts
    <3> QED
      BY <1>1, <1>4, <3>1 DEF Kept, Target
  <2>3. Refused(r, w) => Refused(r, w)'
    BY <1>3, RefusedLonger DEF RoomsInv
  <2> QED
    BY <1>1, <2>1, <2>2, <2>3 DEF RoomsInv, Pledged, Pending, Asked
<1>6. Pledged'
  BY <1>5 DEF Pledged
<1>7. Mapped'
  <2>1. \A r \in Sockets : rooms'[r] \ {Operations} = rooms[r] \ {Operations}
    BY <1>4
  <2> QED
    BY <1>1, <2>1 DEF RoomsInv, Mapped, Target
<1> QED
  BY <1>6, <1>7

(* Leaving by a name leaves the room it stands for or none: never the room *)
(* of something else that the client has asked for.                        *)
LEMMA LeavesNoOther ==
  ASSUME RoomsInv, NEW s \in Sockets, NEW kind \in Kinds, NEW n \in NamesOf(kind),
         Named(kind, n) # Nil,
         NEW room, room = IF joined[s][<<kind, n>>] = Nil THEN RoomOf(kind, n)
                          ELSE joined[s][<<kind, n>>],
         NEW w \in {Operations} \cup Nameable, Target(w) # Target(<<kind, n>>)
  PROVE  Target(w) # room
<1>1. <<kind, n>> \in Kinds \X Names
  BY DEF NamesOf, Names
<1>2. CASE joined[s][<<kind, n>>] # Nil
  BY <1>1, <1>2 DEF RoomsInv, Mapped
<1>3. CASE joined[s][<<kind, n>>] = Nil
  <2>1. room = RoomOf(kind, n)
    BY <1>3
  <2>2. CASE w = Operations
    BY <2>1, <2>2 DEF Target, RoomOf, Operations, truckRoom, shipmentRoom
  <2>3. CASE w \in Nameable
    <3> DEFINE k == w[1]
               i == Named(w[1], w[2])
    <3>1. k \in Kinds /\ Target(w) = RoomOf(k, i) /\ Named(k, i) = i
      BY <2>3, NameableFacts, NameFacts
    <3> HIDE DEF k, i
    <3>2. SUFFICES ASSUME RoomOf(k, i) = RoomOf(kind, n) PROVE FALSE
      BY <2>1, <3>1
    <3>3. k = kind /\ i = n
      BY <3>1, <3>2 DEF RoomOf, truckRoom, shipmentRoom, Kinds
    <3>4. Target(<<kind, n>>) = RoomOf(kind, Named(kind, n))
      BY NameFacts
    <3> QED
      BY <3>1, <3>3, <3>4
  <2> QED
    BY <2>2, <2>3
<1> QED
  BY <1>2, <1>3

LEMMA UnsubscribeKeeps ==
  ASSUME RoomsInv, NEW s \in Sockets, NEW kind \in Kinds, NEW n \in NamesOf(kind),
         Unsubscribe(s, kind, n)
  PROVE  Pledged' /\ Mapped'
<1>1. PICK room : room = IF joined[s][<<kind, n>>] = Nil THEN RoomOf(kind, n)
                         ELSE joined[s][<<kind, n>>]
  OBVIOUS
<1> DEFINE goal == Target(<<kind, n>>)
           m    == Message("left", <<kind, n>>, <<>>)
<1>2. /\ rooms' = [rooms EXCEPT ![s] = @ \ {room}]
      /\ joined' = [joined EXCEPT ![s] =
                      [kn \in DOMAIN @ |-> IF @[kn] = room THEN Nil ELSE @[kn]]]
      /\ Send(s, m)
      /\ wants' = [wants EXCEPT ![s] = {w \in @ : Target(w) # goal}]
      /\ UNCHANGED <<pc, call>> /\ Named(kind, n) # Nil
  BY <1>1 DEF Unsubscribe
<1>3. m \in Messages
  <2>1. <<kind, n>> \in Kinds \X Names
    BY DEF NamesOf, Names
  <2> QED
    BY <2>1, EmptyTold, MessageFacts
<1>4. \A w \in {Operations} \cup Nameable : Target(w) # goal => Target(w) # room
  BY <1>1, <1>2, LeavesNoOther
<1> HIDE DEF m, goal
<1>5. Longer
  BY <1>2, <1>3, SendLonger DEF RoomsInv
<1>6. /\ rooms'[s] = rooms[s] \ {room} /\ wants'[s] = {w \in wants[s] : Target(w) # goal}
      /\ \A w \in Kinds \X Names :
           joined'[s][w] = IF joined[s][w] = room THEN Nil ELSE joined[s][w]
      /\ \A r \in Sockets \ {s} : /\ rooms'[r] = rooms[r] /\ wants'[r] = wants[r]
                                  /\ joined'[r] = joined[r]
  <2>1. DOMAIN joined[s] = Kinds \X Names
    BY DEF RoomsInv, TypeInv, RoomsOK
  <2> QED
    BY <1>2, <2>1 DEF RoomsInv, TypeInv, RoomsOK, ClientsOK
<1>7. ASSUME NEW r \in Sockets, NEW w \in wants'[r]
      PROVE  Kept(r, w)' \/ Pending(r, w)' \/ Refused(r, w)'
  <2>1. w \in wants[r] /\ w \in {Operations} \cup Nameable /\ (r = s => Target(w) # room)
    BY <1>4, <1>6, <1>7 DEF RoomsInv, TypeInv, ClientsOK
  <2>2. Kept(r, w) => Kept(r, w)'
    <3>1. w # Operations => w \in Kinds \X Names
      BY <2>1 DEF Nameable
    <3> QED
      BY <1>6, <2>1, <3>1 DEF Kept, Target
  <2>3. Refused(r, w) => Refused(r, w)'
    BY <1>5, RefusedLonger DEF RoomsInv
  <2> QED
    BY <1>2, <2>1, <2>2, <2>3 DEF RoomsInv, Pledged, Pending, Asked
<1>8. Pledged'
  BY <1>7 DEF Pledged
<1>9. ASSUME NEW r \in Sockets, NEW w \in Kinds \X Names, joined'[r][w] # Nil
      PROVE  w \in Nameable /\ joined'[r][w] = Target(w)
  BY <1>6, <1>9 DEF RoomsInv, Mapped
<1>10. ASSUME NEW r \in Sockets, NEW x \in rooms'[r] \ {Operations}
       PROVE  \E w \in Kinds \X Names : joined'[r][w] = x
  <2>1. x \in rooms[r] \ {Operations} /\ (r = s => x # room)
    BY <1>6, <1>10
  <2>2. PICK w \in Kinds \X Names : joined[r][w] = x
    BY <2>1 DEF RoomsInv, Mapped
  <2>3. joined'[r][w] = x
    BY <1>6, <2>1, <2>2
  <2> QED
    BY <2>3
<1>11. Mapped'
  BY <1>9, <1>10 DEF Mapped, Target
<1> QED
  BY <1>8, <1>11

LEMMA DisconnectKeeps ==
  ASSUME RoomsInv, NEW s \in Sockets, Disconnect(s)
  PROVE  Pledged' /\ Mapped'
<1>1. /\ rooms' = [rooms EXCEPT ![s] = {}]
      /\ joined' = [joined EXCEPT ![s] = [kn \in DOMAIN @ |-> Nil]]
      /\ wire' = [wire EXCEPT ![s] = <<>>] /\ wants' = [wants EXCEPT ![s] = {}]
      /\ pc' = [q \in Reqs |-> IF call[q].socket = s THEN "idle" ELSE pc[q]]
      /\ call' = [q \in Reqs |-> IF call[q].socket = s THEN NoCall ELSE call[q]]
  BY DEF Disconnect
<1>2. /\ rooms'[s] = {} /\ wants'[s] = {} /\ \A w \in Kinds \X Names : joined'[s][w] = Nil
      /\ \A r \in Sockets \ {s} : /\ rooms'[r] = rooms[r] /\ wants'[r] = wants[r]
                                  /\ joined'[r] = joined[r] /\ wire'[r] = wire[r]
  <2>1. DOMAIN joined[s] = Kinds \X Names
    BY DEF RoomsInv, TypeInv, RoomsOK
  <2> QED
    BY <1>1, <2>1 DEF RoomsInv, TypeInv, RoomsOK, ClientsOK
<1>3. ASSUME NEW r \in Sockets, NEW w \in wants'[r]
      PROVE  Kept(r, w)' \/ Pending(r, w)' \/ Refused(r, w)'
  <2>1. r # s /\ w \in wants[r]
    BY <1>2, <1>3
  <2>2. (Kept(r, w) => Kept(r, w)') /\ (Refused(r, w) => Refused(r, w)')
    BY <1>2, <2>1 DEF Kept, Refused, Target
  <2>3. \A p \in Reqs : call[p].socket = r => pc'[p] = pc[p] /\ call'[p] = call[p]
    BY <1>1, <2>1
  <2>4. Pending(r, w) => Pending(r, w)'
    BY <2>3 DEF Pending, Asked
  <2> QED
    BY <2>1, <2>2, <2>4 DEF RoomsInv, Pledged
<1>4. Pledged'
  BY <1>3 DEF Pledged
<1>5. Mapped'
  BY <1>2 DEF RoomsInv, Mapped, Target
<1> QED
  BY <1>4, <1>5

LEMMA HandleKeeps ==
  ASSUME RoomsInv, NEW s \in Sockets, Handle(s)
  PROVE  Pledged' /\ Mapped'
<1> DEFINE m == Head(wire[s])
<1>1. /\ wire[s] # <<>> /\ wire' = [wire EXCEPT ![s] = Tail(@)]
      /\ wants' = [wants EXCEPT ![s] = IF m.type = "refused" THEN @ \ {m.what} ELSE @]
      /\ UNCHANGED <<rooms, joined, pc, call>>
  BY DEF Handle
<1>2. /\ wire'[s] = Tail(wire[s])
      /\ wants'[s] = (IF m.type = "refused" THEN wants[s] \ {m.what} ELSE wants[s])
      /\ \A r \in Sockets \ {s} : wire'[r] = wire[r] /\ wants'[r] = wants[r]
  BY <1>1 DEF RoomsInv, TypeInv, ClientsOK
<1>3. /\ DOMAIN wire[s] = 1 .. Len(wire[s]) /\ m = wire[s][1]
      /\ DOMAIN wire'[s] = 1 .. (Len(wire[s]) - 1)
      /\ \A i \in 1 .. (Len(wire[s]) - 1) : wire'[s][i] = wire[s][i + 1]
      /\ Len(wire[s]) \in Nat
  <2>1. wire[s] \in Seq(Messages) /\ Len(wire[s]) \in Nat \ {0}
    BY <1>1, EmptySeq DEF RoomsInv, TypeInv, ClientsOK
  <2>2. Tail(wire[s]) \in Seq(Messages) /\ Len(Tail(wire[s])) = Len(wire[s]) - 1
    BY <1>1, <2>1, HeadTailProperties
  <2>3. /\ Head(wire[s]) = wire[s][1]
        /\ \A i \in 1 .. Len(Tail(wire[s])) : Tail(wire[s])[i] = wire[s][i + 1]
    BY <1>1, <2>1, HeadTailProperties
  <2>4. /\ DOMAIN wire[s] = 1 .. Len(wire[s])
        /\ DOMAIN Tail(wire[s]) = 1 .. Len(Tail(wire[s]))
    BY <2>1, <2>2, LenProperties
  <2> QED
    BY <1>2, <2>1, <2>2, <2>3, <2>4
<1> HIDE DEF m
<1>4. ASSUME NEW r \in Sockets, NEW w \in wants'[r]
      PROVE  Kept(r, w)' \/ Pending(r, w)' \/ Refused(r, w)'
  <2>1. w \in wants[r] /\ (r = s /\ m.type = "refused" => w # m.what)
    BY <1>2, <1>4
  <2>2. Refused(r, w) => Refused(r, w)'
    <3>1. CASE r # s
      BY <1>2, <3>1 DEF Refused
    <3>2. CASE r = s
      <4> SUFFICES ASSUME NEW i \in DOMAIN wire[s],
                          wire[s][i].type = "refused", wire[s][i].what = w
                   PROVE  Refused(s, w)'
        BY <3>2 DEF Refused
      <4>1. i # 1
        BY <1>3, <2>1, <3>2
      <4>2. i - 1 \in DOMAIN wire'[s] /\ wire'[s][i - 1] = wire[s][i]
        BY <1>3, <4>1
      <4> QED
        BY <4>2 DEF Refused
    <3> QED
      BY <3>1, <3>2
  <2> QED
    BY <1>1, <2>1, <2>2, KeptUnchanged DEF RoomsInv, Pledged, Pending, Asked
<1>5. Pledged'
  BY <1>4 DEF Pledged
<1> QED
  BY <1>1, <1>5, MappedUnchanged DEF RoomsInv

LEMMA RoomsStep == RoomsInv /\ [Next]_vars => RoomsInv'
<1> SUFFICES ASSUME RoomsInv, [Next]_vars PROVE RoomsInv'
  OBVIOUS
<1>1. TypeInv'
  BY TypeStep DEF RoomsInv
<1>2. CASE World
  BY <1>1, <1>2, WorldKeeps DEF RoomsInv
<1>3. ASSUME NEW q \in Reqs, Serve(q) PROVE RoomsInv'
  BY <1>1, <1>3, LooksUpKeeps, JoinsKeeps, AnswerKeeps, GuardKeeps DEF Serve, RoomsInv
<1>4. ASSUME NEW s \in Sockets, Client(s) PROVE RoomsInv'
  BY <1>1, <1>4, UnsubscribeOperationsKeeps, UnsubscribeKeeps, DisconnectKeeps, HandleKeeps,
     SubscribeKeeps, SubscribeOperationsKeeps DEF Client, RoomsInv
<1>5. CASE UNCHANGED vars
  <2>1. UNCHANGED <<rooms, joined, wire, wants, pc, call>>
    BY <1>5 DEF vars, clients
  <2> QED
    BY <1>1, <2>1 DEF RoomsInv, Pledged, Mapped, Kept, Pending, Refused, Target, Asked
<1> QED
  BY <1>2, <1>3, <1>4, <1>5 DEF Next

LEMMA RoomsStart == Init => RoomsInv
BY TypeStart DEF Init, RoomsInv, Pledged, Mapped

LEMMA RoomsAreKept == Spec => []RoomsInv
BY RoomsStart, RoomsStep, PTL DEF Spec

(* Once all is answered and handled, nothing is pending or refused. *)
LEMMA SettledKept ==
  ASSUME RoomsInv, NEW s \in Sockets, Settled(s), NEW w \in wants[s]
  PROVE  Kept(s, w)
<1>1. DOMAIN wire[s] = {}
  BY EmptyTold DEF Settled
<1> QED
  BY <1>1 DEF RoomsInv, Pledged, Pending, Refused, Settled

(* However subscriptions, failures, lost connections and unsubscriptions   *)
(* meet, a settled client is in every room it has asked for and not left.  *)
THEOREM AskedIsJoined == Spec => []WantedIsJoined
<1>1. RoomsInv => WantedIsJoined
  BY SettledKept DEF WantedIsJoined, Kept
<1> QED
  BY <1>1, RoomsAreKept, PTL

(* However they meet, every name a settled client has subscribed with      *)
(* leads to its room, and every room a client is in can be left.           *)
THEOREM RoomsCanBeLeft == Spec => []NoStrandedSocket
<1>1. RoomsInv => NoStrandedSocket
  <2> SUFFICES ASSUME RoomsInv, NEW s \in Sockets
               PROVE  /\ Settled(s) => \A w \in wants[s] \ {Operations} : joined[s][w] = Target(w)
                      /\ \A room \in rooms[s] \ {Operations} :
                           \E kn \in DOMAIN joined[s] : joined[s][kn] = room
    BY DEF NoStrandedSocket
  <2>1. Settled(s) => \A w \in wants[s] \ {Operations} : joined[s][w] = Target(w)
    BY SettledKept DEF Kept
  <2>2. DOMAIN joined[s] = Kinds \X Names
    BY DEF RoomsInv, TypeInv, RoomsOK
  <2> QED
    BY <2>1, <2>2 DEF RoomsInv, Mapped
<1> QED
  BY <1>1, RoomsAreKept, PTL
-----------------------------------------------------------------------------
(* Opening snapshots *)

(* A handler that reads asks for trucks, and knows what it joined at. *)
LEMMA AskingFacts ==
  ASSUME TypeInv, NEW q \in Reqs, pc[q] = "reading"
  PROVE  Asking(call[q]) \subseteq Trucks /\ call[q].since \in [Trucks -> Nat]
<1>1. CallOK(pc[q], call[q])
  BY DEF TypeInv, CallsOK
<1>2. CASE call[q].kind = "operations"
  BY <1>1, <1>2 DEF CallOK, Asking
<1>3. CASE call[q].kind # "operations"
  <2>1. /\ call[q].kind \in Kinds /\ call[q].name \in NamesOf(call[q].kind)
        /\ Named(call[q].kind, call[q].name) # Nil
    BY <1>1, <1>3 DEF CallOK
  <2>2. Shown(call[q].kind, call[q].name) \in Trucks
    BY <2>1, NameFacts
  <2> QED
    BY <1>1, <1>3, <2>2 DEF CallOK, Asking
<1> QED
  BY <1>2, <1>3

(* While no row goes back and no truck leaves the live map, what handlers  *)
(* know stays fresh.                                                       *)
LEMMA WorldFresh ==
  ASSUME TypeInv, Fresh, reset = "none", UNCHANGED <<pc, call>>, live \subseteq live',
         \A t \in Trucks : row'[t] \in Nat /\ row[t] <= row'[t] /\ row'[t] <= story'[t]
  PROVE  Fresh'
<1>1. ASSUME NEW q \in Reqs, pc[q] = "reading"
      PROVE  ReadFresh(call[q])'
  <2>1. ReadFresh(call[q]) /\ Asking(call[q]) \subseteq Trucks
          /\ call[q].since \in [Trucks -> Nat] /\ row \in [Trucks -> Nat]
    BY <1>1, AskingFacts DEF Fresh, TypeInv, WorldOK
  <2> SUFFICES ASSUME NEW t \in Asking(call[q])
               PROVE  call[q].since[t] <= row'[t] \/ (call[q].kind = "shipment" /\ t \in live')
    BY DEF ReadFresh, Asking, Shown
  <2>2. t \in Trucks /\ call[q].since[t] \in Nat /\ row[t] \in Nat
    BY <2>1
  <2>3. CASE call[q].since[t] <= row[t]
    BY <2>2, <2>3
  <2>4. CASE call[q].kind = "shipment" /\ t \in live
    BY <2>4
  <2> QED
    BY <2>1, <2>3, <2>4 DEF ReadFresh
<1>2. \A q \in Reqs : pc[q] = "answering" => AnswerFresh(call[q])'
  BY DEF Fresh, AnswerFresh
<1> QED
  BY <1>1, <1>2 DEF Fresh

(* What a handler learns disturbs no other. *)
LEMMA HandlerFresh ==
  ASSUME TypeInv, Fresh, NEW q \in Reqs, UNCHANGED world,
         \A p \in Reqs \ {q} : pc'[p] = pc[p] /\ call'[p] = call[p],
         reset = "none" => /\ pc'[q] = "reading" => ReadFresh(call'[q])
                           /\ pc'[q] = "answering" => AnswerFresh(call'[q])
  PROVE  Fresh'
<1>1. UNCHANGED <<live, story, row, reset>>
  BY DEF world
<1>2. \A p \in Reqs : ReadFresh(call'[p]) = ReadFresh(call[p])'
  BY <1>1 DEF ReadFresh, Asking, Shown
<1>3. \A p \in Reqs : AnswerFresh(call'[p]) = AnswerFresh(call[p])'
  BY DEF AnswerFresh
<1> QED
  BY <1>1, <1>2, <1>3 DEF Fresh

(* A row that is moved moves to the story. *)
LEMMA FreshWorld ==
  ASSUME TypeInv, Fresh, World
  PROVE  Fresh'
<1>0. /\ story \in [Trucks -> Nat] /\ row \in [Trucks -> Nat] /\ OnRoad \subseteq Trucks
      /\ MaxStory \in [Trucks -> Nat]
  BY RealtimeAssumption DEF TypeInv, WorldOK
<1>1. ASSUME NEW t \in Trucks, Advance(t) PROVE Fresh'
  <2>1. CASE reset # "none"
    BY <1>1, <2>1 DEF Advance, Fresh
  <2>2. CASE reset = "none"
    <3>1. \A x \in Trucks : row[x] <= story[x]
      BY <2>2 DEF Fresh
    <3>2. story' = [story EXCEPT ![t] = @ + 1] /\ row' \in {row, [row EXCEPT ![t] = story'[t]]}
            /\ UNCHANGED <<live, pc, call>>
      BY <1>1 DEF Advance
    <3>3. \A x \in Trucks : row'[x] \in Nat /\ row[x] <= row'[x] /\ row'[x] <= story'[x]
      BY <1>0, <3>1, <3>2
    <3> QED
      BY <2>2, <3>2, <3>3, WorldFresh
  <2> QED
    BY <2>1, <2>2
<1>2. ASSUME NEW t \in Trucks, FactCommits(t) PROVE Fresh'
  <2>1. CASE reset # "none"
    BY <1>2, <2>1 DEF FactCommits, Fresh
  <2>2. CASE reset = "none"
    <3>1. \A x \in Trucks : row[x] <= story[x]
      BY <2>2 DEF Fresh
    <3>2. story' = [story EXCEPT ![t] = @ + 1] /\ row' = [row EXCEPT ![t] = story'[t]]
            /\ UNCHANGED <<live, pc, call>>
      BY <1>2 DEF FactCommits
    <3>3. \A x \in Trucks : row'[x] \in Nat /\ row[x] <= row'[x] /\ row'[x] <= story'[x]
      BY <1>0, <3>1, <3>2
    <3> QED
      BY <2>2, <3>2, <3>3, WorldFresh
  <2> QED
    BY <2>1, <2>2
<1>3. ASSUME UNCHANGED <<story, row, reset, pc, call>>, live \subseteq live' PROVE Fresh'
  <2>1. CASE reset # "none"
    BY <1>3, <2>1 DEF Fresh
  <2>2. CASE reset = "none"
    <3>1. \A x \in Trucks : row'[x] \in Nat /\ row[x] <= row'[x] /\ row'[x] <= story'[x]
      BY <1>0, <1>3, <2>2 DEF Fresh
    <3> QED
      BY <1>3, <2>2, <3>1, WorldFresh
  <2> QED
    BY <2>1, <2>2
<1>4. ASSUME NEW t \in Trucks, FactAnnounced(t) PROVE Fresh'
  BY <1>3, <1>4 DEF FactAnnounced
<1>5. CASE Start
  BY <1>3, <1>5 DEF Start
<1>6. CASE ResetClears \/ ResetRewinds \/ ResetReloads
  BY <1>6 DEF ResetClears, ResetRewinds, ResetReloads, Fresh
<1> QED
  BY <1>1, <1>2, <1>4, <1>5, <1>6 DEF World

(* A truck off the live map is known by its row, which is read after.      *)
LEMMA JoinsFresh ==
  ASSUME TypeInv, Fresh, NEW q \in Reqs, Joins(q)
  PROVE  Fresh'
<1> DEFINE c == call[q]
           t == Shown(c.kind, c.name)
<1>1. /\ pc \in [Reqs -> {"idle", "looking", "found", "reading", "answering"}]
      /\ call \in [Reqs -> Calls] /\ CallOK(pc[q], c) /\ pc[q] = "found"
  BY DEF TypeInv, CallsOK, Joins
<1>2. c.kind # "operations" /\ t \in Trucks
  <2>1. c.kind \in Kinds /\ c.name \in NamesOf(c.kind) /\ Named(c.kind, c.name) # Nil
    BY <1>1 DEF CallOK
  <2> QED
    BY <2>1, NameFacts DEF Kinds
<1>3. UNCHANGED world
  BY DEF Joins
<1>4. CASE Return(q)
  BY <1>1, <1>3, <1>4, HandlerFresh DEF Return, Goto, Learn
<1>5. CASE ~Return(q)
  <2>1. /\ c.kind = "shipment" \/ t \notin live
        /\ Goto(q, "reading")
        /\ Learn(q, [c EXCEPT !.since = Current, !.answer = <<>>])
    BY <1>5 DEF Joins
  <2>2. PICK d : d = [c EXCEPT !.since = Current, !.answer = <<>>]
    OBVIOUS
  <2>3. pc'[q] = "reading" /\ call'[q] = d
        /\ \A p \in Reqs \ {q} : pc'[p] = pc[p] /\ call'[p] = call[p]
    BY <1>1, <2>1, <2>2 DEF Goto, Learn
  <2>4. d.kind = c.kind /\ d.name = c.name /\ d.since = Current
    BY <1>1, <2>2 DEF Calls
  <2>5. ReadFresh(d)
    <3>1. Asking(d) = {t}
      BY <1>2, <2>4 DEF Asking
    <3>2. t \notin live => Current[t] = row[t]
      BY <1>2 DEF Current
    <3>3. row[t] \in Nat
      BY <1>2 DEF TypeInv, WorldOK
    <3> QED
      BY <2>1, <2>4, <3>1, <3>2, <3>3 DEF ReadFresh
  <2> QED
    BY <1>3, <2>3, <2>5, HandlerFresh
<1> QED
  BY <1>4, <1>5

(* What is read is as fresh as the row. *)
LEMMA ReadsFresh ==
  ASSUME TypeInv, Fresh, NEW q \in Reqs, Reads(q)
  PROVE  Fresh'
<1> DEFINE c == call[q]
<1>1. PICK ts : ts = IF c.kind = "operations" THEN OnRoad ELSE {Shown(c.kind, c.name)}
  OBVIOUS
<1>2. PICK d : d = [c EXCEPT !.answer = [t \in ts |-> Row(t)]]
  OBVIOUS
<1>3. /\ pc[q] = "reading" /\ (c.kind = "shipment" => ts \cap live = {})
      /\ Learn(q, d) /\ Goto(q, "answering") /\ UNCHANGED world
  BY <1>1, <1>2 DEF Reads
<1>4. /\ pc \in [Reqs -> {"idle", "looking", "found", "reading", "answering"}]
      /\ call \in [Reqs -> Calls]
  BY DEF TypeInv, CallsOK
<1>5. pc'[q] = "answering" /\ call'[q] = d
      /\ \A p \in Reqs \ {q} : pc'[p] = pc[p] /\ call'[p] = call[p]
  BY <1>3, <1>4 DEF Goto, Learn
<1>6. d.since = c.since /\ d.answer = [t \in ts |-> Row(t)]
  BY <1>2, <1>4 DEF Calls
<1>7. ts \subseteq Asking(c)
  BY <1>1, RealtimeAssumption DEF Asking
<1>8. reset = "none" => AnswerFresh(d)
  <2> SUFFICES ASSUME reset = "none", NEW t \in ts
               PROVE  c.since[t] <= Row(t).story
    BY <1>6 DEF AnswerFresh
  <2>1. c.since[t] <= row[t] \/ (c.kind = "shipment" /\ t \in live)
    BY <1>3, <1>7 DEF Fresh, ReadFresh
  <2> QED
    BY <1>3, <2>1 DEF Row, Payload
<1> QED
  BY <1>3, <1>5, <1>8, HandlerFresh

(* Operations: the whole live map is there at once, or nothing is live and *)
(* every truck is known by its row.                                        *)
LEMMA SubscribeOperationsFresh ==
  ASSUME TypeInv, Fresh, NEW q \in Reqs, NEW s \in Sockets, SubscribeOperations(q, s)
  PROVE  Fresh'
<1>1. /\ pc \in [Reqs -> {"idle", "looking", "found", "reading", "answering"}]
      /\ call \in [Reqs -> Calls] /\ row \in [Trucks -> Nat]
  BY DEF TypeInv, CallsOK, WorldOK
<1>2. UNCHANGED world
  BY DEF SubscribeOperations
<1>3. CASE UNCHANGED <<pc, call>>
  BY <1>2, <1>3, HandlerFresh DEF SubscribeOperations
<1>4. CASE ~UNCHANGED <<pc, call>>
  <2>1. PICK d : d = [NoCall EXCEPT !.socket = s, !.kind = "operations", !.since = Current]
    OBVIOUS
  <2>2. live = {} /\ Goto(q, "reading") /\ Learn(q, d)
    BY <1>4, <2>1 DEF SubscribeOperations
  <2>3. pc'[q] = "reading" /\ call'[q] = d
        /\ \A p \in Reqs \ {q} : pc'[p] = pc[p] /\ call'[p] = call[p]
    BY <1>1, <2>2 DEF Goto, Learn
  <2>4. d.kind = "operations" /\ d.since = Current
    BY <2>1 DEF NoCall
  <2>5. ReadFresh(d)
    <3>1. Asking(d) = Trucks
      BY <2>4 DEF Asking
    <3>2. \A t \in Trucks : Current[t] = row[t] /\ row[t] \in Nat
      BY <1>1, <2>2 DEF Current
    <3>3. ASSUME NEW t \in Trucks PROVE Current[t] <= row[t]
      <4>1. row[t] \in Nat
        BY <1>1
      <4>2. Current[t] = row[t]
        BY <3>2
      <4> QED
        BY <4>1, <4>2
    <3>4. \A t \in Asking(d) : d.since[t] <= row[t]
      BY <2>4, <3>1, <3>3
    <3> QED
      BY <3>4 DEF ReadFresh
  <2> QED
    BY <1>2, <2>3, <2>5, HandlerFresh
<1> QED
  BY <1>3, <1>4

LEMMA FreshStep == TypeInv /\ Fresh /\ [Next]_vars => Fresh'
<1> SUFFICES ASSUME TypeInv, Fresh, [Next]_vars PROVE Fresh'
  OBVIOUS
<1>0. /\ pc \in [Reqs -> {"idle", "looking", "found", "reading", "answering"}]
      /\ call \in [Reqs -> Calls]
  BY DEF TypeInv, CallsOK
<1>1. ASSUME UNCHANGED <<world, pc, call>> PROVE Fresh'
  BY <1>1 DEF world, Fresh, ReadFresh, AnswerFresh, Asking, Shown
<1>2. ASSUME NEW q \in Reqs, UNCHANGED world, NEW step, NEW c,
             Goto(q, step), Learn(q, c), step \notin {"reading", "answering"}
      PROVE  Fresh'
  BY <1>0, <1>2, HandlerFresh DEF Goto, Learn
<1>3. ASSUME NEW q \in Reqs, Serve(q) PROVE Fresh'
  <2>1. CASE LooksUp(q)
    BY <1>2, <1>3, <2>1 DEF LooksUp, Return
  <2>2. CASE Joins(q)
    BY <2>2, JoinsFresh
  <2>3. CASE Reads(q)
    BY <2>3, ReadsFresh
  <2>4. CASE AnswersLive(q) \/ Answers(q) \/ Guard(q)
    BY <1>2, <1>3, <2>4 DEF AnswersLive, Answers, Guard, Return
  <2> QED
    BY <1>3, <2>1, <2>2, <2>3, <2>4 DEF Serve
<1>4. ASSUME NEW s \in Sockets, Client(s) PROVE Fresh'
  <2>1. CASE UnsubscribeOperations(s) \/ Handle(s)
    BY <1>1, <2>1 DEF UnsubscribeOperations, Handle
  <2>2. CASE Disconnect(s)
    BY <1>0, <2>2 DEF Disconnect, world, Fresh, ReadFresh, AnswerFresh, Asking, Shown
  <2>3. ASSUME NEW kind \in Kinds, NEW n \in NamesOf(kind), Unsubscribe(s, kind, n)
        PROVE  Fresh'
    BY <1>1, <2>3 DEF Unsubscribe
  <2>4. ASSUME NEW kind \in Kinds, NEW n \in NamesOf(kind), NEW q \in Reqs,
               Subscribe(q, s, kind, n)
        PROVE  Fresh'
    BY <1>2, <2>4 DEF Subscribe
  <2>5. ASSUME NEW q \in Reqs, SubscribeOperations(q, s) PROVE Fresh'
    BY <2>5, SubscribeOperationsFresh
  <2> QED
    BY <1>4, <2>1, <2>2, <2>3, <2>4, <2>5 DEF Client
<1>5. CASE UNCHANGED vars
  BY <1>1, <1>5 DEF vars
<1> QED
  BY <1>3, <1>4, <1>5, FreshWorld DEF Next

LEMMA FreshStart == Init => Fresh
<1> SUFFICES ASSUME Init PROVE Fresh
  OBVIOUS
<1>1. \A t \in Trucks : row[t] = 0 /\ story[t] = 0
  BY DEF Init
<1>2. \A q \in Reqs : pc[q] = "idle"
  BY DEF Init
<1> QED
  BY <1>1, <1>2 DEF Fresh

(* "The opening state must be at least as new as the room membership":     *)
(* whatever moves while a client is being answered, until a reset its      *)
(* answer is not older than what was known when it joined.                 *)
THEOREM OpeningsAreFresh == Spec => []OpeningIsFresh
<1>1. TypeInv /\ Fresh => OpeningIsFresh
  <2> SUFFICES ASSUME TypeInv, Fresh, reset = "none", NEW q \in Reqs, pc[q] = "answering",
                      NEW t \in DOMAIN call[q].answer
               PROVE  call[q].answer[t].story >= call[q].since[t]
    BY DEF OpeningIsFresh
  <2>1. call[q].since[t] <= call[q].answer[t].story
    BY DEF Fresh, AnswerFresh
  <2>2. t \in Trucks /\ call[q].answer[t] \in State
    <3>1. call[q].answer \in Told
      BY DEF TypeInv, CallsOK, Calls
    <3> QED
      BY <3>1 DEF Told
  <2>3. call[q].since \in [Trucks -> Nat]
    BY DEF TypeInv, CallsOK, CallOK
  <2> QED
    BY <2>1, <2>2, <2>3 DEF State
<1>2. Spec => []Fresh
  BY FreshStart, FreshStep, TypesAreKept, PTL DEF Spec
<1> QED
  BY <1>1, <1>2, TypesAreKept, PTL

-----------------------------------------------------------------------------
(* Leaving: a client that goes by one name                                  *)

(* A page asks for each thing by one name alone. *)
OneName == \A p \in Pages : \A v, w \in p \cap Nameable : Target(v) = Target(w) => v = w

(* A client is in no room but those it has asked for and not left. *)
InAsked == \A s \in Sockets : \A room \in rooms[s] : \E w \in wants[s] : Target(w) = room

(* What is being looked up has not been left. *)
StillAsked ==
  \A q \in Reqs : pc[q] \in {"looking", "found"} /\ Asked(call[q]) \in Nameable
                   => Asked(call[q]) \in wants[call[q].socket]

AllHonest == \A s \in Sockets : \A i \in DOMAIN wire[s] : Honest(wire[s][i])

LeaveInv == InAsked /\ StillAsked /\ AllHonest

LEMMA TellsHonest ==
  ASSUME TypeInv, AllHonest, SpeaksTruly
  PROVE  AllHonest'
<1> SUFFICES ASSUME NEW s \in Sockets, NEW i \in DOMAIN wire'[s] PROVE Honest(wire'[s][i])
  BY DEF AllHonest, Honest
<1>1. CASE wire'[s] = wire[s]
  BY <1>1 DEF AllHonest
<1>2. ASSUME NEW m \in Messages, Honest(m), wire'[s] = Append(wire[s], m)
      PROVE  Honest(wire'[s][i])
  <2>1. wire[s] \in Seq(Messages)
    BY DEF TypeInv, ClientsOK
  <2>2. CASE i \in DOMAIN wire[s]
    BY <1>2, <2>1, <2>2, AppendFacts DEF AllHonest
  <2>3. CASE i \notin DOMAIN wire[s]
    <3>1. i = Len(wire[s]) + 1
      BY <1>2, <2>1, <2>3, AppendFacts
    <3> QED
      BY <1>2, <2>1, <3>1, AppendFacts
  <2> QED
    BY <2>2, <2>3
<1> QED
  BY <1>1, <1>2 DEF SpeaksTruly

LEMMA SendTells ==
  ASSUME TypeInv, NEW s \in Sockets, NEW m \in Messages, Honest(m), Send(s, m)
  PROVE  SpeaksTruly
BY SendFacts DEF TypeInv, ClientsOK, SpeaksTruly

(* A handler goes on with what it was asked, or not at all. *)
LEMMA LeaveKept ==
  ASSUME TypeInv, LeaveInv, UNCHANGED <<rooms, wants>>, SpeaksTruly,
         \A p \in Reqs : pc'[p] \in {"looking", "found"} =>
           /\ pc[p] \in {"looking", "found"}
           /\ call'[p].socket = call[p].socket
           /\ call'[p].kind = call[p].kind /\ call'[p].name = call[p].name
  PROVE  LeaveInv'
<1>1. InAsked'
  BY DEF LeaveInv, InAsked, Target
<1>2. StillAsked'
  <2> SUFFICES ASSUME NEW q \in Reqs, pc'[q] \in {"looking", "found"},
                      Asked(call'[q]) \in Nameable
               PROVE  Asked(call'[q]) \in wants'[call'[q].socket]
    BY DEF StillAsked, Asked
  <2>1. Asked(call'[q]) = Asked(call[q])
    BY DEF Asked
  <2> QED
    BY <2>1 DEF LeaveInv, StillAsked
<1> QED
  BY <1>1, <1>2, TellsHonest DEF LeaveInv

LEMMA LeaveServed ==
  ASSUME RoomsInv, LeaveInv, ~MayFail, NEW q \in Reqs, Serve(q), ~Joins(q)
  PROVE  LeaveInv'
<1>0. TypeInv /\ ~Guard(q) /\ UNCHANGED <<rooms, wants>>
  BY DEF RoomsInv, Serve, Guard, LooksUp, AnswersLive, Reads, Answers, clients
<1>1. CASE LooksUp(q)
  <2> DEFINE c == call[q]
  <2>1. pc[q] = "looking"
    BY <1>1 DEF LooksUp
  <2>2. /\ c \in Calls /\ c.socket \in Sockets /\ c.kind \in Kinds
        /\ c.name \in NamesOf(c.kind) /\ c.kind # "operations"
        /\ <<c.kind, c.name>> \in {Nil, Operations} \cup (Kinds \X Names)
    BY <1>0, <2>1, UnderWay DEF TypeInv, Asked
  <2>3. CASE Named(c.kind, c.name) = Nil
    <3> DEFINE m == Message("refused", <<c.kind, c.name>>, <<>>)
    <3>1. Send(c.socket, m) /\ Return(q)
      BY <1>1, <2>3 DEF LooksUp
    <3>2. m \in Messages /\ m.what = <<c.kind, c.name>>
      BY <2>2, EmptyTold, MessageFacts
    <3>3. <<c.kind, c.name>> \notin {Operations} \cup Nameable
      BY <2>2, <2>3 DEF Nameable, Operations, Kinds
    <3> HIDE DEF m
    <3>4. SpeaksTruly
      BY <1>0, <2>2, <3>1, <3>2, <3>3, SendTells DEF Honest
    <3>5. pc'[q] = "idle" /\ \A p \in Reqs \ {q} : pc'[p] = pc[p] /\ call'[p] = call[p]
      BY <1>0, <3>1, OneCallChanges DEF Return
    <3> QED
      BY <1>0, <3>4, <3>5, LeaveKept
  <2>4. CASE Named(c.kind, c.name) # Nil
    <3> DEFINE a == [t \in {Shown(c.kind, c.name)} |-> IF t \in live THEN Live(t) ELSE Row(t)]
               e == [c EXCEPT !.answer = a]
    <3>1. Learn(q, e) /\ Goto(q, "found") /\ UNCHANGED wire
      BY <1>1, <2>4 DEF LooksUp
    <3>2. e.socket = c.socket /\ e.kind = c.kind /\ e.name = c.name
      BY <2>2 DEF Calls
    <3> HIDE DEF e, a
    <3>3. /\ pc'[q] = "found" /\ call'[q] = e
          /\ \A p \in Reqs \ {q} : pc'[p] = pc[p] /\ call'[p] = call[p]
      BY <1>0, <3>1, OneCallChanges
    <3> QED
      BY <1>0, <2>1, <3>1, <3>2, <3>3, LeaveKept DEF SpeaksTruly
  <2> QED
    BY <2>3, <2>4
<1>2. CASE AnswersLive(q) \/ Reads(q) \/ Answers(q)
  <2>1. PICK step, c : Goto(q, step) /\ Learn(q, c) /\ step \notin {"looking", "found"}
    BY <1>2 DEF AnswersLive, Reads, Answers, Return
  <2>2. pc'[q] = step /\ \A p \in Reqs \ {q} : pc'[p] = pc[p] /\ call'[p] = call[p]
    BY <1>0, <2>1, OneCallChanges
  <2>3. SpeaksTruly
    <3>1. CASE Reads(q)
      BY <3>1 DEF Reads, clients, SpeaksTruly
    <3>2. CASE AnswersLive(q) \/ Answers(q)
      <4>1. pc[q] # "idle"
        BY <3>2 DEF AnswersLive, Answers
      <4>2. /\ call[q].socket \in Sockets /\ call[q].answer \in Told
            /\ Asked(call[q]) \in {Nil, Operations} \cup (Kinds \X Names)
        BY <1>0, <4>1, UnderWay DEF TypeInv
      <4>3. PICK f \in Told : Send(call[q].socket, Message("snapshot", Asked(call[q]), f))
        <5>1. CASE Answers(q)
          BY <4>2, <5>1 DEF Answers
        <5>2. CASE AnswersLive(q)
          <6> DEFINE t == Shown("shipment", call[q].name)
          <6>1. /\ t \in live
                /\ Send(call[q].socket,
                        Message("snapshot", Asked(call[q]), [x \in {t} |-> Live(x)]))
            BY <5>2 DEF AnswersLive
          <6>2. {t} \in SUBSET Trucks
            BY <1>0, <6>1 DEF TypeInv, WorldOK
          <6>3. [x \in {t} |-> Live(x)] \in Told
            BY <1>0, <6>2, LiveTold DEF TypeInv
          <6> QED
            BY <6>1, <6>3
        <5> QED
          BY <3>2, <5>1, <5>2
      <4>4. /\ Message("snapshot", Asked(call[q]), f) \in Messages
            /\ Honest(Message("snapshot", Asked(call[q]), f))
        BY <4>2, MessageFacts DEF Honest
      <4> QED
        BY <1>0, <4>2, <4>3, <4>4, SendTells
    <3> QED
      BY <1>2, <3>1, <3>2
  <2> QED
    BY <1>0, <2>1, <2>2, <2>3, LeaveKept
<1> QED
  BY <1>0, <1>1, <1>2 DEF Serve

LEMMA LeaveJoins ==
  ASSUME RoomsInv, LeaveInv, NEW q \in Reqs, Joins(q)
  PROVE  LeaveInv'
<1>1. PICK s, kind, n : s = call[q].socket /\ kind = call[q].kind /\ n = call[q].name
  OBVIOUS
<1> DEFINE room == RoomOf(kind, Named(kind, n))
           a    == <<kind, n>>
           m    == Message("snapshot", Asked(call[q]), [x \in {Shown(kind, n)} |-> Live(x)])
           e    == [call[q] EXCEPT !.since = Current, !.answer = <<>>]
<1>2. /\ pc[q] = "found" /\ Join(s, kind, n) /\ UNCHANGED wants
      /\ \/ Send(s, m) /\ Return(q)
         \/ Goto(q, "reading") /\ Learn(q, e) /\ UNCHANGED wire
  BY <1>1 DEF Joins
<1>3. /\ s \in Sockets /\ kind \in Kinds /\ n \in NamesOf(kind) /\ kind # "operations"
      /\ Named(kind, n) # Nil
      /\ Asked(call[q]) \in {Nil, Operations} \cup (Kinds \X Names)
  BY <1>1, <1>2, UnderWay DEF RoomsInv, TypeInv
<1>4. Asked(call[q]) = a
  BY <1>1, <1>3 DEF Asked
<1>5. a \in Nameable /\ Target(a) = room /\ Shown(kind, n) \in Trucks
  BY <1>3, NameFacts
<1>6. m \in Messages /\ Honest(m)
  <2>1. {Shown(kind, n)} \in SUBSET Trucks
    BY <1>5
  <2>2. [x \in {Shown(kind, n)} |-> Live(x)] \in Told
    BY <2>1, LiveTold DEF RoomsInv, TypeInv
  <2> QED
    BY <1>3, <2>2, MessageFacts DEF Honest
<1> HIDE DEF m, e
<1>7. /\ SpeaksTruly /\ pc'[q] \notin {"looking", "found"}
      /\ \A p \in Reqs \ {q} : pc'[p] = pc[p] /\ call'[p] = call[p]
  <2>1. CASE Send(s, m) /\ Return(q)
    BY <1>3, <1>6, <2>1, SendTells, OneCallChanges DEF RoomsInv, Return
  <2>2. CASE Goto(q, "reading") /\ Learn(q, e) /\ UNCHANGED wire
    BY <2>2, OneCallChanges DEF RoomsInv, SpeaksTruly
  <2> QED
    BY <1>2, <2>1, <2>2
<1>8. /\ rooms'[s] = rooms[s] \cup {room}
      /\ \A r \in Sockets \ {s} : rooms'[r] = rooms[r]
  BY <1>2, <1>3, JoinFacts DEF RoomsInv, TypeInv
<1>9. a \in wants[s]
  BY <1>1, <1>2, <1>4, <1>5 DEF LeaveInv, StillAsked
<1> HIDE DEF a, room
<1>10. InAsked'
  BY <1>2, <1>5, <1>8, <1>9 DEF LeaveInv, InAsked, Target
<1>11. StillAsked'
  BY <1>2, <1>7 DEF LeaveInv, StillAsked, Asked
<1> QED
  BY <1>7, <1>10, <1>11, TellsHonest DEF LeaveInv, RoomsInv

LEMMA LeaveAsks ==
  ASSUME RoomsInv, LeaveInv, NEW s \in Sockets, NEW q \in Reqs
  PROVE  /\ SubscribeOperations(q, s) => LeaveInv'
         /\ \A kind \in Kinds : \A n \in NamesOf(kind) : Subscribe(q, s, kind, n) => LeaveInv'
<1>1. ASSUME SubscribeOperations(q, s) PROVE LeaveInv'
  <2> DEFINE c == [NoCall EXCEPT !.socket = s, !.kind = "operations", !.since = Current]
             m == Message("snapshot", Operations, [t \in live |-> Live(t)])
  <2>1. /\ pc[q] = "idle"
        /\ wants' = [wants EXCEPT ![s] = @ \cup {Operations}]
        /\ rooms' = [rooms EXCEPT ![s] = @ \cup {Operations}]
        /\ \/ Send(s, m) /\ UNCHANGED <<pc, call>>
           \/ Goto(q, "reading") /\ Learn(q, c) /\ UNCHANGED wire
    BY <1>1 DEF SubscribeOperations
  <2>2. m \in Messages /\ Honest(m)
    BY LiveTold, MessageFacts DEF RoomsInv, TypeInv, WorldOK, Honest
  <2> HIDE DEF m, c
  <2>3. /\ SpeaksTruly /\ pc'[q] \notin {"looking", "found"}
        /\ \A p \in Reqs \ {q} : pc'[p] = pc[p] /\ call'[p] = call[p]
    <3>1. CASE Send(s, m) /\ UNCHANGED <<pc, call>>
      BY <2>1, <2>2, <3>1, SendTells DEF RoomsInv
    <3>2. CASE Goto(q, "reading") /\ Learn(q, c) /\ UNCHANGED wire
      BY <3>2, OneCallChanges DEF RoomsInv, SpeaksTruly
    <3> QED
      BY <2>1, <3>1, <3>2
  <2>4. /\ rooms'[s] = rooms[s] \cup {Operations} /\ wants'[s] = wants[s] \cup {Operations}
        /\ \A r \in Sockets \ {s} : rooms'[r] = rooms[r] /\ wants'[r] = wants[r]
    BY <2>1 DEF RoomsInv, TypeInv, RoomsOK, ClientsOK
  <2>5. InAsked'
    <3>1. Target(Operations) = Operations
      BY DEF Target
    <3> QED
      BY <2>4, <3>1 DEF LeaveInv, InAsked, Target
  <2>6. StillAsked'
    <3> SUFFICES ASSUME NEW p \in Reqs, pc'[p] \in {"looking", "found"},
                        Asked(call'[p]) \in Nameable
                 PROVE  Asked(call'[p]) \in wants'[call'[p].socket]
      BY DEF StillAsked, Asked
    <3>1. p # q /\ pc'[p] = pc[p] /\ call'[p] = call[p]
      BY <2>3
    <3>2. Asked(call[p]) \in wants[call[p].socket]
      BY <3>1 DEF LeaveInv, StillAsked
    <3>3. call[p].socket \in Sockets
      BY <3>1, UnderWay DEF RoomsInv, TypeInv
    <3> QED
      BY <2>4, <3>1, <3>2, <3>3
  <2> QED
    BY <2>3, <2>5, <2>6, TellsHonest DEF LeaveInv, RoomsInv
<1>2. ASSUME NEW kind \in Kinds, NEW n \in NamesOf(kind), Subscribe(q, s, kind, n)
      PROVE  LeaveInv'
  <2> DEFINE c == [NoCall EXCEPT !.socket = s, !.kind = kind, !.name = n]
  <2>1. /\ IF Named(kind, n) = Nil THEN UNCHANGED wants
           ELSE wants' = [wants EXCEPT ![s] = @ \cup {<<kind, n>>}]
        /\ Goto(q, "looking") /\ Learn(q, c) /\ UNCHANGED <<rooms, wire>>
    BY <1>2 DEF Subscribe
  <2>2. c.socket = s /\ Asked(c) = <<kind, n>>
    BY DEF NoCall, Asked, Kinds
  <2> HIDE DEF c
  <2>3. /\ \A p \in Reqs \ {q} : pc'[p] = pc[p] /\ call'[p] = call[p]
        /\ pc'[q] = "looking" /\ call'[q] = c
    BY <2>1, OneCallChanges DEF RoomsInv
  <2>4. /\ \A r \in Sockets : wants[r] \subseteq wants'[r]
        /\ Named(kind, n) # Nil => <<kind, n>> \in wants'[s]
    BY <2>1 DEF RoomsInv, TypeInv, ClientsOK
  <2>5. InAsked'
    BY <2>1, <2>4 DEF LeaveInv, InAsked, Target
  <2>6. StillAsked'
    <3> SUFFICES ASSUME NEW p \in Reqs, pc'[p] \in {"looking", "found"},
                        Asked(call'[p]) \in Nameable
                 PROVE  Asked(call'[p]) \in wants'[call'[p].socket]
      BY DEF StillAsked, Asked
    <3>1. CASE p = q
      BY <2>2, <2>3, <2>4, <3>1 DEF Nameable
    <3>2. CASE p # q
      <4>1. pc'[p] = pc[p] /\ call'[p] = call[p]
        BY <2>3, <3>2
      <4>2. Asked(call[p]) \in wants[call[p].socket]
        BY <4>1 DEF LeaveInv, StillAsked
      <4>3. call[p].socket \in Sockets
        BY <4>1, UnderWay DEF RoomsInv, TypeInv
      <4> QED
        BY <2>4, <4>1, <4>2, <4>3
    <3> QED
      BY <3>1, <3>2
  <2>7. AllHonest'
    BY <2>1 DEF LeaveInv, AllHonest, Honest
  <2> QED
    BY <2>5, <2>6, <2>7 DEF LeaveInv
<1> QED
  BY <1>1, <1>2

(* A patient client leaves when nothing of what it asked is under way; by  *)
(* the one name it goes by, it finds the room.                             *)
LEMMA LeaveLeaves ==
  ASSUME RoomsInv, LeaveInv, Patient, OneName, NEW s \in Sockets
  PROVE  /\ UnsubscribeOperations(s) => LeaveInv'
         /\ \A kind \in Kinds : \A n \in NamesOf(kind) : Unsubscribe(s, kind, n) => LeaveInv'
<1>1. ASSUME Settled(s), UNCHANGED <<pc, call>>, SpeaksTruly,
             \A r \in Sockets \ {s} : rooms'[r] = rooms[r] /\ wants'[r] = wants[r],
             \A room \in rooms'[s] : \E w \in wants'[s] : Target(w) = room
      PROVE  LeaveInv'
  <2>1. InAsked'
    BY <1>1 DEF LeaveInv, InAsked, Target
  <2>2. StillAsked'
    <3> SUFFICES ASSUME NEW p \in Reqs, pc[p] \in {"looking", "found"},
                        Asked(call[p]) \in Nameable
                 PROVE  Asked(call[p]) \in wants'[call[p].socket]
      BY <1>1 DEF StillAsked, Asked
    <3>1. call[p].socket \in Sockets \ {s}
      BY <1>1, UnderWay DEF Settled, RoomsInv, TypeInv
    <3> QED
      BY <1>1, <3>1 DEF LeaveInv, StillAsked
  <2> QED
    BY <1>1, <2>1, <2>2, TellsHonest DEF LeaveInv, RoomsInv
<1>2. ASSUME UnsubscribeOperations(s) PROVE LeaveInv'
  <2> DEFINE m == Message("left", Operations, <<>>)
  <2>1. /\ Settled(s) /\ Send(s, m) /\ UNCHANGED <<pc, call>>
        /\ rooms' = [rooms EXCEPT ![s] = @ \ {Operations}]
        /\ wants' = [wants EXCEPT ![s] = @ \ {Operations}]
    BY <1>2 DEF UnsubscribeOperations, Asks
  <2>2. m \in Messages /\ Honest(m)
    BY EmptyTold, MessageFacts DEF Honest
  <2> HIDE DEF m
  <2>3. SpeaksTruly
    BY <2>1, <2>2, SendTells DEF RoomsInv
  <2>4. /\ rooms'[s] = rooms[s] \ {Operations} /\ wants'[s] = wants[s] \ {Operations}
        /\ \A r \in Sockets \ {s} : rooms'[r] = rooms[r] /\ wants'[r] = wants[r]
    BY <2>1 DEF RoomsInv, TypeInv, RoomsOK, ClientsOK
  <2>5. Target(Operations) = Operations
    BY DEF Target
  <2>6. \A room \in rooms'[s] : \E w \in wants'[s] : Target(w) = room
    BY <2>4, <2>5 DEF LeaveInv, InAsked
  <2> QED
    BY <1>1, <2>1, <2>3, <2>4, <2>6
<1>3. ASSUME NEW kind \in Kinds, NEW n \in NamesOf(kind), Unsubscribe(s, kind, n)
      PROVE  LeaveInv'
  <2>1. PICK gone : gone = IF joined[s][<<kind, n>>] = Nil THEN RoomOf(kind, n)
                           ELSE joined[s][<<kind, n>>]
    OBVIOUS
  <2> DEFINE a == <<kind, n>>
             m == Message("left", a, <<>>)
  <2>2. /\ Settled(s) /\ Send(s, m) /\ UNCHANGED <<pc, call>>
        /\ rooms' = [rooms EXCEPT ![s] = @ \ {gone}]
        /\ wants' = [wants EXCEPT ![s] = {w \in @ : Target(w) # Target(a)}]
        /\ a \in page[s] /\ Named(kind, n) # Nil
    BY <1>3, <2>1 DEF Unsubscribe, Asks
  <2>3. a \in Nameable /\ a \in Kinds \X Names /\ Target(a) # Operations
    BY <2>2, NameFacts
  <2>4. m \in Messages /\ Honest(m)
    BY <2>3, EmptyTold, MessageFacts DEF Honest
  <2> HIDE DEF m
  <2>5. SpeaksTruly
    BY <2>2, <2>4, SendTells DEF RoomsInv
  <2>6. /\ rooms'[s] = rooms[s] \ {gone}
        /\ wants'[s] = {w \in wants[s] : Target(w) # Target(a)}
        /\ \A r \in Sockets \ {s} : rooms'[r] = rooms[r] /\ wants'[r] = wants[r]
    BY <2>2 DEF RoomsInv, TypeInv, RoomsOK, ClientsOK
  <2>7. ASSUME NEW w \in wants[s], Target(w) = Target(a) PROVE gone = Target(w)
    <3>1. w \in Nameable /\ w \in page[s] /\ page[s] \in Pages
      <4>1. Target(Operations) = Operations
        BY DEF Target
      <4> QED
        BY <2>3, <2>7, <4>1 DEF RoomsInv, TypeInv, ClientsOK
    <3>2. w = a
      BY <2>2, <2>3, <2>7, <3>1 DEF OneName
    <3>3. joined[s][a] = Target(a)
      BY <2>2, <2>3, <3>1, <3>2, SettledKept, NameableFacts DEF Kept
    <3>4. Target(a) # Nil
      BY <2>3, NameableFacts, RealtimeAssumption
    <3> QED
      BY <2>1, <2>7, <3>3, <3>4
  <2>8. \A room \in rooms'[s] : \E w \in wants'[s] : Target(w) = room
    BY <2>6, <2>7 DEF LeaveInv, InAsked
  <2> QED
    BY <1>1, <2>2, <2>5, <2>6, <2>8
<1> QED
  BY <1>2, <1>3

LEMMA LeaveDrops ==
  ASSUME RoomsInv, LeaveInv, NEW s \in Sockets, Disconnect(s) \/ Handle(s)
  PROVE  LeaveInv'
<1>1. CASE Disconnect(s)
  <2>1. /\ rooms' = [rooms EXCEPT ![s] = {}] /\ wants' = [wants EXCEPT ![s] = {}]
        /\ wire' = [wire EXCEPT ![s] = <<>>]
        /\ pc' = [q \in Reqs |-> IF call[q].socket = s THEN "idle" ELSE pc[q]]
        /\ call' = [q \in Reqs |-> IF call[q].socket = s THEN NoCall ELSE call[q]]
    BY <1>1 DEF Disconnect
  <2>2. /\ rooms'[s] = {} /\ wire'[s] = <<>>
        /\ \A r \in Sockets \ {s} : /\ rooms'[r] = rooms[r] /\ wants'[r] = wants[r]
                                    /\ wire'[r] = wire[r]
    BY <2>1 DEF RoomsInv, TypeInv, RoomsOK, ClientsOK
  <2>3. InAsked'
    BY <2>2 DEF LeaveInv, InAsked, Target
  <2>4. AllHonest'
    BY <2>2, EmptyTold DEF LeaveInv, AllHonest, Honest
  <2>5. StillAsked'
    <3> SUFFICES ASSUME NEW p \in Reqs, pc'[p] \in {"looking", "found"},
                        Asked(call'[p]) \in Nameable
                 PROVE  Asked(call'[p]) \in wants'[call'[p].socket]
      BY DEF StillAsked, Asked
    <3>1. call[p].socket # s /\ pc'[p] = pc[p] /\ call'[p] = call[p]
      BY <2>1
    <3>2. call[p].socket \in Sockets
      BY <3>1, UnderWay DEF RoomsInv, TypeInv
    <3> QED
      BY <2>2, <3>1, <3>2 DEF LeaveInv, StillAsked
  <2> QED
    BY <2>3, <2>4, <2>5 DEF LeaveInv
<1>2. CASE Handle(s)
  <2> DEFINE m == Head(wire[s])
  <2>1. /\ wire[s] # <<>> /\ wire' = [wire EXCEPT ![s] = Tail(@)]
        /\ wants' = [wants EXCEPT ![s] = IF m.type = "refused" THEN @ \ {m.what} ELSE @]
        /\ UNCHANGED <<rooms, pc, call>>
    BY <1>2 DEF Handle
  <2>2. /\ DOMAIN wire[s] = 1 .. Len(wire[s]) /\ Len(wire[s]) \in Nat \ {0}
        /\ m = wire[s][1] /\ DOMAIN Tail(wire[s]) = 1 .. (Len(wire[s]) - 1)
        /\ \A i \in 1 .. (Len(wire[s]) - 1) : Tail(wire[s])[i] = wire[s][i + 1]
    <3>1. wire[s] \in Seq(Messages) /\ Len(wire[s]) \in Nat \ {0}
      BY <2>1, EmptySeq DEF RoomsInv, TypeInv, ClientsOK
    <3>2. Tail(wire[s]) \in Seq(Messages) /\ Len(Tail(wire[s])) = Len(wire[s]) - 1
      BY <2>1, <3>1, HeadTailProperties
    <3>3. /\ Head(wire[s]) = wire[s][1]
          /\ \A i \in 1 .. Len(Tail(wire[s])) : Tail(wire[s])[i] = wire[s][i + 1]
      BY <2>1, <3>1, HeadTailProperties
    <3>4. /\ DOMAIN wire[s] = 1 .. Len(wire[s])
          /\ DOMAIN Tail(wire[s]) = 1 .. Len(Tail(wire[s]))
      BY <3>1, <3>2, LenProperties
    <3> QED
      BY <3>1, <3>2, <3>3, <3>4
  <2>3. Honest(m) /\ wants[s] \subseteq {Operations} \cup Nameable
    BY <2>2 DEF LeaveInv, AllHonest, RoomsInv, TypeInv, ClientsOK
  <2> HIDE DEF m
  <2>4. \A r \in Sockets : wants'[r] = wants[r]
    BY <2>1, <2>3 DEF Honest, RoomsInv, TypeInv, ClientsOK
  <2>5. wants' = wants
    BY <2>1, <2>4 DEF RoomsInv, TypeInv, ClientsOK
  <2>6. InAsked' /\ StillAsked'
    BY <2>1, <2>5 DEF LeaveInv, InAsked, StillAsked, Target, Asked
  <2>7. AllHonest'
    <3> SUFFICES ASSUME NEW r \in Sockets, NEW i \in DOMAIN wire'[r] PROVE Honest(wire'[r][i])
      BY DEF AllHonest, Honest
    <3>1. /\ wire'[s] = Tail(wire[s])
          /\ \A x \in Sockets \ {s} : wire'[x] = wire[x]
      BY <2>1 DEF RoomsInv, TypeInv, ClientsOK
    <3>2. CASE r # s
      BY <3>1, <3>2 DEF LeaveInv, AllHonest
    <3>3. CASE r = s
      <4>1. i \in 1 .. (Len(wire[s]) - 1) /\ wire'[s][i] = wire[s][i + 1]
        BY <2>2, <3>1, <3>3
      <4>2. i + 1 \in DOMAIN wire[s]
        BY <2>2, <4>1
      <4> QED
        BY <3>3, <4>1, <4>2 DEF LeaveInv, AllHonest
    <3> QED
      BY <3>2, <3>3
  <2> QED
    BY <2>6, <2>7 DEF LeaveInv
<1> QED
  BY <1>1, <1>2

LEMMA LeaveStep ==
  ASSUME RoomsInv, LeaveInv, Patient, ~MayFail, OneName, [Next]_vars
  PROVE  LeaveInv'
<1>1. CASE World
  BY <1>1, WorldLonger, LeaveKept DEF RoomsInv
<1>2. ASSUME NEW q \in Reqs, Serve(q) PROVE LeaveInv'
  BY <1>2, LeaveServed, LeaveJoins
<1>3. ASSUME NEW s \in Sockets, Client(s) PROVE LeaveInv'
  BY <1>3, LeaveAsks, LeaveLeaves, LeaveDrops DEF Client
<1>4. CASE UNCHANGED vars
  BY <1>4 DEF vars, clients, LeaveInv, InAsked, StillAsked, AllHonest, Honest, Target, Asked
<1> QED
  BY <1>1, <1>2, <1>3, <1>4 DEF Next

LEMMA LeaveStart == Init => LeaveInv
<1> SUFFICES ASSUME Init PROVE LeaveInv
  OBVIOUS
<1>1. \A s \in Sockets : rooms[s] = {} /\ wire[s] = <<>>
  BY DEF Init
<1>2. \A q \in Reqs : pc[q] = "idle"
  BY DEF Init
<1> QED
  BY <1>1, <1>2, EmptyTold DEF LeaveInv, InAsked, StillAsked, AllHonest

(* "So a truck joined by cuid can still be left by reference" does not     *)
(* hold; leaving by the name it joined by does: a client that goes by one  *)
(* name for each thing, and waits for an answer before it asks again, is   *)
(* in no room it has left, as long as no lookup fails after it has joined. *)
THEOREM LeavingLeaves ==
  ASSUME Patient, ~MayFail, OneName
  PROVE  Spec => []LeftIsLeft
<1>1. LeaveInv => LeftIsLeft
  BY DEF LeaveInv, InAsked, LeftIsLeft
<1>2. RoomsInv /\ LeaveInv /\ [Next]_vars => LeaveInv'
  BY LeaveStep
<1> QED
  BY <1>1, <1>2, LeaveStart, RoomsAreKept, PTL DEF Spec
=============================================================================
