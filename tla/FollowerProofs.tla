--------------------------- MODULE FollowerProofs ---------------------------
(***************************************************************************)
(* That a dashboard misses nothing, for any trucks, shipments, names and   *)
(* clients: the events it was not sent, and those it drops, are made up    *)
(* for by the snapshot it gets or by what it forgets.                      *)
(***************************************************************************)
EXTENDS RealtimeProofs

(* A client that asks for the next thing once it has handled what it was   *)
(* told, and has one subscription under way at most.  No truck is one the  *)
(* engine follows and one whose facts go past it.                          *)
Attentive ==
  /\ Patient \/ (MaxWire = 1 /\ \A p, q \in Reqs : p = q)
  /\ OnRoad \cap Reported = {}

-----------------------------------------------------------------------------
(* The engine and the handlers *)

(* The last event of a truck on the road says what it is, but while it is  *)
(* rewound: then its row does.                                             *)
EngineInv ==
  /\ live \in {{}, OnRoad}
  /\ reset \in {"cleared", "rewound"} => live = {}
  /\ \A t \in Trucks : said[t].number = last[t] /\ (facts[t] # 0 => t \notin OnRoad)
  /\ \A t \in OnRoad : IF reset = "rewound" THEN row[t] = story[t] ELSE said[t].story = story[t]

OneAtATime ==
  \A p, q \in Reqs :
    pc[p] # "idle" /\ pc[q] # "idle" /\ call[p].socket = call[q].socket => p = q

(* The trucks a handler's answer will tell of. *)
AskingFor(c) == IF c.kind = "operations" THEN OnRoad
                ELSE {t \in Trucks : Named(c.kind, c.name) # Nil /\ Shown(c.kind, c.name) = t}

AnswerInv ==
  \A q \in Reqs : pc[q] = "answering" =>
    /\ DOMAIN call[q].answer = AskingFor(call[q])
    /\ \A t \in DOMAIN call[q].answer : call[q].answer[t].number = 0

-----------------------------------------------------------------------------
(* Messages and views *)

Says(m, t) == t \in DOMAIN m.states
Clears(m)  == m.type \in {"left", "refused"}

(* No number is above the truck's last. *)
Numbered(m) == /\ Clears(m) => DOMAIN m.states = {}
               /\ \A t \in DOMAIN m.states : m.states[t].number <= last[t]

NumbersInv ==
  \A s \in Sockets :
    /\ \A i \in DOMAIN wire[s] : Numbered(wire[s][i])
    /\ \A t \in Trucks : view[s][t] # Nil => view[s][t].number <= last[t]

Final(s, i, t) == \A j \in DOMAIN wire[s] : j > i => ~Says(wire[s][j], t)
Quiet(s, t)    == \A j \in DOMAIN wire[s] : ~Says(wire[s][j], t)

(* What a client has asked for, less what it is about to be refused. *)
Stays(s) == {w \in wants[s] : ~Refused(s, w)}

(* When all is handled, client s will hold nothing of truck t or a row's   *)
(* state, by what it is told last ...                                      *)
Opens(s, t) ==
  \/ \E i \in DOMAIN wire[s] : /\ wire[s][i].type = "snapshot" /\ Says(wire[s][i], t)
                               /\ wire[s][i].states[t].number = 0 /\ Final(s, i, t)
  \/ Quiet(s, t) /\ (view[s][t] = Nil \/ view[s][t].number = 0)

(* ... or because it forgets the truck, ... *)
Forgets(s, t) ==
  /\ ~Follows(Stays(s), t)
  /\ \E i \in DOMAIN wire[s] : /\ Clears(wire[s][i]) /\ Final(s, i, t)
                               /\ \A j \in DOMAIN wire[s] : j > i => wire[s][j].type # "refused"

(* ... or the truck's last event, ... *)
Tells(s, t) ==
  \/ \E i \in DOMAIN wire[s] : /\ Says(wire[s][i], t) /\ wire[s][i].states[t] = said[t]
                               /\ Final(s, i, t)
  \/ Quiet(s, t) /\ view[s][t] = said[t]

(* ... or a subscription under way, the only one it follows the truck by,  *)
(* will tell it or be refused.                                             *)
Awaits(s, t) ==
  \E q \in Reqs : /\ pc[q] # "idle" /\ call[q].socket = s /\ t \in AskingFor(call[q])
                  /\ ~Follows(Stays(s) \ {Asked(call[q])}, t)

InRoom(s, t) == rooms[s] \cap RoomsFor(t) # {}

(* Who is in a room of the truck will hold its last event.  Who is not may *)
(* be left with an old one by an answer that crossed its leaving, but of   *)
(* trucks on the road only, which every snapshot of the dashboard tells.   *)
UpToDate(s, t) ==
  \/ Opens(s, t) \/ Forgets(s, t) \/ Awaits(s, t)
  \/ InRoom(s, t) /\ Tells(s, t)
  \/ ~InRoom(s, t) /\ t \in OnRoad /\ ~Follows(Stays(s), t)

FollowInv == \A s \in Sockets, t \in Trucks : t \in OnRoad \/ reset = "none" => UpToDate(s, t)

FollowerInv == EngineInv /\ OneAtATime /\ AnswerInv /\ NumbersInv /\ FollowInv
-----------------------------------------------------------------------------
(* Rooms and wishes *)

LEMMA FollowsName ==
  ASSUME NEW t \in Trucks, NEW w \in Nameable
  PROVE  Target(w) \in RoomsFor(t) <=> Shown(w[1], w[2]) = t
<1> DEFINE kind == w[1]
           n    == w[2]
<1>1. /\ kind \in Kinds /\ n \in NamesOf(kind) /\ Named(kind, n) # Nil
      /\ Target(w) = RoomOf(kind, Named(kind, n))
  BY NameableFacts
<1>2. CASE kind = "truck"
  <2>1. Target(w) = <<"truck", TruckOf[n]>> /\ Shown(kind, n) = TruckOf[n]
    BY <1>1, <1>2 DEF RoomOf, Named, Shown, truckRoom
  <2> QED
    BY <2>1 DEF RoomsFor, Operations, truckRoom, shipmentRoom
<1>3. CASE kind = "shipment"
  <2>1. Target(w) = <<"shipment", ShipmentOf[n]>> /\ Shown(kind, n) = Carrier[ShipmentOf[n]]
    BY <1>1, <1>3 DEF RoomOf, Named, Shown, shipmentRoom, Kinds
  <2>2. ShipmentOf[n] \in Shipments
    BY <1>1, <1>3, RealtimeAssumption DEF NamesOf, Named
  <2> QED
    BY <2>1, <2>2 DEF RoomsFor, Operations, truckRoom, shipmentRoom
<1> QED
  BY <1>1, <1>2, <1>3 DEF Kinds

LEMMA FollowsFacts ==
  ASSUME NEW W, NEW t
  PROVE  /\ Follows(W, t) <=> \E w \in W : Target(w) \in RoomsFor(t)
         /\ \A V : V \subseteq W /\ Follows(V, t) => Follows(W, t)
BY DEF Follows

LEMMA OperationsFollow ==
  ASSUME NEW t
  PROVE  Target(Operations) = Operations /\ Operations \in RoomsFor(t)
BY DEF Target, RoomsFor

(* Who follows a truck without being in a room of it has a subscription    *)
(* under way: so it is after any step.                                     *)
LEMMA OutOfRoom ==
  ASSUME RoomsInv', NEW s \in Sockets, NEW t, ~InRoom(s, t)', NEW w \in Stays(s)',
         Target(w) \in RoomsFor(t)
  PROVE  Pending(s, w)'
<1>1. w \in wants'[s] /\ ~Refused(s, w)'
  BY DEF Stays
<1>2. Kept(s, w)' \/ Pending(s, w)' \/ Refused(s, w)'
  BY <1>1 DEF RoomsInv, Pledged
<1>3. Kept(s, w)' => Target(w) \in rooms'[s]
  BY DEF Kept, Target
<1>4. rooms'[s] \cap RoomsFor(t) = {}
  BY DEF InRoom, RoomsFor
<1> QED
  BY <1>1, <1>2, <1>3, <1>4

(* What a handler is asked for, and the trucks it will tell of. *)
LEMMA AskingForFacts ==
  ASSUME TypeInv, NEW q \in Reqs, pc[q] # "idle", NEW t \in Trucks
  PROVE  /\ pc[q] # "looking" => (t \in AskingFor(call[q]) <=>
              IF call[q].kind = "operations" THEN t \in OnRoad
              ELSE Shown(call[q].kind, call[q].name) = t)
         /\ Asked(call[q]) \in Nameable /\ Target(Asked(call[q])) \in RoomsFor(t) =>
              t \in AskingFor(call[q])
         /\ pc[q] \in {"looking", "found"} => Asked(call[q]) # Operations
<1> DEFINE c == call[q]
<1>1. \/ c.kind = "operations" /\ pc[q] \in {"reading", "answering"}
      \/ /\ c.kind \in Kinds /\ c.name \in NamesOf(c.kind) /\ c.kind # "operations"
         /\ pc[q] # "looking" => Named(c.kind, c.name) # Nil
  BY UnderWay DEF TypeInv
<1>2. CASE c.kind = "operations"
  <2>1. Asked(c) = Operations
    BY <1>2 DEF Asked
  <2>2. Asked(c) \notin Nameable
    BY <2>1, NameableFacts
  <2> QED
    BY <1>1, <1>2, <2>2 DEF AskingFor
<1>3. CASE c.kind # "operations"
  <2>1. Asked(c) = <<c.kind, c.name>>
    BY <1>3 DEF Asked
  <2>2. ASSUME Asked(c) \in Nameable, Target(Asked(c)) \in RoomsFor(t)
        PROVE  t \in AskingFor(c)
    <3>1. Named(c.kind, c.name) # Nil
      BY <2>1, <2>2 DEF Nameable
    <3>2. Shown(c.kind, c.name) = t
      BY <2>1, <2>2, FollowsName
    <3> QED
      BY <1>3, <3>1, <3>2 DEF AskingFor
  <2>3. Asked(c) # Operations
    BY <1>1, <1>3, <2>1 DEF Operations, Kinds
  <2> QED
    BY <1>1, <1>3, <2>2, <2>3 DEF AskingFor
<1> QED
  BY <1>2, <1>3

-----------------------------------------------------------------------------
(* What a longer wire tells *)

(* What does not speak of a truck leaves what the client will hold of it. *)
LEMMA WireStays ==
  ASSUME TypeInv, NEW s \in Sockets, NEW t \in Trucks,
         wire'[s] = wire[s] \/ \E m \in Messages : ~Says(m, t) /\ wire'[s] = Append(wire[s], m),
         view'[s][t] = view[s][t]
  PROVE  /\ Opens(s, t) => Opens(s, t)'
         /\ said'[t] = said[t] /\ Tells(s, t) => Tells(s, t)'
<1>1. wire[s] \in Seq(Messages)
  BY DEF TypeInv, ClientsOK
<1>2. /\ \A i \in DOMAIN wire[s] : i \in DOMAIN wire'[s] /\ wire'[s][i] = wire[s][i]
      /\ \A i \in DOMAIN wire'[s] : i \in DOMAIN wire[s] \/ ~Says(wire'[s][i], t)
  <2>1. CASE wire'[s] = wire[s]
    BY <2>1
  <2>2. ASSUME NEW m \in Messages, ~Says(m, t), wire'[s] = Append(wire[s], m)
        PROVE  /\ \A i \in DOMAIN wire[s] : i \in DOMAIN wire'[s] /\ wire'[s][i] = wire[s][i]
               /\ \A i \in DOMAIN wire'[s] : i \in DOMAIN wire[s] \/ ~Says(wire'[s][i], t)
    <3>1. /\ \A i \in DOMAIN wire[s] : i \in DOMAIN wire'[s] /\ wire'[s][i] = wire[s][i]
          /\ DOMAIN wire[s] = 1 .. Len(wire[s]) /\ Len(wire[s]) \in Nat
          /\ DOMAIN wire'[s] = 1 .. (Len(wire[s]) + 1) /\ wire'[s][Len(wire[s]) + 1] = m
      BY <1>1, <2>2, AppendFacts
    <3> QED
      BY <2>2, <3>1
  <2> QED
    BY <2>1, <2>2
<1>3. /\ Quiet(s, t) => Quiet(s, t)'
      /\ \A i \in DOMAIN wire[s] : Final(s, i, t) => Final(s, i, t)'
  BY <1>2 DEF Quiet, Final, Says
<1>4. \A i \in DOMAIN wire[s] : Says(wire[s][i], t) => Says(wire'[s][i], t)
  BY <1>2
<1>5. Opens(s, t) => Opens(s, t)'
  BY <1>2, <1>3 DEF Opens, Says
<1>6. said'[t] = said[t] /\ Tells(s, t) => Tells(s, t)'
  BY <1>2, <1>3 DEF Tells, Says
<1> QED
  BY <1>5, <1>6

(* The last message has the last word. *)
LEMMA Appended ==
  ASSUME TypeInv, NEW s \in Sockets, NEW t \in Trucks, NEW m \in Messages,
         wire'[s] = Append(wire[s], m)
  PROVE  /\ Says(m, t) /\ m.states[t] = said'[t] => Tells(s, t)'
         /\ Says(m, t) /\ m.type = "snapshot" /\ m.states[t].number = 0 => Opens(s, t)'
         /\ Clears(m) /\ ~Follows(Stays(s)', t) => Forgets(s, t)'
<1>1. PICK k : k = Len(wire[s]) + 1
  OBVIOUS
<1>2. k \in DOMAIN wire'[s] /\ wire'[s][k] = m /\ \A j \in DOMAIN wire'[s] : ~(j > k)
  <2>1. wire[s] \in Seq(Messages)
    BY DEF TypeInv, ClientsOK
  <2>2. /\ Len(wire[s]) \in Nat /\ DOMAIN wire'[s] = 1 .. (Len(wire[s]) + 1)
        /\ wire'[s][Len(wire[s]) + 1] = m
    BY <2>1, AppendFacts
  <2> QED
    BY <1>1, <2>2
<1>3. Final(s, k, t)'
  BY <1>2 DEF Final
<1> QED
  BY <1>2, <1>3 DEF Tells, Opens, Forgets, Says, Clears, Follows, Target, RoomsFor

(* What a client forgets it still forgets when more is to come. *)
LEMMA ForgetStays ==
  ASSUME TypeInv, NEW s \in Sockets, NEW t \in Trucks, ~Follows(Stays(s)', t), Forgets(s, t),
         wire'[s] = wire[s] \/ \E m \in Messages : ~Says(m, t) /\ wire'[s] = Append(wire[s], m)
  PROVE  Forgets(s, t)'
<1>1. PICK i \in DOMAIN wire[s] : /\ Clears(wire[s][i]) /\ Final(s, i, t)
                                  /\ \A j \in DOMAIN wire[s] : j > i => wire[s][j].type # "refused"
  BY DEF Forgets
<1>2. CASE wire'[s] = wire[s]
  BY <1>1, <1>2 DEF Forgets, Final, Says, Clears, Follows, Target, RoomsFor
<1>3. ASSUME NEW m \in Messages, ~Says(m, t), wire'[s] = Append(wire[s], m)
      PROVE  Forgets(s, t)'
  <2>1. CASE m.type = "refused"
    BY <1>3, <2>1, Appended DEF Clears
  <2>2. CASE m.type # "refused"
    <3>1. wire[s] \in Seq(Messages)
      BY DEF TypeInv, ClientsOK
    <3>2. /\ \A j \in DOMAIN wire[s] : j \in DOMAIN wire'[s] /\ wire'[s][j] = wire[s][j]
          /\ DOMAIN wire[s] = 1 .. Len(wire[s]) /\ Len(wire[s]) \in Nat
          /\ DOMAIN wire'[s] = 1 .. (Len(wire[s]) + 1) /\ wire'[s][Len(wire[s]) + 1] = m
      BY <1>3, <3>1, AppendFacts
    <3>3. \A j \in DOMAIN wire'[s] : j \in DOMAIN wire[s] \/ wire'[s][j] = m
      BY <3>2
    <3>4. i \in DOMAIN wire'[s] /\ Clears(wire'[s][i])
      BY <1>1, <3>2
    <3>5. \A j \in DOMAIN wire'[s] : j > i => ~Says(wire'[s][j], t) /\ wire'[s][j].type # "refused"
      BY <1>1, <1>3, <2>2, <3>2, <3>3 DEF Final
    <3> QED
      BY <3>4, <3>5 DEF Forgets, Final, Says, Clears, Follows, Target, RoomsFor
  <2> QED
    BY <2>1, <2>2
<1> QED
  BY <1>2, <1>3

(* As long as nothing is asked for, no wish comes back. *)
LEMMA StaysShrink ==
  ASSUME TypeInv, Longer, NEW s \in Sockets, wants'[s] \subseteq wants[s]
  PROVE  Stays(s)' \subseteq Stays(s)
BY RefusedLonger DEF Stays

(* A subscription goes on. *)
GoesOn(q) == /\ pc'[q] # "idle" /\ call'[q].socket = call[q].socket
             /\ call'[q].kind = call[q].kind /\ call'[q].name = call[q].name

LEMMA AwaitsOn ==
  ASSUME NEW s \in Sockets, NEW t \in Trucks, Stays(s)' \subseteq Stays(s), Awaits(s, t),
         \A q \in Reqs : pc[q] # "idle" /\ call[q].socket = s /\ t \in AskingFor(call[q]) =>
                           GoesOn(q)
  PROVE  Awaits(s, t)'
<1>1. PICK q \in Reqs : /\ pc[q] # "idle" /\ call[q].socket = s /\ t \in AskingFor(call[q])
                        /\ ~Follows(Stays(s) \ {Asked(call[q])}, t)
  BY DEF Awaits
<1>2. /\ pc'[q] # "idle" /\ call'[q].socket = s
      /\ call'[q].kind = call[q].kind /\ call'[q].name = call[q].name
  BY <1>1 DEF GoesOn
<1>3. AskingFor(call'[q]) = AskingFor(call[q]) /\ Asked(call'[q]) = Asked(call[q])
  BY <1>2 DEF AskingFor, Asked
<1>4. ~Follows(Stays(s)' \ {Asked(call'[q])}, t)
  BY <1>1, <1>3, FollowsFacts
<1> QED
  BY <1>1, <1>2, <1>3, <1>4 DEF Awaits, AskingFor, Asked, Follows, Target, RoomsFor, Named, Shown
-----------------------------------------------------------------------------
(* What a step leaves as it is *)

(* Client s is told nothing of truck t, and asks for nothing. *)
Untold(s, t) ==
  /\ wire'[s] = wire[s] \/ \E m \in Messages : ~Says(m, t) /\ wire'[s] = Append(wire[s], m)
  /\ view'[s][t] = view[s][t]
  /\ Longer /\ wants'[s] \subseteq wants[s]

(* Subscriptions aside, it stays as it is, ... *)
LEMMA Undisturbed ==
  ASSUME TypeInv, NEW s \in Sockets, NEW t \in Trucks, Untold(s, t),
         \/ Opens(s, t) \/ Forgets(s, t)
         \/ InRoom(s, t) /\ InRoom(s, t)' /\ said'[t] = said[t] /\ Tells(s, t)
         \/ ~InRoom(s, t)' /\ t \in OnRoad /\ ~Follows(Stays(s), t)
  PROVE  UpToDate(s, t)'
<1>1. Stays(s)' \subseteq Stays(s)
  BY StaysShrink DEF Untold
<1>2. ~Follows(Stays(s), t) => ~Follows(Stays(s)', t)
  BY <1>1, FollowsFacts
<1>3. CASE Opens(s, t)
  <2>1. Opens(s, t)'
    BY <1>3, WireStays DEF Untold
  <2> QED
    BY <2>1 DEF UpToDate
<1>4. CASE Forgets(s, t)
  <2>1. Forgets(s, t)'
    BY <1>2, <1>4, ForgetStays DEF Untold, Forgets
  <2> QED
    BY <2>1 DEF UpToDate
<1>5. CASE InRoom(s, t)' /\ said'[t] = said[t] /\ Tells(s, t)
  <2>1. Tells(s, t)'
    BY <1>5, WireStays DEF Untold
  <2> QED
    BY <1>5, <2>1 DEF UpToDate
<1>6. CASE ~InRoom(s, t)' /\ t \in OnRoad /\ ~Follows(Stays(s), t)
  <2>1. ~Follows(Stays(s), t)'
    BY <1>2, <1>6 DEF Follows, Target, RoomsFor
  <2> QED
    BY <1>6, <2>1 DEF UpToDate
<1> QED
  BY <1>3, <1>4, <1>5, <1>6

(* ... and with them: who was not in a room may get no more of the truck.  *)
LEMMA KeepsUp ==
  ASSUME TypeInv, NEW s \in Sockets, NEW t \in Trucks, UpToDate(s, t), Untold(s, t),
         InRoom(s, t) <=> InRoom(s, t)',
         InRoom(s, t) => said'[t] = said[t],
         \A q \in Reqs : pc[q] # "idle" /\ call[q].socket = s /\ t \in AskingFor(call[q]) =>
                           GoesOn(q)
  PROVE  UpToDate(s, t)'
<1>1. CASE Awaits(s, t)
  <2>1. Stays(s)' \subseteq Stays(s)
    BY StaysShrink DEF Untold
  <2>2. Awaits(s, t)'
    BY <1>1, <2>1, AwaitsOn
  <2> QED
    BY <2>2 DEF UpToDate
<1>2. CASE ~Awaits(s, t)
  BY <1>2, Undisturbed DEF UpToDate
<1> QED
  BY <1>1, <1>2

(* A client that learns the truck's last event while it is in its room. *)
LEMMA LearnsIt ==
  ASSUME TypeInv, NEW s \in Sockets, NEW t \in Trucks, NEW m \in Messages,
         wire'[s] = Append(wire[s], m), Says(m, t), m.states[t] = said'[t], InRoom(s, t)'
  PROVE  UpToDate(s, t)'
<1>1. Tells(s, t)'
  BY Appended
<1> QED
  BY <1>1 DEF UpToDate

LEMMA InRoomUnchanged ==
  ASSUME NEW s, NEW t, rooms'[s] = rooms[s]
  PROVE  InRoom(s, t)' <=> InRoom(s, t)
BY DEF InRoom, RoomsFor

LEMMA GoesOnUnchanged ==
  ASSUME UNCHANGED <<pc, call>>, NEW q \in Reqs, pc[q] # "idle"
  PROVE  GoesOn(q)
BY DEF GoesOn

-----------------------------------------------------------------------------
(* Events *)

(* An event reaches those in the truck's rooms, and is its last. *)
LEMMA EmitFollowed ==
  ASSUME TypeInv, NEW u \in Trucks, NEW x \in State, Emit(u, x),
         UNCHANGED <<rooms, wants, view, pc, call>>,
         NEW s \in Sockets, NEW t \in Trucks, UpToDate(s, t)
  PROVE  UpToDate(s, t)'
<1> DEFINE m == Message("event", Nil, [y \in {u} |-> x])
<1>1. m \in Messages /\ m.states = [y \in {u} |-> x]
  <2>1. [y \in {u} |-> x] \in Told
    BY ToldFacts
  <2> QED
    BY <2>1, MessageFacts
<1>2. /\ said' = [said EXCEPT ![u] = x] /\ said \in [Trucks -> State]
      /\ wire'[s] = IF rooms[s] \cap RoomsFor(u) = {} THEN wire[s] ELSE Append(wire[s], m)
  BY DEF Emit, TypeInv, WorldOK
<1>3. Longer
  BY EmitLonger
<1> HIDE DEF m
<1>4. InRoom(s, t)' <=> InRoom(s, t)
  BY InRoomUnchanged
<1>5. CASE t = u /\ InRoom(s, t)
  <2>1. wire'[s] = Append(wire[s], m)
    BY <1>2, <1>5 DEF InRoom
  <2>2. Says(m, t) /\ m.states[t] = said'[t]
    BY <1>1, <1>2, <1>5 DEF Says
  <2> QED
    BY <1>1, <1>4, <1>5, <2>1, <2>2, LearnsIt
<1>6. CASE ~ (t = u /\ InRoom(s, t))
  <2>1. t # u => ~Says(m, t)
    BY <1>1 DEF Says
  <2>2. wire'[s] = wire[s] \/ (~Says(m, t) /\ wire'[s] = Append(wire[s], m))
    BY <1>2, <1>6, <2>1 DEF InRoom
  <2>3. Untold(s, t)
    BY <1>1, <1>3, <2>2 DEF Untold
  <2>4. InRoom(s, t) => said'[t] = said[t]
    BY <1>2, <1>6
  <2> QED
    BY <1>4, <2>3, <2>4, KeepsUp, GoesOnUnchanged
<1> QED
  BY <1>5, <1>6

(* So do the rewound trucks that are loaded. *)
LEMMA ReloadFollowed ==
  ASSUME TypeInv, ResetReloads, NEW s \in Sockets, NEW t \in OnRoad, UpToDate(s, t)
  PROVE  UpToDate(s, t)'
<1>0. t \in Trucks /\ OnRoad \subseteq Trucks
  BY RealtimeAssumption
<1> DEFINE told == {x \in OnRoad : rooms[s] \cap RoomsFor(x) # {}}
           m    == Message("event", Nil, [x \in told |-> said'[x]])
<1>1. /\ wire'[s] = IF told = {} THEN wire[s] ELSE Append(wire[s], m)
      /\ UNCHANGED <<rooms, wants, view, pc, call>>
  BY DEF ResetReloads
<1>2. told \subseteq Trucks /\ (t \in told <=> InRoom(s, t))
  BY <1>0 DEF InRoom
<1>3. said' \in [Trucks -> State]
  BY ReloadTypes DEF TypeInv, WorldOK
<1> HIDE DEF told
<1>4. m \in Messages /\ m.states = [x \in told |-> said'[x]]
  <2>1. [x \in told |-> said'[x]] \in Told
    BY <1>2, <1>3, ToldFacts
  <2> QED
    BY <2>1, MessageFacts
<1>5. Longer
  BY WorldLonger DEF World
<1> HIDE DEF m
<1>6. InRoom(s, t)' <=> InRoom(s, t)
  BY <1>1, InRoomUnchanged
<1>7. CASE InRoom(s, t)
  <2>1. wire'[s] = Append(wire[s], m) /\ Says(m, t) /\ m.states[t] = said'[t]
    BY <1>1, <1>2, <1>4, <1>7 DEF Says
  <2> QED
    BY <1>0, <1>4, <1>6, <1>7, <2>1, LearnsIt
<1>8. CASE ~InRoom(s, t)
  <2>1. ~Says(m, t)
    BY <1>2, <1>4, <1>8 DEF Says
  <2>2. Untold(s, t)
    BY <1>1, <1>4, <1>5, <2>1 DEF Untold
  <2> QED
    BY <1>0, <1>1, <1>6, <1>8, <2>2, KeepsUp, GoesOnUnchanged
<1> QED
  BY <1>7, <1>8

LEMMA WorldFollowed ==
  ASSUME TypeInv, FollowInv, World
  PROVE  FollowInv'
<1> SUFFICES ASSUME NEW s \in Sockets, NEW t \in Trucks, t \in OnRoad \/ reset' = "none"
             PROVE  UpToDate(s, t)'
  BY DEF FollowInv
<1>1. ASSUME reset' = "none" \/ t \in OnRoad, t \in OnRoad \/ reset = "none"
      PROVE  UpToDate(s, t)
  BY <1>1 DEF FollowInv
<1>2. /\ reset' = "none" => reset = "none"
  BY DEF World, Start, ResetClears, ResetRewinds, ResetReloads, Advance, FactCommits, FactAnnounced
<1>3. UpToDate(s, t)
  BY <1>1, <1>2
<1>4. UNCHANGED <<rooms, wants, view, pc, call>> /\ Longer
  BY WorldLonger
<1>5. CASE UNCHANGED <<said, wire>>
  <2>1. Untold(s, t)
    BY <1>4, <1>5 DEF Untold
  <2> QED
    BY <1>3, <1>4, <1>5, <2>1, KeepsUp, InRoomUnchanged, GoesOnUnchanged
<1>6. ASSUME NEW u \in Trucks, Advance(u) PROVE UpToDate(s, t)'
  <2>1. last'[u] \in Nat /\ story'[u] \in Nat
    BY <1>6, AdvanceTypes DEF TypeInv, WorldOK
  <2>2. Emit(u, Payload(last'[u], story'[u]))
    BY <1>6 DEF Advance
  <2> QED
    BY <1>3, <1>4, <2>1, <2>2, PayloadFacts, EmitFollowed
<1>7. ASSUME NEW u \in Trucks, FactAnnounced(u) PROVE UpToDate(s, t)'
  <2>1. last'[u] \in Nat /\ facts[u] \in Nat
    BY <1>7, FactTypes DEF TypeInv, WorldOK
  <2>2. Emit(u, Payload(last'[u], facts[u]))
    BY <1>7 DEF FactAnnounced
  <2> QED
    BY <1>3, <1>4, <2>1, <2>2, PayloadFacts, EmitFollowed
<1>8. CASE ResetReloads
  <2>1. t \in OnRoad
    BY <1>8 DEF ResetReloads
  <2> QED
    BY <1>3, <1>8, <2>1, ReloadFollowed
<1>9. CASE Start \/ ResetClears \/ ResetRewinds \/ \E u \in Trucks : FactCommits(u)
  BY <1>5, <1>9 DEF Start, ResetClears, ResetRewinds, FactCommits, clients
<1> QED
  BY <1>6, <1>7, <1>8, <1>9 DEF World
-----------------------------------------------------------------------------
(* The client handles a message *)

LEMMA HandleFollowed ==
  ASSUME TypeInv, EngineInv, NumbersInv, NEW s \in Sockets, Handle(s),
         NEW t \in Trucks, UpToDate(s, t)
  PROVE  UpToDate(s, t)'
<1>0. PICK m : m = Head(wire[s])
  OBVIOUS
<1>1. /\ wire[s] # <<>> /\ wire[s] \in Seq(Messages) /\ wire' = [wire EXCEPT ![s] = Tail(@)]
      /\ UNCHANGED <<rooms, pc, call, said>>
  BY DEF Handle, world, TypeInv, ClientsOK
<1>2. wants'[s] = (IF m.type = "refused" THEN wants[s] \ {m.what} ELSE wants[s])
  BY <1>0 DEF Handle, TypeInv, ClientsOK
<1>3. view'[s][t] = IF m.type \in {"left", "refused"} /\ ~Follows(wants'[s], t) THEN Nil
                    ELSE IF t \in DOMAIN m.states /\ Takes(view[s][t], m, t) THEN m.states[t]
                    ELSE view[s][t]
  BY <1>0 DEF Handle, TypeInv, ClientsOK
<1>4. /\ DOMAIN wire[s] = 1 .. Len(wire[s]) /\ Len(wire[s]) \in Nat \ {0} /\ m = wire[s][1]
      /\ DOMAIN wire'[s] = 1 .. (Len(wire[s]) - 1)
      /\ \A i \in 1 .. (Len(wire[s]) - 1) : wire'[s][i] = wire[s][i + 1]
  <2>1. Len(wire[s]) \in Nat \ {0}
    BY <1>1, EmptySeq
  <2>2. Tail(wire[s]) \in Seq(Messages) /\ Len(Tail(wire[s])) = Len(wire[s]) - 1
    BY <1>1, HeadTailProperties
  <2>3. /\ Head(wire[s]) = wire[s][1]
        /\ \A i \in 1 .. Len(Tail(wire[s])) : Tail(wire[s])[i] = wire[s][i + 1]
    BY <1>1, <2>1, HeadTailProperties
  <2>4. /\ DOMAIN wire[s] = 1 .. Len(wire[s])
        /\ DOMAIN Tail(wire[s]) = 1 .. Len(Tail(wire[s]))
    BY <1>1, <2>2, LenProperties
  <2>5. wire'[s] = Tail(wire[s])
    BY <1>1 DEF TypeInv, ClientsOK
  <2> QED
    BY <1>0, <2>1, <2>2, <2>3, <2>4, <2>5
<1>5. /\ \A i \in DOMAIN wire[s] : i # 1 => i - 1 \in DOMAIN wire'[s] /\ wire'[s][i - 1] = wire[s][i]
      /\ \A j \in DOMAIN wire'[s] : j + 1 \in DOMAIN wire[s] /\ wire'[s][j] = wire[s][j + 1]
      /\ 1 \in DOMAIN wire[s] /\ DOMAIN wire[s] \subseteq Int /\ DOMAIN wire'[s] \subseteq Int
  BY <1>4
<1>6. /\ Numbered(m) /\ m \in Messages
      /\ view[s][t] # Nil => view[s][t].number <= last[t]
      /\ said[t].number = last[t] /\ said[t] \in State /\ last[t] \in Nat
  <2>1. m \in Messages
    BY <1>0, <1>1, HeadTailProperties
  <2> QED
    BY <1>4, <1>5, <2>1 DEF NumbersInv, EngineInv, TypeInv, WorldOK
<1>7. Stays(s)' \subseteq Stays(s)
  <2>1. ASSUME NEW w \in wants'[s], Refused(s, w) PROVE Refused(s, w)'
    <3>1. PICK i \in DOMAIN wire[s] : wire[s][i].type = "refused" /\ wire[s][i].what = w
      BY <2>1 DEF Refused
    <3>2. i # 1
      BY <1>2, <1>4, <2>1, <3>1
    <3> QED
      BY <1>5, <3>1, <3>2 DEF Refused
  <2> QED
    BY <1>2, <2>1 DEF Stays
<1>8. ~Follows(Stays(s), t) => ~Follows(Stays(s)', t)
  BY <1>7, FollowsFacts
<1>9. /\ Quiet(s, t) => Quiet(s, t)'
      /\ Final(s, 1, t) => Quiet(s, t)'
      /\ \A i \in DOMAIN wire[s] : Final(s, i, t) => Final(s, i - 1, t)'
  <2>1. \A j \in DOMAIN wire'[s] : j + 1 > 1
    BY <1>4
  <2>2. \A i \in DOMAIN wire[s] : \A j \in DOMAIN wire'[s] : j > i - 1 => j + 1 > i
    BY <1>5
  <2> QED
    BY <1>5, <2>1, <2>2 DEF Quiet, Final, Says
<1>10. Clears(m) => ~Says(m, t)
  BY <1>6 DEF Numbered, Says
<1>11. CASE Opens(s, t)
  <2>1. ASSUME NEW i \in DOMAIN wire[s], wire[s][i].type = "snapshot", Says(wire[s][i], t),
               wire[s][i].states[t].number = 0, Final(s, i, t)
        PROVE  Opens(s, t)'
    <3>1. CASE i = 1
      <4>1. view'[s][t] = m.states[t]
        BY <1>3, <1>4, <2>1, <3>1 DEF Says, Takes
      <4> QED
        BY <1>4, <1>9, <2>1, <3>1, <4>1 DEF Opens
    <3>2. CASE i # 1
      <4>1. i - 1 \in DOMAIN wire'[s] /\ wire'[s][i - 1] = wire[s][i] /\ Final(s, i - 1, t)'
        BY <1>5, <1>9, <2>1, <3>2
      <4> QED
        BY <2>1, <4>1 DEF Opens, Final, Says
    <3> QED
      BY <3>1, <3>2
  <2>2. ASSUME Quiet(s, t), view[s][t] = Nil \/ view[s][t].number = 0
        PROVE  Opens(s, t)'
    <3>1. ~Says(m, t)
      BY <1>4, <1>5, <2>2 DEF Quiet
    <3>2. view'[s][t] = Nil \/ view'[s][t] = view[s][t]
      BY <1>3, <3>1 DEF Says
    <3> QED
      BY <1>9, <2>2, <3>2 DEF Opens
  <2> QED
    BY <1>11, <2>1, <2>2 DEF Opens, UpToDate
<1>12. CASE Forgets(s, t)
  <2>1. PICK i \in DOMAIN wire[s] : /\ Clears(wire[s][i]) /\ Final(s, i, t)
                                    /\ \A j \in DOMAIN wire[s] : j > i => wire[s][j].type # "refused"
    BY <1>12 DEF Forgets
  <2>2. CASE i = 1
    <3>1. \A w : ~Refused(s, w)'
      BY <1>4, <1>5, <2>1, <2>2 DEF Refused
    <3>2. wants'[s] = Stays(s)'
      BY <3>1 DEF Stays
    <3>3. ~Follows(wants'[s], t)
      BY <1>8, <1>12, <3>2 DEF Forgets
    <3>4. view'[s][t] = Nil
      BY <1>3, <1>4, <2>1, <2>2, <3>3 DEF Clears
    <3> QED
      BY <1>9, <2>1, <2>2, <3>4 DEF UpToDate, Opens
  <2>3. CASE i # 1
    <3>1. i - 1 \in DOMAIN wire'[s] /\ wire'[s][i - 1] = wire[s][i] /\ Final(s, i - 1, t)'
      BY <1>5, <1>9, <2>1, <2>3
    <3>2. \A j \in DOMAIN wire'[s] : j > i - 1 => wire'[s][j].type # "refused"
      BY <1>5, <2>1
    <3>3. ~Follows(Stays(s), t)'
      BY <1>8, <1>12 DEF Forgets, Follows, Target, RoomsFor
    <3> QED
      BY <2>1, <3>1, <3>2, <3>3 DEF UpToDate, Forgets, Clears
  <2> QED
    BY <2>2, <2>3
<1>13. CASE Awaits(s, t)
  <2>1. \A q \in Reqs : pc[q] # "idle" => GoesOn(q)
    BY <1>1, GoesOnUnchanged
  <2>2. Awaits(s, t)'
    BY <1>7, <1>13, <2>1, AwaitsOn
  <2> QED
    BY <2>2 DEF UpToDate
<1>14. CASE InRoom(s, t) /\ Tells(s, t)
  <2>0. InRoom(s, t)'
    BY <1>1, <1>14, InRoomUnchanged
  <2>1. ASSUME NEW i \in DOMAIN wire[s], Says(wire[s][i], t), wire[s][i].states[t] = said[t],
               Final(s, i, t)
        PROVE  Tells(s, t)'
    <3>1. CASE i = 1
      <4>1. ~Clears(m) /\ t \in DOMAIN m.states /\ m.states[t] = said[t]
        BY <1>4, <1>10, <2>1, <3>1 DEF Says
      <4>2. Takes(view[s][t], m, t)
        <5>1. CASE view[s][t] = Nil
          BY <5>1 DEF Takes
        <5>2. CASE view[s][t] # Nil
          <6>1. view[s][t] \in State
            BY <5>2 DEF TypeInv, ClientsOK
          <6>2. said[t].number >= view[s][t].number
            BY <1>6, <5>2, <6>1 DEF State
          <6> QED
            BY <4>1, <6>2 DEF Takes
        <5> QED
          BY <5>1, <5>2
      <4>3. view'[s][t] = said'[t]
        BY <1>1, <1>3, <4>1, <4>2 DEF Clears
      <4> QED
        BY <1>9, <2>1, <3>1, <4>3 DEF Tells
    <3>2. CASE i # 1
      <4>1. i - 1 \in DOMAIN wire'[s] /\ wire'[s][i - 1] = wire[s][i] /\ Final(s, i - 1, t)'
        BY <1>5, <1>9, <2>1, <3>2
      <4> QED
        BY <1>1, <2>1, <4>1 DEF Tells, Says
    <3> QED
      BY <3>1, <3>2
  <2>2. ASSUME Quiet(s, t), view[s][t] = said[t]
        PROVE  Opens(s, t)' \/ Tells(s, t)'
    <3>1. ~Says(m, t)
      BY <1>4, <1>5, <2>2 DEF Quiet
    <3>2. view'[s][t] = Nil \/ view'[s][t] = view[s][t]
      BY <1>3, <3>1 DEF Says
    <3> QED
      BY <1>1, <1>9, <2>2, <3>2 DEF Opens, Tells
  <2> QED
    BY <1>14, <2>0, <2>1, <2>2 DEF Tells, UpToDate
<1>15. CASE ~InRoom(s, t) /\ t \in OnRoad /\ ~Follows(Stays(s), t)
  <2>1. ~InRoom(s, t)' /\ ~Follows(Stays(s), t)'
    BY <1>1, <1>8, <1>15, InRoomUnchanged DEF Follows, Target, RoomsFor
  <2> QED
    BY <1>15, <2>1 DEF UpToDate
<1> QED
  BY <1>11, <1>12, <1>13, <1>14, <1>15 DEF UpToDate
-----------------------------------------------------------------------------
(* A handler's steps *)

(* What a step leaves alone altogether. *)
LEMMA Elsewhere ==
  ASSUME NEW r \in Sockets, NEW t \in Trucks, UpToDate(r, t),
         wire'[r] = wire[r], rooms'[r] = rooms[r], wants'[r] = wants[r], view'[r] = view[r],
         said' = said,
         \A p \in Reqs : pc[p] # "idle" /\ call[p].socket = r => pc'[p] = pc[p] /\ call'[p] = call[p]
  PROVE  UpToDate(r, t)'
<1>1. Stays(r)' = Stays(r)
  BY DEF Stays, Refused
<1>2. /\ Quiet(r, t)' <=> Quiet(r, t)
      /\ \A i : Final(r, i, t)' <=> Final(r, i, t)
      /\ InRoom(r, t)' <=> InRoom(r, t)
      /\ ~Follows(Stays(r), t)' <=> ~Follows(Stays(r), t)
  BY <1>1 DEF Quiet, Final, InRoom, Follows, Target, RoomsFor, Says
<1>3. (Opens(r, t) => Opens(r, t)') /\ (Tells(r, t) => Tells(r, t)')
  BY <1>2 DEF Opens, Tells, Says
<1>4. Forgets(r, t) => Forgets(r, t)'
  BY <1>2 DEF Forgets, Clears
<1>5. Awaits(r, t) => Awaits(r, t)'
  BY <1>1, AwaitsOn DEF GoesOn
<1> QED
  BY <1>2, <1>3, <1>4, <1>5 DEF UpToDate

LEMMA LiveIsSaid ==
  ASSUME TypeInv, EngineInv, NEW t \in live
  PROVE  t \in Trucks /\ t \in OnRoad /\ Live(t) = said[t]
<1>1. t \in Trucks /\ t \in OnRoad /\ reset # "rewound"
  BY DEF EngineInv, TypeInv, WorldOK
<1>2. said[t] \in State /\ said[t].number = last[t] /\ said[t].story = story[t]
  BY <1>1 DEF EngineInv, TypeInv, WorldOK
<1> QED
  BY <1>1, <1>2 DEF Live, Payload, State

LEMMA LooksUpFollowed ==
  ASSUME TypeInv, NEW q \in Reqs, LooksUp(q), NEW s \in Sockets, s = call[q].socket,
         NEW t \in Trucks, UpToDate(s, t)
  PROVE  UpToDate(s, t)'
<1>1. pc[q] = "looking" /\ UNCHANGED <<rooms, wants, view, said>>
  BY DEF LooksUp, world
<1>2. /\ call[q].kind \in Kinds /\ call[q].name \in NamesOf(call[q].kind)
      /\ call[q].kind # "operations" /\ call[q] \in Calls
      /\ Asked(call[q]) \in {Nil, Operations} \cup (Kinds \X Names)
  BY <1>1, UnderWay DEF TypeInv
<1>3. InRoom(s, t)' <=> InRoom(s, t)
  BY <1>1, InRoomUnchanged
<1>4. CASE Named(call[q].kind, call[q].name) = Nil
  <2> DEFINE m == Message("refused", <<call[q].kind, call[q].name>>, <<>>)
  <2>1. Send(call[q].socket, m) /\ Return(q)
    BY <1>4 DEF LooksUp
  <2>2. m \in Messages /\ m.states = <<>>
    BY <1>2, EmptyTold, MessageFacts DEF Asked
  <2> HIDE DEF m
  <2>3. Longer /\ wire'[s] = Append(wire[s], m) /\ ~Says(m, t)
    BY <2>1, <2>2, SendLonger, SendFacts, EmptyTold DEF TypeInv, ClientsOK, Says
  <2>4. Untold(s, t)
    BY <1>1, <2>2, <2>3 DEF Untold
  <2>5. AskingFor(call[q]) = {}
    BY <1>2, <1>4 DEF AskingFor
  <2>6. \A p \in Reqs \ {q} : pc'[p] = pc[p] /\ call'[p] = call[p]
    BY <2>1, OneCallChanges DEF Return
  <2> QED
    BY <1>1, <1>3, <2>4, <2>5, <2>6, KeepsUp DEF GoesOn
<1>5. CASE Named(call[q].kind, call[q].name) # Nil
  <2> DEFINE a == [x \in {Shown(call[q].kind, call[q].name)} |->
                     IF x \in live THEN Live(x) ELSE Row(x)]
             e == [call[q] EXCEPT !.answer = a]
  <2>1. Learn(q, e) /\ Goto(q, "found") /\ UNCHANGED wire
    BY <1>5 DEF LooksUp
  <2>2. e.socket = call[q].socket /\ e.kind = call[q].kind /\ e.name = call[q].name
    BY <1>2 DEF Calls
  <2> HIDE DEF a, e
  <2>3. \A p \in Reqs : pc[p] # "idle" => GoesOn(p)
    BY <2>1, <2>2, OneCallChanges DEF GoesOn
  <2>4. Untold(s, t)
    BY <1>1, <2>1 DEF Untold, Longer
  <2> QED
    BY <1>1, <1>3, <2>3, <2>4, KeepsUp
<1> QED
  BY <1>4, <1>5

(* A truck it asked for is told at once, or will be; others stay as they are. *)
LEMMA JoinsFollowed ==
  ASSUME TypeInv, EngineInv, NEW q \in Reqs, Joins(q), NEW s \in Sockets, s = call[q].socket,
         NEW t \in Trucks, UpToDate(s, t)
  PROVE  UpToDate(s, t)'
<1>1. PICK kind, n, u : kind = call[q].kind /\ n = call[q].name /\ u = Shown(kind, n)
  OBVIOUS
<1> DEFINE room == RoomOf(kind, Named(kind, n))
           m    == Message("snapshot", Asked(call[q]), [x \in {u} |-> Live(x)])
           e    == [call[q] EXCEPT !.since = Current, !.answer = <<>>]
<1>2. /\ pc[q] = "found" /\ Join(s, kind, n)
      /\ UNCHANGED <<wants, view, said>>
      /\ \/ u \in live /\ Send(s, m) /\ Return(q)
         \/ Goto(q, "reading") /\ Learn(q, e) /\ UNCHANGED wire
  BY <1>1 DEF Joins, world
<1>3. /\ kind \in Kinds /\ n \in NamesOf(kind) /\ kind # "operations" /\ Named(kind, n) # Nil
      /\ Asked(call[q]) \in {Nil, Operations} \cup (Kinds \X Names)
      /\ call[q] \in Calls
  BY <1>1, <1>2, UnderWay DEF TypeInv
<1>4. rooms'[s] = rooms[s] \cup {room} /\ (room \in RoomsFor(t) <=> u = t)
  <2>1. /\ <<kind, n>> \in Nameable /\ Target(<<kind, n>>) = room
    BY <1>3, NameFacts
  <2>2. rooms'[s] = rooms[s] \cup {room}
    <3>1. RoomsOK /\ Join(s, kind, n) /\ Named(kind, n) # Nil
      BY <1>2, <1>3 DEF TypeInv
    <3> HIDE DEF m, e
    <3> QED
      BY <1>3, <3>1, JoinFacts
  <2>3. Target(<<kind, n>>) \in RoomsFor(t) <=> Shown(kind, n) = t
    BY <2>1, FollowsName
  <2> QED
    BY <1>1, <2>1, <2>2, <2>3
<1>5. t \in AskingFor(call[q]) <=> u = t
  BY <1>1, <1>2, <1>3, AskingForFacts
<1>6. ASSUME u \in live, Send(s, m), Return(q)
      PROVE  /\ m \in Messages /\ m.states = [x \in {u} |-> said[x]]
             /\ wire'[s] = Append(wire[s], m) /\ Longer
  <2>1. Live(u) = said[u] /\ u \in Trucks
    BY <1>6, LiveIsSaid
  <2>2. [x \in {u} |-> Live(x)] \in Told
    BY <1>6, LiveTold DEF TypeInv, WorldOK
  <2>3. m \in Messages /\ m.states = [x \in {u} |-> Live(x)]
    BY <1>3, <2>2, MessageFacts
  <2>4. m.states = [x \in {u} |-> said[x]]
    BY <2>1, <2>3
  <2> HIDE DEF m
  <2> QED
    BY <1>6, <2>3, <2>4, SendFacts, SendLonger DEF TypeInv, ClientsOK
<1> HIDE DEF m, room
<1>7. \A p \in Reqs \ {q} : pc'[p] = pc[p] /\ call'[p] = call[p]
  BY <1>2, OneCallChanges DEF Return
<1>8. CASE u # t
  <2>1. InRoom(s, t)' <=> InRoom(s, t)
    BY <1>4, <1>8 DEF InRoom, RoomsFor
  <2>2. Untold(s, t)
    <3>1. CASE u \in live /\ Send(s, m) /\ Return(q)
      BY <1>2, <1>6, <1>8, <3>1 DEF Untold, Says
    <3>2. CASE UNCHANGED wire
      BY <1>2, <3>2 DEF Untold, Longer
    <3> QED
      BY <1>2, <3>1, <3>2
  <2> QED
    BY <1>2, <1>5, <1>7, <1>8, <2>1, <2>2, KeepsUp DEF GoesOn
<1>9. CASE u = t
  <2>1. InRoom(s, t)'
    BY <1>4, <1>9 DEF InRoom, RoomsFor
  <2>2. CASE u \in live /\ Send(s, m) /\ Return(q)
    BY <1>2, <1>6, <1>9, <2>1, <2>2, LearnsIt DEF Says
  <2>3. CASE Goto(q, "reading") /\ Learn(q, e) /\ UNCHANGED wire
    <3>1. e.socket = s /\ e.kind = kind /\ e.name = n
      BY <1>1, <1>3 DEF Calls
    <3> HIDE DEF e
    <3>2. pc'[q] = "reading" /\ call'[q] = e
      BY <2>3, OneCallChanges
    <3>3. GoesOn(q)
      BY <1>1, <1>2, <3>1, <3>2 DEF GoesOn
    <3>4. \A p \in Reqs : pc[p] # "idle" => GoesOn(p)
      BY <1>7, <3>3 DEF GoesOn
    <3>5. Untold(s, t) /\ Stays(s)' = Stays(s)
      BY <1>2, <2>3 DEF Untold, Longer, Stays, Refused
    <3>6. CASE Awaits(s, t)
      BY <3>4, <3>5, <3>6, AwaitsOn DEF UpToDate
    <3>7. CASE ~InRoom(s, t) /\ t \in OnRoad /\ ~Follows(Stays(s), t)
      <4>1. ~Follows(Stays(s) \ {Asked(call[q])}, t)
        BY <3>7, FollowsFacts
      <4>2. pc[q] # "idle" /\ t \in AskingFor(call[q])
        BY <1>2, <1>5, <1>9
      <4>3. Awaits(s, t)
        BY <4>1, <4>2 DEF Awaits
      <4> QED
        BY <3>4, <3>5, <4>3, AwaitsOn DEF UpToDate
    <3>8. CASE Opens(s, t) \/ Forgets(s, t) \/ (InRoom(s, t) /\ Tells(s, t))
      BY <1>2, <2>1, <3>5, <3>8, Undisturbed
    <3> QED
      BY <3>6, <3>7, <3>8 DEF UpToDate
  <2> QED
    BY <1>2, <2>2, <2>3
<1> QED
  BY <1>8, <1>9

(* Whoever has left the room by now follows the truck no more. *)
LEMMA AnswersLiveFollowed ==
  ASSUME RoomsInv, RoomsInv', EngineInv, OneAtATime, NEW q \in Reqs, AnswersLive(q),
         NEW s \in Sockets, s = call[q].socket, NEW t \in Trucks, UpToDate(s, t)
  PROVE  UpToDate(s, t)'
<1>1. PICK u : u = Shown("shipment", call[q].name)
  OBVIOUS
<1> DEFINE m == Message("snapshot", Asked(call[q]), [x \in {u} |-> Live(x)])
<1>2. /\ pc[q] = "reading" /\ call[q].kind = "shipment" /\ u \in live
      /\ Send(s, m) /\ Return(q) /\ UNCHANGED <<rooms, wants, view, said>>
  BY <1>1 DEF AnswersLive, world
<1>3. Asked(call[q]) \in {Nil, Operations} \cup (Kinds \X Names) /\ TypeInv
  BY <1>2, UnderWay DEF RoomsInv, TypeInv
<1>4. /\ m \in Messages /\ m.states = [x \in {u} |-> said[x]]
      /\ wire'[s] = Append(wire[s], m) /\ Longer
  <2>1. Live(u) = said[u] /\ u \in Trucks
    BY <1>2, <1>3, LiveIsSaid
  <2>2. [x \in {u} |-> Live(x)] \in Told
    BY <1>2, <1>3, LiveTold DEF TypeInv, WorldOK
  <2>3. m \in Messages /\ m.states = [x \in {u} |-> Live(x)]
    BY <1>3, <2>2, MessageFacts
  <2>4. m.states = [x \in {u} |-> said[x]]
    BY <2>1, <2>3
  <2> HIDE DEF m
  <2> QED
    BY <1>2, <1>3, <2>3, <2>4, SendFacts, SendLonger DEF TypeInv, ClientsOK
<1> HIDE DEF m
<1>5. \A p \in Reqs \ {q} : pc'[p] = pc[p] /\ call'[p] = call[p]
  BY <1>2, <1>3, OneCallChanges DEF Return
<1>6. t \in AskingFor(call[q]) <=> u = t
  BY <1>1, <1>2, <1>3, AskingForFacts
<1>7. CASE u # t
  <2>1. Untold(s, t)
    BY <1>2, <1>4, <1>7 DEF Untold, Says
  <2> QED
    BY <1>2, <1>3, <1>5, <1>6, <1>7, <2>1, InRoomUnchanged, KeepsUp DEF GoesOn
<1>8. CASE u = t /\ InRoom(s, t)'
  BY <1>2, <1>3, <1>4, <1>8, LearnsIt DEF Says
<1>9. CASE u = t /\ ~InRoom(s, t)'
  <2>1. t \in OnRoad
    BY <1>2, <1>3, <1>9, LiveIsSaid
  <2>2. ASSUME Follows(Stays(s)', t) PROVE FALSE
    <3>0. PICK w \in Stays(s)' : Target(w) \in RoomsFor(t)
      BY <2>2, FollowsFacts
    <3>1. PICK p \in Reqs : /\ pc'[p] \in {"looking", "found"} /\ call'[p].socket = s
      BY <1>9, <3>0, OutOfRoom DEF Pending
    <3>2. p # q
      BY <1>2, <1>3, <3>1, OneCallChanges DEF Return
    <3>3. pc[p] # "idle" /\ call[p].socket = s /\ pc[q] # "idle"
      BY <1>2, <1>5, <3>1, <3>2
    <3> QED
      BY <3>2, <3>3 DEF OneAtATime
  <2> QED
    BY <1>9, <2>1, <2>2 DEF UpToDate, Follows, Target, RoomsFor
<1> QED
  BY <1>7, <1>8, <1>9

LEMMA ReadsFollowed ==
  ASSUME TypeInv, NEW q \in Reqs, Reads(q), NEW s \in Sockets, NEW t \in Trucks, UpToDate(s, t)
  PROVE  UpToDate(s, t)'
<1> DEFINE ts == IF call[q].kind = "operations" THEN OnRoad
                 ELSE {Shown(call[q].kind, call[q].name)}
           e  == [call[q] EXCEPT !.answer = [x \in ts |-> Row(x)]]
<1>1. /\ Learn(q, e) /\ Goto(q, "answering") /\ UNCHANGED <<rooms, wants, view, said, wire>>
  BY DEF Reads, world, clients
<1>2. call[q] \in Calls
  BY DEF TypeInv, CallsOK
<1>3. e.socket = call[q].socket /\ e.kind = call[q].kind /\ e.name = call[q].name
  BY <1>2 DEF Calls
<1> HIDE DEF e
<1>4. \A p \in Reqs : pc[p] # "idle" => GoesOn(p)
  BY <1>1, <1>3, OneCallChanges DEF GoesOn
<1>5. Untold(s, t)
  BY <1>1 DEF Untold, Longer
<1> QED
  BY <1>1, <1>4, <1>5, InRoomUnchanged, KeepsUp

LEMMA AnswersFollowed ==
  ASSUME TypeInv, AnswerInv, NEW q \in Reqs, Answers(q), NEW s \in Sockets, s = call[q].socket,
         NEW t \in Trucks, UpToDate(s, t)
  PROVE  UpToDate(s, t)'
<1> DEFINE m == Message("snapshot", Asked(call[q]), call[q].answer)
<1>1. /\ pc[q] = "answering" /\ Send(s, m) /\ Return(q)
      /\ UNCHANGED <<rooms, wants, view, said>>
  BY DEF Answers, world
<1>2. m \in Messages /\ m.type = "snapshot" /\ m.states = call[q].answer
  BY <1>1, UnderWay, MessageFacts DEF TypeInv
<1> HIDE DEF m
<1>3. /\ wire'[s] = Append(wire[s], m) /\ Longer
      /\ \A p \in Reqs \ {q} : pc'[p] = pc[p] /\ call'[p] = call[p]
  BY <1>1, <1>2, SendFacts, SendLonger, OneCallChanges DEF TypeInv, ClientsOK, Return
<1>4. /\ Says(m, t) <=> t \in AskingFor(call[q])
      /\ Says(m, t) => m.states[t].number = 0
  BY <1>1, <1>2 DEF AnswerInv, Says
<1>5. CASE Says(m, t)
  <2>1. Opens(s, t)'
    BY <1>2, <1>3, <1>4, <1>5, Appended
  <2> QED
    BY <2>1 DEF UpToDate
<1>6. CASE ~Says(m, t)
  <2>1. Untold(s, t)
    BY <1>1, <1>2, <1>3, <1>6 DEF Untold
  <2> QED
    BY <1>1, <1>3, <1>4, <1>6, <2>1, InRoomUnchanged, KeepsUp DEF GoesOn
<1> QED
  BY <1>5, <1>6

(* What is refused is forgotten, if it was all the truck was followed by.  *)
LEMMA GuardFollowed ==
  ASSUME TypeInv, OneAtATime, NEW q \in Reqs, Guard(q), NEW s \in Sockets, s = call[q].socket,
         NEW t \in Trucks, UpToDate(s, t)
  PROVE  UpToDate(s, t)'
<1> DEFINE m == Message("refused", Asked(call[q]), <<>>)
<1>1. /\ pc[q] # "idle" /\ Send(s, m) /\ Return(q)
      /\ UNCHANGED <<rooms, wants, view, said>>
  BY DEF Guard, world
<1>2. /\ m \in Messages /\ m.type = "refused" /\ m.what = Asked(call[q]) /\ m.states = <<>>
  BY <1>1, UnderWay, EmptyTold, MessageFacts DEF TypeInv
<1> HIDE DEF m
<1>3. /\ wire'[s] = Append(wire[s], m) /\ Longer
      /\ \A p \in Reqs \ {q} : pc'[p] = pc[p] /\ call'[p] = call[p]
  BY <1>1, <1>2, SendFacts, SendLonger, OneCallChanges DEF TypeInv, ClientsOK, Return
<1>4. Untold(s, t) /\ (InRoom(s, t)' <=> InRoom(s, t)) /\ Clears(m)
  BY <1>1, <1>2, <1>3, EmptyTold, InRoomUnchanged DEF Untold, Says, Clears
<1>5. CASE Awaits(s, t)
  <2>1. ~Follows(Stays(s) \ {Asked(call[q])}, t)
    BY <1>1, <1>5 DEF Awaits, OneAtATime
  <2> PICK a : a = Asked(call[q])
    OBVIOUS
  <2>2. Refused(s, a)'
    <3>1. wire[s] \in Seq(Messages)
      BY DEF TypeInv, ClientsOK
    <3>2. PICK k : k = Len(wire[s]) + 1
      OBVIOUS
    <3>3. k \in DOMAIN wire'[s] /\ wire'[s][k] = m
      BY <1>2, <1>3, <3>1, <3>2, AppendFacts
    <3> QED
      BY <1>2, <3>3 DEF Refused
  <2>3. Stays(s)' \subseteq Stays(s) \ {a}
    <3>1. Stays(s)' \subseteq Stays(s)
      BY <1>1, <1>3, StaysShrink
    <3>2. a \notin Stays(s)'
      BY <2>2 DEF Stays, Refused
    <3> QED
      BY <3>1, <3>2
  <2>4. ~Follows(Stays(s)', t)
    BY <2>1, <2>3, FollowsFacts
  <2>5. Forgets(s, t)'
    BY <1>2, <1>3, <1>4, <2>4, Appended
  <2> QED
    BY <2>5 DEF UpToDate
<1>6. CASE ~Awaits(s, t)
  BY <1>1, <1>4, <1>6, Undisturbed DEF UpToDate
<1> QED
  BY <1>5, <1>6

LEMMA ServeFollowed ==
  ASSUME RoomsInv, RoomsInv', EngineInv, OneAtATime, AnswerInv, FollowInv, NEW q \in Reqs, Serve(q)
  PROVE  FollowInv'
<1>0. TypeInv
  BY DEF RoomsInv
<1>1. pc[q] # "idle" /\ call[q].socket \in Sockets
  <2>1. pc[q] # "idle"
    BY DEF Serve, LooksUp, Joins, AnswersLive, Reads, Answers, Guard
  <2> QED
    BY <1>0, <2>1, UnderWay DEF TypeInv
<1>2. reset' = reset
  BY DEF Serve, LooksUp, Joins, AnswersLive, Reads, Answers, Guard, world
<1> SUFFICES ASSUME NEW s \in Sockets, NEW t \in Trucks, UpToDate(s, t)
             PROVE  UpToDate(s, t)'
  BY <1>2 DEF FollowInv
<1>3. CASE s = call[q].socket
  BY <1>0, <1>3, LooksUpFollowed, JoinsFollowed, AnswersLiveFollowed, ReadsFollowed,
     AnswersFollowed, GuardFollowed DEF Serve
<1>4. CASE s # call[q].socket
  <2>1. UNCHANGED <<wants, view, said>>
    BY DEF Serve, LooksUp, Joins, AnswersLive, Reads, Answers, Guard, world, clients
  <2>2. wire'[s] = wire[s]
    BY <1>0, <1>4 DEF Serve, LooksUp, Joins, AnswersLive, Reads, Answers, Guard, Send, clients,
                      TypeInv, ClientsOK
  <2>3. rooms'[s] = rooms[s]
    BY <1>0, <1>4 DEF Serve, LooksUp, Joins, AnswersLive, Reads, Answers, Guard, Join,
                      TypeInv, RoomsOK
  <2>4. \A p \in Reqs \ {q} : pc'[p] = pc[p] /\ call'[p] = call[p]
    BY <1>0 DEF Serve, LooksUp, Joins, AnswersLive, Reads, Answers, Guard, Return, Goto, Learn,
                TypeInv, CallsOK
  <2> QED
    BY <1>4, <2>1, <2>2, <2>3, <2>4, Elsewhere
<1> QED
  BY <1>3, <1>4
-----------------------------------------------------------------------------
(* What a client asks for *)

(* Whoever asks has handled all it was told; whoever subscribes has no     *)
(* other subscription under way.                                           *)
LEMMA AsksFacts ==
  ASSUME TypeInv, Attentive, NEW s \in Sockets, NEW what, Asks(s, what)
  PROVE  /\ wire[s] = <<>> /\ DOMAIN wire[s] = {}
         /\ \A q \in Reqs : pc[q] = "idle" =>
              \A p \in Reqs : pc[p] = "idle" \/ call[p].socket # s
<1>1. wire[s] = <<>>
  <2>1. CASE Patient
    BY <2>1 DEF Asks, Settled
  <2>2. CASE ~Patient
    <3>1. Len(wire[s]) < 1 /\ wire[s] \in Seq(Messages)
      BY <2>2 DEF Asks, Attentive, TypeInv, ClientsOK
    <3> QED
      BY <3>1, EmptySeq
  <2> QED
    BY <2>1, <2>2
<1>2. \A q \in Reqs : pc[q] = "idle" => \A p \in Reqs : pc[p] = "idle" \/ call[p].socket # s
  BY DEF Asks, Settled, Attentive
<1> QED
  BY <1>1, <1>2, EmptyTold

(* What holds when nothing is on its way to a client or from it. *)
LEMMA AtRest ==
  ASSUME NEW s \in Sockets, NEW t \in Trucks, UpToDate(s, t), DOMAIN wire[s] = {},
         \A p \in Reqs : pc[p] = "idle" \/ call[p].socket # s
  PROVE  /\ \/ Opens(s, t)
            \/ InRoom(s, t) /\ Tells(s, t)
            \/ ~InRoom(s, t) /\ t \in OnRoad /\ ~Follows(Stays(s), t)
         /\ Stays(s) = wants[s]
<1>1. ~Forgets(s, t)
  BY DEF Forgets
<1>2. ~Awaits(s, t)
  BY DEF Awaits
<1>3. Stays(s) = wants[s]
  BY DEF Stays, Refused
<1> QED
  BY <1>1, <1>2, <1>3 DEF UpToDate

(* The dashboard is shown the live map, or waits for the rows. *)
LEMMA SubscribeOperationsFollowed ==
  ASSUME TypeInv, EngineInv, Attentive, NEW q \in Reqs, NEW s \in Sockets,
         SubscribeOperations(q, s), NEW t \in Trucks, UpToDate(s, t)
  PROVE  UpToDate(s, t)'
<1> DEFINE m == Message("snapshot", Operations, [x \in live |-> Live(x)])
           c == [NoCall EXCEPT !.socket = s, !.kind = "operations", !.since = Current]
<1>1. /\ pc[q] = "idle" /\ Asks(s, Operations)
      /\ wants' = [wants EXCEPT ![s] = @ \cup {Operations}]
      /\ rooms' = [rooms EXCEPT ![s] = @ \cup {Operations}]
      /\ \/ live # {} /\ Send(s, m)
         \/ live = {} /\ Goto(q, "reading") /\ Learn(q, c) /\ UNCHANGED wire
      /\ UNCHANGED <<view, said>>
  BY DEF SubscribeOperations, world
<1>2. /\ wants'[s] = wants[s] \cup {Operations} /\ rooms'[s] = rooms[s] \cup {Operations}
  BY <1>1 DEF TypeInv, RoomsOK, ClientsOK
<1>3. /\ DOMAIN wire[s] = {} /\ Stays(s) = wants[s]
      /\ \/ Opens(s, t)
         \/ InRoom(s, t) /\ Tells(s, t)
         \/ t \in OnRoad /\ ~Follows(Stays(s), t)
  BY <1>1, AsksFacts, AtRest
<1>4. InRoom(s, t)'
  BY <1>2 DEF InRoom, RoomsFor
<1>5. CASE live # {} /\ Send(s, m)
  <2>1. m \in Messages /\ m.states = [x \in live |-> Live(x)]
    <3>1. [x \in live |-> Live(x)] \in Told
      BY LiveTold DEF TypeInv, WorldOK
    <3> QED
      BY <3>1, MessageFacts
  <2> HIDE DEF m
  <2>2. wire'[s] = Append(wire[s], m)
    BY <1>5, <2>1, SendFacts DEF TypeInv, ClientsOK
  <2>3. CASE t \in live
    <3>1. Says(m, t) /\ m.states[t] = said'[t]
      BY <1>1, <2>1, <2>3, LiveIsSaid DEF Says
    <3> QED
      BY <1>4, <2>1, <2>2, <3>1, LearnsIt
  <2>4. CASE t \notin live
    <3>1. t \notin OnRoad
      BY <1>5, <2>4 DEF EngineInv
    <3>2. ~Says(m, t)
      BY <2>1, <2>4 DEF Says
    <3>3. (Opens(s, t) => Opens(s, t)') /\ (Tells(s, t) => Tells(s, t)')
      BY <1>1, <2>1, <2>2, <3>2, WireStays
    <3> QED
      BY <1>3, <1>4, <3>1, <3>3 DEF UpToDate
  <2> QED
    BY <2>3, <2>4
<1>6. CASE live = {} /\ Goto(q, "reading") /\ Learn(q, c) /\ UNCHANGED wire
  <2>1. c.socket = s /\ c.kind = "operations"
    BY DEF NoCall
  <2> HIDE DEF c
  <2>2. pc'[q] = "reading" /\ call'[q] = c
    BY <1>6, OneCallChanges
  <2>3. (Opens(s, t) => Opens(s, t)') /\ (Tells(s, t) => Tells(s, t)')
    BY <1>1, <1>6, WireStays
  <2>4. ASSUME t \in OnRoad, ~Follows(Stays(s), t) PROVE Awaits(s, t)'
    <3>1. Stays(s)' \ {Operations} \subseteq Stays(s)
      BY <1>2, <1>3 DEF Stays
    <3>2. ~Follows(Stays(s)' \ {Operations}, t)
      BY <2>4, <3>1, FollowsFacts
    <3>3. Asked(call'[q]) = Operations /\ AskingFor(call'[q]) = OnRoad
      BY <2>1, <2>2 DEF Asked, AskingFor
    <3> QED
      BY <2>1, <2>2, <2>4, <3>2, <3>3
      DEF Awaits, AskingFor, Asked, Follows, Target, RoomsFor, Named, Shown
  <2> QED
    BY <1>3, <1>4, <2>3, <2>4 DEF UpToDate
<1> QED
  BY <1>1, <1>5, <1>6

LEMMA SubscribeFollowed ==
  ASSUME TypeInv, Attentive, NEW q \in Reqs, NEW s \in Sockets, NEW kind \in Kinds,
         NEW n \in NamesOf(kind), Subscribe(q, s, kind, n), NEW t \in Trucks, UpToDate(s, t)
  PROVE  UpToDate(s, t)'
<1> DEFINE c == [NoCall EXCEPT !.socket = s, !.kind = kind, !.name = n]
           w == <<kind, n>>
<1>1. /\ pc[q] = "idle" /\ Asks(s, w)
      /\ IF Named(kind, n) = Nil THEN UNCHANGED wants
         ELSE wants' = [wants EXCEPT ![s] = @ \cup {w}]
      /\ Goto(q, "looking") /\ Learn(q, c)
      /\ UNCHANGED <<rooms, wire, view, said>>
  BY DEF Subscribe, world
<1>2. c.socket = s /\ c.kind = kind /\ c.name = n /\ kind # "operations"
  BY DEF NoCall, Kinds
<1> HIDE DEF c
<1>3. pc'[q] = "looking" /\ call'[q] = c
  BY <1>1, OneCallChanges
<1>4. /\ DOMAIN wire[s] = {} /\ Stays(s) = wants[s]
      /\ \/ Opens(s, t)
         \/ InRoom(s, t) /\ Tells(s, t)
         \/ ~InRoom(s, t) /\ t \in OnRoad /\ ~Follows(Stays(s), t)
  BY <1>1, AsksFacts, AtRest
<1>5. /\ (Opens(s, t) => Opens(s, t)') /\ (Tells(s, t) => Tells(s, t)')
      /\ InRoom(s, t)' <=> InRoom(s, t)
  BY <1>1, WireStays, InRoomUnchanged
<1>6. ASSUME ~InRoom(s, t), t \in OnRoad, ~Follows(Stays(s), t) PROVE UpToDate(s, t)'
  <2>1. /\ Stays(s)' \subseteq wants[s] \cup {w}
        /\ Named(kind, n) = Nil => Stays(s)' \subseteq wants[s]
    BY <1>1 DEF Stays, TypeInv, ClientsOK
  <2>2. CASE Named(kind, n) # Nil /\ Shown(kind, n) = t
    <3>1. ~Follows(Stays(s)' \ {w}, t)
      BY <1>4, <1>6, <2>1, FollowsFacts
    <3>2. Asked(call'[q]) = w /\ t \in AskingFor(call'[q])
      BY <1>2, <1>3, <2>2 DEF Asked, AskingFor
    <3>3. Awaits(s, t)'
      BY <1>2, <1>3, <3>1, <3>2
      DEF Awaits, AskingFor, Asked, Follows, Target, RoomsFor, Named, Shown
    <3> QED
      BY <3>3 DEF UpToDate
  <2>3. CASE ~ (Named(kind, n) # Nil /\ Shown(kind, n) = t)
    <3>1. Named(kind, n) # Nil => Target(w) \notin RoomsFor(t)
      <4>1. ASSUME Named(kind, n) # Nil PROVE Target(w) \in RoomsFor(t) <=> Shown(w[1], w[2]) = t
        <5>1. w \in Nameable
          BY <4>1, NameFacts
        <5> QED
          BY <5>1, FollowsName
      <4> QED
        BY <2>3, <4>1
    <3>2. ~Follows(Stays(s)', t)
      BY <1>4, <1>6, <2>1, <3>1, FollowsFacts
    <3> QED
      BY <1>5, <1>6, <3>2 DEF UpToDate, Follows, Target, RoomsFor
  <2> QED
    BY <2>2, <2>3
<1> QED
  BY <1>4, <1>5, <1>6 DEF UpToDate

(* A client that has left a room forgets what it follows no more; what it  *)
(* follows out of a room, the subscription under way will tell.            *)
LEMMA LeftFollowed ==
  ASSUME TypeInv, RoomsInv', OneAtATime, NEW s \in Sockets, NEW t \in Trucks, UpToDate(s, t),
         NEW m \in Messages, m.type = "left", m.states = <<>>, wire'[s] = Append(wire[s], m),
         Longer, wants'[s] \subseteq wants[s], rooms'[s] \subseteq rooms[s],
         UNCHANGED <<view, said, pc, call>>
  PROVE  UpToDate(s, t)'
<1>1. Untold(s, t)
  BY EmptyTold DEF Untold, Says
<1>2. CASE ~Follows(Stays(s)', t)
  <2>1. Forgets(s, t)'
    BY <1>2, Appended DEF Clears
  <2> QED
    BY <2>1 DEF UpToDate
<1>3. CASE InRoom(s, t)'
  <2>1. InRoom(s, t)
    BY <1>3 DEF InRoom, RoomsFor
  <2> QED
    BY <1>1, <1>3, <2>1, KeepsUp, GoesOnUnchanged
<1>4. CASE Follows(Stays(s)', t) /\ ~InRoom(s, t)'
  <2>1. ASSUME NEW w \in Stays(s)', Target(w) \in RoomsFor(t)
        PROVE  \E p \in Reqs : /\ pc[p] \in {"looking", "found"} /\ call[p].socket = s
                               /\ Asked(call[p]) = w /\ t \in AskingFor(call[p])
    <3>1. Pending(s, w)'
      BY <1>4, <2>1, OutOfRoom
    <3>2. PICK p \in Reqs : /\ pc[p] \in {"looking", "found"} /\ call[p].socket = s
                            /\ Asked(call[p]) = w
      BY <3>1 DEF Pending, Asked
    <3>3. w # Operations
      BY <3>2, AskingForFacts
    <3>4. w \in Nameable
      BY <2>1, <3>3 DEF Stays, TypeInv, ClientsOK
    <3>5. t \in AskingFor(call[p])
      BY <2>1, <3>2, <3>4, AskingForFacts
    <3> QED
      BY <3>2, <3>5
  <2>2. PICK w \in Stays(s)' : Target(w) \in RoomsFor(t)
    BY <1>4, FollowsFacts
  <2>3. PICK p \in Reqs : /\ pc[p] \in {"looking", "found"} /\ call[p].socket = s
                          /\ Asked(call[p]) = w /\ t \in AskingFor(call[p])
    BY <2>1, <2>2
  <2>4. \A v \in Stays(s)' : Target(v) \in RoomsFor(t) => v = w
    BY <2>1, <2>3 DEF OneAtATime
  <2>5. ~Follows(Stays(s)' \ {w}, t)
    BY <2>4, FollowsFacts
  <2>6. Awaits(s, t)'
    BY <2>3, <2>5 DEF Awaits, AskingFor, Asked, Follows, Target, RoomsFor, Named, Shown
  <2> QED
    BY <2>6 DEF UpToDate
<1> QED
  BY <1>2, <1>3, <1>4

LEMMA UnsubscribeFollowed ==
  ASSUME TypeInv, RoomsInv', OneAtATime, NEW s \in Sockets, NEW t \in Trucks, UpToDate(s, t),
         \/ UnsubscribeOperations(s)
         \/ \E kind \in Kinds : \E n \in NamesOf(kind) : Unsubscribe(s, kind, n)
  PROVE  UpToDate(s, t)'
<1>1. CASE UnsubscribeOperations(s)
  <2> DEFINE m == Message("left", Operations, <<>>)
  <2>1. m \in Messages /\ m.type = "left" /\ m.states = <<>>
    BY EmptyTold, MessageFacts
  <2> HIDE DEF m
  <2>2. Send(s, m) /\ UNCHANGED <<view, said, pc, call>>
    BY <1>1 DEF UnsubscribeOperations, world, m
  <2>3. wants'[s] \subseteq wants[s] /\ rooms'[s] \subseteq rooms[s]
    BY <1>1 DEF UnsubscribeOperations, TypeInv, RoomsOK, ClientsOK
  <2>4. Longer /\ wire'[s] = Append(wire[s], m)
    BY <2>1, <2>2, SendLonger, SendFacts DEF TypeInv, ClientsOK
  <2> QED
    BY <2>1, <2>2, <2>3, <2>4, LeftFollowed
<1>2. ASSUME NEW kind \in Kinds, NEW n \in NamesOf(kind), Unsubscribe(s, kind, n)
      PROVE  UpToDate(s, t)'
  <2> DEFINE m == Message("left", <<kind, n>>, <<>>)
  <2>1. m \in Messages /\ m.type = "left" /\ m.states = <<>>
    <3>1. <<kind, n>> \in Kinds \X Names
      BY DEF NamesOf, Names
    <3> QED
      BY <3>1, EmptyTold, MessageFacts
  <2> HIDE DEF m
  <2>2. Send(s, m) /\ UNCHANGED <<view, said, pc, call>>
    BY <1>2 DEF Unsubscribe, world, m
  <2>3. wants'[s] \subseteq wants[s] /\ rooms'[s] \subseteq rooms[s]
    BY <1>2 DEF Unsubscribe, TypeInv, RoomsOK, ClientsOK
  <2>4. Longer /\ wire'[s] = Append(wire[s], m)
    BY <2>1, <2>2, SendLonger, SendFacts DEF TypeInv, ClientsOK
  <2> QED
    BY <2>1, <2>2, <2>3, <2>4, LeftFollowed
<1> QED
  BY <1>1, <1>2

LEMMA DisconnectFollowed ==
  ASSUME TypeInv, NEW s \in Sockets, Disconnect(s), NEW t \in Trucks
  PROVE  UpToDate(s, t)'
<1>1. wire'[s] = <<>> /\ view'[s][t] = Nil
  BY DEF Disconnect, TypeInv, ClientsOK
<1>2. Opens(s, t)'
  BY <1>1, EmptyTold DEF Opens, Quiet
<1> QED
  BY <1>2 DEF UpToDate

LEMMA ClientFollowed ==
  ASSUME RoomsInv, RoomsInv', Attentive, EngineInv, OneAtATime, NumbersInv, FollowInv,
         NEW s \in Sockets, Client(s)
  PROVE  FollowInv'
<1>0. TypeInv
  BY DEF RoomsInv
<1>1. reset' = reset
  BY DEF Client, UnsubscribeOperations, Disconnect, Handle, Unsubscribe, Subscribe,
         SubscribeOperations, world
<1> SUFFICES ASSUME NEW r \in Sockets, NEW t \in Trucks, UpToDate(r, t)
             PROVE  UpToDate(r, t)'
  BY <1>1 DEF FollowInv
<1>2. CASE r = s
  BY <1>0, <1>2, UnsubscribeFollowed, DisconnectFollowed, HandleFollowed, SubscribeFollowed,
     SubscribeOperationsFollowed DEF Client
<1>3. CASE r # s
  <2>1. said' = said
    BY DEF Client, UnsubscribeOperations, Disconnect, Handle, Unsubscribe, Subscribe,
           SubscribeOperations, world
  <2>2. /\ wire'[r] = wire[r] /\ rooms'[r] = rooms[r] /\ wants'[r] = wants[r]
        /\ view'[r] = view[r]
    BY <1>0, <1>3 DEF Client, UnsubscribeOperations, Disconnect, Handle, Unsubscribe, Subscribe,
           SubscribeOperations, Send, TypeInv, RoomsOK, ClientsOK
  <2>3. \A p \in Reqs : pc[p] # "idle" /\ call[p].socket = r => pc'[p] = pc[p] /\ call'[p] = call[p]
    BY <1>0, <1>3 DEF Client, UnsubscribeOperations, Disconnect, Handle, Unsubscribe, Subscribe,
           SubscribeOperations, Goto, Learn, TypeInv, CallsOK
  <2> QED
    BY <2>1, <2>2, <2>3, Elsewhere
<1> QED
  BY <1>2, <1>3
-----------------------------------------------------------------------------
(* The engine, and one subscription at a time *)

LEMMA EngineKept ==
  ASSUME TypeInv, Attentive, EngineInv, [Next]_vars
  PROVE  EngineInv'
<1>0. /\ story \in [Trucks -> Nat] /\ last \in [Trucks -> Nat] /\ facts \in [Trucks -> Nat]
      /\ row \in [Trucks -> Nat] /\ said \in [Trucks -> State] /\ OnRoad \subseteq Trucks
      /\ OnRoad \cap Reported = {}
  BY RealtimeAssumption DEF TypeInv, WorldOK, Attentive
<1>1. CASE UNCHANGED world
  BY <1>1 DEF world, EngineInv
<1>2. CASE Start
  BY <1>2 DEF Start, EngineInv
<1>3. CASE ResetClears
  BY <1>3 DEF ResetClears, EngineInv
<1>4. CASE ResetRewinds
  BY <1>0, <1>4 DEF ResetRewinds, EngineInv
<1>5. CASE ResetReloads
  <2>1. /\ reset = "rewound" /\ reset' = "over" /\ live' = OnRoad
        /\ last' = [t \in Trucks |-> IF t \in OnRoad THEN last[t] + 1 ELSE last[t]]
        /\ said' = [t \in Trucks |-> IF t \in OnRoad THEN Payload(last'[t], row[t]) ELSE said[t]]
        /\ UNCHANGED <<story, facts>>
    BY <1>5 DEF ResetReloads
  <2>2. \A t \in OnRoad : said'[t].number = last'[t] /\ said'[t].story = story'[t]
    BY <1>0, <2>1 DEF EngineInv, Payload
  <2>3. \A t \in Trucks \ OnRoad : said'[t].number = last'[t]
    BY <2>1 DEF EngineInv
  <2> QED
    BY <1>0, <2>1, <2>2, <2>3 DEF EngineInv
<1>6. ASSUME NEW u \in Trucks, Advance(u) PROVE EngineInv'
  <2>1. /\ u \in live /\ story' = [story EXCEPT ![u] = @ + 1] /\ last' = [last EXCEPT ![u] = @ + 1]
        /\ said' = [said EXCEPT ![u] = Payload(last'[u], story'[u])]
        /\ UNCHANGED <<live, facts, reset>>
    BY <1>6 DEF Advance, Emit
  <2>2. said'[u].number = last'[u] /\ said'[u].story = story'[u]
    BY <1>0, <2>1 DEF Payload
  <2>3. \A t \in Trucks \ {u} : said'[t] = said[t] /\ last'[t] = last[t] /\ story'[t] = story[t]
    BY <1>0, <2>1
  <2>4. live' = OnRoad /\ reset \notin {"cleared", "rewound"}
    BY <2>1 DEF EngineInv
  <2> QED
    BY <1>0, <2>1, <2>2, <2>3, <2>4 DEF EngineInv
<1>7. ASSUME NEW u \in Trucks, FactCommits(u) PROVE EngineInv'
  <2>1. /\ u \notin OnRoad /\ story' = [story EXCEPT ![u] = @ + 1]
        /\ row' = [row EXCEPT ![u] = story'[u]] /\ facts' = [facts EXCEPT ![u] = story'[u]]
        /\ UNCHANGED <<live, last, said, reset>>
    BY <1>0, <1>7 DEF FactCommits
  <2>2. \A t \in Trucks \ {u} : facts'[t] = facts[t] /\ row'[t] = row[t] /\ story'[t] = story[t]
    BY <1>0, <2>1
  <2> QED
    BY <1>0, <2>1, <2>2 DEF EngineInv
<1>8. ASSUME NEW u \in Trucks, FactAnnounced(u) PROVE EngineInv'
  <2>1. /\ facts[u] # 0 /\ last' = [last EXCEPT ![u] = @ + 1] /\ facts' = [facts EXCEPT ![u] = 0]
        /\ said' = [said EXCEPT ![u] = Payload(last'[u], facts[u])]
        /\ UNCHANGED <<live, story, row, reset>>
    BY <1>8 DEF FactAnnounced, Emit
  <2>2. said'[u].number = last'[u] /\ u \notin OnRoad
    BY <1>0, <2>1 DEF Payload, EngineInv
  <2>3. \A t \in Trucks \ {u} : said'[t] = said[t] /\ last'[t] = last[t] /\ facts'[t] = facts[t]
    BY <1>0, <2>1
  <2> QED
    BY <1>0, <2>1, <2>2, <2>3 DEF EngineInv
<1>9. CASE (\E q \in Reqs : Serve(q)) \/ (\E s \in Sockets : Client(s)) \/ UNCHANGED vars
  <2>1. ASSUME NEW q \in Reqs, Serve(q) PROVE UNCHANGED world
    BY <2>1 DEF Serve, LooksUp, Joins, AnswersLive, Reads, Answers, Guard
  <2>2. ASSUME NEW s \in Sockets, Client(s) PROVE UNCHANGED world
    BY <2>2 DEF Client, UnsubscribeOperations, Disconnect, Handle, Unsubscribe, Subscribe,
                SubscribeOperations
  <2>3. UNCHANGED vars => UNCHANGED world
    BY DEF vars
  <2> QED
    BY <1>1, <1>9, <2>1, <2>2, <2>3
<1> QED
  BY <1>2, <1>3, <1>4, <1>5, <1>6, <1>7, <1>8, <1>9 DEF Next, World

(* A handler answers for what it was asked, by rows. *)
LEMMA ServeKeepsOne ==
  ASSUME TypeInv, OneAtATime, AnswerInv, NEW q \in Reqs, Serve(q)
  PROVE  OneAtATime' /\ AnswerInv'
<1>1. call[q] \in Calls /\ pc[q] # "idle"
  BY DEF Serve, LooksUp, Joins, AnswersLive, Reads, Answers, Guard, TypeInv, CallsOK
<1>2. \A p \in Reqs \ {q} : pc'[p] = pc[p] /\ call'[p] = call[p]
  BY DEF Serve, LooksUp, Joins, AnswersLive, Reads, Answers, Guard, Return, Goto, Learn,
         TypeInv, CallsOK
<1>3. pc'[q] = "idle" \/ call'[q].socket = call[q].socket
  <2>1. ASSUME NEW e, NEW step, e.socket = call[q].socket, Goto(q, step), Learn(q, e)
        PROVE  call'[q].socket = call[q].socket
    BY <2>1, OneCallChanges
  <2>2. CASE LooksUp(q)
    <3> DEFINE a == [t \in {Shown(call[q].kind, call[q].name)} |->
                       IF t \in live THEN Live(t) ELSE Row(t)]
    <3>1. Return(q) \/ (Learn(q, [call[q] EXCEPT !.answer = a]) /\ Goto(q, "found"))
      BY <2>2 DEF LooksUp
    <3> HIDE DEF a
    <3>2. [call[q] EXCEPT !.answer = a].socket = call[q].socket
      BY <1>1 DEF Calls
    <3> QED
      BY <2>1, <3>1, <3>2, OneCallChanges DEF Return
  <2>3. CASE Joins(q)
    <3>1. \/ Return(q)
          \/ Goto(q, "reading") /\ Learn(q, [call[q] EXCEPT !.since = Current, !.answer = <<>>])
      BY <2>3 DEF Joins
    <3>2. [call[q] EXCEPT !.since = Current, !.answer = <<>>].socket = call[q].socket
      BY <1>1 DEF Calls
    <3> QED
      BY <2>1, <3>1, <3>2, OneCallChanges DEF Return
  <2>4. CASE Reads(q)
    <3> DEFINE ts == IF call[q].kind = "operations" THEN OnRoad
                     ELSE {Shown(call[q].kind, call[q].name)}
               a  == [t \in ts |-> Row(t)]
    <3>1. Learn(q, [call[q] EXCEPT !.answer = a]) /\ Goto(q, "answering")
      BY <2>4 DEF Reads
    <3> HIDE DEF a
    <3>2. [call[q] EXCEPT !.answer = a].socket = call[q].socket
      BY <1>1 DEF Calls
    <3> QED
      BY <2>1, <3>1, <3>2
  <2>5. CASE AnswersLive(q) \/ Answers(q) \/ Guard(q)
    BY <2>5, OneCallChanges DEF AnswersLive, Answers, Guard, Return
  <2> QED
    BY <2>2, <2>3, <2>4, <2>5 DEF Serve
<1>4. OneAtATime'
  BY <1>1, <1>2, <1>3 DEF OneAtATime
<1>5. ASSUME pc'[q] = "answering"
      PROVE  /\ DOMAIN call'[q].answer = AskingFor(call'[q])
             /\ \A t \in DOMAIN call'[q].answer : call'[q].answer[t].number = 0
  <2>1. Reads(q)
    BY <1>5 DEF Serve, LooksUp, Joins, AnswersLive, Answers, Guard, Return, Goto, TypeInv, CallsOK
  <2>2. PICK ts : ts = IF call[q].kind = "operations" THEN OnRoad
                       ELSE {Shown(call[q].kind, call[q].name)}
    OBVIOUS
  <2> DEFINE e == [call[q] EXCEPT !.answer = [t \in ts |-> Row(t)]]
  <2>3. pc[q] = "reading" /\ Learn(q, e)
    BY <2>1, <2>2 DEF Reads
  <2>4. e.kind = call[q].kind /\ e.name = call[q].name /\ e.answer = [t \in ts |-> Row(t)]
    BY <1>1 DEF Calls
  <2> HIDE DEF e
  <2>5. call'[q] = e
    BY <2>3 DEF Learn, TypeInv, CallsOK
  <2>6. ts = AskingFor(call[q])
    <3>1. CASE call[q].kind = "operations"
      BY <2>2, <3>1 DEF AskingFor
    <3>2. CASE call[q].kind # "operations"
      <4>1. /\ call[q].kind \in Kinds /\ call[q].name \in NamesOf(call[q].kind)
            /\ Named(call[q].kind, call[q].name) # Nil
        BY <2>3, <3>2, UnderWay DEF TypeInv
      <4>2. Shown(call[q].kind, call[q].name) \in Trucks
        BY <4>1, NameFacts
      <4> QED
        BY <2>2, <3>2, <4>1, <4>2 DEF AskingFor
    <3> QED
      BY <3>1, <3>2
  <2>7. AskingFor(e) = AskingFor(call[q])
    BY <2>4 DEF AskingFor
  <2> QED
    BY <2>4, <2>5, <2>6, <2>7 DEF Row, Payload
<1>6. AnswerInv'
  <2>1. \A p \in Reqs : AskingFor(call[p])' = AskingFor(call'[p])
    BY DEF AskingFor, Named, Shown
  <2> QED
    BY <1>2, <1>5, <2>1 DEF AnswerInv
<1> QED
  BY <1>4, <1>6

(* Who asks for what is in pc and call alone. *)
LEMMA NobodyAsks ==
  ASSUME OneAtATime, AnswerInv, UNCHANGED <<pc, call>>
  PROVE  OneAtATime' /\ AnswerInv'
<1>1. \A p \in Reqs : AskingFor(call[p])' = AskingFor(call'[p])
  BY DEF AskingFor, Named, Shown
<1>2. OneAtATime'
  BY DEF OneAtATime
<1>3. AnswerInv'
  BY <1>1 DEF AnswerInv
<1> QED
  BY <1>2, <1>3

LEMMA ClientKeepsOne ==
  ASSUME TypeInv, Attentive, OneAtATime, AnswerInv, NEW s \in Sockets, Client(s)
  PROVE  OneAtATime' /\ AnswerInv'
<1>1. CASE UNCHANGED <<pc, call>>
  BY <1>1, NobodyAsks
<1>2. ASSUME NEW q \in Reqs, pc[q] = "idle", NEW what, Asks(s, what),
             NEW step, NEW c, c.socket = s, Goto(q, step), Learn(q, c), step # "answering"
      PROVE  OneAtATime' /\ AnswerInv'
  <2>1. /\ \A p \in Reqs \ {q} : pc'[p] = pc[p] /\ call'[p] = call[p]
        /\ pc'[q] = step /\ call'[q] = c
    BY <1>2, OneCallChanges
  <2>2. \A p \in Reqs : pc[p] = "idle" \/ call[p].socket # s
    BY <1>2, AsksFacts
  <2>3. OneAtATime'
    BY <1>2, <2>1, <2>2 DEF OneAtATime
  <2>4. AnswerInv'
    <3>1. \A p \in Reqs : AskingFor(call[p])' = AskingFor(call'[p])
      BY DEF AskingFor, Named, Shown
    <3>2. \A p \in Reqs : pc'[p] = "answering" => call'[p] = call[p] /\ pc[p] = "answering"
      BY <1>2, <2>1
    <3> QED
      BY <3>1, <3>2 DEF AnswerInv
  <2> QED
    BY <2>3, <2>4
<1>3. CASE Disconnect(s)
  <2>1. \A p \in Reqs : pc'[p] = "idle" \/ (pc'[p] = pc[p] /\ call'[p] = call[p])
    BY <1>3 DEF Disconnect
  <2>2. OneAtATime'
    BY <2>1 DEF OneAtATime
  <2>3. AnswerInv'
    <3>1. \A p \in Reqs : AskingFor(call[p])' = AskingFor(call'[p])
      BY DEF AskingFor, Named, Shown
    <3> QED
      BY <2>1, <3>1 DEF AnswerInv
  <2> QED
    BY <2>2, <2>3
<1>4. ASSUME NEW q \in Reqs, NEW kind \in Kinds, NEW n \in NamesOf(kind), Subscribe(q, s, kind, n)
      PROVE  OneAtATime' /\ AnswerInv'
  <2> DEFINE c == [NoCall EXCEPT !.socket = s, !.kind = kind, !.name = n]
  <2>1. pc[q] = "idle" /\ Asks(s, <<kind, n>>) /\ Goto(q, "looking") /\ Learn(q, c)
    BY <1>4 DEF Subscribe
  <2>2. c.socket = s
    BY DEF NoCall
  <2> HIDE DEF c
  <2> QED
    BY <1>2, <2>1, <2>2
<1>5. ASSUME NEW q \in Reqs, SubscribeOperations(q, s)
      PROVE  OneAtATime' /\ AnswerInv'
  <2> DEFINE c == [NoCall EXCEPT !.socket = s, !.kind = "operations", !.since = Current]
  <2>1. \/ UNCHANGED <<pc, call>>
        \/ pc[q] = "idle" /\ Asks(s, Operations) /\ Goto(q, "reading") /\ Learn(q, c)
    BY <1>5 DEF SubscribeOperations
  <2>2. c.socket = s
    BY DEF NoCall
  <2> HIDE DEF c
  <2> QED
    BY <1>1, <1>2, <2>1, <2>2
<1>6. CASE \/ UnsubscribeOperations(s) \/ Handle(s)
           \/ \E kind \in Kinds : \E n \in NamesOf(kind) : Unsubscribe(s, kind, n)
  BY <1>1, <1>6 DEF UnsubscribeOperations, Handle, Unsubscribe
<1> QED
  BY <1>3, <1>4, <1>5, <1>6 DEF Client
-----------------------------------------------------------------------------
(* No number is above the last *)

LEMMA NumbersKept ==
  ASSUME TypeInv, TypeInv', NumbersInv, UNCHANGED view,
         \A t \in Trucks : last[t] <= last'[t],
         \A s \in Sockets : \/ wire'[s] = wire[s]
                            \/ \E m \in Messages : Numbered(m)' /\ wire'[s] = Append(wire[s], m)
  PROVE  NumbersInv'
<1>0. last \in [Trucks -> Nat] /\ last' \in [Trucks -> Nat]
  BY DEF TypeInv, WorldOK
<1>1. ASSUME NEW m \in Messages, Numbered(m) PROVE Numbered(m)'
  <2>1. \A t \in DOMAIN m.states : t \in Trucks /\ m.states[t].number \in Nat
    <3>1. m.states \in Told
      BY DEF Messages
    <3> QED
      BY <3>1 DEF Told, State
  <2> QED
    BY <1>0, <1>1, <2>1 DEF Numbered, Clears
<1>2. ASSUME NEW s \in Sockets, NEW i \in DOMAIN wire'[s] PROVE Numbered(wire[s][i])'
  <2>0. /\ wire[s] \in Seq(Messages)
        /\ \A j \in DOMAIN wire[s] : wire[s][j] \in Messages /\ Numbered(wire[s][j])
    <3>1. wire[s] \in Seq(Messages)
      BY DEF TypeInv, ClientsOK
    <3> QED
      BY <3>1, LenProperties DEF NumbersInv
  <2>1. ASSUME NEW j \in DOMAIN wire[s], wire'[s][i] = wire[s][j] PROVE Numbered(wire[s][i])'
    <3>1. PICK m \in Messages : m = wire[s][j] /\ Numbered(m)
      BY <2>0
    <3>2. Numbered(m)' /\ wire'[s][i] = m
      BY <1>1, <2>1, <3>1
    <3> QED
      BY <3>2 DEF Numbered, Clears
  <2>2. CASE wire'[s] = wire[s]
    BY <1>2, <2>1, <2>2
  <2>3. ASSUME NEW m \in Messages, Numbered(m)', wire'[s] = Append(wire[s], m)
        PROVE  Numbered(wire[s][i])'
    <3>1. (i \in DOMAIN wire[s] /\ wire'[s][i] = wire[s][i]) \/ wire'[s][i] = m
      <4>1. /\ \A j \in DOMAIN wire[s] : wire'[s][j] = wire[s][j]
            /\ DOMAIN wire[s] = 1 .. Len(wire[s]) /\ Len(wire[s]) \in Nat
            /\ DOMAIN wire'[s] = 1 .. (Len(wire[s]) + 1) /\ wire'[s][Len(wire[s]) + 1] = m
        BY <2>0, <2>3, AppendFacts
      <4> QED
        BY <1>2, <4>1
    <3>2. wire'[s][i] = m => Numbered(wire[s][i])'
      BY <2>3 DEF Numbered, Clears
    <3> QED
      BY <2>1, <3>1, <3>2
  <2> QED
    BY <2>2, <2>3
<1>3. ASSUME NEW s \in Sockets, NEW t \in Trucks, view'[s][t] # Nil
      PROVE  view'[s][t].number <= last'[t]
  <2>1. view[s][t] \in State /\ view[s][t].number <= last[t] /\ view'[s][t] = view[s][t]
    BY <1>3 DEF NumbersInv, TypeInv, ClientsOK
  <2> QED
    BY <1>0, <2>1 DEF State
<1> QED
  BY <1>2, <1>3 DEF NumbersInv

LEMMA SendNumbers ==
  ASSUME TypeInv, TypeInv', NumbersInv, UNCHANGED <<last, view>>,
         NEW s \in Sockets, NEW m \in Messages, Numbered(m), Send(s, m)
  PROVE  NumbersInv'
<1>1. Numbered(m)' /\ \A t \in Trucks : last[t] <= last'[t]
  BY DEF Numbered, Clears, TypeInv, WorldOK
<1>2. wire'[s] = Append(wire[s], m) /\ \A r \in Sockets \ {s} : wire'[r] = wire[r]
  BY SendFacts DEF TypeInv, ClientsOK
<1> QED
  BY <1>1, <1>2, NumbersKept

LEMMA NumbersUnchanged ==
  ASSUME NumbersInv, UNCHANGED <<last, view, wire>>
  PROVE  NumbersInv'
BY DEF NumbersInv, Numbered, Clears

(* An event has the truck's next number. *)
LEMMA EmitNumbers ==
  ASSUME TypeInv, TypeInv', NumbersInv, UNCHANGED view,
         NEW u \in Trucks, NEW x \in State, x.number = last'[u], Emit(u, x),
         last' = [last EXCEPT ![u] = @ + 1]
  PROVE  NumbersInv'
<1> DEFINE m == Message("event", Nil, [y \in {u} |-> x])
<1>1. m \in Messages /\ m.states = [y \in {u} |-> x] /\ m.type = "event"
  <2>1. [y \in {u} |-> x] \in Told
    BY ToldFacts
  <2> QED
    BY <2>1, MessageFacts
<1>2. \A s \in Sockets : wire'[s] = IF rooms[s] \cap RoomsFor(u) = {} THEN wire[s]
                                    ELSE Append(wire[s], m)
  BY DEF Emit
<1> HIDE DEF m
<1>3. /\ last \in [Trucks -> Nat] /\ last'[u] \in Nat
      /\ \A t \in Trucks : last[t] <= last'[t]
  BY DEF TypeInv, WorldOK
<1>4. Numbered(m)'
  BY <1>1, <1>3 DEF Numbered, Clears
<1> QED
  BY <1>1, <1>2, <1>3, <1>4, NumbersKept

LEMMA WorldNumbers ==
  ASSUME TypeInv, TypeInv', NumbersInv, World
  PROVE  NumbersInv'
<1>1. ASSUME NEW u \in Trucks, Advance(u) PROVE NumbersInv'
  <2>1. last'[u] \in Nat /\ story'[u] \in Nat
    BY DEF TypeInv, WorldOK
  <2>2. /\ Emit(u, Payload(last'[u], story'[u])) /\ last' = [last EXCEPT ![u] = @ + 1]
        /\ UNCHANGED view
    BY <1>1 DEF Advance
  <2> QED
    BY <2>1, <2>2, PayloadFacts, EmitNumbers
<1>2. ASSUME NEW u \in Trucks, FactAnnounced(u) PROVE NumbersInv'
  <2>1. last'[u] \in Nat /\ facts[u] \in Nat
    BY DEF TypeInv, WorldOK
  <2>2. /\ Emit(u, Payload(last'[u], facts[u])) /\ last' = [last EXCEPT ![u] = @ + 1]
        /\ UNCHANGED view
    BY <1>2 DEF FactAnnounced
  <2> QED
    BY <2>1, <2>2, PayloadFacts, EmitNumbers
<1>3. CASE ResetReloads
  <2> DEFINE told(s) == {x \in OnRoad : rooms[s] \cap RoomsFor(x) # {}}
             m(s)    == Message("event", Nil, [x \in told(s) |-> said'[x]])
  <2>1. /\ last' = [t \in Trucks |-> IF t \in OnRoad THEN last[t] + 1 ELSE last[t]]
        /\ said' = [t \in Trucks |-> IF t \in OnRoad THEN Payload(last'[t], row[t]) ELSE said[t]]
        /\ wire' = [s \in Sockets |-> IF told(s) = {} THEN wire[s] ELSE Append(wire[s], m(s))]
        /\ UNCHANGED view
    BY <1>3 DEF ResetReloads
  <2>2. /\ last \in [Trucks -> Nat] /\ last' \in [Trucks -> Nat] /\ said' \in [Trucks -> State]
        /\ \A t \in Trucks : last[t] <= last'[t]
    BY <2>1 DEF TypeInv, WorldOK
  <2>3. \A t \in OnRoad : t \in Trucks /\ said'[t].number = last'[t]
    BY <2>1, RealtimeAssumption DEF Payload
  <2>4. ASSUME NEW s \in Sockets PROVE \E k \in Messages : k = m(s) /\ Numbered(k)'
    <3>1. told(s) \in SUBSET Trucks
      BY <2>3
    <3>2. [x \in told(s) |-> said'[x]] \in Told
      BY <2>2, <3>1, ToldFacts
    <3>3. /\ m(s) \in Messages /\ m(s).type = "event"
          /\ m(s).states = [x \in told(s) |-> said'[x]]
      BY <3>2, MessageFacts
    <3>4. \A x \in told(s) : said'[x].number <= last'[x]
      BY <2>2, <2>3
    <3>5. PICK k \in Messages : k = m(s)
      BY <3>3
    <3>6. k.type = "event" /\ DOMAIN k.states = told(s)
            /\ \A x \in told(s) : k.states[x] = said'[x]
      BY <3>3, <3>5
    <3> HIDE DEF m, told
    <3>7. Numbered(k)'
      BY <3>4, <3>6 DEF Numbered, Clears
    <3> QED
      BY <3>5, <3>7
  <2> HIDE DEF m, told
  <2>5. \A s \in Sockets : \/ wire'[s] = wire[s]
                           \/ \E k \in Messages : Numbered(k)' /\ wire'[s] = Append(wire[s], k)
    BY <2>1, <2>4
  <2> QED
    BY <2>1, <2>2, <2>5, NumbersKept
<1>4. CASE Start \/ ResetClears \/ ResetRewinds \/ \E u \in Trucks : FactCommits(u)
  BY <1>4, NumbersUnchanged DEF Start, ResetClears, ResetRewinds, FactCommits, clients
<1> QED
  BY <1>1, <1>2, <1>3, <1>4 DEF World

LEMMA LiveNumbered ==
  ASSUME TypeInv, NEW D \in SUBSET live, NEW what \in {Nil, Operations} \cup (Kinds \X Names)
  PROVE  LET m == Message("snapshot", what, [x \in D |-> Live(x)])
         IN  m \in Messages /\ Numbered(m)
<1> DEFINE m == Message("snapshot", what, [x \in D |-> Live(x)])
<1>1. D \in SUBSET Trucks /\ last \in [Trucks -> Nat]
  BY DEF TypeInv, WorldOK
<1>2. [x \in D |-> Live(x)] \in Told
  BY <1>1, LiveTold DEF TypeInv
<1>3. m \in Messages /\ m.type = "snapshot" /\ m.states = [x \in D |-> Live(x)]
  BY <1>2, MessageFacts
<1> HIDE DEF m
<1>4. \A x \in D : Live(x).number <= last[x]
  BY <1>1 DEF Live, Payload
<1>5. Numbered(m)
  BY <1>3, <1>4 DEF Numbered, Clears
<1> QED
  BY <1>3, <1>5 DEF m

LEMMA NothingNumbered ==
  ASSUME NEW type \in {"left", "refused"}, NEW what \in {Nil, Operations} \cup (Kinds \X Names)
  PROVE  LET m == Message(type, what, <<>>) IN m \in Messages /\ Numbered(m)
<1> DEFINE m == Message(type, what, <<>>)
<1>1. m \in Messages /\ m.states = <<>>
  BY EmptyTold, MessageFacts
<1> HIDE DEF m
<1>2. Numbered(m)
  BY <1>1, EmptyTold DEF Numbered
<1> QED
  BY <1>1, <1>2 DEF m

LEMMA ServeNumbers ==
  ASSUME TypeInv, TypeInv', NumbersInv, AnswerInv, NEW q \in Reqs, Serve(q)
  PROVE  NumbersInv'
<1>1. pc[q] # "idle" /\ UNCHANGED <<last, view>>
  BY DEF Serve, LooksUp, Joins, AnswersLive, Reads, Answers, Guard, world, clients
<1>2. /\ call[q].socket \in Sockets /\ call[q].answer \in Told
      /\ Asked(call[q]) \in {Nil, Operations} \cup (Kinds \X Names)
  BY <1>1, UnderWay DEF TypeInv
<1>3. ASSUME NEW m \in Messages, Numbered(m), Send(call[q].socket, m) PROVE NumbersInv'
  BY <1>1, <1>2, <1>3, SendNumbers
<1>4. ASSUME NEW u \in live,
             Send(call[q].socket, Message("snapshot", Asked(call[q]), [x \in {u} |-> Live(x)]))
      PROVE  NumbersInv'
  <2>1. {u} \in SUBSET live
    OBVIOUS
  <2> QED
    BY <1>2, <1>3, <1>4, <2>1, LiveNumbered
<1>5. CASE UNCHANGED wire
  BY <1>1, <1>5, NumbersUnchanged
<1>6. CASE LooksUp(q)
  <2>1. call[q].kind # "operations" /\ pc[q] = "looking"
    BY <1>1, <1>6, UnderWay DEF LooksUp, TypeInv
  <2>2. \/ UNCHANGED wire
        \/ Send(call[q].socket, Message("refused", Asked(call[q]), <<>>))
    BY <1>6, <2>1 DEF LooksUp, Asked
  <2> QED
    BY <1>2, <1>3, <1>5, <2>2, NothingNumbered
<1>7. CASE Joins(q)
  BY <1>4, <1>5, <1>7 DEF Joins
<1>8. CASE AnswersLive(q)
  BY <1>4, <1>8 DEF AnswersLive
<1>9. CASE Reads(q)
  BY <1>5, <1>9 DEF Reads, clients
<1>10. CASE Answers(q)
  <2> DEFINE m == Message("snapshot", Asked(call[q]), call[q].answer)
  <2>1. m \in Messages /\ m.type = "snapshot" /\ m.states = call[q].answer
    BY <1>2, MessageFacts
  <2>2. Send(call[q].socket, m) /\ pc[q] = "answering"
    BY <1>10 DEF Answers
  <2> HIDE DEF m
  <2>3. \A t \in DOMAIN m.states : t \in Trucks /\ m.states[t].number = 0 /\ last[t] \in Nat
    BY <1>2, <2>1, <2>2 DEF AnswerInv, Told, TypeInv, WorldOK
  <2>4. Numbered(m)
    BY <2>1, <2>3 DEF Numbered, Clears
  <2> QED
    BY <1>3, <2>1, <2>2, <2>4
<1>11. CASE Guard(q)
  BY <1>2, <1>3, <1>11, NothingNumbered DEF Guard
<1> QED
  BY <1>6, <1>7, <1>8, <1>9, <1>10, <1>11 DEF Serve

LEMMA HandleNumbers ==
  ASSUME TypeInv, NumbersInv, NEW s \in Sockets, Handle(s)
  PROVE  NumbersInv'
<1>0. PICK m : m = Head(wire[s])
  OBVIOUS
<1>1. /\ wire[s] # <<>> /\ wire' = [wire EXCEPT ![s] = Tail(@)] /\ UNCHANGED last
      /\ wire[s] \in Seq(Messages)
  BY DEF Handle, world, TypeInv, ClientsOK
<1>2. ASSUME NEW t \in Trucks
      PROVE  /\ view'[s][t] \in {Nil, m.states[t], view[s][t]}
             /\ view'[s][t] # Nil /\ view'[s][t] # view[s][t] => t \in DOMAIN m.states
  BY <1>0 DEF Handle, TypeInv, ClientsOK
<1>3. \A r \in Sockets \ {s} : wire'[r] = wire[r] /\ view'[r] = view[r]
  BY <1>1 DEF Handle, TypeInv, ClientsOK
<1>4. /\ \A j \in DOMAIN wire'[s] : j + 1 \in DOMAIN wire[s] /\ wire'[s][j] = wire[s][j + 1]
      /\ 1 \in DOMAIN wire[s] /\ m = wire[s][1]
  <2>1. Len(wire[s]) \in Nat \ {0}
    BY <1>1, EmptySeq
  <2>2. Tail(wire[s]) \in Seq(Messages) /\ Len(Tail(wire[s])) = Len(wire[s]) - 1
    BY <1>1, HeadTailProperties
  <2>3. /\ Head(wire[s]) = wire[s][1]
        /\ \A i \in 1 .. Len(Tail(wire[s])) : Tail(wire[s])[i] = wire[s][i + 1]
    BY <1>1, <2>1, HeadTailProperties
  <2>4. /\ DOMAIN wire[s] = 1 .. Len(wire[s])
        /\ DOMAIN Tail(wire[s]) = 1 .. Len(Tail(wire[s]))
    BY <1>1, <2>2, LenProperties
  <2>5. wire'[s] = Tail(wire[s])
    BY <1>1 DEF TypeInv, ClientsOK
  <2> QED
    BY <1>0, <2>1, <2>2, <2>3, <2>4, <2>5
<1>5. ASSUME NEW r \in Sockets, NEW i \in DOMAIN wire'[r] PROVE Numbered(wire[r][i])'
  <2>1. PICK j \in DOMAIN wire[r] : wire'[r][i] = wire[r][j]
    BY <1>3, <1>4, <1>5
  <2>2. Numbered(wire[r][j])
    BY <2>1 DEF NumbersInv
  <2> QED
    BY <1>1, <2>1, <2>2 DEF Numbered, Clears
<1>6. ASSUME NEW r \in Sockets, NEW t \in Trucks, view'[r][t] # Nil
      PROVE  view'[r][t].number <= last'[t]
  <2>1. CASE view'[r][t] = view[r][t]
    BY <1>1, <1>6, <2>1 DEF NumbersInv
  <2>2. CASE view'[r][t] # view[r][t]
    <3>1. r = s /\ t \in DOMAIN m.states /\ view'[r][t] = m.states[t]
      BY <1>2, <1>3, <1>6, <2>2
    <3>2. Numbered(m)
      BY <1>4 DEF NumbersInv
    <3> QED
      BY <1>1, <3>1, <3>2 DEF Numbered
  <2> QED
    BY <2>1, <2>2
<1> QED
  BY <1>5, <1>6 DEF NumbersInv

LEMMA ClientNumbers ==
  ASSUME TypeInv, TypeInv', NumbersInv, NEW s \in Sockets, Client(s)
  PROVE  NumbersInv'
<1>1. ASSUME NEW m \in Messages, Numbered(m), Send(s, m), UNCHANGED <<last, view>> PROVE NumbersInv'
  BY <1>1, SendNumbers
<1>2. CASE UnsubscribeOperations(s)
  <2>1. Send(s, Message("left", Operations, <<>>)) /\ UNCHANGED <<last, view>>
    BY <1>2 DEF UnsubscribeOperations, world
  <2> QED
    BY <1>1, <2>1, NothingNumbered
<1>3. ASSUME NEW kind \in Kinds, NEW n \in NamesOf(kind), Unsubscribe(s, kind, n)
      PROVE  NumbersInv'
  <2>1. Send(s, Message("left", <<kind, n>>, <<>>)) /\ UNCHANGED <<last, view>>
    BY <1>3 DEF Unsubscribe, world
  <2>2. <<kind, n>> \in Kinds \X Names
    BY DEF NamesOf, Names
  <2> QED
    BY <1>1, <2>1, <2>2, NothingNumbered
<1>4. ASSUME NEW q \in Reqs, SubscribeOperations(q, s) PROVE NumbersInv'
  <2>1. /\ UNCHANGED <<last, view>>
        /\ UNCHANGED wire \/ Send(s, Message("snapshot", Operations, [t \in live |-> Live(t)]))
    BY <1>4 DEF SubscribeOperations, world
  <2> QED
    BY <1>1, <2>1, LiveNumbered, NumbersUnchanged
<1>5. ASSUME NEW q \in Reqs, NEW kind \in Kinds, NEW n \in NamesOf(kind), Subscribe(q, s, kind, n)
      PROVE  NumbersInv'
  BY <1>5, NumbersUnchanged DEF Subscribe, world
<1>6. CASE Disconnect(s)
  <2>1. /\ wire'[s] = <<>> /\ \A t \in Trucks : view'[s][t] = Nil
        /\ \A r \in Sockets \ {s} : wire'[r] = wire[r] /\ view'[r] = view[r]
        /\ UNCHANGED last
    BY <1>6 DEF Disconnect, TypeInv, ClientsOK, world
  <2> QED
    BY <2>1, EmptyTold DEF NumbersInv, Numbered, Clears
<1> QED
  BY <1>2, <1>3, <1>4, <1>5, <1>6, HandleNumbers DEF Client

LEMMA NumbersStep ==
  ASSUME TypeInv, TypeInv', AnswerInv, NumbersInv, [Next]_vars
  PROVE  NumbersInv'
<1>1. CASE UNCHANGED vars
  BY <1>1, NumbersUnchanged DEF vars, world, clients
<1> QED
  BY <1>1, WorldNumbers, ServeNumbers, ClientNumbers DEF Next

-----------------------------------------------------------------------------
(* A dashboard misses nothing *)

LEMMA FollowerStart == Init => FollowerInv
<1> SUFFICES ASSUME Init PROVE FollowerInv
  OBVIOUS
<1>1. \A t \in Trucks : /\ said[t] = [number |-> 0, story |-> 0]
                        /\ last[t] = 0 /\ facts[t] = 0 /\ story[t] = 0
  BY DEF Init
<1>2. EngineInv
  BY <1>1, RealtimeAssumption DEF Init, EngineInv
<1>3. OneAtATime /\ AnswerInv
  BY DEF Init, OneAtATime, AnswerInv
<1>4. \A s \in Sockets : DOMAIN wire[s] = {} /\ \A t \in Trucks : view[s][t] = Nil
  BY EmptyTold DEF Init
<1>5. NumbersInv
  BY <1>4 DEF NumbersInv
<1>6. FollowInv
  BY <1>4 DEF FollowInv, UpToDate, Opens, Quiet
<1> QED
  BY <1>2, <1>3, <1>5, <1>6 DEF FollowerInv

LEMMA FollowerStep ==
  ASSUME Attentive
  PROVE  RoomsInv /\ FollowerInv /\ [Next]_vars => FollowerInv'
<1> SUFFICES ASSUME RoomsInv, FollowerInv, [Next]_vars PROVE FollowerInv'
  OBVIOUS
<1>1. RoomsInv' /\ TypeInv /\ TypeInv'
  BY RoomsStep DEF RoomsInv
<1>2. EngineInv /\ OneAtATime /\ AnswerInv /\ NumbersInv /\ FollowInv
  BY DEF FollowerInv
<1>3. EngineInv' /\ NumbersInv'
  BY <1>1, <1>2, EngineKept, NumbersStep
<1>4. CASE World
  <2>1. UNCHANGED <<pc, call>>
    BY <1>1, <1>4, WorldLonger
  <2>2. OneAtATime' /\ AnswerInv'
    BY <1>2, <2>1, NobodyAsks
  <2> QED
    BY <1>1, <1>2, <1>3, <1>4, <2>2, WorldFollowed DEF FollowerInv
<1>5. ASSUME NEW q \in Reqs, Serve(q) PROVE FollowerInv'
  BY <1>1, <1>2, <1>3, <1>5, ServeKeepsOne, ServeFollowed DEF FollowerInv
<1>6. ASSUME NEW s \in Sockets, Client(s) PROVE FollowerInv'
  BY <1>1, <1>2, <1>3, <1>6, ClientKeepsOne, ClientFollowed DEF FollowerInv
<1>7. CASE UNCHANGED vars
  <2>1. UNCHANGED <<reset, wire, rooms, wants, view, said, pc, call>>
    BY <1>7 DEF vars, world, clients
  <2>2. FollowInv'
    BY <1>2, <2>1, Elsewhere DEF FollowInv
  <2>3. OneAtATime' /\ AnswerInv'
    BY <1>2, <2>1, NobodyAsks
  <2> QED
    BY <1>3, <2>2, <2>3 DEF FollowerInv
<1> QED
  BY <1>4, <1>5, <1>6, <1>7 DEF Next

(* A dashboard misses nothing: however events, snapshots, refusals, loads  *)
(* and rewinds meet, a client that asks once it has handled what it was    *)
(* told, follows a truck and has nothing left to handle, holds the truck's *)
(* last event, or what its row said.                                       *)
THEOREM FollowersAreCurrent == ASSUME Attentive PROVE Spec => []FollowerIsCurrent
<1>1. Spec => []FollowerInv
  BY FollowerStart, FollowerStep, RoomsAreKept, PTL DEF Spec
<1>2. FollowerInv => FollowerIsCurrent
  <2> SUFFICES ASSUME FollowerInv, NEW s \in Sockets, NEW t \in Trucks,
                      Settled(s), Follows(wants[s], t), view[s][t] # Nil, view[s][t].number > 0,
                      t \in OnRoad \/ reset = "none"
               PROVE  view[s][t] = said[t]
    BY DEF FollowerIsCurrent
  <2>1. DOMAIN wire[s] = {} /\ \A q \in Reqs : call[q].socket # s
    BY EmptyTold DEF Settled
  <2>2. UpToDate(s, t)
    BY DEF FollowerInv, FollowInv
  <2>3. Opens(s, t) \/ Tells(s, t)
    BY <2>1, <2>2, AtRest
  <2>4. ~Opens(s, t)
    BY <2>1 DEF Opens
  <2> QED
    BY <2>1, <2>3, <2>4 DEF Tells
<1> QED
  BY <1>1, <1>2, PTL
=============================================================================
