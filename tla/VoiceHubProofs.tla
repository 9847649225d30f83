---------------------------- MODULE VoiceHubProofs --------------------------
(***************************************************************************)
(* Facts about the calls of the voice hub, for any number of peers and     *)
(* rooms and any length of the queues.                                     *)
(***************************************************************************)
EXTENDS VoiceHub, SequenceTheorems, TLAPS

Lives == {"open", "stopped", "closing"}
Letters == [Peers -> Seq(Packet)]  \* what a call may send

Floors == [owner : Peers \cup {Nobody}, stream : Nat, seq : Nat,
           over : BOOLEAN, frames : 0..MaxRate]

-----------------------------------------------------------------------------
(* What the calls send                                                     *)

\* The hub's messages (floor, grant, busy and audio) are packets.
LEMMA PacketTypes ==
  /\ \A s \in Nat : Floor(s) \in Packet
  /\ \A s, n \in Nat : Grant(s, n) \in Packet /\ Audio(s, n) \in Packet
  /\ \A n \in Nat : Busy(n) \in Packet
  BY DEF Floor, Grant, Busy, Audio, Packet

\* A message to one peer reaches nobody else.
LEMMA ToTypes ==
  ASSUME NEW p \in Peers, NEW m \in Packet
  PROVE  /\ To(p, m) \in Letters
         /\ \A q \in Peers : To(p, m)[q] = IF q = p THEN <<m>> ELSE <<>>
<1>1. /\ Nothing = [q \in Peers |-> <<>>]
      /\ To(p, m) = [Nothing EXCEPT ![p] = <<m>>]
  BY DEF To, Nothing
<1>2. \A q \in Peers : To(p, m)[q] = IF q = p THEN <<m>> ELSE <<>>
  BY <1>1
<1>3. <<m>> \in Seq(Packet) /\ <<>> \in Seq(Packet)
  OBVIOUS
<1> QED BY <1>1, <1>2, <1>3 DEF Letters

\* A message to a room reaches its peers only.
LEMMA ToRoomTypes ==
  ASSUME NEW at, NEW r, NEW m \in Packet
  PROVE  /\ ToRoom(at, r, m) \in Letters
         /\ \A q \in Peers :
              ToRoom(at, r, m)[q] = IF at[q] = r THEN <<m>> ELSE <<>>
  BY DEF ToRoom, Letters

\* What two calls send, a peer hears one after the other.
LEMMA ThenTypes ==
  ASSUME NEW a \in Letters, NEW b \in Letters
  PROVE  /\ Then(a, b) \in Letters
         /\ \A q \in Peers : Then(a, b)[q] = a[q] \o b[q]
  BY DEF Then, Letters

\* The peers of the rooms whose lease ended hear that the floor is free.
LEMMA NoticesTypes ==
  ASSUME NEW at
  PROVE  /\ Notices(at) \in Letters
         /\ \A q \in Peers : Notices(at)[q] =
              IF at[q] \in Expired THEN <<Floor(0)>> ELSE <<>>
<1>1. Floor(0) \in Packet
  BY PacketTypes
<1> QED BY <1>1 DEF Notices, Letters

-----------------------------------------------------------------------------
(* The queues                                                              *)

\* A channel holds no more than its capacity, and everything up to it.
LEMMA QueuedTypes ==
  ASSUME NEW ms \in Seq(Packet)
  PROVE  /\ Queued(ms) \in Seq(Packet) /\ Len(Queued(ms)) <= QueueLimit
         /\ Len(ms) <= QueueLimit => Queued(ms) = ms
<1>1. QueueLimit \in Nat /\ QueueLimit > 0 /\ Len(ms) \in Nat
  BY VoiceAssumption
<1>2. CASE Len(ms) > QueueLimit
  <2>1. SubSeq(ms, 1, QueueLimit) \in Seq(Packet)
    BY <1>1, <1>2
  <2>2. Len(SubSeq(ms, 1, QueueLimit)) = QueueLimit
    BY <1>1, <1>2
  <2> QED BY <1>1, <1>2, <2>1, <2>2 DEF Queued
<1>3. CASE ~(Len(ms) > QueueLimit)
  BY <1>1, <1>3 DEF Queued
<1> QED BY <1>2, <1>3

\* A session that goes on after a call got all that the call sent (hub.go send).
LEMMA PushTypes ==
  ASSUME NEW queue \in Letters, NEW state \in [Peers -> Lives],
         NEW ms \in Letters, Push(queue, state, ms)
  PROVE  /\ out' \in [Peers -> Seq(Packet)]
         /\ \A p \in Peers : Len(out'[p]) <= QueueLimit
         /\ life' \in [Peers -> Lives]
         /\ \A p \in Peers : life'[p] = "open" =>
              state[p] = "open" /\ out'[p] = queue[p] \o ms[p]
<1>1. \A p \in Peers : queue[p] \o ms[p] \in Seq(Packet)
  BY DEF Letters
<1>2. \A p \in Peers : /\ Queued(queue[p] \o ms[p]) \in Seq(Packet)
                       /\ Len(Queued(queue[p] \o ms[p])) <= QueueLimit
  BY <1>1, QueuedTypes
<1>3. out' = [p \in Peers |-> Queued(queue[p] \o ms[p])]
  BY DEF Push
<1>4. life' = [p \in Peers |->
        IF state[p] = "open" /\ Len(queue[p] \o ms[p]) > QueueLimit
        THEN "stopped" ELSE state[p]]
  BY DEF Push
<1>5. life' \in [Peers -> Lives]
  BY <1>4 DEF Lives
<1>6. ASSUME NEW p \in Peers, life'[p] = "open"
      PROVE  state[p] = "open" /\ out'[p] = queue[p] \o ms[p]
  <2>1. state[p] = "open" /\ ~(Len(queue[p] \o ms[p]) > QueueLimit)
    BY <1>4, <1>6
  <2>2. QueueLimit \in Nat
    BY VoiceAssumption
  <2>3. Len(queue[p] \o ms[p]) <= QueueLimit
    <3> DEFINE l == Len(queue[p] \o ms[p])
    <3>1. queue[p] \o ms[p] \in Seq(Packet)
      BY <1>1
    <3>2. l \in Nat
      BY <3>1, LenProperties
    <3>3. ~(l > QueueLimit)
      BY <2>1
    <3> HIDE DEF l
    <3>4. l <= QueueLimit
      BY <2>2, <3>2, <3>3
    <3> QED BY <3>4 DEF l
  <2> QED BY <1>1, <1>3, <2>1, <2>3, QueuedTypes
<1> QED BY <1>2, <1>3, <1>5, <1>6
-----------------------------------------------------------------------------
(* What a call tells a peer about the floor of its room, that was f and     *)
(* is g: it keeps it in silence, or loses it and hears so, and is given     *)
(* nothing.                                                                 *)

NoGrant(ms) == \A k \in DOMAIN ms : ms[k].kind # "grant"
NoFloor(ms) == \A k \in DOMAIN ms : ms[k].kind # "floor"

Turn(p, f, g, ms) ==
  /\ NoGrant(ms)
  /\ g.owner = p => /\ f.owner = p /\ f.stream = g.stream /\ f.seq = g.seq
                    /\ NoFloor(ms)
  /\ f.owner = p /\ g.owner # p => \E k \in DOMAIN ms : ms[k] = Floor(0)

\* Two empty queues are an empty one.
LEMMA EmptyBoth == <<>> \o <<>> = <<>>
  OBVIOUS

\* Nothing behind a queue leaves it as it is.
LEMMA EmptyLast == ASSUME NEW a \in Seq(Packet) PROVE a \o <<>> = a
  OBVIOUS

\* Two messages one after the other are a queue of two.
LEMMA Pair ==
  ASSUME NEW a \in Packet, NEW b \in Packet PROVE <<a>> \o <<b>> = <<a, b>>
<1> DEFINE c == <<a>> \o <<b>>
           d == <<a, b>>
<1>1. /\ c \in Seq(Packet) /\ d \in Seq(Packet) /\ Len(c) = 2 /\ Len(d) = 2
      /\ c[1] = a /\ c[2] = b /\ d[1] = a /\ d[2] = b
  OBVIOUS
<1> HIDE DEF c, d
<1>2. \A k \in 1..Len(c) : c[k] = d[k]
  BY <1>1
<1>3. c = d
  BY <1>1, <1>2, SeqEqual
<1> QED BY <1>3 DEF c, d

\* A call that sends a peer nothing leaves its floor as it is.
LEMMA TurnNone ==
  ASSUME NEW p, NEW f, NEW g,
         f.owner = g.owner /\ f.stream = g.stream /\ f.seq = g.seq
  PROVE  Turn(p, f, g, <<>>)
  BY DEF Turn, NoGrant, NoFloor

\* Audio and busy say nothing about the floor.
LEMMA TurnOther ==
  ASSUME NEW p, NEW f, NEW m, m.kind \notin {"grant", "floor"}
  PROVE  Turn(p, f, f, <<m>>)
  BY DEF Turn, NoGrant, NoFloor

\* The floor of somebody else changes.
LEMMA TurnElse ==
  ASSUME NEW p, NEW f, NEW g, NEW m, m.kind # "grant", f.owner # p, g.owner # p
  PROVE  Turn(p, f, g, <<m>>)
  BY DEF Turn, NoGrant, NoFloor

\* The floor that is taken away is announced.
LEMMA TurnFree ==
  ASSUME NEW p \in Peers, NEW f, NEW g, g.owner = Nobody
  PROVE  Turn(p, f, g, <<Floor(0)>>)
<1>1. Floor(0).kind = "floor" /\ g.owner # p
  BY VoiceAssumption DEF Floor
<1>2. <<Floor(0)>>[1] = Floor(0) /\ DOMAIN <<Floor(0)>> = {1}
  OBVIOUS
<1> QED BY <1>1, <1>2 DEF Turn, NoGrant, NoFloor

\* Turns of the floor compose.
LEMMA TurnThen ==
  ASSUME NEW p, NEW f, NEW g, NEW h,
         NEW a \in Seq(Packet), NEW b \in Seq(Packet),
         Turn(p, f, g, a), Turn(p, g, h, b)
  PROVE  Turn(p, f, h, a \o b)
<1> DEFINE c == a \o b
<1>1. /\ Len(a) \in Nat /\ Len(b) \in Nat
      /\ DOMAIN a = 1..Len(a) /\ DOMAIN b = 1..Len(b)
      /\ DOMAIN c = 1..(Len(a) + Len(b))
      /\ \A k \in 1..Len(a) : c[k] = a[k]
      /\ \A k \in 1..Len(b) : c[Len(a) + k] = b[k]
  OBVIOUS
<1> HIDE DEF c
<1>2. ASSUME NEW k \in DOMAIN c
      PROVE  \/ k \in DOMAIN a /\ c[k] = a[k]
             \/ \E j \in DOMAIN b : c[k] = b[j]
  <2>1. CASE k \in 1..Len(a)
    BY <1>1, <2>1
  <2>2. CASE k \notin 1..Len(a)
    <3>1. k - Len(a) \in 1..Len(b) /\ k = Len(a) + (k - Len(a))
      BY <1>1, <2>2
    <3> QED BY <1>1, <3>1
  <2> QED BY <2>1, <2>2
<1>3. NoGrant(c)
  BY <1>2 DEF Turn, NoGrant
<1>4. h.owner = p => /\ f.owner = p /\ f.stream = h.stream /\ f.seq = h.seq
                     /\ NoFloor(c)
  BY <1>2 DEF Turn, NoFloor
<1>5. ASSUME f.owner = p, h.owner # p
      PROVE  \E k \in DOMAIN c : c[k] = Floor(0)
  <2>1. CASE g.owner = p
    <3>1. PICK k \in DOMAIN b : b[k] = Floor(0)
      BY <1>5, <2>1 DEF Turn
    <3>2. Len(a) + k \in DOMAIN c /\ c[Len(a) + k] = Floor(0)
      BY <1>1, <3>1
    <3> QED BY <3>2
  <2>2. CASE g.owner # p
    <3>1. PICK k \in DOMAIN a : a[k] = Floor(0)
      BY <1>5, <2>2 DEF Turn
    <3>2. k \in DOMAIN c /\ c[k] = Floor(0)
      BY <1>1, <3>1
    <3> QED BY <3>2
  <2> QED BY <2>1, <2>2
<1>6. Turn(p, f, h, c)
  BY <1>3, <1>4, <1>5 DEF Turn
<1> QED BY <1>6 DEF c

\* expire.
LEMMA NoticesTurn ==
  ASSUME NEW at, NEW p \in Peers, at[p] \in Rooms
  PROVE  Turn(p, floors[at[p]], Swept[at[p]], Notices(at)[p])
<1>1. CASE at[p] \in Expired
  <2>1. Notices(at)[p] = <<Floor(0)>>
    BY <1>1, NoticesTypes
  <2>2. Swept[at[p]].owner = Nobody
    BY <1>1 DEF Swept, Free, Held
  <2> QED BY <2>1, <2>2, TurnFree
<1>2. CASE at[p] \notin Expired
  <2>1. Notices(at)[p] = <<>>
    BY <1>2, NoticesTypes
  <2>2. Swept[at[p]] = floors[at[p]]
    BY <1>2 DEF Swept
  <2> QED BY <2>1, <2>2, TurnNone
<1> QED BY <1>1, <1>2

-----------------------------------------------------------------------------
(* The calls, for the peers that only hear of them                          *)

HubInv ==
  /\ HubTypeOK /\ FloorHasPeer
  /\ \A p \in Peers : room[p] = NoRoom => out[p] = <<>>

\* The session of p goes on.
Goes(p) == room'[p] # NoRoom /\ life'[p] = "open"

Follows(p) ==
  /\ room'[p] = room[p] /\ life[p] = "open"
  /\ next' \in Nat /\ next <= next'
  /\ \E ms \in Seq(Packet) :
       out'[p] = out[p] \o ms /\ Turn(p, floors[room[p]], floors'[room[p]], ms)

\* What the invariant says of the types.
LEMMA HubTypes ==
  ASSUME HubInv
  PROVE  /\ room \in [Peers -> Rooms \cup {NoRoom}] /\ NoRoom \notin Rooms
         /\ floors \in [Rooms -> Floors] /\ next \in Nat
         /\ out \in Letters /\ life \in [Peers -> Lives]
         /\ \A p \in Peers : out[p] \in Seq(Packet) /\ Len(out[p]) <= QueueLimit
         /\ allowed \subseteq Peers \X Rooms
         /\ \A p \in Peers : room[p] = NoRoom => out[p] = <<>>
  BY VoiceAssumption DEF HubInv, HubTypeOK, Floors, Letters, Lives

\* A floor is free or held by a peer of its room, after expire as well.
LEMMA HubFloors ==
  ASSUME HubInv
  PROVE  /\ Swept \in [Rooms -> Floors] /\ Free \in Floors
         /\ \A r \in Rooms : Swept[r] = Free \/ Swept[r] = floors[r]
         /\ \A r \in Rooms : Swept[r] # Free =>
              \E p \in Peers : Swept[r].owner = p /\ room[p] = r
         /\ Free.owner = Nobody /\ Nobody \notin Peers
<1>1. Free \in Floors /\ Free.owner = Nobody
  BY VoiceAssumption DEF Free, Held, Floors
<1>2. /\ Swept \in [Rooms -> Floors]
      /\ \A r \in Rooms : Swept[r] = Free \/ Swept[r] = floors[r]
  BY <1>1, HubTypes DEF Swept
<1> QED BY <1>1, <1>2, VoiceAssumption DEF HubInv, FloorHasPeer

\* A call that keeps everybody in the room.
LEMMA CallFollows ==
  ASSUME HubInv, UNCHANGED <<room, allowed>>,
         next' \in Nat, next <= next',
         floors' \in [Rooms -> Floors], FloorHasPeer',
         NEW state \in [Peers -> Lives],
         \A p \in Peers : state[p] = "open" => life[p] = "open",
         NEW ms \in Letters, Push(out, state, ms),
         \A p \in Peers : room[p] = NoRoom => ms[p] = <<>>
  PROVE  /\ HubInv'
         /\ \A p \in Peers : Goes(p) =>
              /\ room[p] \in Rooms /\ out'[p] = out[p] \o ms[p]
              /\ Turn(p, floors[room[p]], floors'[room[p]], ms[p]) => Follows(p)
<1>1. /\ out \in Letters /\ room \in [Peers -> Rooms \cup {NoRoom}]
      /\ allowed \subseteq Peers \X Rooms
      /\ \A p \in Peers : room[p] = NoRoom => out[p] = <<>>
  BY HubTypes
<1>2. /\ out' \in [Peers -> Seq(Packet)]
      /\ \A p \in Peers : Len(out'[p]) <= QueueLimit
      /\ life' \in [Peers -> Lives]
      /\ \A p \in Peers : life'[p] = "open" =>
           state[p] = "open" /\ out'[p] = out[p] \o ms[p]
  BY <1>1, PushTypes
<1>3. HubTypeOK'
  BY <1>1, <1>2 DEF HubTypeOK, Floors, Lives
<1>4. ASSUME NEW p \in Peers, room'[p] = NoRoom
      PROVE  out'[p] = <<>>
  <2>1. out[p] = <<>> /\ ms[p] = <<>>
    BY <1>1, <1>4
  <2>2. out'[p] = Queued(out[p] \o ms[p])
    BY DEF Push
  <2>3. <<>> \o <<>> = <<>> /\ <<>> \in Seq(Packet) /\ Len(<<>>) = 0
    OBVIOUS
  <2>4. Len(<<>>) <= QueueLimit
    BY <2>3, VoiceAssumption
  <2>5. Queued(<<>>) = <<>>
    BY <2>3, <2>4, QueuedTypes
  <2> QED BY <2>1, <2>2, <2>3, <2>5
<1>5. HubInv'
  BY <1>3, <1>4 DEF HubInv
<1>6. ASSUME NEW p \in Peers, Goes(p)
      PROVE  /\ room[p] \in Rooms /\ out'[p] = out[p] \o ms[p]
             /\ Turn(p, floors[room[p]], floors'[room[p]], ms[p]) => Follows(p)
  <2>1. room[p] \in Rooms /\ room'[p] = room[p] /\ life'[p] = "open"
    BY <1>1, <1>6 DEF Goes
  <2>2. life[p] = "open" /\ out'[p] = out[p] \o ms[p] /\ ms[p] \in Seq(Packet)
    BY <1>2, <2>1 DEF Letters
  <2> QED BY <2>1, <2>2 DEF Follows
<1> QED BY <1>5, <1>6
\* Ending leases leaves every floor with a peer of its room.
LEMMA SweepPeers ==
  ASSUME HubInv, floors' = Swept, room' = room
  PROVE  FloorHasPeer' /\ floors' \in [Rooms -> Floors]
  BY HubFloors DEF FloorHasPeer

\* Nobody outside the rooms is sent anything.
LEMMA AwayHearsNothing ==
  ASSUME HubInv, NEW p \in Peers, room[p] # NoRoom, NEW m \in Packet,
         NEW q \in Peers, room[q] = NoRoom
  PROVE  /\ Notices(room)[q] = <<>> /\ To(p, m)[q] = <<>>
         /\ ToRoom(room, room[p], m)[q] = <<>>
<1>1. Notices(room)[q] = <<>>
  BY HubTypes, NoticesTypes DEF Expired
<1>2. To(p, m)[q] = <<>>
  BY ToTypes
<1>3. ToRoom(room, room[p], m)[q] = <<>>
  <2>1. ToRoom(room, room[p], m)[q] =
          IF room[q] = room[p] THEN <<m>> ELSE <<>>
    BY ToRoomTypes
  <2> QED BY <2>1
<1> QED BY <1>1, <1>2, <1>3

\* Request while the floor is taken: everybody can follow.
LEMMA RefuseFollows ==
  ASSUME HubInv, NEW p \in Peers, room[p] # NoRoom, NEW q \in Nat,
         Refuse(p, q), UNCHANGED <<room, allowed>>
  PROVE  HubInv' /\ \A r \in Peers : Goes(r) => Follows(r)
<1> DEFINE N == Notices(room)
           B == To(p, Busy(q))
           ms == Then(N, B)
<1>1. Busy(q) \in Packet /\ Busy(q).kind = "busy"
  BY PacketTypes DEF Busy
<1>2. /\ N \in Letters /\ B \in Letters /\ ms \in Letters
      /\ \A r \in Peers : ms[r] = N[r] \o B[r]
      /\ \A r \in Peers : B[r] = <<>> \/ B[r] = <<Busy(q)>>
  <2>1. N \in Letters
    BY NoticesTypes
  <2>2. /\ B \in Letters
        /\ \A r \in Peers : B[r] = <<>> \/ B[r] = <<Busy(q)>>
    BY <1>1, ToTypes
  <2> HIDE DEF N, B
  <2> QED BY <2>1, <2>2, ThenTypes
<1>3. floors' = Swept /\ next' = next /\ Push(out, life, ms)
  BY DEF Refuse
<1>4. ASSUME NEW r \in Peers, room[r] = NoRoom PROVE ms[r] = <<>>
  <2>1. N[r] = <<>> /\ B[r] = <<>>
    BY <1>1, <1>4, AwayHearsNothing
  <2> HIDE DEF N, B, ms
  <2> QED BY <1>2, <2>1, EmptyBoth
<1>5. ASSUME NEW r \in Peers, room[r] \in Rooms
      PROVE  Turn(r, floors[room[r]], floors'[room[r]], ms[r])
  <2>1. Turn(r, floors[room[r]], Swept[room[r]], N[r])
    BY <1>5, NoticesTurn
  <2>2. Turn(r, Swept[room[r]], Swept[room[r]], B[r])
    BY <1>1, <1>2, TurnNone, TurnOther
  <2> HIDE DEF N, B, ms
  <2>3. N[r] \in Seq(Packet) /\ B[r] \in Seq(Packet)
    BY <1>2 DEF Letters
  <2>4. Turn(r, floors[room[r]], Swept[room[r]], N[r] \o B[r])
    BY <2>1, <2>2, <2>3, TurnThen
  <2> QED BY <1>2, <1>3, <2>4
<1>6. next \in Nat /\ next <= next /\ life \in [Peers -> Lives]
  BY HubTypes
<1> HIDE DEF ms
<1>7. /\ HubInv'
      /\ \A r \in Peers : Goes(r) =>
           /\ room[r] \in Rooms /\ out'[r] = out[r] \o ms[r]
           /\ Turn(r, floors[room[r]], floors'[room[r]], ms[r]) => Follows(r)
  BY <1>2, <1>3, <1>4, <1>6, SweepPeers, CallFollows
<1> QED BY <1>5, <1>7

\* The ticker, and a frame that is refused.
LEMMA SweepFollows ==
  ASSUME HubInv, floors' = Swept,
         NEW state \in [Peers -> Lives],
         \A p \in Peers : state[p] = "open" => life[p] = "open",
         Push(out, state, Notices(room)), UNCHANGED <<room, next, allowed>>
  PROVE  HubInv' /\ \A r \in Peers : Goes(r) => Follows(r)
<1> DEFINE ms == Notices(room)
<1>1. ms \in Letters
  BY NoticesTypes
<1>2. ASSUME NEW r \in Peers, room[r] = NoRoom PROVE ms[r] = <<>>
  BY <1>2, HubTypes, NoticesTypes DEF Expired
<1>3. \A r \in Peers : room[r] \in Rooms =>
        Turn(r, floors[room[r]], floors'[room[r]], ms[r])
  BY NoticesTurn
<1>4. next' \in Nat /\ next <= next'
  BY HubTypes
<1> HIDE DEF ms
<1>5. Push(out, state, ms)
  BY DEF ms
<1>6. /\ HubInv'
      /\ \A r \in Peers : Goes(r) =>
           /\ room[r] \in Rooms /\ out'[r] = out[r] \o ms[r]
           /\ Turn(r, floors[room[r]], floors'[room[r]], ms[r]) => Follows(r)
  BY <1>1, <1>2, <1>4, <1>5, SweepPeers, CallFollows
<1> QED BY <1>3, <1>6

\* The ticker: everybody can follow.
LEMMA TickFollows ==
  ASSUME HubInv, NEW p \in Peers, Tick(p)
  PROVE  HubInv' /\ \A r \in Peers : Goes(r) => Follows(r)
  BY HubTypes, SweepFollows DEF Tick

\* A stream is given: its peer hears that the floor is free, if it has not
\* yet, and then gets what the others are told of.
LEMMA GiveFollows ==
  ASSUME HubInv, NEW p \in Peers, room[p] # NoRoom, NEW q \in Nat,
         Give(p, q), UNCHANGED <<room, allowed>>
  PROVE  /\ HubInv'
         /\ \A r \in Peers \ {p} : Goes(r) => Follows(r)
         /\ Goes(p) =>
              /\ room'[p] = room[p] /\ life[p] = "open" /\ next' = next + 1
              /\ floors'[room[p]] = Held(p, next + 1)
              /\ Notices(room)[p] \in Seq(Packet)
              /\ Turn(p, floors[room[p]], Free, Notices(room)[p])
              /\ out'[p] = out[p] \o
                   (Notices(room)[p] \o <<Floor(next + 1), Grant(next + 1, q)>>)
<1> DEFINE s == next + 1
           N == Notices(room)
           R == ToRoom(room, room[p], Floor(s))
           G == To(p, Grant(s, q))
           RG == Then(R, G)
           ms == Then(N, RG)
<1>1. /\ next \in Nat /\ s \in Nat /\ life \in [Peers -> Lives]
      /\ room[p] \in Rooms
  BY HubTypes
<1>2. /\ Push(out, life, ms) /\ next' = s
      /\ floors' = [Swept EXCEPT ![room[p]] = Held(p, s)]
      /\ Swept[room[p]] = Free
  BY DEF Give, Granted
<1> HIDE DEF s
<1>3. /\ Floor(s) \in Packet /\ Grant(s, q) \in Packet
      /\ Floor(s).kind = "floor"
  BY <1>1, PacketTypes DEF Floor
<1>4. /\ N \in Letters /\ R \in Letters /\ G \in Letters
      /\ \A r \in Peers :
           R[r] = IF room[r] = room[p] THEN <<Floor(s)>> ELSE <<>>
      /\ \A r \in Peers : G[r] = IF r = p THEN <<Grant(s, q)>> ELSE <<>>
  BY <1>3, NoticesTypes, ToRoomTypes, ToTypes
<1>5. ASSUME NEW r \in Peers, room[r] = NoRoom
      PROVE  N[r] = <<>> /\ R[r] = <<>> /\ G[r] = <<>>
  BY <1>3, <1>5, AwayHearsNothing
<1>6. ASSUME NEW r \in Peers, room[r] \in Rooms
      PROVE  Turn(r, floors[room[r]], Swept[room[r]], N[r])
  BY <1>6, NoticesTurn
<1> HIDE DEF N, R, G
<1>7. RG \in Letters /\ \A r \in Peers : RG[r] = R[r] \o G[r]
  BY <1>4, ThenTypes
<1> HIDE DEF RG
<1>8. ms \in Letters /\ \A r \in Peers : ms[r] = N[r] \o RG[r]
  BY <1>4, <1>7, ThenTypes
<1> HIDE DEF ms
<1>9. /\ Held(p, s) \in Floors /\ Held(p, s).owner = p
  BY <1>1, VoiceAssumption DEF Held, Floors
<1>10. /\ floors' \in [Rooms -> Floors] /\ floors'[room[p]] = Held(p, s)
       /\ \A r \in Rooms : r # room[p] => floors'[r] = Swept[r]
  BY <1>1, <1>2, <1>9, HubFloors
<1>11. FloorHasPeer'
  <2> SUFFICES ASSUME NEW r \in Rooms, floors'[r] # Free
               PROVE  \E o \in Peers : floors'[r].owner = o /\ room[o] = r
    BY DEF FloorHasPeer
  <2> QED BY <1>1, <1>9, <1>10, HubFloors
<1>12. ASSUME NEW r \in Peers, room[r] = NoRoom PROVE ms[r] = <<>>
  BY <1>5, <1>7, <1>8, <1>12, EmptyBoth
<1>13. ASSUME NEW r \in Peers, r # p, room[r] \in Rooms
       PROVE  Turn(r, floors[room[r]], floors'[room[r]], ms[r])
  <2>1. G[r] = <<>> /\ R[r] \in Seq(Packet) /\ N[r] \in Seq(Packet)
    BY <1>4, <1>13 DEF Letters
  <2>2. ms[r] = N[r] \o R[r]
    <3>1. RG[r] = R[r] \o <<>>
      BY <1>7, <2>1
    <3>2. R[r] \o <<>> = R[r]
      BY <2>1, EmptyLast
    <3> QED BY <1>8, <3>1, <3>2
  <2>3. Turn(r, Swept[room[r]], floors'[room[r]], R[r])
    <3>1. CASE room[r] = room[p]
      <4>1. Swept[room[r]].owner # r /\ floors'[room[r]].owner # r
        BY <1>2, <1>9, <1>10, <1>13, <3>1, HubFloors
      <4>2. R[r] = <<Floor(s)>>
        BY <1>4, <3>1
      <4> QED BY <1>3, <4>1, <4>2, TurnElse
    <3>2. CASE room[r] # room[p]
      BY <1>4, <1>10, <1>13, <3>2, TurnNone
    <3> QED BY <3>1, <3>2
  <2> QED BY <1>6, <1>13, <2>1, <2>2, <2>3, TurnThen
<1>14. /\ HubInv'
       /\ \A r \in Peers : Goes(r) =>
            /\ room[r] \in Rooms /\ out'[r] = out[r] \o ms[r]
            /\ Turn(r, floors[room[r]], floors'[room[r]], ms[r]) => Follows(r)
  <2>1. next' \in Nat /\ next <= next'
    BY <1>1, <1>2 DEF s
  <2> QED BY <1>1, <1>2, <1>8, <1>10, <1>11, <1>12, <2>1, CallFollows
<1>15. ASSUME Goes(p)
       PROVE  /\ room'[p] = room[p] /\ life[p] = "open"
              /\ N[p] \in Seq(Packet) /\ Turn(p, floors[room[p]], Free, N[p])
              /\ out'[p] = out[p] \o (N[p] \o <<Floor(s), Grant(s, q)>>)
  <2>1. Turn(p, floors[room[p]], Free, N[p])
    BY <1>1, <1>2, <1>6
  <2>2. R[p] = <<Floor(s)>> /\ G[p] = <<Grant(s, q)>>
    BY <1>4
  <2>3. RG[p] = <<Floor(s)>> \o <<Grant(s, q)>>
    BY <1>7, <2>2
  <2>4. <<Floor(s)>> \o <<Grant(s, q)>> = <<Floor(s), Grant(s, q)>>
    BY <1>3, Pair
  <2>5. life[p] = "open"
    <3>1. life'[p] = "open"
      BY <1>15 DEF Goes
    <3> QED BY <1>1, <1>2, <1>8, <3>1, HubTypes, PushTypes
  <2> QED BY <1>4, <1>8, <1>14, <1>15, <2>1, <2>3, <2>4, <2>5 DEF Letters
<1> QED BY <1>2, <1>10, <1>13, <1>14, <1>15 DEF N, s
\* A call that sends nothing and leaves the floors to their peers.
LEMMA StayFollows ==
  ASSUME HubInv, UNCHANGED <<room, out, next, allowed>>,
         floors' \in [Rooms -> Floors],
         \A r \in Rooms : /\ floors'[r].owner = floors[r].owner
                          /\ floors'[r].stream = floors[r].stream
                          /\ floors'[r].seq = floors[r].seq
                          /\ floors[r] = Free => floors'[r] = Free,
         life' \in [Peers -> Lives],
         \A p \in Peers : life'[p] = "open" => life[p] = "open"
  PROVE  HubInv' /\ \A r \in Peers : Goes(r) => Follows(r)
<1>1. HubTypeOK'
  BY HubTypes DEF HubInv, HubTypeOK, Floors, Lives
<1>2. FloorHasPeer'
  BY DEF HubInv, FloorHasPeer
<1>3. HubInv'
  BY <1>1, <1>2, HubTypes DEF HubInv
<1>4. ASSUME NEW r \in Peers, Goes(r) PROVE Follows(r)
  <2>1. room[r] \in Rooms /\ room'[r] = room[r] /\ life[r] = "open"
    BY <1>4, HubTypes DEF Goes
  <2>2. next' \in Nat /\ next <= next' /\ out[r] \in Seq(Packet)
    BY HubTypes
  <2>3. out'[r] = out[r] \o <<>> /\ <<>> \in Seq(Packet)
    BY <2>2, EmptyLast
  <2>4. Turn(r, floors[room[r]], floors'[room[r]], <<>>)
    BY <2>1, TurnNone
  <2> QED BY <2>1, <2>2, <2>3, <2>4 DEF Follows
<1> QED BY <1>3, <1>4

\* A session that is cancelled or stops reading moves no floor.
LEMMA LifeFollows ==
  ASSUME HubInv, NEW p \in Peers, Recheck(p) \/ Fail(p) \/ Hangup(p)
  PROVE  HubInv' /\ \A r \in Peers : Goes(r) => Follows(r)
<1>1. /\ floors' = floors /\ UNCHANGED <<room, out, next, allowed>>
      /\ \/ life' = [life EXCEPT ![p] = "stopped"]
         \/ life' = [life EXCEPT ![p] = "closing"]
  BY DEF Recheck, Fail, Hangup
<1>2. /\ life' \in [Peers -> Lives]
      /\ \A q \in Peers : life'[q] = "open" => life[q] = "open"
  BY <1>1, HubTypes DEF Lives
<1> QED BY <1>1, <1>2, HubTypes, StayFollows

\* A lease that is over is still a floor until a call sweeps, and a new second
\* changes nothing but the count of frames.
LEMMA TimeKeepsFloors ==
  ASSUME floors \in [Rooms -> Floors], NEW r \in Rooms, TimePasses(r)
  PROVE  /\ UNCHANGED <<room, next, out, life, allowed>>
         /\ floors[r] # Free /\ floors' \in [Rooms -> Floors]
         /\ \A h \in Rooms : /\ floors'[h].owner = floors[h].owner
                              /\ floors'[h].stream = floors[h].stream
                              /\ floors'[h].seq = floors[h].seq
         /\ \A h \in Rooms : h # r => floors'[h] = floors[h]
<1>1. /\ UNCHANGED <<room, next, out, life, allowed>>
      /\ floors[r] # Free
      /\ \/ floors' = [floors EXCEPT ![r].over = TRUE]
         \/ floors' = [floors EXCEPT ![r].frames = 0]
  BY DEF TimePasses, LeaseElapses, WindowElapses, Free, Held
<1>2. 0 \in 0..MaxRate
  BY VoiceAssumption
<1>3. CASE floors' = [floors EXCEPT ![r].over = TRUE]
  BY <1>1, <1>3 DEF Floors
<1>4. CASE floors' = [floors EXCEPT ![r].frames = 0]
  BY <1>1, <1>2, <1>4 DEF Floors
<1> QED BY <1>1, <1>3, <1>4

\* Time alone tells nobody anything.
LEMMA TimeFollows ==
  ASSUME HubInv, NEW r \in Rooms, TimePasses(r)
  PROVE  HubInv' /\ \A q \in Peers : Goes(q) => Follows(q)
<1>1. floors \in [Rooms -> Floors] /\ life \in [Peers -> Lives]
  BY HubTypes
<1>2. /\ UNCHANGED <<room, next, out, life, allowed>>
      /\ floors[r] # Free /\ floors' \in [Rooms -> Floors]
      /\ \A h \in Rooms : /\ floors'[h].owner = floors[h].owner
                           /\ floors'[h].stream = floors[h].stream
                           /\ floors'[h].seq = floors[h].seq
      /\ \A h \in Rooms : h # r => floors'[h] = floors[h]
  BY <1>1, TimeKeepsFloors
<1>3. \A h \in Rooms : floors[h] = Free => floors'[h] = Free
  BY <1>2
<1>4. UNCHANGED <<room, out, next, allowed>>
  BY <1>2
<1>5. /\ life' \in [Peers -> Lives]
      /\ \A q \in Peers : life'[q] = "open" => life[q] = "open"
  BY <1>1, <1>2
<1> QED BY <1>2, <1>3, <1>4, <1>5, StayFollows

\* Release: everybody can follow, and the peer has the stream no longer.
LEMMA ReleaseFollows ==
  ASSUME HubInv, NEW p \in Peers, room[p] # NoRoom, NEW s, Release(p, s)
  PROVE  /\ HubInv' /\ \A r \in Peers : Goes(r) => Follows(r)
         /\ ~(floors'[room[p]].owner = p /\ floors'[room[p]].stream = s)
<1>1. /\ UNCHANGED <<room, next, allowed>> /\ room[p] \in Rooms
      /\ next' \in Nat /\ next <= next' /\ life \in [Peers -> Lives]
      /\ floors \in [Rooms -> Floors]
  BY HubTypes DEF Release
<1>2. CASE floors[room[p]].owner = p /\ floors[room[p]].stream = s
  <2> DEFINE ms == ToRoom(room, room[p], Floor(0))
  <2>1. floors' = [floors EXCEPT ![room[p]] = Free] /\ Push(out, life, ms)
    BY <1>2 DEF Release
  <2>2. Floor(0) \in Packet
    BY PacketTypes
  <2>3. /\ ms \in Letters
        /\ \A r \in Peers :
             ms[r] = IF room[r] = room[p] THEN <<Floor(0)>> ELSE <<>>
    BY <2>2, ToRoomTypes
  <2>4. /\ floors' \in [Rooms -> Floors] /\ floors'[room[p]] = Free
        /\ \A r \in Rooms : r # room[p] => floors'[r] = floors[r]
    BY <1>1, <2>1, HubFloors
  <2>5. FloorHasPeer'
    <3> SUFFICES ASSUME NEW r \in Rooms, floors'[r] # Free
                 PROVE  \E o \in Peers : floors'[r].owner = o /\ room[o] = r
      BY <1>1 DEF FloorHasPeer
    <3> QED BY <2>4 DEF HubInv, FloorHasPeer
  <2> HIDE DEF ms
  <2>6. \A r \in Peers : room[r] = NoRoom => ms[r] = <<>>
    BY <2>3
  <2>7. ASSUME NEW r \in Peers, room[r] \in Rooms
        PROVE  Turn(r, floors[room[r]], floors'[room[r]], ms[r])
    <3>1. CASE room[r] = room[p]
      BY <2>3, <2>4, <3>1, HubFloors, TurnFree
    <3>2. CASE room[r] # room[p]
      BY <2>3, <2>4, <2>7, <3>2, TurnNone
    <3> QED BY <3>1, <3>2
  <2>8. /\ HubInv'
        /\ \A r \in Peers : Goes(r) =>
             /\ room[r] \in Rooms /\ out'[r] = out[r] \o ms[r]
             /\ Turn(r, floors[room[r]], floors'[room[r]], ms[r]) => Follows(r)
    BY <1>1, <2>1, <2>3, <2>4, <2>5, <2>6, CallFollows
  <2>9. floors'[room[p]].owner # p
    BY <2>4, HubFloors
  <2> QED BY <2>7, <2>8, <2>9
<1>3. CASE ~(floors[room[p]].owner = p /\ floors[room[p]].stream = s)
  <2>1. UNCHANGED <<floors, out, life>>
    BY <1>3 DEF Release
  <2> QED BY <1>1, <1>3, <2>1, StayFollows
<1> QED BY <1>2, <1>3

\* A frame that is carried is counted, and the count stays within the rate.
LEMMA CountedTypes ==
  ASSUME NEW f \in Floors, f.frames < MaxRate, NEW n \in Nat
  PROVE  /\ Counted(f, n) \in Floors
         /\ Counted(f, n).owner = f.owner /\ Counted(f, n).stream = f.stream
         /\ Counted(f, n).seq = n
<1>1. f.frames + 1 \in 0..MaxRate
  BY VoiceAssumption DEF Floors
<1> QED BY <1>1 DEF Counted, Floors

\* Audio: the others can follow, and the sender's frame is the last one.
LEMMA AudioFollows ==
  ASSUME HubInv, NEW p \in Peers, room[p] # NoRoom, NEW s \in Nat,
         NEW n \in Nat, SendAudio(p, s, n)
  PROVE  /\ HubInv'
         /\ \A r \in Peers \ {p} : Goes(r) => Follows(r)
         /\ Goes(p) =>
              /\ room'[p] = room[p] /\ life[p] = "open" /\ next' = next
              /\ floors[room[p]].owner = p /\ floors[room[p]].stream = s
              /\ floors[room[p]].seq < n
              /\ floors'[room[p]].owner = p /\ floors'[room[p]].stream = s
              /\ floors'[room[p]].seq = n
              /\ out'[p] = out[p]
<1> DEFINE A == [ToRoom(room, room[p], Audio(s, n)) EXCEPT ![p] = <<>>]
           N == Notices(room)
           ms == Then(N, A)
<1>1. /\ UNCHANGED <<room, next, allowed>> /\ room[p] \in Rooms
      /\ next' \in Nat /\ next <= next' /\ life \in [Peers -> Lives]
      /\ floors \in [Rooms -> Floors]
  BY HubTypes DEF SendAudio
<1>2. CASE Carried(Swept[room[p]], p, s, n)
  <2>1. /\ floors' = [Swept EXCEPT ![room[p]] = Counted(Swept[room[p]], n)]
        /\ Push(out, life, ms)
    BY <1>2 DEF SendAudio
  <2>2. /\ Swept[room[p]] = floors[room[p]] /\ floors[room[p]].owner = p
        /\ floors[room[p]].stream = s /\ floors[room[p]].seq < n
        /\ room[p] \notin Expired /\ floors[room[p]].frames < MaxRate
    <3>1. Swept[room[p]].owner = p /\ Swept[room[p]].stream = s
          /\ Swept[room[p]].seq < n /\ Swept[room[p]].frames < MaxRate
      BY <1>2 DEF Carried, InTurn
    <3>2. Swept[room[p]] # Free
      BY <3>1, HubFloors
    <3>3. room[p] \notin Expired
      BY <1>1, <3>2 DEF Swept
    <3> QED BY <1>1, <3>1, <3>2, <3>3, HubFloors
  <2>3. Audio(s, n) \in Packet /\ Audio(s, n).kind = "audio"
    BY PacketTypes DEF Audio
  <2>4. N \in Letters /\ N[p] = <<>>
    BY <2>2, NoticesTypes
  <2>5. /\ A \in Letters /\ A[p] = <<>>
        /\ \A r \in Peers : A[r] = <<>> \/ (A[r] = <<Audio(s, n)>> /\ room[r] = room[p])
    <3> DEFINE B == ToRoom(room, room[p], Audio(s, n))
    <3>1. /\ B \in Letters
          /\ \A r \in Peers :
               B[r] = IF room[r] = room[p] THEN <<Audio(s, n)>> ELSE <<>>
      BY <2>3, ToRoomTypes
    <3> HIDE DEF B
    <3>2. A = [B EXCEPT ![p] = <<>>]
      BY DEF B
    <3>3. <<>> \in Seq(Packet)
      OBVIOUS
    <3> QED BY <3>1, <3>2, <3>3 DEF Letters
  <2>6. \A r \in Peers : room[r] = NoRoom => N[r] = <<>>
    BY HubTypes, NoticesTypes DEF Expired
  <2>7. \A r \in Peers : room[r] \in Rooms =>
          Turn(r, floors[room[r]], Swept[room[r]], N[r])
    BY NoticesTurn
  <2> HIDE DEF N, A
  <2>8. ms \in Letters /\ \A r \in Peers : ms[r] = N[r] \o A[r]
    BY <2>4, <2>5, ThenTypes
  <2> HIDE DEF ms
  <2>9. \A r \in Peers : room[r] = NoRoom => ms[r] = <<>>
    BY <1>1, <2>5, <2>6, <2>8, EmptyBoth, HubTypes
  <2>10. /\ floors' \in [Rooms -> Floors]
         /\ \A r \in Rooms : r # room[p] => floors'[r] = Swept[r]
         /\ floors'[room[p]].owner = p /\ floors'[room[p]].stream = s
         /\ floors'[room[p]].seq = n
    <3> DEFINE g == Counted(floors[room[p]], n)
    <3>1. floors[room[p]] \in Floors
      BY <1>1
    <3>2. floors' = [Swept EXCEPT ![room[p]] = g]
      BY <2>1, <2>2
    <3>3. g \in Floors /\ g.owner = p /\ g.stream = s /\ g.seq = n
      BY <2>2, <3>1, CountedTypes
    <3> HIDE DEF g
    <3> QED BY <1>1, <3>2, <3>3, HubFloors
  <2>11. FloorHasPeer'
    <3> SUFFICES ASSUME NEW r \in Rooms, floors'[r] # Free
                 PROVE  \E o \in Peers : floors'[r].owner = o /\ room[o] = r
      BY <1>1 DEF FloorHasPeer
    <3> QED BY <2>10, HubFloors
  <2>12. ASSUME NEW r \in Peers, r # p, room[r] \in Rooms
         PROVE  Turn(r, floors[room[r]], floors'[room[r]], ms[r])
    <3>1. Turn(r, Swept[room[r]], floors'[room[r]], A[r])
      <4>1. CASE room[r] = room[p]
        <5>1. Swept[room[r]].owner # r /\ floors'[room[r]].owner # r
          BY <2>2, <2>10, <2>12, <4>1
        <5>2. Turn(r, Swept[room[r]], floors'[room[r]], <<>>)
          BY <5>1 DEF Turn, NoGrant
        <5>3. Turn(r, Swept[room[r]], floors'[room[r]], <<Audio(s, n)>>)
          BY <2>3, <5>1, TurnElse
        <5> QED BY <2>5, <5>2, <5>3
      <4>2. CASE room[r] # room[p]
        <5>1. A[r] = <<>> /\ floors'[room[r]] = Swept[room[r]]
          BY <2>5, <2>10, <2>12, <4>2
        <5> QED BY <5>1, TurnNone
      <4> QED BY <4>1, <4>2
    <3>2. N[r] \in Seq(Packet) /\ A[r] \in Seq(Packet)
      BY <2>4, <2>5 DEF Letters
    <3>3. Turn(r, floors[room[r]], floors'[room[r]], N[r] \o A[r])
      BY <2>7, <2>12, <3>1, <3>2, TurnThen
    <3> QED BY <2>8, <3>3
  <2>13. /\ HubInv'
         /\ \A r \in Peers : Goes(r) =>
              /\ room[r] \in Rooms /\ out'[r] = out[r] \o ms[r]
              /\ Turn(r, floors[room[r]], floors'[room[r]], ms[r]) => Follows(r)
    BY <1>1, <2>1, <2>8, <2>9, <2>10, <2>11, CallFollows
  <2>14. ASSUME Goes(p) PROVE life[p] = "open" /\ out'[p] = out[p]
    <3>1. ms[p] = <<>>
      BY <2>4, <2>5, <2>8, EmptyBoth
    <3>2. out'[p] = out[p] \o <<>> /\ out[p] \in Seq(Packet)
      BY <2>13, <2>14, <3>1, HubTypes
    <3>3. life[p] = "open"
      <4>1. life'[p] = "open"
        BY <2>14 DEF Goes
      <4> QED BY <1>1, <2>1, <2>8, <4>1, HubTypes, PushTypes
    <3> QED BY <3>2, <3>3, EmptyLast
  <2> QED BY <1>1, <2>2, <2>10, <2>12, <2>13, <2>14
<1>3. CASE ~Carried(Swept[room[p]], p, s, n)
  <2> DEFINE state == [life EXCEPT ![p] = "closing"]
  <2>1. floors' = Swept /\ Push(out, state, Notices(room))
    BY <1>3 DEF SendAudio
  <2>2. /\ state \in [Peers -> Lives] /\ state[p] = "closing"
        /\ \A q \in Peers : state[q] = "open" => life[q] = "open"
    BY <1>1 DEF Lives
  <2> HIDE DEF state
  <2>3. HubInv' /\ \A r \in Peers : Goes(r) => Follows(r)
    BY <1>1, <2>1, <2>2, SweepFollows
  <2>4. ~Goes(p)
    <3>1. life'[p] = "open" => state[p] = "open"
      BY <2>1, <2>2, NoticesTypes, HubTypes, PushTypes
    <3> QED BY <2>2, <3>1 DEF Goes
  <2> QED BY <2>3, <2>4
<1> QED BY <1>2, <1>3
\* Join: the new peer hears of the floor and has none.
LEMMA JoinFollows ==
  ASSUME HubInv, NEW p \in Peers, NEW r \in Rooms, Join(p, r)
  PROVE  /\ HubInv'
         /\ \A q \in Peers \ {p} : Goes(q) => Follows(q)
         /\ room'[p] = r /\ floors'[r].owner # p /\ next' = next
         /\ Goes(p) => NoGrant(out'[p])
<1> DEFINE m == Floor(Swept[r].stream)
           N == Notices(room')
           T == To(p, m)
           ms == Then(N, T)
<1>1. /\ room[p] = NoRoom /\ room' = [room EXCEPT ![p] = r]
      /\ floors' = Swept /\ Push(out, life, ms)
      /\ UNCHANGED <<next, allowed>>
  BY DEF Join
<1>2. /\ room'[p] = r /\ \A q \in Peers : q # p => room'[q] = room[q]
      /\ room' \in [Peers -> Rooms \cup {NoRoom}] /\ r # NoRoom
  BY <1>1, HubTypes
<1>3. m \in Packet /\ m.kind = "floor"
  BY HubFloors, PacketTypes DEF Floor, Floors
<1> HIDE DEF m
<1>4. /\ N \in Letters /\ T \in Letters
      /\ \A q \in Peers : N[q] = <<>> \/ N[q] = <<Floor(0)>>
      /\ \A q \in Peers : T[q] = IF q = p THEN <<m>> ELSE <<>>
  <2>1. /\ T \in Letters
        /\ \A q \in Peers : T[q] = IF q = p THEN <<m>> ELSE <<>>
    BY <1>3, ToTypes
  <2>2. N \in Letters
    BY NoticesTypes
  <2>3. \A q \in Peers :
          N[q] = IF room'[q] \in Expired THEN <<Floor(0)>> ELSE <<>>
    BY NoticesTypes
  <2> HIDE DEF N, T
  <2> QED BY <2>1, <2>2, <2>3
<1>5. \A q \in Peers : room'[q] = NoRoom => N[q] = <<>>
  BY HubTypes, NoticesTypes DEF Expired
<1>6. \A q \in Peers : room'[q] \in Rooms =>
        Turn(q, floors[room'[q]], Swept[room'[q]], N[q])
  BY NoticesTurn
<1> HIDE DEF N, T
<1>7. ms \in Letters /\ \A q \in Peers : ms[q] = N[q] \o T[q]
  BY <1>4, ThenTypes
<1> HIDE DEF ms
<1>8. /\ out' \in [Peers -> Seq(Packet)]
      /\ \A q \in Peers : Len(out'[q]) <= QueueLimit
      /\ life' \in [Peers -> Lives]
      /\ \A q \in Peers : life'[q] = "open" =>
           life[q] = "open" /\ out'[q] = out[q] \o ms[q]
  BY <1>1, <1>7, HubTypes, PushTypes
<1>9. floors' \in [Rooms -> Floors] /\ next' \in Nat /\ next <= next'
  BY <1>1, HubTypes, HubFloors
<1>10. HubTypeOK'
  BY <1>1, <1>2, <1>8, <1>9, HubTypes DEF HubTypeOK, Floors, Lives
<1>11. /\ FloorHasPeer'
       /\ floors'[r].owner # p
  <2>1. \A h \in Rooms : Swept[h] # Free =>
          \E o \in Peers : Swept[h].owner = o /\ room[o] = h
    BY HubFloors
  <2>2. \A h \in Rooms : Swept[h] # Free => Swept[h].owner # p
    BY <1>1, <2>1, HubTypes
  <2>3. Swept[r].owner # p
    BY <2>2, HubFloors
  <2> QED BY <1>1, <1>2, <2>1, <2>2, <2>3 DEF FloorHasPeer
<1>12. ASSUME NEW q \in Peers, room'[q] = NoRoom PROVE out'[q] = <<>>
  <2>1. q # p /\ room[q] = NoRoom
    BY <1>2, <1>12
  <2>2. out[q] = <<>> /\ ms[q] = <<>>
    BY <1>4, <1>5, <1>7, <1>12, <2>1, EmptyBoth, HubTypes
  <2>3. out'[q] = Queued(out[q] \o ms[q])
    BY <1>1 DEF Push
  <2>4. <<>> \in Seq(Packet) /\ Len(<<>>) = 0
    OBVIOUS
  <2>5. Len(<<>>) <= QueueLimit
    BY <2>4, VoiceAssumption
  <2>6. Queued(<<>>) = <<>>
    BY <2>4, <2>5, QueuedTypes
  <2> QED BY <2>2, <2>3, <2>6, EmptyBoth
<1>13. HubInv'
  BY <1>10, <1>11, <1>12 DEF HubInv
<1>14. ASSUME NEW q \in Peers, q # p, Goes(q) PROVE Follows(q)
  <2>1. /\ room'[q] = room[q] /\ room[q] \in Rooms /\ life[q] = "open"
        /\ out'[q] = out[q] \o ms[q]
    BY <1>2, <1>8, <1>14, HubTypes DEF Goes
  <2>2. ms[q] = N[q] /\ ms[q] \in Seq(Packet)
    <3>1. T[q] = <<>> /\ N[q] \in Seq(Packet)
      BY <1>4, <1>14 DEF Letters
    <3> QED BY <1>7, <3>1, EmptyLast
  <2>3. Turn(q, floors[room[q]], floors'[room[q]], ms[q])
    BY <1>1, <1>6, <2>1, <2>2
  <2> QED BY <1>9, <2>1, <2>2, <2>3 DEF Follows
<1>15. ASSUME Goes(p) PROVE NoGrant(out'[p])
  <2>1. out'[p] = out[p] \o ms[p] /\ out[p] = <<>>
    BY <1>1, <1>8, <1>15, HubTypes DEF Goes
  <2>2. N[p] \in Seq(Packet) /\ T[p] \in Seq(Packet) /\ T[p] = <<m>>
    BY <1>4 DEF Letters
  <2>3. out'[p] = N[p] \o T[p]
    <3>1. N[p] \o T[p] \in Seq(Packet)
      BY <2>2
    <3>2. <<>> \o (N[p] \o T[p]) = N[p] \o T[p]
      BY <3>1
    <3> QED BY <1>7, <2>1, <3>2
  <2>4. Floor(0).kind = "floor"
    BY DEF Floor
  <2>5. CASE N[p] = <<>>
    <3>1. out'[p] = <<m>>
      BY <1>3, <2>2, <2>3, <2>5
    <3> QED BY <1>3, <3>1 DEF NoGrant
  <2>6. CASE N[p] = <<Floor(0)>>
    <3>1. out'[p] = <<Floor(0), m>>
      BY <1>3, <2>2, <2>3, <2>6, Pair, PacketTypes
    <3> QED BY <1>3, <2>4, <3>1 DEF NoGrant
  <2> QED BY <1>4, <2>5, <2>6
<1> QED BY <1>1, <1>2, <1>11, <1>13, <1>14, <1>15

\* Leave: the others can follow.
LEMMA LeaveFollows ==
  ASSUME HubInv, NEW p \in Peers, Leave(p)
  PROVE  /\ HubInv' /\ room'[p] = NoRoom
         /\ \A q \in Peers \ {p} : Goes(q) => Follows(q)
<1> DEFINE queue == [out EXCEPT ![p] = <<>>]
           state == [life EXCEPT ![p] = "open"]
           ms == ToRoom(room', room[p], Floor(0))
<1>1. /\ room[p] \in Rooms /\ room' = [room EXCEPT ![p] = NoRoom]
      /\ UNCHANGED <<next, allowed>>
  BY HubTypes DEF Leave
<1>2. /\ room'[p] = NoRoom /\ \A q \in Peers : q # p => room'[q] = room[q]
      /\ room' \in [Peers -> Rooms \cup {NoRoom}] /\ NoRoom \notin Rooms
  BY <1>1, HubTypes
<1>3. /\ queue \in Letters /\ state \in [Peers -> Lives]
      /\ \A q \in Peers : queue[q] \in Seq(Packet) /\ Len(queue[q]) <= QueueLimit
      /\ queue[p] = <<>>
      /\ \A q \in Peers : q # p => queue[q] = out[q] /\ state[q] = life[q]
  BY HubTypes, VoiceAssumption DEF Letters, Lives
<1>4. next' \in Nat /\ next <= next' /\ floors \in [Rooms -> Floors]
  BY <1>1, HubTypes
<1>5. CASE floors[room[p]].owner = p
  <2>1. floors' = [floors EXCEPT ![room[p]] = Free] /\ Push(queue, state, ms)
    BY <1>5 DEF Leave
  <2>2. Floor(0) \in Packet
    BY PacketTypes
  <2>3. /\ ms \in Letters
        /\ \A r \in Peers :
             ms[r] = IF room'[r] = room[p] THEN <<Floor(0)>> ELSE <<>>
    BY <2>2, ToRoomTypes
  <2> HIDE DEF queue, state, ms
  <2>4. /\ out' \in [Peers -> Seq(Packet)]
        /\ \A q \in Peers : Len(out'[q]) <= QueueLimit
        /\ life' \in [Peers -> Lives]
        /\ \A q \in Peers : life'[q] = "open" =>
             state[q] = "open" /\ out'[q] = queue[q] \o ms[q]
    BY <1>3, <2>1, <2>3, PushTypes
  <2>5. /\ floors' \in [Rooms -> Floors] /\ floors'[room[p]] = Free
        /\ \A r \in Rooms : r # room[p] => floors'[r] = floors[r]
    BY <1>1, <1>4, <2>1, HubFloors
  <2>6. HubTypeOK'
    BY <1>1, <1>2, <1>4, <2>4, <2>5, HubTypes DEF HubTypeOK, Floors, Lives
  <2>7. FloorHasPeer'
    <3> SUFFICES ASSUME NEW r \in Rooms, floors'[r] # Free
                 PROVE  \E o \in Peers : floors'[r].owner = o /\ room'[o] = r
      BY DEF FloorHasPeer
    <3>1. r # room[p] /\ floors'[r] = floors[r]
      BY <2>5
    <3>2. PICK o \in Peers : floors[r].owner = o /\ room[o] = r
      BY <3>1 DEF HubInv, FloorHasPeer
    <3> QED BY <1>2, <3>1, <3>2
  <2>8. ASSUME NEW q \in Peers, room'[q] = NoRoom PROVE out'[q] = <<>>
    <3>1. queue[q] = <<>> /\ ms[q] = <<>>
      BY <1>1, <1>2, <1>3, <2>3, <2>8, HubTypes
    <3>2. out'[q] = Queued(queue[q] \o ms[q])
      BY <2>1 DEF Push
    <3>3. <<>> \in Seq(Packet) /\ Len(<<>>) = 0
      OBVIOUS
    <3>4. Len(<<>>) <= QueueLimit
      BY <3>3, VoiceAssumption
    <3>5. Queued(<<>>) = <<>>
      BY <3>3, <3>4, QueuedTypes
    <3> QED BY <3>1, <3>2, <3>5, EmptyBoth
  <2>9. ASSUME NEW q \in Peers, q # p, Goes(q) PROVE Follows(q)
    <3>1. /\ room'[q] = room[q] /\ room[q] \in Rooms /\ life[q] = "open"
          /\ out'[q] = out[q] \o ms[q] /\ ms[q] \in Seq(Packet)
      BY <1>2, <1>3, <2>3, <2>4, <2>9 DEF Goes, Letters
    <3>2. Turn(q, floors[room[q]], floors'[room[q]], ms[q])
      <4>1. CASE room[q] = room[p]
        BY <2>3, <2>5, <3>1, <4>1, HubFloors, TurnFree
      <4>2. CASE room[q] # room[p]
        BY <2>3, <2>5, <3>1, <4>2, TurnNone
      <4> QED BY <4>1, <4>2
    <3> QED BY <1>4, <3>1, <3>2 DEF Follows
  <2> QED BY <1>2, <2>6, <2>7, <2>8, <2>9 DEF HubInv
<1>6. CASE floors[room[p]].owner # p
  <2>1. floors' = floors /\ out' = queue /\ life' = state
    BY <1>6 DEF Leave
  <2> HIDE DEF queue, state
  <2>2. HubTypeOK'
    BY <1>1, <1>2, <1>3, <1>4, <2>1, HubTypes
       DEF HubTypeOK, Floors, Lives, Letters
  <2>3. FloorHasPeer'
    <3> SUFFICES ASSUME NEW r \in Rooms, floors[r] # Free
                 PROVE  \E o \in Peers : floors[r].owner = o /\ room'[o] = r
      BY <2>1 DEF FloorHasPeer
    <3>1. PICK o \in Peers : floors[r].owner = o /\ room[o] = r
      BY DEF HubInv, FloorHasPeer
    <3> QED BY <1>2, <1>6, <3>1
  <2>4. \A q \in Peers : room'[q] = NoRoom => out'[q] = <<>>
    BY <1>2, <1>3, <2>1, HubTypes
  <2>5. ASSUME NEW q \in Peers, q # p, Goes(q) PROVE Follows(q)
    <3>1. /\ room'[q] = room[q] /\ life[q] = "open" /\ out'[q] = out[q]
          /\ out[q] \in Seq(Packet)
      BY <1>2, <1>3, <2>1, <2>5, HubTypes DEF Goes
    <3>2. out'[q] = out[q] \o <<>> /\ <<>> \in Seq(Packet)
      BY <3>1, EmptyLast
    <3>3. Turn(q, floors[room[q]], floors'[room[q]], <<>>)
      BY <2>1, TurnNone
    <3> QED BY <1>4, <3>1, <3>2, <3>3 DEF Follows
  <2> QED BY <1>2, <2>2, <2>3, <2>4, <2>5 DEF HubInv
<1> QED BY <1>5, <1>6

\* The writer.
LEMMA TakeFollows ==
  ASSUME HubInv, NEW p \in Peers, Deliver(p) \/ Discard(p)
  PROVE  /\ HubInv' /\ UNCHANGED <<room, floors, next, life>>
         /\ out[p] # <<>> /\ out'[p] = Tail(out[p])
         /\ \A q \in Peers \ {p} : Goes(q) => Follows(q)
<1>1. /\ UNCHANGED <<room, floors, next, life, allowed>>
      /\ room[p] # NoRoom /\ out[p] # <<>>
      /\ out' = [out EXCEPT ![p] = Tail(out[p])]
  BY DEF Deliver, Discard
<1>2. /\ out'[p] = Tail(out[p]) /\ \A q \in Peers : q # p => out'[q] = out[q]
      /\ Tail(out[p]) \in Seq(Packet)
      /\ Len(Tail(out[p])) <= QueueLimit
  <2>1. out \in Letters /\ out[p] \in Seq(Packet) /\ Len(out[p]) <= QueueLimit
    BY HubTypes
  <2>2. /\ Tail(out[p]) \in Seq(Packet)
        /\ Len(Tail(out[p])) = Len(out[p]) - 1 /\ Len(out[p]) \in Nat
    BY <1>1, <2>1
  <2>3. Len(Tail(out[p])) <= QueueLimit
    BY <2>1, <2>2, VoiceAssumption
  <2> QED BY <1>1, <2>1, <2>2, <2>3 DEF Letters
<1>3. /\ out' \in [Peers -> Seq(Packet)]
      /\ \A q \in Peers : Len(out'[q]) <= QueueLimit
  BY <1>1, <1>2, HubTypes DEF Letters
<1>4. HubTypeOK'
  BY <1>1, <1>3, HubTypes DEF HubTypeOK, Floors, Lives
<1>5. HubInv'
  BY <1>1, <1>2, <1>4, HubTypes DEF HubInv, FloorHasPeer
<1>6. ASSUME NEW q \in Peers, q # p, Goes(q) PROVE Follows(q)
  <2>1. /\ room'[q] = room[q] /\ life[q] = "open" /\ out'[q] = out[q]
        /\ out[q] \in Seq(Packet) /\ next' \in Nat /\ next <= next'
    BY <1>1, <1>2, <1>6, HubTypes DEF Goes
  <2>2. out'[q] = out[q] \o <<>> /\ <<>> \in Seq(Packet)
    BY <2>1, EmptyLast
  <2>3. Turn(q, floors[room[q]], floors'[room[q]], <<>>)
    BY <1>1, TurnNone
  <2> QED BY <2>1, <2>2, <2>3 DEF Follows
<1> QED BY <1>1, <1>2, <1>5, <1>6

\* The hub starts with the invariant.
LEMMA InitFollows == HubInit => HubInv
<1> SUFFICES ASSUME HubInit PROVE HubInv
  OBVIOUS
<1>1. Free \in Floors
  BY VoiceAssumption DEF Free, Held, Floors
<1>2. <<>> \in Seq(Packet) /\ Len(<<>>) = 0
  OBVIOUS
<1>3. HubTypeOK
  BY <1>1, <1>2, VoiceAssumption DEF HubInit, HubTypeOK, Floors
<1> QED BY <1>3 DEF HubInit, HubInv, FloorHasPeer
=============================================================================
