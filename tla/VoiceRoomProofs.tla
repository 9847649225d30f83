--------------------------- MODULE VoiceRoomProofs --------------------------
(***************************************************************************)
(* Proofs about the voice hub and its peers, for any number of peers,      *)
(* rooms, requests and frames and any length of the queues.  The first     *)
(* part is about the floor and what the peers know of it, the second about *)
(* the audio that reaches them after the floor message it belongs to,      *)
(* before the next one and in the order of its frames.                     *)
(***************************************************************************)
EXTENDS VoiceRoom, VoiceHubProofs

RoomInv == RoomTypeOK /\ FloorHasPeer /\ PeersKnowFloor

Tellings == [stream : Nat, seq : Nat]

-----------------------------------------------------------------------------
(* What a peer knows after some messages                                   *)

\* Reading nothing, or a message that is no floor message, changes nothing.
LEMMA HearsNothing == ASSUME NEW s PROVE Hears(<<>>, s, s)
  BY DEF Hears

\* Audio, grants and busy change nothing that a reader knows.
LEMMA HearsOther ==
  ASSUME NEW s, NEW m, m.kind # "floor" PROVE Hears(<<m>>, s, s)
  BY DEF Hears

\* A floor message says all.
LEMMA HearsFloor == ASSUME NEW t, NEW s PROVE Hears(<<Floor(s)>>, t, s)
  BY DEF Hears, Floor

\* Reading two sequences is reading one after the other.
LEMMA HearsBoth ==
  ASSUME NEW a \in Seq(Packet), NEW b \in Seq(Packet), NEW t, NEW u, NEW s,
         Hears(a, t, u), Hears(b, u, s)
  PROVE  Hears(a \o b, t, s)
<1> DEFINE c == a \o b
           FA == {i \in DOMAIN a : a[i].kind = "floor"}
           FB == {i \in DOMAIN b : b[i].kind = "floor"}
           FC == {i \in DOMAIN c : c[i].kind = "floor"}
<1>1. /\ c \in Seq(Packet) /\ Len(c) = Len(a) + Len(b)
      /\ \A i \in 1..Len(a) : c[i] = a[i]
      /\ \A i \in 1..Len(b) : c[Len(a) + i] = b[i]
      /\ DOMAIN a = 1..Len(a) /\ DOMAIN b = 1..Len(b) /\ DOMAIN c = 1..Len(c)
      /\ Len(a) \in Nat /\ Len(b) \in Nat
  OBVIOUS
<1>2. \A i \in FC : i \in FA \/ (i - Len(a) \in FB /\ i > Len(a))
  <2> SUFFICES ASSUME NEW i \in FC, i \notin FA
               PROVE  i - Len(a) \in FB /\ i > Len(a)
    OBVIOUS
  <2>1. i \in 1..Len(a) + Len(b) /\ i \notin 1..Len(a)
    BY <1>1
  <2>2. i - Len(a) \in 1..Len(b) /\ i = Len(a) + (i - Len(a))
    BY <1>1, <2>1
  <2> QED BY <1>1, <2>1, <2>2
<1>3. CASE \E i \in FB : b[i].stream = s /\ \A j \in FB : j <= i
  <2>1. PICK i \in FB : b[i].stream = s /\ \A j \in FB : j <= i
    BY <1>3
  <2>2. Len(a) + i \in FC /\ c[Len(a) + i].stream = s
    BY <1>1, <2>1
  <2>3. \A j \in FC : j <= Len(a) + i
    BY <1>1, <1>2, <2>1
  <2> QED BY <2>2, <2>3 DEF Hears
<1>4. CASE FB = {} /\ u = s
  <2>1. FC = FA
    <3>1. FC \subseteq FA
      BY <1>2, <1>4
    <3>2. FA \subseteq FC
      BY <1>1
    <3> QED BY <3>1, <3>2
  <2>2. FA \subseteq 1..Len(a) /\ \A i \in FA : c[i] = a[i]
    BY <1>1
  <2> QED BY <1>4, <2>1, <2>2 DEF Hears
<1> QED BY <1>3, <1>4 DEF Hears

\* Reading the first message leaves the others.
LEMMA HearsTail ==
  ASSUME NEW q \in Seq(Packet), q # <<>>, NEW t, NEW s, Hears(q, t, s)
  PROVE  Hears(Tail(q), IF Head(q).kind = "floor" THEN Head(q).stream ELSE t, s)
<1> DEFINE u == IF Head(q).kind = "floor" THEN Head(q).stream ELSE t
           FQ == {i \in DOMAIN q : q[i].kind = "floor"}
           FT == {i \in DOMAIN Tail(q) : Tail(q)[i].kind = "floor"}
<1>1. /\ Len(q) \in Nat /\ Len(q) > 0 /\ DOMAIN q = 1..Len(q)
      /\ Tail(q) \in Seq(Packet) /\ Len(Tail(q)) = Len(q) - 1
      /\ DOMAIN Tail(q) = 1..(Len(q) - 1)
      /\ \A i \in 1..(Len(q) - 1) : Tail(q)[i] = q[i + 1]
      /\ Head(q) = q[1]
  OBVIOUS
<1>2. \A i \in FT : i + 1 \in FQ
  BY <1>1
<1>3. \A i \in FQ : i = 1 \/ i - 1 \in FT
  <2> SUFFICES ASSUME NEW i \in FQ, i # 1 PROVE i - 1 \in FT
    OBVIOUS
  <2>1. i \in 2..Len(q) /\ i - 1 \in 1..(Len(q) - 1)
    BY <1>1
  <2>2. Tail(q)[i - 1] = q[(i - 1) + 1] /\ (i - 1) + 1 = i
    BY <1>1, <2>1
  <2> QED BY <1>1, <2>1, <2>2
<1>4. CASE FQ = {} /\ t = s
  <2>1. FT = {}
    BY <1>2, <1>4
  <2>2. u = t
    BY <1>1, <1>4
  <2> QED BY <1>4, <2>1, <2>2 DEF Hears
<1>5. CASE \E i \in FQ : q[i].stream = s /\ \A j \in FQ : j <= i
  <2>1. PICK i \in FQ : q[i].stream = s /\ \A j \in FQ : j <= i
    BY <1>5
  <2>2. CASE i = 1
    <3>1. FT = {}
      BY <1>1, <1>2, <2>1, <2>2
    <3>2. u = s
      BY <1>1, <2>1, <2>2
    <3> QED BY <3>1, <3>2 DEF Hears
  <2>3. CASE i # 1
    <3>1. i - 1 \in FT /\ Tail(q)[i - 1].stream = s
      BY <1>1, <1>3, <2>1, <2>3
    <3>2. \A j \in FT : j <= i - 1
      BY <1>1, <1>2, <2>1
    <3> QED BY <3>1, <3>2 DEF Hears
  <2> QED BY <2>2, <2>3
<1> QED BY <1>4, <1>5 DEF Hears

\* Appending to a queue in one go or in two is the same.
LEMMA Regroup ==
  ASSUME NEW a \in Seq(Packet), NEW b \in Seq(Packet), NEW c \in Seq(Packet)
  PROVE  (a \o b) \o c = a \o (b \o c)
  OBVIOUS

\* Nor does it matter what was queued before a floor message.
LEMMA HearsLast ==
  ASSUME NEW q \in Seq(Packet), NEW t, NEW s, NEW m \in Packet,
         m.kind = "floor", m.stream = s
  PROVE  Hears(q \o <<m>>, t, s)
<1> DEFINE c == q \o <<m>>
           F == {i \in DOMAIN c : c[i].kind = "floor"}
<1>1. /\ DOMAIN c = 1..(Len(q) + 1) /\ c[Len(q) + 1] = m /\ Len(q) \in Nat
  OBVIOUS
<1>2. Len(q) + 1 \in F /\ \A j \in F : j <= Len(q) + 1
  BY <1>1
<1> QED BY <1>1, <1>2 DEF Hears

\* The floors left by expire, and what a peer that knew its floor knows then.
LEMMA Sweeping ==
  ASSUME RoomTypeOK
  PROVE  /\ Swept \in [Rooms -> Floors] /\ Free \in Floors
         /\ \A r \in Rooms : Swept[r] = Free \/ Swept[r] = floors[r]
<1>1. Free \in Floors
  BY VoiceAssumption DEF Free, Held, Floors
<1> QED BY <1>1 DEF RoomTypeOK, HubTypeOK, Swept, Floors

\* The end of a lease is told to the room's peers.
LEMMA NoticesTell ==
  ASSUME RoomTypeOK, NEW at, NEW p \in Peers, at[p] \in Rooms
  PROVE  Hears(Notices(at)[p], floors[at[p]].stream, Swept[at[p]].stream)
<1>1. CASE at[p] \in Expired
  <2>1. Notices(at)[p] = <<Floor(0)>>
    BY <1>1, NoticesTypes
  <2>2. Swept[at[p]].stream = 0
    BY <1>1 DEF Swept, Free, Held
  <2> QED BY <2>1, <2>2, HearsFloor
<1>2. CASE at[p] \notin Expired
  <2>1. Notices(at)[p] = <<>>
    BY <1>2, NoticesTypes
  <2>2. Swept[at[p]] = floors[at[p]]
    BY <1>2 DEF Swept
  <2> QED BY <2>1, <2>2, HearsNothing
<1> QED BY <1>1, <1>2

\* A call whose messages follow the floor leaves everybody informed.
LEMMA PushTells ==
  ASSUME RoomTypeOK, PeersKnowFloor,
         NEW queue \in Letters, NEW state \in [Peers -> Lives],
         NEW ms \in Letters, Push(queue, state, ms),
         \A p \in Peers : room'[p] # NoRoom /\ state[p] = "open" =>
           \/ /\ room[p] # NoRoom /\ room'[p] = room[p] /\ told'[p] = told[p]
              /\ queue[p] = out[p] /\ life[p] = "open"
              /\ Hears(ms[p], floors[room[p]].stream, floors'[room[p]].stream)
           \/ Hears(queue[p] \o ms[p], told'[p].stream, floors'[room'[p]].stream)
  PROVE  PeersKnowFloor'
<1>1. SUFFICES ASSUME NEW p \in Peers, room'[p] # NoRoom, life'[p] = "open"
      PROVE Hears(out'[p], told'[p].stream, floors'[room'[p]].stream)
  BY DEF PeersKnowFloor, Joined
<1>2. state[p] = "open" /\ out'[p] = queue[p] \o ms[p]
  <2>1. \A q \in Peers : life'[q] = "open" =>
          state[q] = "open" /\ out'[q] = queue[q] \o ms[q]
    BY PushTypes
  <2> QED BY <1>1, <2>1
<1>3. CASE /\ room[p] # NoRoom /\ room'[p] = room[p] /\ told'[p] = told[p]
           /\ queue[p] = out[p] /\ life[p] = "open"
           /\ Hears(ms[p], floors[room[p]].stream, floors'[room[p]].stream)
  <2>1. Hears(out[p], told[p].stream, floors[room[p]].stream)
    BY <1>3 DEF PeersKnowFloor, Joined
  <2>2. queue[p] \in Seq(Packet) /\ ms[p] \in Seq(Packet)
    BY DEF Letters
  <2> QED BY <1>2, <1>3, <2>1, <2>2, HearsBoth
<1>4. CASE Hears(queue[p] \o ms[p], told'[p].stream, floors'[room'[p]].stream)
  BY <1>2, <1>4
<1> QED BY <1>1, <1>2, <1>3, <1>4

-----------------------------------------------------------------------------
(* The calls within a room                                                 *)

\* Ending leases leaves every floor with a peer of its room.
LEMMA SweptHavePeers ==
  ASSUME RoomTypeOK, FloorHasPeer
  PROVE  \A r \in Rooms : Swept[r] # Free =>
           \E p \in Peers : Swept[r].owner = p /\ room[p] = r
  BY Sweeping DEF FloorHasPeer

\* A peer has one room.
LEMMA RoomOfPeer ==
  ASSUME RoomTypeOK, NEW p \in Peers, room[p] # NoRoom
  PROVE  room[p] \in Rooms
  BY DEF RoomTypeOK, HubTypeOK

\* A call that keeps everybody in the room.
LEMMA CallKeeps ==
  ASSUME RoomInv, UNCHANGED <<room, allowed, told>>, next' \in Nat,
         floors' \in [Rooms -> Floors], FloorHasPeer',
         NEW state \in [Peers -> Lives],
         \A p \in Peers : state[p] = "open" => life[p] = "open",
         NEW ms \in Letters, Push(out, state, ms),
         \A p \in Peers : room[p] \in Rooms =>
           Hears(ms[p], floors[room[p]].stream, floors'[room[p]].stream)
  PROVE  RoomInv'
<1>1. RoomTypeOK /\ PeersKnowFloor /\ out \in Letters
  BY DEF RoomInv, RoomTypeOK, HubTypeOK, Letters
<1>2. /\ out' \in [Peers -> Seq(Packet)]
      /\ \A p \in Peers : Len(out'[p]) <= QueueLimit
      /\ life' \in [Peers -> Lives]
  BY <1>1, PushTypes
<1>3. RoomTypeOK'
  BY <1>1, <1>2 DEF RoomTypeOK, HubTypeOK, Floors, Lives
<1>4. \A p \in Peers : room'[p] # NoRoom /\ state[p] = "open" =>
        /\ room[p] # NoRoom /\ room'[p] = room[p] /\ told'[p] = told[p]
        /\ out[p] = out[p] /\ life[p] = "open"
        /\ Hears(ms[p], floors[room[p]].stream, floors'[room[p]].stream)
  BY <1>1, RoomOfPeer
<1>5. PeersKnowFloor'
  BY <1>1, <1>4, PushTells
<1> QED BY <1>3, <1>5 DEF RoomInv

\* Request while the floor is taken keeps the invariant.
LEMMA RefuseKeeps ==
  ASSUME RoomInv, NEW p \in Peers, NEW q \in Nat, Refuse(p, q),
         UNCHANGED <<room, allowed, told>>
  PROVE  RoomInv'
<1> DEFINE ms == Then(Notices(room), To(p, Busy(q)))
<1>1. RoomTypeOK /\ FloorHasPeer /\ next \in Nat /\ life \in [Peers -> Lives]
  BY DEF RoomInv, RoomTypeOK, HubTypeOK, Lives
<1>2. /\ Notices(room) \in Letters /\ To(p, Busy(q)) \in Letters
      /\ ms \in Letters
      /\ \A r \in Peers : ms[r] = Notices(room)[r] \o To(p, Busy(q))[r]
  BY NoticesTypes, PacketTypes, ToTypes, ThenTypes, ZenonT(60)
<1>3. floors' = Swept /\ next' = next /\ Push(out, life, ms)
  BY DEF Refuse
<1>4. floors' \in [Rooms -> Floors] /\ FloorHasPeer'
  BY <1>1, <1>3, Sweeping, SweptHavePeers DEF FloorHasPeer
<1>5. ASSUME NEW r \in Peers, room[r] \in Rooms
      PROVE  Hears(ms[r], floors[room[r]].stream, floors'[room[r]].stream)
  <2>1. Hears(Notices(room)[r], floors[room[r]].stream, Swept[room[r]].stream)
    BY <1>1, <1>5, NoticesTell
  <2>2. Hears(To(p, Busy(q))[r], Swept[room[r]].stream, Swept[room[r]].stream)
    <3>1. To(p, Busy(q))[r] = <<>> \/ To(p, Busy(q))[r] = <<Busy(q)>>
      BY PacketTypes, ToTypes
    <3>2. Busy(q).kind # "floor"
      BY DEF Busy
    <3> QED BY <3>1, <3>2, HearsNothing, HearsOther
  <2>3. Notices(room)[r] \in Seq(Packet) /\ To(p, Busy(q))[r] \in Seq(Packet)
    BY <1>2 DEF Letters
  <2>4. Hears(Notices(room)[r] \o To(p, Busy(q))[r],
              floors[room[r]].stream, Swept[room[r]].stream)
    BY <2>1, <2>2, <2>3, HearsBoth
  <2> QED BY <1>2, <1>3, <2>4
<1> HIDE DEF ms
<1> QED BY <1>1, <1>2, <1>3, <1>4, <1>5, CallKeeps

\* The ticker, and a frame that is refused.
LEMMA SweepKeeps ==
  ASSUME RoomInv, floors' = Swept,
         NEW state \in [Peers -> Lives],
         \A p \in Peers : state[p] = "open" => life[p] = "open",
         Push(out, state, Notices(room)),
         UNCHANGED <<room, next, allowed, told>>
  PROVE  RoomInv'
<1>1. RoomTypeOK /\ FloorHasPeer /\ next \in Nat
  BY DEF RoomInv, RoomTypeOK, HubTypeOK
<1>2. Notices(room) \in Letters
  BY NoticesTypes
<1>3. floors' \in [Rooms -> Floors] /\ FloorHasPeer'
  BY <1>1, Sweeping, SweptHavePeers DEF FloorHasPeer
<1>4. \A r \in Peers : room[r] \in Rooms =>
        Hears(Notices(room)[r], floors[room[r]].stream, floors'[room[r]].stream)
  BY <1>1, NoticesTell
<1> QED BY <1>1, <1>2, <1>3, <1>4, CallKeeps

\* Request while the floor is free keeps the invariant.
LEMMA GiveKeeps ==
  ASSUME RoomInv, NEW p \in Peers, room[p] # NoRoom, NEW q \in Nat, Give(p, q),
         UNCHANGED <<room, allowed, told>>
  PROVE  RoomInv'
<1> DEFINE s == next + 1
           R == ToRoom(room, room[p], Floor(s))
           G == To(p, Grant(s, q))
           ms == Then(Notices(room), Then(R, G))
<1>1. /\ RoomTypeOK /\ FloorHasPeer /\ next \in Nat /\ s \in Nat
      /\ life \in [Peers -> Lives] /\ room[p] \in Rooms
  BY RoomOfPeer, SMTT(30) DEF RoomInv, RoomTypeOK, HubTypeOK, Lives
<1> HIDE DEF s
<1>2. Floor(s) \in Packet /\ Grant(s, q) \in Packet
  BY <1>1, PacketTypes
<1>3. /\ Notices(room) \in Letters /\ R \in Letters /\ G \in Letters
      /\ \A r \in Peers :
           R[r] = IF room[r] = room[p] THEN <<Floor(s)>> ELSE <<>>
      /\ \A r \in Peers : G[r] = <<>> \/ G[r] = <<Grant(s, q)>>
  <2>1. Notices(room) \in Letters
    BY NoticesTypes
  <2>2. /\ R \in Letters
        /\ \A r \in Peers :
             R[r] = IF room[r] = room[p] THEN <<Floor(s)>> ELSE <<>>
    BY <1>2, ToRoomTypes
  <2>3. /\ G \in Letters
        /\ \A r \in Peers : G[r] = IF r = p THEN <<Grant(s, q)>> ELSE <<>>
    BY <1>2, ToTypes
  <2> HIDE DEF R, G
  <2> QED BY <2>1, <2>2, <2>3
<1>4. Push(out, life, ms)
  BY DEF Give, Granted, s
<1>5. /\ next' = s
      /\ floors' = [Swept EXCEPT
           ![room[p]] = [owner |-> p, stream |-> s, seq |-> 0, over |-> FALSE,
                         frames |-> 0]]
  BY DEF Give, Held, s
<1> HIDE DEF R, G
<1>6. /\ floors' \in [Rooms -> Floors]
      /\ floors'[room[p]].stream = s /\ floors'[room[p]].owner = p
      /\ \A r \in Rooms : r # room[p] => floors'[r] = Swept[r]
  BY <1>1, <1>5, Sweeping, VoiceAssumption DEF Floors
<1>7. FloorHasPeer'
  <2> SUFFICES ASSUME NEW r \in Rooms, floors'[r] # Free
               PROVE  \E o \in Peers : floors'[r].owner = o /\ room[o] = r
    BY DEF FloorHasPeer
  <2> QED BY <1>1, <1>6, SweptHavePeers
<1>8. ASSUME NEW r \in Peers, room[r] \in Rooms
      PROVE  Hears(ms[r], floors[room[r]].stream, floors'[room[r]].stream)
  <2>1. Hears(Notices(room)[r], floors[room[r]].stream, Swept[room[r]].stream)
    BY <1>1, <1>8, NoticesTell
  <2>2. Hears(R[r], Swept[room[r]].stream, floors'[room[r]].stream)
    <3>1. CASE room[r] = room[p]
      <4>1. R[r] = <<Floor(s)>>
        BY <1>3, <3>1
      <4> QED BY <1>6, <3>1, <4>1, HearsFloor
    <3>2. CASE room[r] # room[p]
      <4>1. R[r] = <<>>
        BY <1>3, <3>2
      <4> QED BY <1>6, <1>8, <3>2, <4>1, HearsNothing
    <3> QED BY <3>1, <3>2
  <2>3. Hears(G[r], floors'[room[r]].stream, floors'[room[r]].stream)
    <3>1. Grant(s, q).kind # "floor"
      BY DEF Grant
    <3> QED BY <1>3, <3>1, HearsNothing, HearsOther
  <2>4. /\ Notices(room)[r] \in Seq(Packet) /\ R[r] \in Seq(Packet)
        /\ G[r] \in Seq(Packet) /\ R[r] \o G[r] \in Seq(Packet)
    BY <1>3 DEF Letters
  <2>5. Hears(R[r] \o G[r], Swept[room[r]].stream, floors'[room[r]].stream)
    BY <2>2, <2>3, <2>4, HearsBoth
  <2>6. Hears(Notices(room)[r] \o (R[r] \o G[r]),
              floors[room[r]].stream, floors'[room[r]].stream)
    BY <2>1, <2>4, <2>5, HearsBoth
  <2>7. ms[r] = Notices(room)[r] \o (R[r] \o G[r])
    <3>1. Then(R, G) \in Letters /\ Then(R, G)[r] = R[r] \o G[r]
      BY <1>3, ThenTypes
    <3>2. ms[r] = Notices(room)[r] \o Then(R, G)[r]
      BY <1>3, <3>1, ThenTypes
    <3> QED BY <3>1, <3>2
  <2> QED BY <2>6, <2>7
<1>9. ms \in Letters
  BY <1>3, ThenTypes
<1> HIDE DEF ms
<1> QED BY <1>1, <1>4, <1>9, <1>5, <1>6, <1>7, <1>8, CallKeeps

\* Release keeps the invariant.
LEMMA ReleaseKeeps ==
  ASSUME RoomInv, NEW p \in Peers, room[p] # NoRoom, NEW s, Release(p, s),
         floors[room[p]].owner = p /\ floors[room[p]].stream = s,
         UNCHANGED told
  PROVE  RoomInv'
<1> DEFINE ms == ToRoom(room, room[p], Floor(0))
<1>1. /\ RoomTypeOK /\ FloorHasPeer /\ next \in Nat /\ room[p] \in Rooms
      /\ floors \in [Rooms -> Floors] /\ life \in [Peers -> Lives]
  BY RoomOfPeer DEF RoomInv, RoomTypeOK, HubTypeOK, Floors, Lives
<1>2. Floor(0) \in Packet
  BY PacketTypes
<1>3. /\ ms \in Letters
      /\ \A r \in Peers :
           ms[r] = IF room[r] = room[p] THEN <<Floor(0)>> ELSE <<>>
  BY <1>2, ToRoomTypes
<1> HIDE DEF ms
<1>4. /\ floors' = [floors EXCEPT ![room[p]] = Free]
      /\ Push(out, life, ms) /\ UNCHANGED <<room, next, allowed>>
  BY DEF Release, ms
<1>5. /\ floors' \in [Rooms -> Floors] /\ floors'[room[p]].stream = 0
      /\ floors'[room[p]] = Free
      /\ \A r \in Rooms : r # room[p] => floors'[r] = floors[r]
  BY <1>1, <1>4, Sweeping DEF Free, Held
<1>6. FloorHasPeer'
  BY <1>1, <1>4, <1>5 DEF FloorHasPeer
<1>7. ASSUME NEW r \in Peers, room[r] \in Rooms
      PROVE  Hears(ms[r], floors[room[r]].stream, floors'[room[r]].stream)
  BY <1>3, <1>5, <1>7, HearsFloor, HearsNothing
<1> QED BY <1>1, <1>3, <1>4, <1>5, <1>6, <1>7, CallKeeps

\* Audio keeps the invariant.
LEMMA AudioKeeps ==
  ASSUME RoomInv, NEW p \in Peers, room[p] # NoRoom, NEW s \in Nat,
         NEW n \in Nat, SendAudio(p, s, n), UNCHANGED told
  PROVE  RoomInv'
<1> DEFINE A == [ToRoom(room, room[p], Audio(s, n)) EXCEPT ![p] = <<>>]
           ms == Then(Notices(room), A)
<1>1. /\ RoomTypeOK /\ FloorHasPeer /\ next \in Nat
      /\ life \in [Peers -> Lives] /\ room[p] \in Rooms
      /\ UNCHANGED <<room, next, allowed>>
  BY RoomOfPeer DEF RoomInv, RoomTypeOK, HubTypeOK, Lives, SendAudio
<1>2. CASE ~Carried(Swept[room[p]], p, s, n)
  <2>1. /\ floors' = Swept
        /\ Push(out, [life EXCEPT ![p] = "closing"], Notices(room))
    BY <1>2 DEF SendAudio
  <2>2. /\ [life EXCEPT ![p] = "closing"] \in [Peers -> Lives]
        /\ \A r \in Peers : [life EXCEPT ![p] = "closing"][r] = "open"
                             => life[r] = "open"
    BY <1>1 DEF Lives
  <2> QED BY <1>1, <2>1, <2>2, SweepKeeps
<1>3. CASE Carried(Swept[room[p]], p, s, n)
  <2>1. /\ floors' = [Swept EXCEPT ![room[p]] = Counted(Swept[room[p]], n)]
        /\ Push(out, life, ms)
    BY <1>3 DEF SendAudio
  <2>2. Audio(s, n) \in Packet
    BY PacketTypes
  <2>3. /\ A \in Letters
        /\ \A r \in Peers : A[r] = <<>> \/ A[r] = <<Audio(s, n)>>
    <3> DEFINE T == ToRoom(room, room[p], Audio(s, n))
    <3>1. T \in [Peers -> Seq(Packet)]
      BY <2>2, ToRoomTypes DEF Letters
    <3>2. \A r \in Peers :
            T[r] = IF room[r] = room[p] THEN <<Audio(s, n)>> ELSE <<>>
      BY <2>2, ToRoomTypes
    <3> HIDE DEF T
    <3>3. A = [T EXCEPT ![p] = <<>>] /\ <<>> \in Seq(Packet)
      BY DEF T
    <3> HIDE DEF A
    <3> QED BY <3>1, <3>2, <3>3 DEF Letters
  <2>4. Notices(room) \in Letters
    BY NoticesTypes
  <2> HIDE DEF A
  <2>5. ms \in Letters /\ \A r \in Peers : ms[r] = Notices(room)[r] \o A[r]
    BY <2>3, <2>4, ThenTypes
  <2> HIDE DEF ms
  <2>6. /\ floors' \in [Rooms -> Floors]
        /\ \A r \in Rooms : /\ floors'[r].stream = Swept[r].stream
                             /\ floors'[r].owner = Swept[r].owner
        /\ \A r \in Rooms : r # room[p] => floors'[r] = Swept[r]
    <3> DEFINE g == Counted(Swept[room[p]], n)
    <3>1. Swept[room[p]] \in Floors /\ Swept[room[p]].frames < MaxRate
      BY <1>1, <1>3, Sweeping DEF Carried
    <3>2. /\ g \in Floors /\ g.owner = Swept[room[p]].owner
          /\ g.stream = Swept[room[p]].stream
      BY <3>1, CountedTypes
    <3>3. floors' = [Swept EXCEPT ![room[p]] = g]
      BY <2>1
    <3> HIDE DEF g
    <3> QED BY <1>1, <3>2, <3>3, Sweeping
  <2>7. Swept[room[p]] # Free
    BY <1>3, VoiceAssumption DEF Carried, InTurn, Free, Held
  <2>8. FloorHasPeer'
    <3> SUFFICES ASSUME NEW r \in Rooms, floors'[r] # Free
                 PROVE  \E o \in Peers : floors'[r].owner = o /\ room[o] = r
      BY <1>1 DEF FloorHasPeer
    <3>1. Swept[r] # Free
      BY <2>6, <2>7
    <3> QED BY <1>1, <2>6, <3>1, SweptHavePeers
  <2>9. ASSUME NEW r \in Peers, room[r] \in Rooms
        PROVE  Hears(ms[r], floors[room[r]].stream, floors'[room[r]].stream)
    <3>1. Hears(Notices(room)[r], floors[room[r]].stream, Swept[room[r]].stream)
      BY <1>1, <2>9, NoticesTell
    <3>2. Audio(s, n).kind # "floor"
      BY DEF Audio
    <3>3. Hears(A[r], Swept[room[r]].stream, Swept[room[r]].stream)
      BY <2>3, <3>2, HearsNothing, HearsOther
    <3>4. Notices(room)[r] \in Seq(Packet) /\ A[r] \in Seq(Packet)
      BY <2>3, <2>4 DEF Letters
    <3>5. Hears(Notices(room)[r] \o A[r],
                floors[room[r]].stream, Swept[room[r]].stream)
      BY <3>1, <3>3, <3>4, HearsBoth
    <3> QED BY <2>5, <2>6, <2>9, <3>5
  <2> QED BY <1>1, <2>1, <2>5, <2>6, <2>8, <2>9, CallKeeps
<1> QED BY <1>2, <1>3

-----------------------------------------------------------------------------
(* Peers that come and go                                                  *)

\* Join keeps the invariant.
LEMMA JoinKeeps ==
  ASSUME RoomInv, NEW p \in Peers, NEW r \in Rooms, Join(p, r), UNCHANGED told
  PROVE  RoomInv'
<1> DEFINE N == Notices(room')
           s == Swept[r].stream
           T == To(p, Floor(s))
           ms == Then(N, T)
<1>1. /\ RoomTypeOK /\ FloorHasPeer /\ PeersKnowFloor
      /\ next \in Nat /\ allowed \subseteq Peers \X Rooms
      /\ room \in [Peers -> Rooms \cup {NoRoom}] /\ told \in [Peers -> Tellings]
      /\ life \in [Peers -> Lives] /\ out \in Letters
  BY DEF RoomInv, RoomTypeOK, HubTypeOK, Lives, Letters, Tellings
<1>2. /\ room[p] = NoRoom /\ room' = [room EXCEPT ![p] = r] /\ floors' = Swept
      /\ Push(out, life, ms) /\ UNCHANGED <<next, allowed, told>>
  BY DEF Join
<1>3. /\ room' \in [Peers -> Rooms \cup {NoRoom}] /\ room'[p] = r
      /\ \A q \in Peers : q # p => room'[q] = room[q]
  BY <1>1, <1>2
<1>4. floors' \in [Rooms -> Floors] /\ s \in Nat
  BY <1>1, <1>2, Sweeping DEF Floors
<1> HIDE DEF s
<1>5. /\ N \in Letters /\ T \in Letters /\ Floor(s) \in Packet
      /\ \A q \in Peers : N[q] = <<>> \/ N[q] = <<Floor(0)>>
      /\ \A q \in Peers : T[q] = IF q = p THEN <<Floor(s)>> ELSE <<>>
  BY <1>4, NoticesTypes, PacketTypes, ToTypes
<1>6. ASSUME NEW q \in Peers, q # p, room[q] # NoRoom
      PROVE  Hears(N[q], floors[room[q]].stream, floors'[room[q]].stream)
  <2>1. room[q] \in Rooms /\ room'[q] = room[q]
    BY <1>1, <1>3, <1>6, RoomOfPeer
  <2>2. Hears(N[q], floors[room'[q]].stream, Swept[room'[q]].stream)
    BY <1>1, <2>1, NoticesTell
  <2> QED BY <1>2, <2>1, <2>2
<1> HIDE DEF N, T
<1>7. ms \in Letters /\ \A q \in Peers : ms[q] = N[q] \o T[q]
  BY <1>5, ThenTypes
<1> HIDE DEF ms
<1>8. FloorHasPeer'
  <2> SUFFICES ASSUME NEW h \in Rooms, floors'[h] # Free
               PROVE  \E o \in Peers : floors'[h].owner = o /\ room'[o] = h
    BY DEF FloorHasPeer
  <2>1. PICK o \in Peers : Swept[h].owner = o /\ room[o] = h
    BY <1>1, <1>2, SweptHavePeers
  <2>2. o # p
    BY <1>2, <2>1, VoiceAssumption
  <2> QED BY <1>2, <1>3, <2>1, <2>2
<1>9. ASSUME NEW q \in Peers, room'[q] # NoRoom, life[q] = "open"
      PROVE  \/ /\ room[q] # NoRoom /\ room'[q] = room[q] /\ told'[q] = told[q]
                /\ out[q] = out[q] /\ life[q] = "open"
                /\ Hears(ms[q], floors[room[q]].stream, floors'[room[q]].stream)
             \/ Hears(out[q] \o ms[q], told'[q].stream, floors'[room'[q]].stream)
  <2>1. N[q] \in Seq(Packet) /\ T[q] \in Seq(Packet) /\ out[q] \in Seq(Packet)
    BY <1>1, <1>5 DEF Letters
  <2>2. CASE q = p
    <3>1. /\ Floor(s).kind = "floor" /\ Floor(s).stream = s
          /\ floors'[room'[q]].stream = s
      BY <1>2, <1>3, <2>2 DEF Floor, s
    <3>2. T[q] = <<Floor(s)>> /\ ms[q] = N[q] \o T[q]
      BY <1>5, <1>7, <2>2
    <3>3. /\ out[q] \o N[q] \in Seq(Packet)
          /\ out[q] \o ms[q] = (out[q] \o N[q]) \o <<Floor(s)>>
      <4>1. (out[q] \o N[q]) \o T[q] = out[q] \o (N[q] \o T[q])
        BY <2>1, Regroup
      <4>2. out[q] \o N[q] \in Seq(Packet)
        BY <2>1
      <4> QED BY <3>2, <4>1, <4>2
    <3>4. Hears((out[q] \o N[q]) \o <<Floor(s)>>, told[q].stream, s)
      BY <1>5, <3>1, <3>3, HearsLast
    <3> QED BY <1>2, <3>1, <3>3, <3>4
  <2>3. CASE q # p
    <3>1. room[q] # NoRoom /\ room'[q] = room[q]
      BY <1>3, <1>9, <2>3
    <3>2. T[q] = <<>> /\ ms[q] = N[q] \o T[q]
      BY <1>5, <1>7, <2>3
    <3>3. ms[q] = N[q]
      BY <2>1, <3>2
    <3> QED BY <1>2, <1>6, <1>9, <2>3, <3>1, <3>3
  <2> QED BY <2>2, <2>3
<1>10. PeersKnowFloor'
  BY <1>1, <1>2, <1>7, <1>9, PushTells
<1>11. RoomTypeOK'
  <2>1. /\ out' \in [Peers -> Seq(Packet)]
        /\ \A q \in Peers : Len(out'[q]) <= QueueLimit
        /\ life' \in [Peers -> Lives]
    BY <1>1, <1>2, <1>7, PushTypes
  <2> QED BY <1>1, <1>2, <1>3, <1>4, <2>1
          DEF RoomTypeOK, HubTypeOK, Floors, Lives
<1> QED BY <1>8, <1>10, <1>11 DEF RoomInv

\* Leave keeps the invariant.
LEMMA LeaveKeeps ==
  ASSUME RoomInv, NEW p \in Peers, Leave(p), Forgotten(p)
  PROVE  RoomInv'
<1> DEFINE r == room[p]
           queue == [out EXCEPT ![p] = <<>>]
           state == [life EXCEPT ![p] = "open"]
           ms == ToRoom(room', r, Floor(0))
<1>1. /\ RoomTypeOK /\ FloorHasPeer /\ PeersKnowFloor
      /\ next \in Nat /\ allowed \subseteq Peers \X Rooms
      /\ room \in [Peers -> Rooms \cup {NoRoom}] /\ told \in [Peers -> Tellings]
      /\ floors \in [Rooms -> Floors] /\ Free \in Floors
      /\ life \in [Peers -> Lives] /\ out \in [Peers -> Seq(Packet)]
      /\ \A q \in Peers : Len(out[q]) <= QueueLimit
  BY Sweeping DEF RoomInv, RoomTypeOK, HubTypeOK, Lives, Floors, Tellings
<1>2. /\ r # NoRoom /\ r \in Rooms /\ room' = [room EXCEPT ![p] = NoRoom]
      /\ UNCHANGED <<next, allowed>>
  BY <1>1, RoomOfPeer DEF Leave
<1>3. /\ room' \in [Peers -> Rooms \cup {NoRoom}] /\ room'[p] = NoRoom
      /\ told' \in [Peers -> Tellings] /\ <<>> \in Seq(Packet)
      /\ \A q \in Peers : q # p => room'[q] = room[q] /\ told'[q] = told[q]
  BY <1>1, <1>2 DEF Forgotten, Silence, Tellings
<1>4. /\ queue \in [Peers -> Seq(Packet)] /\ state \in [Peers -> Lives]
      /\ \A q \in Peers : q # p => queue[q] = out[q] /\ state[q] = life[q]
      /\ \A q \in Peers : Len(queue[q]) <= QueueLimit
  <2>1. /\ queue \in [Peers -> Seq(Packet)] /\ queue[p] = <<>>
        /\ \A q \in Peers : q # p => queue[q] = out[q]
    BY <1>1, <1>3
  <2>3. /\ state \in [Peers -> Lives]
        /\ \A q \in Peers : q # p => state[q] = life[q]
    <3>1. life \in [Peers -> Lives]
      BY <1>1
    <3>2. state \in [Peers -> Lives]
      BY <3>1 DEF Lives
    <3>3. \A q \in Peers : q # p => state[q] = life[q]
      BY <3>1
    <3> QED BY <3>2, <3>3
  <2>2. Len(<<>>) <= QueueLimit
    BY VoiceAssumption
  <2> HIDE DEF queue, state
  <2> QED BY <1>1, <2>1, <2>2, <2>3
<1>5. CASE floors[r].owner = p
  <2>1. /\ floors' = [floors EXCEPT ![r] = Free] /\ Push(queue, state, ms)
    BY <1>5 DEF Leave
  <2>2. Floor(0) \in Packet
    BY PacketTypes
  <2>3. /\ ms \in Letters
        /\ \A q \in Peers : ms[q] = IF room'[q] = r THEN <<Floor(0)>> ELSE <<>>
    BY <2>2, ToRoomTypes
  <2> HIDE DEF ms, queue, state
  <2>4. /\ floors' \in [Rooms -> Floors]
        /\ floors'[r] = Free /\ floors'[r].stream = 0
        /\ \A h \in Rooms : h # r => floors'[h] = floors[h]
    BY <1>1, <1>2, <2>1 DEF Free, Held
  <2>5. FloorHasPeer'
    <3> SUFFICES ASSUME NEW h \in Rooms, floors'[h] # Free
                 PROVE  \E o \in Peers : floors'[h].owner = o /\ room'[o] = h
      BY DEF FloorHasPeer
    <3>1. h # r /\ floors'[h] = floors[h]
      BY <2>4
    <3>2. PICK o \in Peers : floors[h].owner = o /\ room[o] = h
      BY <1>1, <3>1 DEF FloorHasPeer
    <3> QED BY <1>3, <3>1, <3>2
  <2>6. ASSUME NEW q \in Peers, room'[q] # NoRoom, state[q] = "open"
        PROVE  /\ room[q] # NoRoom /\ room'[q] = room[q] /\ told'[q] = told[q]
               /\ queue[q] = out[q] /\ life[q] = "open"
               /\ Hears(ms[q], floors[room[q]].stream, floors'[room[q]].stream)
    <3>1. q # p
      BY <1>3, <2>6
    <3>2. /\ room'[q] = room[q] /\ told'[q] = told[q] /\ room[q] \in Rooms
          /\ queue[q] = out[q] /\ life[q] = "open"
      BY <1>1, <1>3, <1>4, <2>6, <3>1
    <3>3. Hears(ms[q], floors[room[q]].stream, floors'[room[q]].stream)
      BY <2>3, <2>4, <3>2, HearsFloor, HearsNothing
    <3> QED BY <2>6, <3>2, <3>3
  <2>7. queue \in Letters
    BY <1>4 DEF Letters
  <2>8. PeersKnowFloor'
    <3>1. \A q \in Peers : room'[q] # NoRoom /\ state[q] = "open" =>
            /\ room[q] # NoRoom /\ room'[q] = room[q] /\ told'[q] = told[q]
            /\ queue[q] = out[q] /\ life[q] = "open"
            /\ Hears(ms[q], floors[room[q]].stream, floors'[room[q]].stream)
      BY <2>6
    <3>2. RoomTypeOK /\ PeersKnowFloor
      BY <1>1
    <3>3. state \in [Peers -> Lives] /\ ms \in Letters /\ Push(queue, state, ms)
      BY <1>4, <2>1, <2>3
    <3> QED BY <2>7, <3>1, <3>2, <3>3, PushTells
  <2>9. /\ out' \in [Peers -> Seq(Packet)]
        /\ \A q \in Peers : Len(out'[q]) <= QueueLimit
        /\ life' \in [Peers -> Lives]
    BY <1>4, <2>1, <2>3, <2>7, PushTypes
  <2>10. RoomTypeOK'
    BY <1>1, <1>2, <1>3, <2>4, <2>9 DEF RoomTypeOK, HubTypeOK, Floors, Lives, Tellings
  <2> QED BY <2>5, <2>8, <2>10 DEF RoomInv
<1>6. CASE floors[r].owner # p
  <2>1. floors' = floors /\ out' = queue /\ life' = state
    BY <1>6 DEF Leave
  <2> HIDE DEF queue, state
  <2>2. FloorHasPeer'
    <3> SUFFICES ASSUME NEW h \in Rooms, floors[h] # Free
                 PROVE  \E o \in Peers : floors[h].owner = o /\ room'[o] = h
      BY <2>1 DEF FloorHasPeer
    <3>1. PICK o \in Peers : floors[h].owner = o /\ room[o] = h
      BY <1>1 DEF FloorHasPeer
    <3>2. o # p
      BY <1>6, <3>1
    <3> QED BY <1>3, <3>1, <3>2
  <2>3. PeersKnowFloor'
    <3> SUFFICES ASSUME NEW q \in Peers, room'[q] # NoRoom, life'[q] = "open"
                 PROVE  Hears(out'[q], told'[q].stream, floors'[room'[q]].stream)
      BY DEF PeersKnowFloor, Joined
    <3>1. /\ out'[q] = out[q] /\ told'[q] = told[q] /\ room'[q] = room[q]
          /\ life[q] = "open"
      BY <1>3, <1>4, <2>1
    <3> QED BY <1>1, <2>1, <3>1 DEF PeersKnowFloor, Joined
  <2>4. RoomTypeOK'
    BY <1>1, <1>2, <1>3, <1>4, <2>1 DEF RoomTypeOK, HubTypeOK, Floors, Lives, Tellings
  <2> QED BY <2>2, <2>3, <2>4 DEF RoomInv
<1> QED BY <1>5, <1>6

-----------------------------------------------------------------------------
(* The other steps                                                         *)

\* Who reads a message knows its stream.
LEMMA ReadTypes ==
  ASSUME RoomTypeOK, NEW p \in Peers, out[p] # <<>>, Read(p)
  PROVE  /\ told' \in [Peers -> Tellings]
         /\ told'[p] = After(told[p], Head(out[p]))
         /\ told'[p].stream = IF Head(out[p]).kind = "floor"
                              THEN Head(out[p]).stream ELSE told[p].stream
         /\ \A q \in Peers : q # p => told'[q] = told[q]
<1> DEFINE m == Head(out[p])
           u == After(told[p], m)
<1>1. told \in [Peers -> Tellings] /\ out[p] \in Seq(Packet)
  BY DEF RoomTypeOK, HubTypeOK, Tellings
<1>2. m \in Packet /\ told[p] \in Tellings
  BY <1>1
<1>3. told' = [told EXCEPT ![p] = u]
  BY DEF Read
<1> HIDE DEF m
<1>4. u \in Tellings
      /\ u.stream = IF m.kind = "floor" THEN m.stream ELSE told[p].stream
  BY <1>2 DEF After, Packet, Tellings
<1> HIDE DEF u
<1>5. /\ told' \in [Peers -> Tellings] /\ told'[p] = u
      /\ \A q \in Peers : q # p => told'[q] = told[q]
  BY <1>1, <1>3, <1>4
<1> QED BY <1>4, <1>5 DEF m, u

\* A message is taken from a queue.
LEMMA TakeKeeps ==
  ASSUME RoomInv, NEW p \in Peers, room[p] # NoRoom, out[p] # <<>>,
         out' = [out EXCEPT ![p] = Tail(@)],
         told' \in [Peers -> Tellings],
         told'[p].stream = IF Head(out[p]).kind = "floor"
                           THEN Head(out[p]).stream ELSE told[p].stream,
         \A q \in Peers : q # p => told'[q] = told[q],
         UNCHANGED <<room, floors, next, life, allowed>>
  PROVE  RoomInv'
<1>1. /\ RoomTypeOK /\ FloorHasPeer /\ PeersKnowFloor
      /\ out \in [Peers -> Seq(Packet)]
      /\ \A q \in Peers : Len(out[q]) <= QueueLimit
  BY DEF RoomInv, RoomTypeOK, HubTypeOK
<1>2. out[p] \in Seq(Packet)
  BY <1>1
<1>5. Tail(out[p]) \in Seq(Packet) /\ Len(Tail(out[p])) <= QueueLimit
  <2>1. /\ Tail(out[p]) \in Seq(Packet) /\ Len(out[p]) \in Nat
        /\ Len(Tail(out[p])) = Len(out[p]) - 1 /\ Len(out[p]) <= QueueLimit
    BY <1>1, <1>2
  <2> QED BY <2>1, VoiceAssumption
<1>6. /\ out' \in [Peers -> Seq(Packet)] /\ out'[p] = Tail(out[p])
      /\ \A q \in Peers : q # p => out'[q] = out[q]
  BY <1>1, <1>5
<1>7. RoomTypeOK'
  <2>1. \A q \in Peers : Len(out'[q]) <= QueueLimit
    BY <1>1, <1>5, <1>6
  <2> QED BY <1>1, <1>6, <2>1 DEF RoomTypeOK, HubTypeOK, Tellings
<1>8. FloorHasPeer'
  BY <1>1 DEF FloorHasPeer
<1>9. PeersKnowFloor'
  <2> SUFFICES ASSUME NEW q \in Peers, room[q] # NoRoom, life[q] = "open"
               PROVE  Hears(out'[q], told'[q].stream, floors[room[q]].stream)
    BY DEF PeersKnowFloor, Joined
  <2>1. Hears(out[q], told[q].stream, floors[room[q]].stream)
    BY <1>1 DEF PeersKnowFloor, Joined
  <2>2. CASE q = p
    BY <1>2, <1>6, <2>1, <2>2, HearsTail
  <2>3. CASE q # p
    BY <1>6, <2>1, <2>3
  <2> QED BY <2>2, <2>3
<1> QED BY <1>7, <1>8, <1>9 DEF RoomInv

\* The writer keeps the invariant.
LEMMA DeliverKeeps ==
  ASSUME RoomInv, NEW p \in Peers, Deliver(p), Read(p) PROVE RoomInv'
<1>1. /\ room[p] # NoRoom /\ out[p] # <<>>
      /\ out' = [out EXCEPT ![p] = Tail(@)]
      /\ UNCHANGED <<room, floors, next, life, allowed>>
  BY DEF Deliver
<1>2. RoomTypeOK
  BY DEF RoomInv
<1> QED BY <1>1, <1>2, ReadTypes, TakeKeeps

\* So does dropping a frame that waited too long.
LEMMA DiscardKeeps ==
  ASSUME RoomInv, NEW p \in Peers, Discard(p), UNCHANGED told PROVE RoomInv'
<1>1. /\ room[p] # NoRoom /\ out[p] # <<>> /\ Head(out[p]).kind # "floor"
      /\ out' = [out EXCEPT ![p] = Tail(@)]
      /\ UNCHANGED <<room, floors, next, life, allowed>>
  BY DEF Discard
<1>2. told \in [Peers -> Tellings]
  BY DEF RoomInv, RoomTypeOK, Tellings
<1> QED BY <1>1, <1>2, TakeKeeps

\* A session that is cancelled, and permissions.
LEMMA LifeKeeps ==
  ASSUME RoomInv, UNCHANGED <<room, floors, next, out, told>>,
         allowed' \subseteq Peers \X Rooms, life' \in [Peers -> Lives],
         \A p \in Peers : life'[p] = "open" => life[p] = "open"
  PROVE  RoomInv'
<1>1. RoomTypeOK'
  BY DEF RoomInv, RoomTypeOK, HubTypeOK, Lives
<1>2. FloorHasPeer'
  BY DEF RoomInv, FloorHasPeer
<1>3. PeersKnowFloor'
  BY DEF RoomInv, PeersKnowFloor, Joined
<1> QED BY <1>1, <1>2, <1>3 DEF RoomInv

\* The end of a lease or of a second keeps the invariant.
LEMMA TimeKeeps ==
  ASSUME RoomInv, NEW r \in Rooms, TimePasses(r), UNCHANGED told
  PROVE  RoomInv'
<1>1. /\ RoomTypeOK /\ FloorHasPeer /\ PeersKnowFloor
      /\ floors \in [Rooms -> Floors] /\ room \in [Peers -> Rooms \cup {NoRoom}]
  BY DEF RoomInv, RoomTypeOK, HubTypeOK, Floors
<1>2. /\ floors[r] # Free /\ UNCHANGED <<room, next, out, life, allowed>>
  BY <1>1, TimeKeepsFloors
<1>3. /\ floors' \in [Rooms -> Floors]
      /\ \A h \in Rooms : /\ floors'[h].stream = floors[h].stream
                           /\ floors'[h].owner = floors[h].owner
      /\ \A h \in Rooms : h # r => floors'[h] = floors[h]
  BY <1>1, TimeKeepsFloors
<1>4. RoomTypeOK'
  BY <1>1, <1>2, <1>3 DEF RoomTypeOK, HubTypeOK, Floors
<1>5. FloorHasPeer'
  BY <1>1, <1>2, <1>3 DEF FloorHasPeer
<1>6. PeersKnowFloor'
  <2> SUFFICES ASSUME NEW q \in Peers, room[q] # NoRoom, life[q] = "open"
               PROVE  Hears(out[q], told[q].stream, floors'[room[q]].stream)
    BY <1>2 DEF PeersKnowFloor, Joined
  <2>1. room[q] \in Rooms
    BY <1>1
  <2> QED BY <1>1, <1>3, <2>1 DEF PeersKnowFloor, Joined
<1> QED BY <1>4, <1>5, <1>6 DEF RoomInv

-----------------------------------------------------------------------------
(* The theorems                                                            *)

\* The room starts with the invariant.
LEMMA InitKeeps == Init => RoomInv
<1> SUFFICES ASSUME Init PROVE RoomInv
  OBVIOUS
<1>1. RoomTypeOK
  <2>1. Free \in Floors
    BY VoiceAssumption DEF Free, Held, Floors
  <2>2. Len(<<>>) <= QueueLimit
    BY VoiceAssumption
  <2> QED BY <2>1, <2>2 DEF Init, HubInit, RoomTypeOK, HubTypeOK, Floors, Silence
<1>2. FloorHasPeer /\ PeersKnowFloor
  BY DEF Init, HubInit, FloorHasPeer, PeersKnowFloor, Joined
<1> QED BY <1>1, <1>2 DEF RoomInv

\* Whatever a client sends keeps the invariant.
LEMMA HandleKeeps ==
  ASSUME RoomInv, NEW p \in Peers, HandleAny(p), UNCHANGED told
  PROVE  RoomInv'
<1>1. /\ room[p] # NoRoom
      /\ \E s \in Nat, n \in Nat : Request(p, n) \/ Release(p, s) \/ SendAudio(p, s, n)
  BY DEF HandleAny, Reading
<1>2. PICK s \in Nat, n \in Nat : Request(p, n) \/ Release(p, s) \/ SendAudio(p, s, n)
  BY <1>1
<1>3. CASE Request(p, n)
  <2>1. UNCHANGED <<room, allowed, told>>
    BY <1>3 DEF Request
  <2>2. CASE Refuse(p, n)
    BY <2>1, <2>2, RefuseKeeps
  <2>3. CASE Give(p, n)
    BY <1>1, <2>1, <2>3, GiveKeeps
  <2> QED BY <1>3, <2>2, <2>3 DEF Request
<1>4. CASE Release(p, s)
  <2>1. CASE floors[room[p]].owner = p /\ floors[room[p]].stream = s
    BY <1>1, <1>4, <2>1, ReleaseKeeps
  <2>2. CASE ~(floors[room[p]].owner = p /\ floors[room[p]].stream = s)
    <3>1. UNCHANGED <<room, floors, next, out, life, allowed, told>>
      BY <1>4, <2>2 DEF Release
    <3>2. life \in [Peers -> Lives] /\ allowed \subseteq Peers \X Rooms
      BY DEF RoomInv, RoomTypeOK, HubTypeOK, Lives
    <3> QED BY <3>1, <3>2, LifeKeeps
  <2> QED BY <2>1, <2>2
<1>5. CASE SendAudio(p, s, n)
  BY <1>1, <1>5, AudioKeeps
<1> QED BY <1>2, <1>3, <1>4, <1>5

\* What the rest of the relay does keeps the invariant.
LEMMA ApartKeeps ==
  ASSUME RoomInv, NEW p \in Peers, Apart(p), UNCHANGED told
  PROVE  RoomInv'
<1>1. life \in [Peers -> Lives] /\ allowed \subseteq Peers \X Rooms
  BY DEF RoomInv, RoomTypeOK, HubTypeOK, Lives
<1>2. CASE Tick(p)
  <2>1. /\ floors' = Swept /\ Push(out, life, Notices(room))
        /\ UNCHANGED <<room, next, allowed, told>>
    BY <1>2 DEF Tick
  <2> QED BY <1>1, <2>1, SweepKeeps
<1>3. CASE Recheck(p) \/ Fail(p) \/ Hangup(p)
  <2>1. PICK l \in {"stopped", "closing"} : life' = [life EXCEPT ![p] = l]
    BY <1>3 DEF Recheck, Fail, Hangup
  <2>2. UNCHANGED <<room, floors, next, out, allowed, told>>
    BY <1>3 DEF Recheck, Fail, Hangup
  <2>3. /\ life' \in [Peers -> Lives]
        /\ \A q \in Peers : life'[q] = "open" => life[q] = "open"
    BY <1>1, <2>1 DEF Lives
  <2> QED BY <1>1, <2>2, <2>3, LifeKeeps
<1>4. ASSUME NEW r \in Rooms, Permit(p, r) \/ Deny(p, r) PROVE RoomInv'
  <2>1. UNCHANGED <<room, floors, next, out, life, told>>
    BY <1>4 DEF Permit, Deny
  <2>2. allowed' \subseteq Peers \X Rooms
    BY <1>1, <1>4 DEF Permit, Deny
  <2> QED BY <1>1, <2>1, <2>2, LifeKeeps
<1> QED BY <1>2, <1>3, <1>4, DiscardKeeps, JoinKeeps DEF Apart

\* What a client can send within the bounds is among what any can.
LEMMA HandleBounds ==
  ASSUME next \in Nat, NEW p \in Peers, Handle(p) PROVE HandleAny(p)
<1>1. Reading(p) /\ MaxSeq \in Nat /\ 1 \in Nat
  BY VoiceAssumption DEF Handle
<1>2. CASE Request(p, 1)
  BY <1>1, <1>2 DEF HandleAny
<1>3. CASE \E s \in 0..next : Release(p, s)
  BY <1>1, <1>3 DEF HandleAny
<1>4. CASE \E s \in 1..next, n \in 1..MaxSeq : SendAudio(p, s, n)
  <2>1. PICK s \in 1..next, n \in 1..MaxSeq : SendAudio(p, s, n)
    BY <1>4
  <2>2. s \in Nat /\ n \in Nat
    BY <1>1
  <2> QED BY <1>1, <2>1, <2>2 DEF HandleAny
<1> QED BY <1>2, <1>3, <1>4 DEF Handle

\* Every step keeps the invariant.
LEMMA StepKeeps == RoomInv /\ [AnyNext]_vars => RoomInv'
<1> SUFFICES ASSUME RoomInv, [AnyNext]_vars PROVE RoomInv'
  OBVIOUS
<1>1. /\ life \in [Peers -> Lives] /\ allowed \subseteq Peers \X Rooms
      /\ next \in Nat
  BY DEF RoomInv, RoomTypeOK, HubTypeOK, Lives
<1>2. ASSUME NEW p \in Peers, Handle(p) \/ HandleAny(p), UNCHANGED told
      PROVE  RoomInv'
  BY <1>1, <1>2, HandleBounds, HandleKeeps
<1>3. CASE UNCHANGED vars
  <2>1. UNCHANGED <<room, floors, next, out, life, allowed, told>>
    BY <1>3 DEF vars, hubVars
  <2> QED BY <1>1, <2>1, LifeKeeps
<1>4. CASE AnyNext
  BY <1>2, <1>4, DeliverKeeps, LeaveKeeps, ApartKeeps, TimeKeeps
     DEF AnyNext, Next
<1> QED BY <1>3, <1>4

\* The inductive invariant: types, a peer behind each floor, and everybody
\* told.
THEOREM RoomInvariant == AnySpec => []RoomInv
<1>1. Init => RoomInv
  BY InitKeeps
<1>2. RoomInv /\ [AnyNext]_vars => RoomInv'
  BY StepKeeps
<1> QED BY <1>1, <1>2, PTL DEF AnySpec

\* What holds of every client holds of those that keep to the bounds.
LEMMA BoundsAreAmongAny == Spec => AnySpec
<1>1. [Next]_vars => [AnyNext]_vars
  BY DEF AnyNext
<1> QED BY <1>1, PTL DEF Spec, AnySpec

\* Queues never exceed their limit and the hub's maps stay well formed
\* (hub.go queue).
THEOREM RoomTypeCorrect == Spec => []RoomTypeOK
<1>1. RoomInv => RoomTypeOK
  BY DEF RoomInv
<1> QED BY <1>1, RoomInvariant, BoundsAreAmongAny, PTL

\* However a session ends, it takes its floor with it (hub.go Leave).
THEOREM FloorHeldInRoom == Spec => []FloorHasPeer
<1>1. RoomInv => FloorHasPeer
  BY DEF RoomInv
<1> QED BY <1>1, RoomInvariant, BoundsAreAmongAny, PTL

\* Every peer whose session goes on has been told, or will be by its queue,
\* who holds the floor of its room (hub.go state).
THEOREM PeersAreTold == Spec => []PeersKnowFloor
<1>1. RoomInv => PeersKnowFloor
  BY DEF RoomInv
<1> QED BY <1>1, RoomInvariant, BoundsAreAmongAny, PTL

-----------------------------------------------------------------------------
(* Audio: what a queue holds, and what its peer can play                  *)

IsAudio(m) == m.kind = "audio"
Mute(ms) == \A k \in DOMAIN ms : ~IsAudio(ms[k])

\* A queue whose audio a peer that knows of stream s can play.
InPlace(q, s, k) ==
  /\ Hears(SubSeq(q, 1, k - 1), s, q[k].stream)
  /\ \A j \in 1..k-1 :
       IsAudio(q[j]) /\ q[j].stream = q[k].stream => q[j].n < q[k].n
Sound(q, s) == \A k \in DOMAIN q : IsAudio(q[k]) => InPlace(q, s, k)

\* Who was told t finds no frame it has read, or one before it.
Newer(q, t) ==
  \A k \in DOMAIN q : IsAudio(q[k]) /\ q[k].stream = t.stream => t.seq < q[k].n

\* A frame of a stream that was given, not ahead of its floor.
Past(m, last, fs) ==
  /\ m.stream \in 1..last /\ 0 < m.n
  /\ \A r \in Rooms : fs[r].stream = m.stream => m.n <= fs[r].seq
OnlyPast(q, last, fs) ==
  \A k \in DOMAIN q : IsAudio(q[k]) => Past(q[k], last, fs)

Reached(t, last, fs) == t.seq = 0 \/ Past(Audio(t.stream, t.seq), last, fs)

\* No two rooms have the same stream, and only a free floor has none.
Distinct(last, fs) ==
  /\ \A r \in Rooms : fs[r].stream <= last
  /\ \A r \in Rooms : fs[r].stream = 0 => fs[r].owner = Nobody
  /\ \A r, h \in Rooms : fs[r].stream = fs[h].stream => r = h \/ fs[r].stream = 0

Playable(q, t, last, fs) ==
  /\ Sound(q, t.stream) /\ OnlyPast(q, last, fs)
  /\ Newer(q, t) /\ Reached(t, last, fs)

AudioInv ==
  /\ Distinct(next, floors)
  /\ \A p \in Peers :
       life[p] = "open" => Playable(out[p], told[p], next, floors)

-----------------------------------------------------------------------------
(* Queues that grow and shrink                                             *)

\* Where the elements of two joined sequences are.
LEMMA Grown ==
  ASSUME NEW q \in Seq(Packet), NEW b \in Seq(Packet)
  PROVE  /\ q \o b \in Seq(Packet)
         /\ DOMAIN q = 1..Len(q) /\ DOMAIN b = 1..Len(b)
         /\ DOMAIN (q \o b) = 1..(Len(q) + Len(b))
         /\ Len(q) \in Nat /\ Len(b) \in Nat
         /\ \A k \in 1..Len(q) : (q \o b)[k] = q[k]
         /\ \A k \in 1..Len(b) : (q \o b)[Len(q) + k] = b[k]
  OBVIOUS

\* What precedes an element does not change when the queue grows.
LEMMA GrownPrefix ==
  ASSUME NEW q \in Seq(Packet), NEW b \in Seq(Packet), NEW k \in 0..Len(q)
  PROVE  SubSeq(q \o b, 1, k) = SubSeq(q, 1, k)
<1> DEFINE c == q \o b
<1>1. /\ c \in Seq(Packet) /\ Len(q) \in Nat /\ Len(b) \in Nat
      /\ \A i \in 1..Len(q) : c[i] = q[i]
      /\ \A i \in 1..Len(q) : q[i] \in Packet
  BY Grown
<1> HIDE DEF c
<1>2. \A i \in 1..k : c[i] = q[i] /\ q[i] \in Packet /\ c[i] \in Packet
  BY <1>1
<1>3. /\ SubSeq(c, 1, k) \in Seq(Packet) /\ SubSeq(q, 1, k) \in Seq(Packet)
      /\ Len(SubSeq(c, 1, k)) = k /\ Len(SubSeq(q, 1, k)) = k
      /\ \A i \in 1..k : SubSeq(c, 1, k)[i] = c[i] /\ SubSeq(q, 1, k)[i] = q[i]
  <2>1. k \in Int /\ k >= 0 /\ k - 1 + 1 = k /\ 1 \in Int
    BY <1>1
  <2>2. /\ SubSeq(c, 1, k) \in Seq(Packet)
        /\ Len(SubSeq(c, 1, k)) = IF 1 <= k THEN k - 1 + 1 ELSE 0
        /\ \A i \in 1..(k - 1 + 1) : SubSeq(c, 1, k)[i] = c[1 + i - 1]
    BY <1>2, <2>1, SubSeqProperties
  <2>3. /\ SubSeq(q, 1, k) \in Seq(Packet)
        /\ Len(SubSeq(q, 1, k)) = IF 1 <= k THEN k - 1 + 1 ELSE 0
        /\ \A i \in 1..(k - 1 + 1) : SubSeq(q, 1, k)[i] = q[1 + i - 1]
    BY <1>2, <2>1, SubSeqProperties
  <2>4. \A i \in 1..k : 1 + i - 1 = i
    BY <2>1
  <2> QED BY <2>1, <2>2, <2>3, <2>4
<1>4. SubSeq(c, 1, k) = SubSeq(q, 1, k)
  BY <1>2, <1>3, SeqEqual
<1> QED BY <1>4 DEF c

\* Messages without audio disturb no audio before them.
LEMMA SoundMute ==
  ASSUME NEW q \in Seq(Packet), NEW b \in Seq(Packet), NEW t,
         Sound(q, t), Mute(b)
  PROVE  Sound(q \o b, t)
<1> DEFINE c == q \o b
<1>1. /\ DOMAIN q = 1..Len(q) /\ DOMAIN b = 1..Len(b)
      /\ DOMAIN c = 1..(Len(q) + Len(b))
      /\ Len(q) \in Nat /\ Len(b) \in Nat
      /\ \A k \in 1..Len(q) : c[k] = q[k]
      /\ \A k \in 1..Len(b) : c[Len(q) + k] = b[k]
  BY Grown
<1>2. \A k \in 1..Len(q) : SubSeq(c, 1, k - 1) = SubSeq(q, 1, k - 1)
  BY <1>1, GrownPrefix
<1> HIDE DEF c
<1> SUFFICES ASSUME NEW k \in DOMAIN c, IsAudio(c[k]) PROVE InPlace(c, t, k)
  BY DEF Sound, c
<1>3. k \in 1..Len(q)
  <2> SUFFICES ASSUME k \notin 1..Len(q) PROVE FALSE
    OBVIOUS
  <2>1. k - Len(q) \in 1..Len(b) /\ k = Len(q) + (k - Len(q))
    BY <1>1
  <2>2. c[k] = b[k - Len(q)]
    BY <1>1, <2>1
  <2> QED BY <1>1, <2>1, <2>2 DEF Mute
<1>4. c[k] = q[k] /\ \A j \in 1..k-1 : c[j] = q[j]
  BY <1>1, <1>3
<1>5. InPlace(q, t, k)
  BY <1>1, <1>3, <1>4 DEF Sound
<1> QED BY <1>2, <1>3, <1>4, <1>5 DEF InPlace

\* A frame at the end, of the stream the peer will know of then.
LEMMA SoundAudio ==
  ASSUME NEW q \in Seq(Packet), NEW m \in Packet, NEW t,
         Sound(q, t), Hears(q, t, m.stream),
         \A k \in DOMAIN q :
           IsAudio(q[k]) /\ q[k].stream = m.stream => q[k].n < m.n
  PROVE  Sound(q \o <<m>>, t)
<1> DEFINE c == q \o <<m>>
<1>1. /\ DOMAIN q = 1..Len(q) /\ DOMAIN c = 1..(Len(q) + 1)
      /\ Len(q) \in Nat /\ c[Len(q) + 1] = m
      /\ \A k \in 1..Len(q) : c[k] = q[k]
  OBVIOUS
<1>2. \A k \in 0..Len(q) : SubSeq(c, 1, k) = SubSeq(q, 1, k)
  <2>1. <<m>> \in Seq(Packet)
    OBVIOUS
  <2> QED BY <2>1, GrownPrefix
<1> HIDE DEF c
<1> SUFFICES ASSUME NEW k \in DOMAIN c, IsAudio(c[k]) PROVE InPlace(c, t, k)
  BY DEF Sound, c
<1>3. CASE k \in 1..Len(q)
  <2>1. c[k] = q[k] /\ \A j \in 1..k-1 : c[j] = q[j]
    BY <1>1, <1>3
  <2>2. InPlace(q, t, k)
    BY <1>1, <1>3, <2>1 DEF Sound
  <2>3. SubSeq(c, 1, k - 1) = SubSeq(q, 1, k - 1)
    BY <1>1, <1>2, <1>3
  <2> QED BY <2>1, <2>2, <2>3 DEF InPlace
<1>4. CASE k = Len(q) + 1
  <2>1. c[k] = m /\ k - 1 = Len(q)
    BY <1>1, <1>4
  <2>2. SubSeq(c, 1, k - 1) = q
    BY <1>1, <1>2, <2>1, SubSeqFull
  <2>3. \A j \in 1..k-1 : c[j] = q[j] /\ j \in DOMAIN q
    BY <1>1, <2>1
  <2> QED BY <2>1, <2>2, <2>3 DEF InPlace
<1> QED BY <1>1, <1>3, <1>4

\* The peer reads a message, or a frame is dropped.
LEMMA SoundTail ==
  ASSUME NEW q \in Seq(Packet), q # <<>>, NEW t, Sound(q, t)
  PROVE  Sound(Tail(q), IF Head(q).kind = "floor" THEN Head(q).stream ELSE t)
<1> DEFINE u == IF Head(q).kind = "floor" THEN Head(q).stream ELSE t
           c == Tail(q)
<1>1. /\ Len(q) \in Nat /\ Len(q) > 0 /\ DOMAIN q = 1..Len(q)
      /\ c \in Seq(Packet) /\ Len(c) = Len(q) - 1 /\ DOMAIN c = 1..(Len(q) - 1)
      /\ \A i \in 1..(Len(q) - 1) : c[i] = q[i + 1]
      /\ Head(q) = q[1]
  OBVIOUS
<1> SUFFICES ASSUME NEW k \in DOMAIN c, IsAudio(c[k]) PROVE InPlace(c, u, k)
  BY DEF Sound
<1>2. /\ k \in 1..(Len(q) - 1) /\ c[k] = q[k + 1] /\ k + 1 \in DOMAIN q
      /\ k + 1 - 1 = k
  BY <1>1
<1>3. InPlace(q, t, k + 1)
  BY <1>2 DEF Sound
<1> DEFINE h == SubSeq(q, 1, k)
<1>4. /\ h \in Seq(Packet) /\ h # <<>> /\ Head(h) = q[1]
      /\ Tail(h) = SubSeq(q, 2, k)
  <2>1. 1 \in 1..Len(q) /\ k \in 1..Len(q)
    BY <1>1, <1>2
  <2>2. Head(h) = q[1] /\ Tail(h) = SubSeq(q, 1 + 1, k)
    BY <2>1, HeadTailOfSubSeq
  <2>3. \A i \in 1..k : q[i] \in Packet
    BY <1>1, <2>1
  <2>4. h \in Seq(Packet) /\ Len(h) = IF 1 <= k THEN k - 1 + 1 ELSE 0
    BY <2>1, <2>3, SubSeqProperties
  <2>5. Len(h) # 0
    BY <2>1, <2>4
  <2>6. 1 + 1 = 2
    OBVIOUS
  <2> HIDE DEF h
  <2> QED BY <2>2, <2>4, <2>5, <2>6
<1>5. Hears(h, t, q[k + 1].stream)
  BY <1>2, <1>3 DEF InPlace
<1>6. Hears(Tail(h), u, c[k].stream)
  <2> HIDE DEF h, c
  <2>1. Head(h) = Head(q)
    BY <1>1, <1>4
  <2> QED BY <1>2, <1>4, <1>5, <2>1, HearsTail
<1>7. SubSeq(c, 1, k - 1) = SubSeq(q, 2, k)
  <2>1. /\ \A i \in 1..(k - 1) : c[i] \in Packet /\ i + 1 \in 2..k
        /\ \A i \in 2..k : q[i] \in Packet
        /\ k \in Int /\ k >= 1 /\ k - 1 - 1 + 1 = k - 1 /\ k - 2 + 1 = k - 1
    BY <1>1, <1>2
  <2> HIDE DEF c
  <2>2. /\ SubSeq(c, 1, k - 1) \in Seq(Packet)
        /\ Len(SubSeq(c, 1, k - 1)) = IF 1 <= k - 1 THEN k - 1 - 1 + 1 ELSE 0
        /\ \A i \in 1..(k - 1 - 1 + 1) : SubSeq(c, 1, k - 1)[i] = c[1 + i - 1]
    BY <2>1, SubSeqProperties
  <2>3. /\ SubSeq(q, 2, k) \in Seq(Packet)
        /\ Len(SubSeq(q, 2, k)) = IF 2 <= k THEN k - 2 + 1 ELSE 0
        /\ \A i \in 1..(k - 2 + 1) : SubSeq(q, 2, k)[i] = q[2 + i - 1]
    BY <2>1, SubSeqProperties
  <2>4. Len(SubSeq(c, 1, k - 1)) = k - 1 /\ Len(SubSeq(q, 2, k)) = k - 1
    BY <2>1, <2>2, <2>3
  <2>5. ASSUME NEW i \in 1..(k - 1)
        PROVE  SubSeq(c, 1, k - 1)[i] = SubSeq(q, 2, k)[i]
    <3>1. 1 + i - 1 = i /\ 2 + i - 1 = i + 1 /\ i \in 1..(Len(q) - 1)
      BY <1>1, <1>2
    <3>2. SubSeq(c, 1, k - 1)[i] = c[i] /\ SubSeq(q, 2, k)[i] = q[i + 1]
      BY <2>1, <2>2, <2>3, <3>1
    <3> QED BY <1>1, <3>1, <3>2
  <2> QED BY <2>2, <2>3, <2>4, <2>5, SeqEqual
<1>8. \A j \in 1..k-1 : j + 1 \in 1..k /\ c[j] = q[j + 1]
  BY <1>1, <1>2
<1>9. \A j \in 1..k-1 :
        IsAudio(c[j]) /\ c[j].stream = c[k].stream => c[j].n < c[k].n
  <2>1. \A j \in 1..k :
          IsAudio(q[j]) /\ q[j].stream = q[k + 1].stream => q[j].n < q[k + 1].n
    BY <1>2, <1>3 DEF InPlace
  <2> HIDE DEF c
  <2> QED BY <1>2, <1>8, <2>1
<1> HIDE DEF c, u, h
<1> QED BY <1>4, <1>6, <1>7, <1>9 DEF InPlace

\* Frames at the end that are newer.
LEMMA NewerGrows ==
  ASSUME NEW q \in Seq(Packet), NEW b \in Seq(Packet), NEW t,
         Newer(q, t), Newer(b, t)
  PROVE  Newer(q \o b, t)
<1> DEFINE c == q \o b
<1>1. /\ DOMAIN q = 1..Len(q) /\ DOMAIN b = 1..Len(b)
      /\ DOMAIN c = 1..(Len(q) + Len(b))
      /\ Len(q) \in Nat /\ Len(b) \in Nat
      /\ \A k \in 1..Len(q) : c[k] = q[k]
      /\ \A k \in 1..Len(b) : c[Len(q) + k] = b[k]
  BY Grown
<1> HIDE DEF c
<1> SUFFICES ASSUME NEW k \in DOMAIN c, IsAudio(c[k]), c[k].stream = t.stream
             PROVE  t.seq < c[k].n
  BY DEF Newer, c
<1>2. CASE k \in 1..Len(q)
  BY <1>1, <1>2 DEF Newer
<1>3. CASE k \notin 1..Len(q)
  <2>1. k - Len(q) \in 1..Len(b) /\ k = Len(q) + (k - Len(q))
    BY <1>1, <1>3
  <2>2. c[k] = b[k - Len(q)]
    BY <1>1, <2>1
  <2> QED BY <1>1, <2>1, <2>2 DEF Newer
<1> QED BY <1>2, <1>3

\* What is left when the first message is gone.
LEMMA TailFacts ==
  ASSUME NEW q \in Seq(Packet), q # <<>>
  PROVE  /\ Head(q) = q[1] /\ 1 \in DOMAIN q /\ Head(q) \in Packet
         /\ Tail(q) \in Seq(Packet)
         /\ \A k \in DOMAIN Tail(q) :
              /\ k + 1 \in DOMAIN q /\ Tail(q)[k] = q[k + 1]
              /\ 1 \in 1..(k + 1) - 1 /\ q[k + 1] \in Packet
<1>1. /\ Len(q) \in Nat /\ Len(q) > 0 /\ DOMAIN q = 1..Len(q)
      /\ Tail(q) \in Seq(Packet) /\ DOMAIN Tail(q) = 1..(Len(q) - 1)
      /\ \A k \in 1..(Len(q) - 1) : Tail(q)[k] = q[k + 1]
      /\ Head(q) = q[1]
  OBVIOUS
<1>2. 1 \in DOMAIN q /\ Head(q) \in Packet
  BY <1>1
<1>3. ASSUME NEW k \in 1..(Len(q) - 1)
      PROVE  k + 1 \in 1..Len(q) /\ 1 \in 1..(k + 1) - 1
  BY <1>1
<1> QED BY <1>1, <1>2, <1>3

\* A frame at the front is of the stream the peer knows.
LEMMA SoundHead ==
  ASSUME NEW q \in Seq(Packet), q # <<>>, NEW s, Sound(q, s), IsAudio(Head(q))
  PROVE  Head(q).stream = s
<1>1. q[1] = Head(q) /\ 1 \in DOMAIN q
  BY TailFacts
<1>2. Hears(SubSeq(q, 1, 1 - 1), s, q[1].stream)
  BY <1>1 DEF Sound, InPlace
<1>3. SubSeq(q, 1, 1 - 1) = <<>>
  BY <1>1
<1> HIDE DEF IsAudio
<1>4. Hears(<<>>, s, q[1].stream)
  BY <1>2, <1>3
<1>5. DOMAIN <<>> = {}
  OBVIOUS
<1> QED BY <1>1, <1>4, <1>5 DEF Hears

\* The peer reads a message: what it was told by then, and what is left.
LEMMA ReadPlayable ==
  ASSUME NEW q \in Seq(Packet), q # <<>>, NEW t \in Tellings,
         NEW last, NEW fs, Playable(q, t, last, fs)
  PROVE  Playable(Tail(q), After(t, Head(q)), last, fs)
<1> DEFINE m == Head(q)
           u == After(t, m)
<1>1. /\ m = q[1] /\ 1 \in DOMAIN q /\ m \in Packet
      /\ Tail(q) \in Seq(Packet)
      /\ \A k \in DOMAIN Tail(q) :
           /\ k + 1 \in DOMAIN q /\ Tail(q)[k] = q[k + 1]
           /\ 1 \in 1..(k + 1) - 1 /\ q[k + 1] \in Packet
  BY TailFacts
<1>2. Sound(q, t.stream) /\ OnlyPast(q, last, fs) /\ Newer(q, t)
      /\ Reached(t, last, fs)
  BY DEF Playable
<1>3. IsAudio(m) => m.stream = t.stream
  BY <1>2, SoundHead
<1> HIDE DEF m
<1>4. /\ u.stream = IF m.kind = "floor" THEN m.stream ELSE t.stream
      /\ m.kind = "floor" => u.seq = 0
      /\ IsAudio(m) => u.seq = m.n
      /\ m.kind # "floor" /\ ~IsAudio(m) => u = t
  BY DEF After, IsAudio, Tellings
<1> HIDE DEF u
<1>5. Sound(Tail(q), u.stream)
  BY <1>2, <1>4, SoundTail DEF m
<1>6. OnlyPast(Tail(q), last, fs)
  BY <1>1, <1>2 DEF OnlyPast
<1>7. Newer(Tail(q), u)
  <2> SUFFICES ASSUME NEW k \in DOMAIN Tail(q), IsAudio(Tail(q)[k]),
                      Tail(q)[k].stream = u.stream
               PROVE  u.seq < Tail(q)[k].n
    BY DEF Newer
  <2>1. CASE m.kind = "floor"
    <3>1. Past(q[k + 1], last, fs)
      BY <1>1, <1>2 DEF OnlyPast
    <3> QED BY <1>1, <1>4, <2>1, <3>1 DEF Past
  <2>2. CASE IsAudio(m)
    <3>1. InPlace(q, t.stream, k + 1)
      BY <1>1, <1>2 DEF Sound
    <3>2. m.stream = q[k + 1].stream
      BY <1>1, <1>3, <1>4, <2>2 DEF IsAudio
    <3>3. m.n < q[k + 1].n
      BY <1>1, <2>2, <3>1, <3>2 DEF InPlace
    <3> QED BY <1>1, <1>4, <2>2, <3>3
  <2>3. CASE m.kind # "floor" /\ ~IsAudio(m)
    BY <1>1, <1>2, <1>4, <2>3 DEF Newer
  <2> QED BY <2>1, <2>2, <2>3
<1>8. Reached(u, last, fs)
  <2>1. CASE m.kind = "floor"
    BY <1>4, <2>1 DEF Reached
  <2>2. CASE IsAudio(m)
    <3>1. Past(m, last, fs)
      BY <1>1, <1>2, <2>2 DEF OnlyPast
    <3>2. u.stream = m.stream /\ u.seq = m.n
      BY <1>3, <1>4, <2>2 DEF IsAudio
    <3> QED BY <3>1, <3>2 DEF Reached, Past, Audio
  <2>3. CASE m.kind # "floor" /\ ~IsAudio(m)
    BY <1>2, <1>4, <2>3
  <2> QED BY <2>1, <2>2, <2>3
<1> QED BY <1>5, <1>6, <1>7, <1>8 DEF Playable, u, m

\* A frame that waited too long is dropped.
LEMMA DropPlayable ==
  ASSUME NEW q \in Seq(Packet), q # <<>>, NEW t, NEW last, NEW fs,
         Playable(q, t, last, fs), Head(q).kind # "floor"
  PROVE  Playable(Tail(q), t, last, fs)
<1>1. \A k \in DOMAIN Tail(q) : k + 1 \in DOMAIN q /\ Tail(q)[k] = q[k + 1]
  BY TailFacts
<1>2. Sound(Tail(q), t.stream)
  BY SoundTail DEF Playable
<1>3. OnlyPast(Tail(q), last, fs) /\ Newer(Tail(q), t)
  BY <1>1 DEF Playable, OnlyPast, Newer
<1> QED BY <1>2, <1>3 DEF Playable

-----------------------------------------------------------------------------
(* What the calls send                                                     *)

\* A message that is no audio is mute.
LEMMA MuteOne == ASSUME NEW m \in Packet, ~IsAudio(m) PROVE Mute(<<m>>)
  BY DEF Mute

\* Nothing is mute.
LEMMA MuteNone == Mute(<<>>)
  BY DEF Mute

\* Two mute sequences are one.
LEMMA MuteBoth ==
  ASSUME NEW a \in Seq(Packet), NEW b \in Seq(Packet), Mute(a), Mute(b)
  PROVE  Mute(a \o b)
<1> DEFINE c == a \o b
<1>1. /\ DOMAIN a = 1..Len(a) /\ DOMAIN b = 1..Len(b)
      /\ DOMAIN c = 1..(Len(a) + Len(b))
      /\ Len(a) \in Nat /\ Len(b) \in Nat
      /\ \A k \in 1..Len(a) : c[k] = a[k]
      /\ \A k \in 1..Len(b) : c[Len(a) + k] = b[k]
  BY Grown
<1> HIDE DEF c
<1> SUFFICES ASSUME NEW k \in DOMAIN c PROVE ~IsAudio(c[k])
  BY DEF Mute, c
<1>2. CASE k \in 1..Len(a)
  BY <1>1, <1>2 DEF Mute
<1>3. CASE k \notin 1..Len(a)
  <2>1. k - Len(a) \in 1..Len(b) /\ k = Len(a) + (k - Len(a))
    BY <1>1, <1>3
  <2>2. c[k] = b[k - Len(a)]
    BY <1>1, <2>1
  <2> QED BY <1>1, <2>1, <2>2 DEF Mute
<1> QED BY <1>2, <1>3

Silent(ms) == \A p \in Peers : Mute(ms[p])

\* Two calls without audio are one.
LEMMA SilentThen ==
  ASSUME NEW a \in Letters, NEW b \in Letters, Silent(a), Silent(b)
  PROVE  Silent(Then(a, b))
<1> SUFFICES ASSUME NEW p \in Peers PROVE Mute(Then(a, b)[p])
  BY DEF Silent
<1>1. Then(a, b)[p] = a[p] \o b[p]
  BY ThenTypes
<1>2. a[p] \in Seq(Packet) /\ b[p] \in Seq(Packet)
  BY DEF Letters
<1> QED BY <1>1, <1>2, MuteBoth DEF Silent

\* The end of a lease sends no audio.
LEMMA SilentNotices == ASSUME NEW at PROVE Silent(Notices(at))
<1> SUFFICES ASSUME NEW p \in Peers PROVE Mute(Notices(at)[p])
  BY DEF Silent
<1>1. Notices(at)[p] = <<>> \/ Notices(at)[p] = <<Floor(0)>>
  BY NoticesTypes
<1>2. Floor(0) \in Packet /\ ~IsAudio(Floor(0))
  BY PacketTypes DEF Floor, IsAudio
<1> QED BY <1>1, <1>2, MuteNone, MuteOne

\* A message to one peer that is no audio.
LEMMA SilentTo ==
  ASSUME NEW p \in Peers, NEW m \in Packet, ~IsAudio(m)
  PROVE  Silent(To(p, m))
<1> SUFFICES ASSUME NEW q \in Peers PROVE Mute(To(p, m)[q])
  BY DEF Silent
<1>1. To(p, m)[q] = <<>> \/ To(p, m)[q] = <<m>>
  BY ToTypes
<1> QED BY <1>1, MuteNone, MuteOne

\* A message to a room that is no audio.
LEMMA SilentToRoom ==
  ASSUME NEW at, NEW r, NEW m \in Packet, ~IsAudio(m)
  PROVE  Silent(ToRoom(at, r, m))
<1> SUFFICES ASSUME NEW q \in Peers PROVE Mute(ToRoom(at, r, m)[q])
  BY DEF Silent
<1>1. ToRoom(at, r, m)[q] = IF at[q] = r THEN <<m>> ELSE <<>>
  BY ToRoomTypes
<1> QED BY <1>1, MuteNone, MuteOne

-----------------------------------------------------------------------------
(* Floors that move on                                                     *)

\* A floor stays with its stream, is freed, or gets a stream of its own.
Later(h) ==
  /\ next' = next \/ next' = next + 1
  /\ \A r \in Rooms :
       \/ /\ floors'[r].owner = floors[r].owner
          /\ floors'[r].stream = floors[r].stream
          /\ floors[r].seq <= floors'[r].seq
       \/ floors'[r] = Free
       \/ r = h /\ next' = next + 1 /\ floors'[r].stream = next + 1

\* What is past stays past when the floor moves on.
LEMMA LaterKeeps ==
  ASSUME next \in Nat, floors \in [Rooms -> Floors],
         floors' \in [Rooms -> Floors],
         Distinct(next, floors), NEW h, Later(h)
  PROVE  /\ Distinct(next', floors')
         /\ \A m \in Packet : Past(m, next, floors) => Past(m, next', floors')
<1>1. \A r \in Rooms : /\ floors[r].stream \in Nat /\ floors[r].seq \in Nat
                         /\ floors'[r].stream \in Nat /\ floors'[r].seq \in Nat
                         /\ floors[r].stream <= next
  BY DEF Floors, Distinct
<1>2. next' \in Nat /\ next <= next'
  BY DEF Later
<1> Free.stream = 0 /\ Free.owner = Nobody
  BY DEF Free, Held
<1>3. /\ \A r \in Rooms : floors'[r].stream <= next'
      /\ \A r \in Rooms : floors'[r].stream = 0 => floors'[r].owner = Nobody
  BY <1>1, <1>2 DEF Later, Distinct
<1>4. ASSUME NEW r \in Rooms, NEW g \in Rooms,
             floors'[r].stream = floors'[g].stream, floors'[r].stream # 0
      PROVE  r = g
  <2>1. CASE floors'[r].stream = next + 1
    <3>1. floors[r].stream # next + 1 /\ floors[g].stream # next + 1
      BY <1>1
    <3> QED BY <1>4, <2>1, <3>1 DEF Later
  <2>2. CASE floors'[r].stream # next + 1
    <3>1. /\ floors'[r].stream = floors[r].stream
          /\ floors'[g].stream = floors[g].stream
      BY <1>4, <2>2 DEF Later
    <3> QED BY <1>4, <3>1 DEF Distinct
  <2> QED BY <2>1, <2>2
<1>5. ASSUME NEW m \in Packet, Past(m, next, floors)
      PROVE  Past(m, next', floors')
  <2>1. m.stream \in 1..next /\ m.n \in Nat /\ 0 < m.n /\ m.stream # next + 1
    BY <1>5 DEF Past, Packet
  <2>2. m.stream \in 1..next'
    BY <1>2, <2>1
  <2>3. ASSUME NEW r \in Rooms, floors'[r].stream = m.stream
        PROVE  m.n <= floors'[r].seq
    <3>1. /\ floors'[r].stream = floors[r].stream
          /\ floors[r].seq <= floors'[r].seq
      BY <2>1, <2>3 DEF Later
    <3>2. m.n <= floors[r].seq
      BY <1>5, <2>3, <3>1 DEF Past
    <3> QED BY <1>1, <2>1, <3>1, <3>2
  <2> QED BY <2>1, <2>2, <2>3 DEF Past
<1> QED BY <1>3, <1>4, <1>5 DEF Distinct

\* Ending leases moves floors on.
LEMMA SweptLater ==
  ASSUME RoomTypeOK, next' = next, floors' = Swept PROVE Later(NoRoom)
<1>1. \A r \in Rooms : floors'[r] = floors[r] \/ floors'[r] = Free
  BY Sweeping
<1>2. \A r \in Rooms : floors[r].seq \in Nat
  BY DEF RoomTypeOK, HubTypeOK
<1> QED BY <1>1, <1>2 DEF Later

-----------------------------------------------------------------------------
(* The calls                                                               *)

\* A queue grows by frames that are past.
LEMMA PastGrows ==
  ASSUME NEW q \in Seq(Packet), NEW b \in Seq(Packet), NEW last, NEW fs,
         OnlyPast(q, last, fs), OnlyPast(b, last, fs)
  PROVE  OnlyPast(q \o b, last, fs)
<1> DEFINE c == q \o b
<1>1. /\ DOMAIN q = 1..Len(q) /\ DOMAIN b = 1..Len(b)
      /\ DOMAIN c = 1..(Len(q) + Len(b))
      /\ Len(q) \in Nat /\ Len(b) \in Nat
      /\ \A k \in 1..Len(q) : c[k] = q[k]
      /\ \A k \in 1..Len(b) : c[Len(q) + k] = b[k]
  BY Grown
<1> HIDE DEF c
<1> SUFFICES ASSUME NEW k \in DOMAIN c, IsAudio(c[k])
             PROVE  Past(c[k], last, fs)
  BY DEF OnlyPast, c
<1>2. CASE k \in 1..Len(q)
  BY <1>1, <1>2 DEF OnlyPast
<1>3. CASE k \notin 1..Len(q)
  <2>1. k - Len(q) \in 1..Len(b) /\ k = Len(q) + (k - Len(q))
    BY <1>1, <1>3
  <2>2. c[k] = b[k - Len(q)]
    BY <1>1, <2>1
  <2> QED BY <1>1, <2>1, <2>2 DEF OnlyPast
<1> QED BY <1>2, <1>3

\* A queue of frames that are past stays one.
LEMMA PastStays ==
  ASSUME NEW q \in Seq(Packet), OnlyPast(q, next, floors),
         \A m \in Packet : Past(m, next, floors) => Past(m, next', floors')
  PROVE  OnlyPast(q, next', floors')
<1>1. \A k \in DOMAIN q : q[k] \in Packet
  OBVIOUS
<1> QED BY <1>1 DEF OnlyPast

\* A mute sequence is past.
LEMMA MutePast ==
  ASSUME NEW b, NEW last, NEW fs, Mute(b) PROVE OnlyPast(b, last, fs)
  BY DEF Mute, OnlyPast

\* What is playable stays so when the floors move on and a queue grows by what
\* is no audio.
LEMMA PlayableGrows ==
  ASSUME NEW q \in Seq(Packet), NEW b \in Seq(Packet), Mute(b),
         NEW t \in Tellings, Playable(q, t, next, floors),
         \A m \in Packet : Past(m, next, floors) => Past(m, next', floors')
  PROVE  Playable(q \o b, t, next', floors')
<1>1. Sound(q \o b, t.stream)
  BY SoundMute DEF Playable
<1>2. OnlyPast(q \o b, next', floors')
  <2>1. OnlyPast(q, next', floors') /\ OnlyPast(b, next', floors')
    BY PastStays, MutePast DEF Playable
  <2> QED BY <2>1, PastGrows
<1>3. Newer(q \o b, t)
  <2>1. Newer(b, t)
    BY DEF Mute, Newer
  <2> QED BY <2>1, NewerGrows DEF Playable
<1>4. Reached(t, next', floors')
  <2>1. Audio(t.stream, t.seq) \in Packet
    BY PacketTypes DEF Tellings
  <2> QED BY <2>1 DEF Playable, Reached
<1> QED BY <1>1, <1>2, <1>3, <1>4 DEF Playable

\* An empty queue is playable for who was told nothing.
LEMMA PlayableNothing ==
  ASSUME NEW last, NEW fs PROVE Playable(<<>>, Silence, last, fs)
  BY DEF Playable, Sound, OnlyPast, Newer, Reached, Silence

\* A call that sends no audio, to queues of before and to empty ones.
LEMMA SilentCall ==
  ASSUME RoomTypeOK, AudioInv, floors' \in [Rooms -> Floors],
         NEW h, Later(h),
         NEW queue \in Letters, NEW state \in [Peers -> Lives],
         NEW ms \in Letters, Silent(ms), Push(queue, state, ms),
         \A p \in Peers : state[p] = "open" =>
           \/ queue[p] = out[p] /\ life[p] = "open" /\ told'[p] = told[p]
           \/ queue[p] = <<>> /\ told'[p] = Silence
  PROVE  AudioInv'
<1>1. /\ next \in Nat /\ floors \in [Rooms -> Floors] /\ Distinct(next, floors)
      /\ told \in [Peers -> Tellings] /\ Silence \in Tellings
  BY DEF RoomTypeOK, HubTypeOK, Floors, AudioInv, Tellings, Silence
<1>2. /\ Distinct(next', floors')
      /\ \A m \in Packet : Past(m, next, floors) => Past(m, next', floors')
  BY <1>1, LaterKeeps
<1>3. ASSUME NEW p \in Peers, life'[p] = "open"
      PROVE  Playable(out'[p], told'[p], next', floors')
  <2>1. state[p] = "open" /\ out'[p] = queue[p] \o ms[p]
    <3>1. \A q \in Peers : life'[q] = "open" =>
            state[q] = "open" /\ out'[q] = queue[q] \o ms[q]
      BY PushTypes
    <3> QED BY <1>3, <3>1
  <2>2. queue[p] \in Seq(Packet) /\ ms[p] \in Seq(Packet) /\ Mute(ms[p])
    BY DEF Letters, Silent
  <2>3. told'[p] \in Tellings /\ Playable(queue[p], told'[p], next, floors)
    <3>1. CASE queue[p] = out[p] /\ life[p] = "open" /\ told'[p] = told[p]
      BY <1>1, <3>1 DEF AudioInv
    <3>2. CASE queue[p] = <<>> /\ told'[p] = Silence
      BY <1>1, <3>2, PlayableNothing
    <3> QED BY <2>1, <3>1, <3>2
  <2> DEFINE u == told'[p]
  <2>4. u \in Tellings /\ Playable(queue[p], u, next, floors)
    BY <2>3
  <2> HIDE DEF u
  <2>5. Playable(queue[p] \o ms[p], u, next', floors')
    BY <1>2, <2>2, <2>4, PlayableGrows
  <2> QED BY <2>1, <2>5 DEF u
<1> QED BY <1>2, <1>3 DEF AudioInv

\* The calls that keep every queue.
LEMMA QuietCall ==
  ASSUME RoomTypeOK, AudioInv, floors' \in [Rooms -> Floors],
         NEW h, Later(h), UNCHANGED told,
         NEW ms \in Letters, Silent(ms), Push(out, life, ms)
  PROVE  AudioInv'
<1>1. out \in Letters /\ life \in [Peers -> Lives]
  BY DEF RoomTypeOK, HubTypeOK, Letters, Lives
<1> QED BY <1>1, SilentCall

\* Request while the floor is taken keeps audio in place.
LEMMA RefuseSounds ==
  ASSUME RoomInv, AudioInv, NEW p \in Peers, NEW q \in Nat, Refuse(p, q),
         UNCHANGED told
  PROVE  AudioInv'
<1> DEFINE ms == Then(Notices(room), To(p, Busy(q)))
<1>1. RoomTypeOK /\ floors' = Swept /\ next' = next /\ Push(out, life, ms)
  BY DEF RoomInv, Refuse
<1>2. floors' \in [Rooms -> Floors] /\ Later(NoRoom)
  BY <1>1, Sweeping, SweptLater
<1>3. Busy(q) \in Packet /\ ~IsAudio(Busy(q))
  BY PacketTypes DEF Busy, IsAudio
<1>4. /\ Notices(room) \in Letters /\ To(p, Busy(q)) \in Letters
      /\ Silent(Notices(room)) /\ Silent(To(p, Busy(q)))
  BY <1>3, NoticesTypes, ToTypes, SilentNotices, SilentTo
<1>5. ms \in Letters /\ Silent(ms)
  BY <1>4, ThenTypes, SilentThen
<1> HIDE DEF ms
<1> QED BY <1>1, <1>2, <1>5, QuietCall

\* Request while the floor is free keeps audio in place.
LEMMA GiveSounds ==
  ASSUME RoomInv, AudioInv, NEW p \in Peers, room[p] # NoRoom, NEW q \in Nat,
         Give(p, q), UNCHANGED told
  PROVE  AudioInv'
<1> DEFINE s == next + 1
           R == ToRoom(room, room[p], Floor(s))
           G == To(p, Grant(s, q))
           ms == Then(Notices(room), Then(R, G))
<1>1. RoomTypeOK /\ next \in Nat /\ s \in Nat /\ room[p] \in Rooms
  BY RoomOfPeer, SMTT(30) DEF RoomInv, RoomTypeOK, HubTypeOK
<1>2. /\ next' = s /\ Push(out, life, ms)
      /\ floors' = [Swept EXCEPT
           ![room[p]] = [owner |-> p, stream |-> s, seq |-> 0, over |-> FALSE,
                         frames |-> 0]]
  BY DEF Give, Granted, Held
<1>3. /\ Swept \in [Rooms -> Floors]
      /\ \A r \in Rooms : Swept[r] = floors[r] \/ Swept[r] = Free
      /\ \A r \in Rooms : floors[r].seq \in Nat
  BY <1>1, Sweeping, SMTT(30) DEF RoomTypeOK, HubTypeOK
<1>4. floors' \in [Rooms -> Floors]
  BY <1>1, <1>2, <1>3, VoiceAssumption DEF Floors
<1>5. /\ floors'[room[p]].stream = s
      /\ \A r \in Rooms : r # room[p] => floors'[r] = Swept[r]
  BY <1>1, <1>2, <1>3
<1>6. Later(room[p])
  BY <1>2, <1>3, <1>5 DEF Later
<1>7. /\ Floor(s) \in Packet /\ ~IsAudio(Floor(s))
      /\ Grant(s, q) \in Packet /\ ~IsAudio(Grant(s, q))
  BY <1>1, PacketTypes DEF Floor, Grant, IsAudio
<1>8. /\ Notices(room) \in Letters /\ R \in Letters /\ G \in Letters
      /\ Silent(Notices(room)) /\ Silent(R) /\ Silent(G)
  BY <1>7, NoticesTypes, ToTypes, ToRoomTypes, SilentNotices, SilentTo,
     SilentToRoom
<1> HIDE DEF R, G
<1>9. ms \in Letters /\ Silent(ms)
  <2>1. Then(R, G) \in Letters /\ Silent(Then(R, G))
    BY <1>8, ThenTypes, SilentThen
  <2> QED BY <1>8, <2>1, ThenTypes, SilentThen
<1> HIDE DEF ms
<1> QED BY <1>1, <1>2, <1>4, <1>6, <1>9, QuietCall

\* Release keeps audio in place.
LEMMA ReleaseSounds ==
  ASSUME RoomInv, AudioInv, NEW p \in Peers, room[p] # NoRoom, NEW s,
         Release(p, s),
         floors[room[p]].owner = p /\ floors[room[p]].stream = s,
         UNCHANGED told
  PROVE  AudioInv'
<1> DEFINE ms == ToRoom(room, room[p], Floor(0))
<1>1. /\ RoomTypeOK /\ next' = next /\ Push(out, life, ms)
      /\ floors' = [floors EXCEPT ![room[p]] = Free]
      /\ floors \in [Rooms -> Floors] /\ Free \in Floors
  BY Sweeping DEF RoomInv, RoomTypeOK, HubTypeOK, Floors, Release
<1>2. /\ floors' \in [Rooms -> Floors]
      /\ \A r \in Rooms : floors'[r] = floors[r] \/ floors'[r] = Free
  BY <1>1
<1>3. Later(NoRoom)
  <2>1. \A r \in Rooms : floors[r].seq \in Nat
    BY <1>1 DEF Floors
  <2>2. Free.stream = 0
    BY DEF Free, Held
  <2> QED BY <1>1, <1>2, <2>1, <2>2 DEF Later
<1>4. Floor(0) \in Packet /\ ~IsAudio(Floor(0))
  BY PacketTypes DEF Floor, IsAudio
<1>5. ms \in Letters /\ Silent(ms)
  BY <1>4, ToRoomTypes, SilentToRoom
<1> HIDE DEF ms
<1> QED BY <1>1, <1>2, <1>3, <1>5, QuietCall

\* The ticker keeps audio in place.
LEMMA SweepSounds ==
  ASSUME RoomInv, AudioInv, floors' = Swept, next' = next,
         NEW state \in [Peers -> Lives],
         \A p \in Peers : state[p] = "open" => life[p] = "open",
         Push(out, state, Notices(room)), UNCHANGED told
  PROVE  AudioInv'
<1>1. RoomTypeOK /\ out \in Letters
  BY DEF RoomInv, RoomTypeOK, HubTypeOK, Letters
<1>2. floors' \in [Rooms -> Floors] /\ Later(NoRoom)
  BY <1>1, Sweeping, SweptLater
<1>3. Notices(room) \in Letters /\ Silent(Notices(room))
  BY NoticesTypes, SilentNotices
<1> QED BY <1>1, <1>2, <1>3, SilentCall

\* The one call that sends audio: its listeners know the floor, and the frame
\* is ahead of those that went before.
LEMMA AudioSounds ==
  ASSUME RoomInv, AudioInv, NEW p \in Peers, room[p] # NoRoom,
         NEW s \in Nat, NEW n \in Nat, SendAudio(p, s, n), UNCHANGED told
  PROVE  AudioInv'
<1> DEFINE m == Audio(s, n)
           T == ToRoom(room, room[p], m)
           A == [T EXCEPT ![p] = <<>>]
           ms == Then(Notices(room), A)
<1>1. /\ RoomTypeOK /\ PeersKnowFloor /\ next \in Nat /\ next' = next
      /\ life \in [Peers -> Lives] /\ room[p] \in Rooms /\ out \in Letters
      /\ floors \in [Rooms -> Floors] /\ Distinct(next, floors)
  BY RoomOfPeer DEF RoomInv, RoomTypeOK, HubTypeOK, Lives, SendAudio, Letters,
     Floors, AudioInv
<1>2. CASE ~Carried(Swept[room[p]], p, s, n)
  <2>1. /\ floors' = Swept
        /\ Push(out, [life EXCEPT ![p] = "closing"], Notices(room))
    BY <1>2 DEF SendAudio
  <2>2. /\ [life EXCEPT ![p] = "closing"] \in [Peers -> Lives]
        /\ \A r \in Peers : [life EXCEPT ![p] = "closing"][r] = "open"
                             => life[r] = "open"
    BY <1>1 DEF Lives
  <2> QED BY <1>1, <2>1, <2>2, SweepSounds
<1>3. CASE Carried(Swept[room[p]], p, s, n)
  <2>1. /\ floors' = [Swept EXCEPT ![room[p]] = Counted(Swept[room[p]], n)]
        /\ Push(out, life, ms)
    BY <1>3 DEF SendAudio
  <2>2. /\ m \in Packet
        /\ m.kind = "audio" /\ m.stream = s /\ m.n = n
    BY <1>1, PacketTypes DEF Audio
  <2> HIDE DEF m
  <2>3. \A r \in Peers : A[r] = IF r # p /\ room[r] = room[p] THEN <<m>> ELSE <<>>
    <3>1. \A r \in Peers : T[r] = IF room[r] = room[p] THEN <<m>> ELSE <<>>
      BY <2>2, ToRoomTypes
    <3>2. T \in Letters
      BY <2>2, ToRoomTypes
    <3> HIDE DEF T
    <3> QED BY <3>1, <3>2 DEF Letters
  <2>4. A \in Letters
    <3>1. T \in Letters
      BY <2>2, ToRoomTypes
    <3>2. <<>> \in Seq(Packet)
      OBVIOUS
    <3> HIDE DEF T
    <3> QED BY <3>1, <3>2 DEF Letters
  <2>5. Notices(room) \in Letters /\ Silent(Notices(room))
    BY NoticesTypes, SilentNotices
  <2> HIDE DEF A
  <2>6. ms \in Letters /\ \A r \in Peers : ms[r] = Notices(room)[r] \o A[r]
    BY <2>4, <2>5, ThenTypes
  <2> HIDE DEF ms
  <2>7. /\ Swept[room[p]] = floors[room[p]] /\ room[p] \notin Expired
        /\ floors[room[p]].stream = s /\ floors[room[p]].seq < n
        /\ floors[room[p]].owner = p
    <3>1. /\ Swept[room[p]].owner = p /\ Swept[room[p]].stream = s
          /\ Swept[room[p]].seq < n
      BY <1>3 DEF Carried, InTurn
    <3>2. Swept[room[p]] # Free
      BY <3>1, VoiceAssumption DEF Free, Held
    <3>3. room[p] \notin Expired
      BY <1>1, <3>2 DEF Swept
    <3> QED BY <1>1, <3>1, <3>3 DEF Swept
  <2>14. s \in 1..next /\ 0 < n
    <3>1. s <= next /\ (s = 0 => p = Nobody)
      BY <1>1, <2>7 DEF Distinct
    <3>2. floors[room[p]].seq \in Nat
      BY <1>1 DEF Floors
    <3> QED BY <1>1, <2>7, <3>1, <3>2, VoiceAssumption
  <2>8. /\ floors' \in [Rooms -> Floors]
        /\ floors'[room[p]].seq = n /\ floors'[room[p]].stream = s
        /\ floors'[room[p]].owner = floors[room[p]].owner
        /\ \A r \in Rooms : r # room[p] => floors'[r] = Swept[r]
    <3> DEFINE g == Counted(floors[room[p]], n)
    <3>1. floors[room[p]] \in Floors /\ floors[room[p]].frames < MaxRate
      BY <1>1, <1>3, <2>7 DEF Carried
    <3>2. /\ g \in Floors /\ g.seq = n /\ g.stream = s
          /\ g.owner = floors[room[p]].owner
      BY <2>7, <3>1, CountedTypes
    <3>3. floors' = [Swept EXCEPT ![room[p]] = g]
      BY <2>1, <2>7
    <3> HIDE DEF g
    <3> QED BY <1>1, <3>2, <3>3, Sweeping
  <2>9. /\ \A r \in Rooms : Swept[r] = floors[r] \/ Swept[r] = Free
        /\ \A r \in Rooms : floors[r].seq \in Nat
    BY <1>1, Sweeping DEF Floors
  <2>10. Later(NoRoom)
    <3>1. ASSUME NEW r \in Rooms
          PROVE  \/ /\ floors'[r].owner = floors[r].owner
                    /\ floors'[r].stream = floors[r].stream
                    /\ floors[r].seq <= floors'[r].seq
                 \/ floors'[r] = Free
      <4>1. CASE r = room[p]
        BY <2>7, <2>8, <2>9, <4>1
      <4>2. CASE r # room[p]
        BY <2>8, <2>9, <4>2
      <4> QED BY <4>1, <4>2
    <3> QED BY <1>1, <3>1 DEF Later
  <2>11. /\ Distinct(next', floors')
         /\ \A x \in Packet : Past(x, next, floors) => Past(x, next', floors')
    BY <1>1, <2>8, <2>10, LaterKeeps
  <2>12. Past(m, next', floors')
    <3> SUFFICES ASSUME NEW r \in Rooms, floors'[r].stream = s
                 PROVE  n <= floors'[r].seq
      BY <1>1, <2>2, <2>14 DEF Past
    <3>1. r = room[p]
      BY <1>1, <2>8, <2>11, <2>14 DEF Distinct
    <3> QED BY <2>8, <3>1
  <2>13. ASSUME NEW q \in Peers, life'[q] = "open"
         PROVE  Playable(out'[q], told[q], next', floors')
    <3> DEFINE t == told[q]
    <3>1. life[q] = "open" /\ out'[q] = out[q] \o ms[q]
      <4>1. \A r \in Peers : life'[r] = "open" =>
              life[r] = "open" /\ out'[r] = out[r] \o ms[r]
        BY <1>1, <2>1, <2>6, PushTypes
      <4> QED BY <2>13, <4>1
    <3>2. /\ out[q] \in Seq(Packet) /\ Notices(room)[q] \in Seq(Packet)
          /\ Mute(Notices(room)[q]) /\ t \in Tellings
      BY <1>1, <2>5 DEF Letters, Silent, RoomTypeOK, Tellings
    <3>3. Playable(out[q], t, next, floors)
      BY <3>1 DEF AudioInv
    <3>4. ASSUME NEW b \in Seq(Packet), Mute(b)
          PROVE  Playable(out[q] \o b, t, next', floors')
      BY <2>11, <3>2, <3>3, <3>4, PlayableGrows
    <3>5. CASE q # p /\ room[q] = room[p]
      <4>1. Notices(room)[q] = <<>> /\ A[q] = <<m>>
        <5>1. Notices(room)[q] = IF room[q] \in Expired THEN <<Floor(0)>> ELSE <<>>
          BY NoticesTypes
        <5> QED BY <2>3, <2>7, <3>5, <5>1
      <4>2. out'[q] = out[q] \o <<m>> /\ <<m>> \in Seq(Packet)
        <5>1. ms[q] = Notices(room)[q] \o A[q]
          BY <2>6
        <5>2. ms[q] = <<>> \o <<m>> /\ <<m>> \in Seq(Packet)
          BY <2>2, <4>1, <5>1
        <5>3. ms[q] = <<m>>
          BY <5>2, ConcatEmptySeq
        <5> QED BY <3>1, <5>2, <5>3
      <4>3. Hears(out[q], t.stream, m.stream)
        <5>1. room[q] # NoRoom /\ q \in Joined
          BY <3>5 DEF Joined
        <5>2. Hears(out[q], told[q].stream, floors[room[q]].stream)
          BY <1>1, <3>1, <5>1 DEF PeersKnowFloor
        <5> QED BY <2>2, <2>7, <3>5, <5>2
      <4>4. \A x \in Packet : Past(x, next, floors) /\ x.stream = m.stream
                                => x.n < m.n
        <5> SUFFICES ASSUME NEW x \in Packet, Past(x, next, floors),
                            x.stream = m.stream
                     PROVE  x.n < m.n
          OBVIOUS
        <5>1. x.n <= floors[room[p]].seq /\ x.n \in Nat
          BY <1>1, <2>2, <2>7 DEF Past, Packet
        <5> QED BY <1>1, <2>2, <2>7, <2>9, <5>1
      <4> HIDE DEF t
      <4>5. Sound(out[q] \o <<m>>, t.stream)
        <5>1. \A k \in DOMAIN out[q] :
                IsAudio(out[q][k]) /\ out[q][k].stream = m.stream
                  => out[q][k].n < m.n
          <6>1. \A k \in DOMAIN out[q] : out[q][k] \in Packet
            BY <3>2
          <6> QED BY <3>3, <4>4, <6>1 DEF Playable, OnlyPast
        <5> QED BY <2>2, <3>2, <3>3, <4>3, <5>1, SoundAudio DEF Playable
      <4>6. OnlyPast(out[q] \o <<m>>, next', floors')
        <5>1. OnlyPast(<<m>>, next', floors')
          BY <2>12 DEF OnlyPast
        <5>2. OnlyPast(out[q], next', floors')
          BY <2>11, <3>2, <3>3, PastStays DEF Playable
        <5> QED BY <3>2, <4>2, <5>1, <5>2, PastGrows
      <4>7. Newer(out[q] \o <<m>>, t)
        <5>1. t.stream = m.stream => t.seq < m.n
          <6> SUFFICES ASSUME t.stream = m.stream PROVE t.seq < m.n
            OBVIOUS
          <6>1. CASE t.seq = 0
            BY <2>2, <2>14, <6>1
          <6>2. CASE Past(Audio(t.stream, t.seq), next, floors)
            <7>1. Audio(t.stream, t.seq) \in Packet
              BY <3>2, PacketTypes DEF Tellings
            <7> QED BY <4>4, <6>2, <7>1 DEF Audio
          <6> QED BY <3>3, <6>1, <6>2 DEF Playable, Reached
        <5>2. Newer(<<m>>, t)
          BY <5>1 DEF Newer
        <5> QED BY <3>2, <3>3, <4>2, <5>2, NewerGrows DEF Playable
      <4>8. Reached(t, next', floors')
        <5>1. <<>> \in Seq(Packet) /\ Mute(<<>>)
          BY MuteNone
        <5> QED BY <3>4, <5>1 DEF Playable
      <4> QED BY <4>2, <4>5, <4>6, <4>7, <4>8 DEF Playable, t
    <3>6. CASE ~(q # p /\ room[q] = room[p])
      <4>1. ms[q] = Notices(room)[q]
        <5>1. A[q] = <<>> /\ ms[q] = Notices(room)[q] \o A[q]
          BY <2>3, <2>6, <3>6
        <5>2. ms[q] = Notices(room)[q] \o <<>>
          BY <5>1
        <5> QED BY <3>2, <5>2, ConcatEmptySeq
      <4> QED BY <3>1, <3>2, <3>4, <4>1
    <3> QED BY <3>5, <3>6
  <2> QED BY <2>11, <2>13 DEF AudioInv
<1> QED BY <1>2, <1>3

-----------------------------------------------------------------------------
(* The other steps                                                         *)

\* Join keeps audio in place.
LEMMA JoinSounds ==
  ASSUME RoomInv, AudioInv, NEW p \in Peers, NEW r \in Rooms, Join(p, r),
         UNCHANGED told
  PROVE  AudioInv'
<1> DEFINE N == Notices(room')
           T == To(p, Floor(Swept[r].stream))
           ms == Then(N, T)
<1>1. RoomTypeOK /\ floors' = Swept /\ next' = next /\ Push(out, life, ms)
  BY DEF RoomInv, Join
<1>2. floors' \in [Rooms -> Floors] /\ Later(NoRoom) /\ Swept[r].stream \in Nat
  BY <1>1, Sweeping, SweptLater DEF Floors
<1>3. /\ Floor(Swept[r].stream) \in Packet
      /\ ~IsAudio(Floor(Swept[r].stream))
  BY <1>2, PacketTypes DEF Floor, IsAudio
<1>4. N \in Letters /\ T \in Letters /\ Silent(N) /\ Silent(T)
  BY <1>3, NoticesTypes, ToTypes, SilentNotices, SilentTo
<1> HIDE DEF N, T
<1>5. ms \in Letters /\ Silent(ms)
  BY <1>4, ThenTypes, SilentThen
<1> HIDE DEF ms
<1> QED BY <1>1, <1>2, <1>5, QuietCall

\* Leave keeps audio in place.
LEMMA LeaveSounds ==
  ASSUME RoomInv, AudioInv, NEW p \in Peers, Leave(p),
         Forgotten(p)
  PROVE  AudioInv'
<1> DEFINE r == room[p]
           queue == [out EXCEPT ![p] = <<>>]
           state == [life EXCEPT ![p] = "open"]
           ms == ToRoom(room', r, Floor(0))
<1>1. /\ RoomTypeOK /\ next' = next /\ next \in Nat
      /\ floors \in [Rooms -> Floors] /\ Free \in Floors /\ Free.stream = 0
      /\ life \in [Peers -> Lives] /\ out \in [Peers -> Seq(Packet)]
      /\ told \in [Peers -> Tellings] /\ Distinct(next, floors)
      /\ told' = [told EXCEPT ![p] = Silence]
  BY Sweeping DEF RoomInv, RoomTypeOK, HubTypeOK, Lives, Floors, Leave,
     AudioInv, Free, Held, Tellings, Forgotten
<1>2. <<>> \in Seq(Packet)
  OBVIOUS
<1>3. /\ queue \in [Peers -> Seq(Packet)] /\ queue[p] = <<>>
      /\ \A q \in Peers : q # p => queue[q] = out[q]
  BY <1>1, <1>2
<1>4. /\ state \in [Peers -> Lives]
      /\ \A q \in Peers : q # p => state[q] = life[q] /\ told'[q] = told[q]
  <2>1. state \in [Peers -> Lives]
    BY <1>1 DEF Lives
  <2>2. \A q \in Peers : q # p => state[q] = life[q] /\ told'[q] = told[q]
    BY <1>1
  <2> QED BY <2>1, <2>2
<1> HIDE DEF queue, state
<1>5. \A q \in Peers : state[q] = "open" =>
        \/ queue[q] = out[q] /\ life[q] = "open" /\ told'[q] = told[q]
        \/ queue[q] = <<>> /\ told'[q] = Silence
  BY <1>1, <1>3, <1>4
<1>6. CASE floors[r].owner = p
  <2>1. floors' = [floors EXCEPT ![r] = Free] /\ Push(queue, state, ms)
    BY <1>6 DEF Leave, queue, state
  <2>2. Floor(0) \in Packet /\ ~IsAudio(Floor(0))
    BY PacketTypes DEF Floor, IsAudio
  <2>3. ms \in Letters /\ Silent(ms)
    BY <2>2, ToRoomTypes, SilentToRoom
  <2> HIDE DEF ms
  <2>4. /\ floors' \in [Rooms -> Floors]
        /\ \A h \in Rooms : floors'[h] = floors[h] \/ floors'[h] = Free
    BY <1>1, <2>1
  <2>5. Later(NoRoom)
    <3>1. \A h \in Rooms : floors[h].seq <= floors[h].seq
      BY <1>1 DEF Floors
    <3> QED BY <1>1, <2>4, <3>1 DEF Later
  <2>6. queue \in Letters
    BY <1>3 DEF Letters
  <2> QED BY <1>1, <1>4, <1>5, <2>1, <2>3, <2>4, <2>5, <2>6, SilentCall, ZenonT(60)
<1>7. CASE floors[r].owner # p
  <2>1. floors' = floors /\ out' = queue /\ life' = state
    BY <1>7 DEF Leave, queue, state
  <2>2. ASSUME NEW q \in Peers, state[q] = "open"
        PROVE  Playable(queue[q], told'[q], next, floors)
    <3>1. CASE queue[q] = out[q] /\ life[q] = "open" /\ told'[q] = told[q]
      BY <3>1 DEF AudioInv
    <3>2. CASE queue[q] = <<>> /\ told'[q] = Silence
      BY <3>2, PlayableNothing
    <3> QED BY <1>5, <2>2, <3>1, <3>2
  <2> QED BY <1>1, <2>1, <2>2 DEF AudioInv
<1> QED BY <1>6, <1>7

\* The writer keeps audio in place.
LEMMA DeliverSounds ==
  ASSUME RoomInv, AudioInv, NEW p \in Peers, Deliver(p), Read(p)
  PROVE  AudioInv'
<1>1. /\ RoomTypeOK /\ out[p] # <<>> /\ UNCHANGED <<floors, next, life>>
      /\ out \in [Peers -> Seq(Packet)] /\ told \in [Peers -> Tellings]
      /\ out' = [out EXCEPT ![p] = Tail(@)]
  BY DEF RoomInv, RoomTypeOK, HubTypeOK, Tellings, Deliver
<1>2. /\ told'[p] = After(told[p], Head(out[p]))
      /\ \A q \in Peers : q # p => told'[q] = told[q]
  BY <1>1, ReadTypes
<1>3. /\ out'[p] = Tail(out[p]) /\ out[p] \in Seq(Packet)
      /\ \A q \in Peers : q # p => out'[q] = out[q]
  BY <1>1
<1>4. ASSUME NEW q \in Peers, life[q] = "open"
      PROVE  Playable(out'[q], told'[q], next, floors)
  <2>1. Playable(out[q], told[q], next, floors)
    BY <1>4 DEF AudioInv
  <2>2. CASE q = p
    BY <1>1, <1>2, <1>3, <2>1, <2>2, ReadPlayable
  <2>3. CASE q # p
    BY <1>2, <1>3, <2>1, <2>3
  <2> QED BY <2>2, <2>3
<1> QED BY <1>1, <1>4 DEF AudioInv

\* So does dropping a frame that waited too long.
LEMMA DiscardSounds ==
  ASSUME RoomInv, AudioInv, NEW p \in Peers, Discard(p), UNCHANGED told
  PROVE  AudioInv'
<1>1. /\ out[p] # <<>> /\ UNCHANGED <<floors, next, life>>
      /\ out \in [Peers -> Seq(Packet)] /\ Head(out[p]).kind # "floor"
      /\ out' = [out EXCEPT ![p] = Tail(@)]
  BY DEF RoomInv, RoomTypeOK, HubTypeOK, Discard
<1>2. /\ out'[p] = Tail(out[p]) /\ out[p] \in Seq(Packet)
      /\ \A q \in Peers : q # p => out'[q] = out[q]
  BY <1>1
<1>3. ASSUME NEW q \in Peers, life[q] = "open"
      PROVE  Playable(out'[q], told[q], next, floors)
  <2>1. Playable(out[q], told[q], next, floors)
    BY <1>3 DEF AudioInv
  <2>2. CASE q = p
    BY <1>1, <1>2, <2>1, <2>2, DropPlayable
  <2>3. CASE q # p
    BY <1>2, <2>1, <2>3
  <2> QED BY <2>2, <2>3
<1> QED BY <1>1, <1>3 DEF AudioInv

\* Sessions that are cancelled, and permissions.
LEMMA LifeSounds ==
  ASSUME AudioInv, UNCHANGED <<floors, next, out, told>>,
         \A p \in Peers : life'[p] = "open" => life[p] = "open"
  PROVE  AudioInv'
  BY DEF AudioInv

\* The end of a lease or of a second keeps audio in place.
LEMMA TimeSounds ==
  ASSUME RoomInv, AudioInv, NEW r \in Rooms, TimePasses(r), UNCHANGED told
  PROVE  AudioInv'
<1>1. floors \in [Rooms -> Floors]
  BY DEF RoomInv, RoomTypeOK, HubTypeOK, Floors
<1>2. UNCHANGED <<room, next, out, life, allowed>>
  BY <1>1, TimeKeepsFloors
<1>3. \A h \in Rooms : /\ floors'[h].stream = floors[h].stream
                        /\ floors'[h].seq = floors[h].seq
                        /\ floors'[h].owner = floors[h].owner
  BY <1>1, TimeKeepsFloors
<1>4. Distinct(next', floors')
  BY <1>2, <1>3 DEF AudioInv, Distinct
<1>5. \A m : Past(m, next, floors) => Past(m, next', floors')
  BY <1>2, <1>3 DEF Past
<1>6. ASSUME NEW q, NEW t, Playable(q, t, next, floors)
      PROVE  Playable(q, t, next', floors')
  <2>1. OnlyPast(q, next', floors') /\ Reached(t, next', floors')
    BY <1>5, <1>6 DEF Playable, OnlyPast, Reached
  <2> QED BY <1>6, <2>1 DEF Playable
<1> QED BY <1>2, <1>4, <1>6 DEF AudioInv

-----------------------------------------------------------------------------
(* The theorems                                                            *)

\* The room starts without audio.
LEMMA InitSounds == Init => AudioInv
<1> SUFFICES ASSUME Init PROVE AudioInv
  OBVIOUS
<1>1. Distinct(next, floors)
  BY DEF Init, HubInit, Distinct, Free, Held
<1>2. \A p \in Peers : out[p] = <<>> /\ told[p] = Silence
  BY DEF Init, HubInit
<1> QED BY <1>1, <1>2, PlayableNothing DEF AudioInv

\* Whatever a client sends keeps audio in place.
LEMMA HandleSounds ==
  ASSUME RoomInv, AudioInv, NEW p \in Peers, HandleAny(p), UNCHANGED told
  PROVE  AudioInv'
<1>1. /\ room[p] # NoRoom
      /\ \E s \in Nat, n \in Nat :
           Request(p, n) \/ Release(p, s) \/ SendAudio(p, s, n)
  BY DEF HandleAny, Reading
<1>2. PICK s \in Nat, n \in Nat :
           Request(p, n) \/ Release(p, s) \/ SendAudio(p, s, n)
  BY <1>1
<1>3. CASE Request(p, n)
  BY <1>1, <1>3, RefuseSounds, GiveSounds DEF Request
<1>4. CASE Release(p, s)
  <2>1. CASE floors[room[p]].owner = p /\ floors[room[p]].stream = s
    BY <1>1, <1>4, <2>1, ReleaseSounds
  <2>2. CASE ~(floors[room[p]].owner = p /\ floors[room[p]].stream = s)
    <3>1. UNCHANGED <<floors, next, out, life, told>>
      BY <1>4, <2>2 DEF Release
    <3> QED BY <3>1, LifeSounds
  <2> QED BY <2>1, <2>2
<1>5. CASE SendAudio(p, s, n)
  BY <1>1, <1>5, AudioSounds
<1> QED BY <1>2, <1>3, <1>4, <1>5

\* What the rest of the relay does keeps audio in place.
LEMMA ApartSounds ==
  ASSUME RoomInv, AudioInv, NEW p \in Peers, Apart(p), UNCHANGED told
  PROVE  AudioInv'
<1>1. life \in [Peers -> Lives]
  BY DEF RoomInv, RoomTypeOK, HubTypeOK, Lives
<1>2. CASE Tick(p)
  <2>1. /\ floors' = Swept /\ Push(out, life, Notices(room))
        /\ UNCHANGED <<next, told>>
    BY <1>2 DEF Tick
  <2> QED BY <1>1, <2>1, SweepSounds
<1>3. CASE Recheck(p) \/ Fail(p) \/ Hangup(p)
  <2>1. PICK l \in {"stopped", "closing"} : life' = [life EXCEPT ![p] = l]
    BY <1>3 DEF Recheck, Fail, Hangup
  <2>2. UNCHANGED <<floors, next, out, told>>
    BY <1>3 DEF Recheck, Fail, Hangup
  <2>3. \A q \in Peers : life'[q] = "open" => life[q] = "open"
    BY <1>1, <2>1 DEF Lives
  <2> QED BY <2>2, <2>3, LifeSounds
<1>4. ASSUME NEW r \in Rooms, Permit(p, r) \/ Deny(p, r) PROVE AudioInv'
  <2>1. UNCHANGED <<floors, next, out, life, told>>
    BY <1>4 DEF Permit, Deny
  <2> QED BY <2>1, LifeSounds
<1> QED BY <1>2, <1>3, <1>4, DiscardSounds, JoinSounds DEF Apart

\* Every step keeps audio in place.
LEMMA StepSounds == RoomInv /\ AudioInv /\ [AnyNext]_vars => AudioInv'
<1> SUFFICES ASSUME RoomInv, AudioInv, [AnyNext]_vars PROVE AudioInv'
  OBVIOUS
<1>1. next \in Nat
  BY DEF RoomInv, RoomTypeOK, HubTypeOK
<1>2. ASSUME NEW p \in Peers, Handle(p) \/ HandleAny(p), UNCHANGED told
      PROVE  AudioInv'
  BY <1>1, <1>2, HandleBounds, HandleSounds
<1>3. CASE UNCHANGED vars
  <2>1. UNCHANGED <<floors, next, out, life, told>>
    BY <1>3 DEF vars, hubVars
  <2> QED BY <2>1, LifeSounds
<1>4. CASE AnyNext
  BY <1>2, <1>4, DeliverSounds, LeaveSounds, ApartSounds, TimeSounds
     DEF AnyNext, Next
<1> QED BY <1>3, <1>4

\* The inductive invariant: streams are given once, and what is queued can be
\* played in its order by who knows what the peer was told.
THEOREM AudioInvariant == AnySpec => []AudioInv
<1>1. Init => AudioInv
  BY InitSounds
<1>2. RoomInv /\ AudioInv /\ [AnyNext]_vars => AudioInv'
  BY StepSounds
<1> QED BY <1>1, <1>2, RoomInvariant, PTL DEF AnySpec

\* The next frame of a peer whose session goes on is of the stream it was told
\* of, and later than what it was sent of that before.
LEMMA NextFrameFits ==
  ASSUME RoomInv, AudioInv, NEW p \in Peers, life[p] = "open",
         out[p] # <<>>, Head(out[p]).kind = "audio"
  PROVE  /\ told[p].stream # 0 /\ Head(out[p]).stream = told[p].stream
         /\ told[p].seq < Head(out[p]).n
<1>1. out[p] \in Seq(Packet) /\ next \in Nat
  BY DEF RoomInv, RoomTypeOK, HubTypeOK
<1>2. out[p][1] = Head(out[p]) /\ 1 \in DOMAIN out[p] /\ IsAudio(Head(out[p]))
  BY <1>1, TailFacts DEF IsAudio
<1>3. Playable(out[p], told[p], next, floors)
  BY DEF AudioInv
<1>4. Head(out[p]).stream = told[p].stream
  BY <1>1, <1>2, <1>3, SoundHead DEF Playable
<1>5. told[p].seq < Head(out[p]).n
  BY <1>2, <1>3, <1>4 DEF Playable, Newer
<1>6. Head(out[p]).stream \in 1..next
  BY <1>2, <1>3 DEF Playable, OnlyPast, Past
<1> QED BY <1>1, <1>4, <1>5, <1>6

-----------------------------------------------------------------------------
(* Peers without a session                                                 *)

\* Who is in no room was told nothing.
Untold == \A p \in Peers : room[p] = NoRoom => told[p] = Silence

\* A step without a reader leaves them so.
LEMMA UntoldStays ==
  ASSUME Untold, UNCHANGED told,
         \A p \in Peers : room'[p] = NoRoom => room[p] = NoRoom
  PROVE  Untold'
  BY DEF Untold

\* What somebody is told, or forgets.
LEMMA UntoldSteps ==
  ASSUME RoomInv, Untold, NEW p \in Peers,
         (Deliver(p) /\ Read(p)) \/ (Leave(p) /\ Forgotten(p))
  PROVE  Untold'
<1>1. room \in [Peers -> Rooms \cup {NoRoom}] /\ told \in [Peers -> Tellings]
  BY DEF RoomInv, RoomTypeOK, HubTypeOK, Tellings
<1>2. CASE Deliver(p) /\ Read(p)
  <2>1. /\ room[p] # NoRoom /\ room' = room
        /\ \A q \in Peers : q # p => told'[q] = told[q]
    BY <1>1, <1>2 DEF Deliver, Read
  <2> QED BY <2>1 DEF Untold
<1>3. CASE Leave(p) /\ Forgotten(p)
  <2>1. /\ room' = [room EXCEPT ![p] = NoRoom]
        /\ told' = [told EXCEPT ![p] = Silence]
    BY <1>3 DEF Leave, Forgotten
  <2>2. /\ \A q \in Peers : q # p => room'[q] = room[q] /\ told'[q] = told[q]
        /\ told'[p] = Silence
    BY <1>1, <2>1
  <2> QED BY <2>2 DEF Untold
<1> QED BY <1>2, <1>3

\* Nobody is told anything without a session.
THEOREM NobodyIsTold == AnySpec => []Untold
<1>1. Init => Untold
  BY DEF Init, Untold
<1>2. ASSUME RoomInv, Untold, [AnyNext]_vars PROVE Untold'
  <2>1. room \in [Peers -> Rooms \cup {NoRoom}] /\ NoRoom \notin Rooms
    BY <1>2, VoiceAssumption DEF RoomInv, RoomTypeOK, HubTypeOK
  <2>2. ASSUME NEW p \in Peers, Handle(p) \/ HandleAny(p), UNCHANGED told
        PROVE  Untold'
    <3>1. room' = room
      BY <2>2 DEF Handle, HandleAny, Request, Release, SendAudio
    <3> QED BY <1>2, <2>2, <3>1, UntoldStays
  <2>3. ASSUME NEW p \in Peers, Apart(p), UNCHANGED told PROVE Untold'
    <3>1. CASE \E r \in Rooms : Join(p, r)
      <4>1. PICK r \in Rooms : room' = [room EXCEPT ![p] = r]
        BY <3>1 DEF Join
      <4>2. \A q \in Peers : room'[q] = NoRoom => room[q] = NoRoom
        BY <2>1, <4>1
      <4> QED BY <1>2, <2>3, <4>2, UntoldStays
    <3>2. CASE ~\E r \in Rooms : Join(p, r)
      <4>1. room' = room
        BY <2>3, <3>2 DEF Apart, Discard, Tick, Recheck, Fail, Hangup, Permit, Deny
      <4> QED BY <1>2, <2>3, <4>1, UntoldStays
    <3> QED BY <3>1, <3>2
  <2>4. ASSUME NEW r \in Rooms, TimePasses(r), UNCHANGED told PROVE Untold'
    <3>1. room' = room
      BY <2>4 DEF TimePasses, LeaseElapses, WindowElapses
    <3> QED BY <1>2, <2>4, <3>1, UntoldStays
  <2>5. CASE UNCHANGED vars
    <3>1. room' = room /\ told' = told
      BY <2>5 DEF vars, hubVars
    <3> QED BY <1>2, <3>1, UntoldStays
  <2>6. CASE AnyNext
    BY <1>2, <2>2, <2>3, <2>4, <2>6, UntoldSteps DEF AnyNext, Next
  <2> QED BY <1>2, <2>5, <2>6
<1>3. RoomInv /\ Untold /\ [AnyNext]_vars => Untold'
  BY <1>2
<1> QED BY <1>1, <1>3, RoomInvariant, PTL DEF AnySpec

-----------------------------------------------------------------------------
\* Audio that is queued for a peer whose session goes on comes after the floor
\* message of its stream, before the next one, with growing frame numbers
\* (hub.go Audio, Request).
THEOREM AudioInOrder == Spec => []AudioFollowsFloor
<1>1. AudioInv => AudioFollowsFloor
  BY DEF AudioInv, Playable, AudioFollowsFloor, Joined, Sound, InPlace, Newer,
     IsAudio
<1> QED BY <1>1, AudioInvariant, BoundsAreAmongAny, PTL
=============================================================================
