--------------------------- MODULE ListeningProofs --------------------------
(***************************************************************************)
(* Proofs about what a device plays, for any number of peers, devices and  *)
(* rooms, any requests and frames and any length of the queues.            *)
(*                                                                         *)
(* First, the relay and the devices together are a VoiceRoom whose clients *)
(* send what they like, so that all that is proved of a room is true here. *)
(* Second, each device follows what it was told: between what it plays and *)
(* what it was sent last there is a way, through the messages that wait.   *)
(***************************************************************************)
EXTENDS Listening, PushToTalkProofs

Proved == INSTANCE VoiceRoomProofs  \* the room, with what is proved of it

-----------------------------------------------------------------------------
(* The calls of the hub are those of the room                              *)

\* The writer, a frame dropped, and the end of a session.
LEMMA SameQuiet ==
  ASSUME NEW p
  PROVE  /\ Deliver(p) => Proved!Deliver(p)
         /\ Discard(p) => Proved!Discard(p)
         /\ Recheck(p) => Proved!Recheck(p)
         /\ Fail(p) => Proved!Fail(p)
         /\ Hangup(p) => Proved!Hangup(p)
         /\ Reading(p) => Proved!Reading(p)
  BY DEF
     Deliver, Proved!Deliver, Discard, Proved!Discard, Recheck,
     Proved!Recheck, Fail, Proved!Fail, Hangup, Proved!Hangup,
     Reading, Proved!Reading

\* A lease or a second that runs out, and the ticker.
LEMMA SameTime ==
  ASSUME NEW p, NEW r
  PROVE  /\ Tick(p) => Proved!Tick(p)
         /\ TimePasses(r) => Proved!TimePasses(r)
  BY DEF
     Tick, Proved!Tick, TimePasses, Proved!TimePasses, LeaseElapses,
     Proved!LeaseElapses, WindowElapses, Proved!WindowElapses, Swept,
     Proved!Swept, Expired, Proved!Expired, Free, Proved!Free, Held,
     Proved!Held, Push, Proved!Push, Queued, Proved!Queued, Notices,
     Proved!Notices, Floor, Proved!Floor

\* A session that begins.
LEMMA SameJoin ==
  ASSUME NEW p, NEW r
  PROVE  Join(p, r) => Proved!Join(p, r)
<1> DEFINE ms == Then(Notices(room'), To(p, Floor(Swept[r].stream)))
           ns == Proved!Then(Proved!Notices(room'),
                             Proved!To(p, Proved!Floor(Proved!Swept[r].stream)))
<1>1. Proved!Swept = Swept /\ Proved!Joined = Joined
  BY DEF Swept, Proved!Swept, Expired, Proved!Expired, Free, Proved!Free,
     Held, Proved!Held, Joined, Proved!Joined
<1>2. ns = ms
  BY <1>1 DEF Then, Proved!Then, Notices, Proved!Notices, Expired,
     Proved!Expired, Floor, Proved!Floor, To, Proved!To, Nothing, Proved!Nothing
<1>3. Push(out, life, ms) => Proved!Push(out, life, ns)
  BY <1>2 DEF Push, Proved!Push, Queued, Proved!Queued
<1> SUFFICES ASSUME Join(p, r) PROVE Proved!Join(p, r)
  OBVIOUS
<1>4. /\ room[p] = NoRoom /\ <<p, r>> \in allowed
      /\ Cardinality(Joined) < MaxPeers
      /\ room' = [room EXCEPT ![p] = r] /\ floors' = Swept
      /\ UNCHANGED <<next, allowed>> /\ Push(out, life, ms)
  BY DEF Join
<1>5. Proved!Push(out, life, ns)
  BY <1>3, <1>4
<1>6. Proved!Cardinality(Joined) = Cardinality(Joined)
  BY DEF Cardinality, Proved!Cardinality
<1> QED BY <1>1, <1>4, <1>5, <1>6 DEF Proved!Join

\* A session that ends.
LEMMA SameLeave ==
  ASSUME NEW p
  PROVE  Leave(p) => Proved!Leave(p)
  BY DEF
     Leave, Proved!Leave, Push, Proved!Push, Queued, Proved!Queued,
     ToRoom, Proved!ToRoom, Floor, Proved!Floor, Free, Proved!Free,
     Held, Proved!Held

\* A request while the floor is taken.
LEMMA SameRefuse ==
  ASSUME NEW p, NEW q
  PROVE  Refuse(p, q) => Proved!Refuse(p, q)
  BY DEF
     Refuse, Proved!Refuse, Then, Proved!Then, Busy, Proved!Busy,
     Swept, Proved!Swept, Expired, Proved!Expired, Free, Proved!Free,
     Held, Proved!Held, Push, Proved!Push, Queued, Proved!Queued,
     Notices, Proved!Notices, Floor, Proved!Floor, To, Proved!To,
     Nothing, Proved!Nothing

\* A request while it is free.
LEMMA SameGive ==
  ASSUME NEW p, NEW q
  PROVE  Give(p, q) => Proved!Give(p, q)
  BY DEF
     Give, Proved!Give, Granted, Proved!Granted, Grant, Proved!Grant,
     Then, Proved!Then, Swept, Proved!Swept, Expired, Proved!Expired,
     Free, Proved!Free, Held, Proved!Held, Push, Proved!Push, Queued,
     Proved!Queued, Notices, Proved!Notices, Floor, Proved!Floor, To,
     Proved!To, Nothing, Proved!Nothing, ToRoom, Proved!ToRoom

\* A request.
LEMMA SameRequest ==
  ASSUME NEW p, NEW q PROVE Request(p, q) => Proved!Request(p, q)
  BY SameRefuse, SameGive DEF Request, Proved!Request

\* The floor given back.
LEMMA SameRelease ==
  ASSUME NEW p, NEW s
  PROVE  Release(p, s) => Proved!Release(p, s)
  BY DEF
     Release, Proved!Release, Floor, Proved!Floor, Free, Proved!Free,
     Held, Proved!Held, Push, Proved!Push, Queued, Proved!Queued,
     ToRoom, Proved!ToRoom

\* A frame.
LEMMA SameAudio ==
  ASSUME NEW p, NEW s, NEW n
  PROVE  SendAudio(p, s, n) => Proved!SendAudio(p, s, n)
  BY DEF
     SendAudio, Proved!SendAudio, Carried, Proved!Carried, InTurn,
     Proved!InTurn, Counted, Proved!Counted, Audio, Proved!Audio, Then, Proved!Then, Swept, Proved!Swept, Expired,
     Proved!Expired, Free, Proved!Free, Held, Proved!Held, Push,
     Proved!Push, Queued, Proved!Queued, Notices, Proved!Notices,
     Floor, Proved!Floor, ToRoom, Proved!ToRoom

\* What a peer is told when it reads, and when it has left.
LEMMA SameReading ==
  /\ Room!Silence = Proved!Silence
  /\ \A t, m : Room!After(t, m) = Proved!After(t, m)
  /\ \A p : Room!Read(p) => Proved!Read(p)
  /\ \A p : Room!Forgotten(p) => Proved!Forgotten(p)
  BY DEF Room!Silence, Proved!Silence, Room!After, Proved!After, Room!Read,
     Proved!Read, Room!Forgotten, Proved!Forgotten

\* What a client of the model sends.
LEMMA SameHandle ==
  ASSUME NEW p, Handle(p) PROVE Proved!Handle(p)
<1>1. Reading(p) => Proved!Reading(p)
  BY SameQuiet
<1>2. ASSUME next < MaxStream /\ Request(p, 1) PROVE Proved!Handle(p)
  BY <1>1, <1>2, SameRequest DEF Handle, Proved!Handle
<1>3. ASSUME NEW s \in 0..next, Release(p, s) PROVE Proved!Handle(p)
  <2>1. Proved!Release(p, s)
    BY <1>3, SameRelease
  <2> QED BY <1>1, <2>1 DEF Handle, Proved!Handle
<1>4. ASSUME NEW s \in 1..next, NEW n \in 1..MaxSeq, SendAudio(p, s, n)
      PROVE  Proved!Handle(p)
  <2>1. Proved!SendAudio(p, s, n)
    BY <1>4, SameAudio
  <2> QED BY <1>1, <2>1 DEF Handle, Proved!Handle
<1> QED BY <1>2, <1>3, <1>4 DEF Handle

-----------------------------------------------------------------------------
(* The relay and the devices are a room                                    *)

\* They begin as one.
LEMMA RoomBegins == ASSUME ListenInit PROVE Proved!Init
<1>1. HubInit => Proved!HubInit
  BY DEF HubInit, Proved!HubInit, Free, Proved!Free, Held, Proved!Held
<1> QED BY <1>1, SameReading DEF ListenInit, Init, Proved!Init

\* A step that leaves the hub alone.
LEMMA RoomRests ==
  ASSUME UNCHANGED hubVars, UNCHANGED told PROVE UNCHANGED Proved!vars
  BY DEF hubVars, Proved!vars, Proved!hubVars

\* What the rest of the relay does is done in the room.
LEMMA RoomApart ==
  ASSUME NEW p \in Peers, UNCHANGED told,
         \/ Discard(p) \/ Tick(p) \/ Recheck(p) \/ Fail(p) \/ Hangup(p)
         \/ \E r \in Rooms : Join(p, r)
  PROVE  Proved!AnyNext
<1>1. Proved!Apart(p)
  BY SameQuiet, SameTime, SameJoin DEF Proved!Apart
<1> QED BY <1>1 DEF Proved!AnyNext, Proved!Next

\* What a device sends is something a client may send.
LEMMA RoomServes ==
  ASSUME TalkInv, NEW p \in Devices, Serve(p), UNCHANGED told
  PROVE  Proved!AnyNext
<1> DEFINE m == Head(up[p])
<1>1. /\ Reading(p) /\ up[p] # <<>>
      /\ \/ Request(p, m.n) \/ Release(p, m.stream)
         \/ SendAudio(p, m.stream, m.n)
  BY DEF Serve
<1>2. m \in Upward /\ p \in Peers
  <2>1. up[p] \in Seq(Upward) /\ p \in Peers
    BY TalkFacts
  <2> QED BY <1>1, <2>1
<1> HIDE DEF m
<1>3. m.n \in Nat /\ m.stream \in Nat
  BY <1>2 DEF Upward
<1>4. /\ Proved!Reading(p)
      /\ \/ Proved!Request(p, m.n) \/ Proved!Release(p, m.stream)
         \/ Proved!SendAudio(p, m.stream, m.n)
  BY <1>1, SameQuiet, SameRequest, SameRelease, SameAudio
<1>5. Proved!HandleAny(p)
  BY <1>3, <1>4 DEF Proved!HandleAny
<1> QED BY <1>2, <1>5 DEF Proved!AnyNext

\* The task works without the hub.
LEMMA WorkIsLocal ==
  ASSUME NEW p \in Devices, Work(p) \/ Receive(p) \/ Button(p) \/ Quit(p)
                            \/ DeviceNotices(p)
  PROVE  UNCHANGED hubVars
  BY DEF Work, Receive, Button, Quit, DeviceNotices, Cut, LetGo, AskForFloor,
     TimeOut, Expire, Idle, Transmit, Finish

\* What no device hears of.
LEMMA RoomUnheard ==
  ASSUME TalkInv, Unheard, UNCHANGED told
  PROVE  Proved!AnyNext \/ UNCHANGED Proved!vars
<1>1. Devices \subseteq Peers
  BY TalkAssumption
<1>2. ASSUME NEW p \in Devices,
             Button(p) \/ Quit(p) \/ Work(p) \/ DeviceNotices(p)
      PROVE  UNCHANGED Proved!vars
  <2>1. UNCHANGED hubVars
    BY <1>2, WorkIsLocal
  <2> QED BY <2>1, RoomRests
<1>3. ASSUME NEW p \in Devices, HubNotices(p) PROVE Proved!AnyNext
  BY <1>1, <1>3, RoomApart DEF HubNotices
<1>4. CASE OnTheRelay
  <2>1. CASE \E p \in Peers : Tick(p)
    BY <2>1, RoomApart
  <2>2. CASE \E p \in Devices : Discard(p)
    BY <1>1, <2>2, RoomApart
  <2>3. CASE \E r \in Rooms : TimePasses(r)
    BY <2>3, SameTime DEF Proved!AnyNext, Proved!Next
  <2>4. ASSUME NEW p \in Peers, ByOthers(p) PROVE Proved!AnyNext
    <3>1. CASE Handle(p)
      BY <3>1, SameHandle DEF Proved!AnyNext, Proved!Next
    <3>2. CASE ~Handle(p)
      BY <2>4, <3>2, RoomApart DEF ByOthers
    <3> QED BY <3>1, <3>2
  <2> QED BY <1>4, <2>1, <2>2, <2>3, <2>4 DEF OnTheRelay, Others
<1> QED BY <1>2, <1>3, <1>4, RoomServes DEF Unheard

\* Messages that are written and sessions that end, with what is told then.
LEMMA RoomTells ==
  ASSUME NEW p \in Peers,
         \/ Deliver(p) /\ Room!Read(p)
         \/ Leave(p) /\ Room!Forgotten(p)
  PROVE  Proved!AnyNext
  BY SameQuiet, SameLeave, SameReading DEF Proved!AnyNext, Proved!Next

\* Every step is one of the room, or none.
LEMMA RoomSteps ==
  ASSUME TalkInv, [ListenNext]_listenVars
  PROVE  [Proved!AnyNext]_Proved!vars
<1>1. Devices \subseteq Peers /\ Others \subseteq Peers /\ Behind \subseteq Peers
  BY TalkAssumption DEF Others, Behind
<1>2. CASE UNCHANGED listenVars
  BY <1>2, RoomRests DEF listenVars, vars
<1>3. CASE Unheard /\ UNCHANGED told
  BY <1>3, RoomUnheard
<1>4. ASSUME NEW p \in Devices, Receive(p), UNCHANGED told
      PROVE  UNCHANGED Proved!vars
  BY <1>4, WorkIsLocal, RoomRests
<1>5. ASSUME NEW p \in Devices, Arrive(p), Room!Read(p) PROVE Proved!AnyNext
  BY <1>1, <1>5, RoomTells DEF Arrive
<1>6. ASSUME NEW p \in Devices, Forget(p), Room!Forgotten(p)
      PROVE  Proved!AnyNext
  BY <1>1, <1>6, RoomTells DEF Forget
<1>7. ASSUME NEW p \in Devices, NEW r \in Rooms, Enter(p, r), UNCHANGED told
      PROVE  Proved!AnyNext
  BY <1>1, <1>7, RoomApart DEF Enter
<1>8. ASSUME NEW p \in Others, GoneByOthers(p), Room!Forgotten(p)
      PROVE  Proved!AnyNext
  BY <1>1, <1>8, RoomTells DEF GoneByOthers
<1>9. ASSUME NEW p \in Behind, Deliver(p), Room!Read(p) PROVE Proved!AnyNext
  BY <1>1, <1>9, RoomTells
<1>10. CASE ListenStep
  BY <1>3, <1>4, <1>5, <1>6, <1>7, <1>8, <1>10 DEF ListenStep
<1>11. CASE ListenNext
  BY <1>9, <1>10, <1>11 DEF ListenNext
<1> QED BY <1>2, <1>11

\* Listening is push-to-talk.
LEMMA ListeningIsTalking == ListenSpec => Spec
<1>1. ListenInit => Init
  BY DEF ListenInit
<1>2. ASSUME ListenNext PROVE Next
  <2>1. ListenStep => Step
    BY DEF ListenStep, Step
  <2>2. ASSUME NEW p \in Behind, Deliver(p), UNCHANGED deviceVars PROVE CatchUp
    BY <2>2 DEF CatchUp
  <2> QED BY <1>2, <2>1, <2>2 DEF ListenNext, Next
<1>3. [ListenNext]_listenVars => [Next]_vars
  BY <1>2 DEF listenVars
<1> QED BY <1>1, <1>3, PTL DEF ListenSpec, Spec

\* The relay with these devices is a room whose clients send what they like:
\* all that is proved of a room's queues is true of what a device is sent.
THEOREM ListeningIsInARoom == ListenSpec => Proved!AnySpec
<1>1. ListenInit => Proved!Init
  BY RoomBegins
<1>2. TalkInv /\ [ListenNext]_listenVars => [Proved!AnyNext]_Proved!vars
  BY RoomSteps
<1>3. ListenSpec => []TalkInv
  BY ListeningIsTalking, TalkInvariant, PTL
<1> QED BY <1>1, <1>2, <1>3, PTL DEF ListenSpec, Proved!AnySpec

-----------------------------------------------------------------------------
(* The way from what a device plays to what it was told last               *)

Tellings == [stream : Nat, seq : Nat]

\* Who knows w[1] and hears the messages q knows w[k + 1] after the k-th of
\* them, each frame fits, and it ends with t.  A device may have dropped
\* frames, so what it played last may be earlier than what it was sent.
Leads(w, x, q, t) ==
  /\ w \in Seq(Tellings) /\ Len(w) = Len(q) + 1
  /\ x.stream = w[1].stream /\ x.seq <= w[1].seq /\ w[Len(w)] = t
  /\ \A k \in 1..Len(q) :
       /\ w[k + 1] = Room!After(w[k], q[k])
       /\ q[k].kind = "audio" => Fits(w[k], q[k])

Way(x, q, t) == \E w \in Seq(Tellings) : Leads(w, x, q, t)

\* What a message makes of what is known.
LEMMA AfterTypes ==
  ASSUME NEW t \in Tellings, NEW m \in Packet
  PROVE  /\ Room!After(t, m) \in Tellings /\ Tuned(m) \in Tellings
         /\ m.kind = "floor" => Room!After(t, m) = Tuned(m)
         /\ m.kind = "audio" => Room!After(t, m) = [t EXCEPT !.seq = m.n]
         /\ m.kind \notin {"floor", "audio"} => Room!After(t, m) = t
  BY DEF Room!After, Tuned, Tellings, Packet

\* Nobody was told anything, and nothing waits.
LEMMA WayStart ==
  /\ Room!Silence \in Tellings
  /\ Way(Room!Silence, <<>>, Room!Silence)
<1> DEFINE s == Room!Silence
           w == <<s>>
<1>1. s \in Tellings /\ s.stream \in Nat /\ s.seq \in Nat
  BY DEF Room!Silence, Tellings
<1> HIDE DEF s
<1>2. w \in Seq(Tellings) /\ Len(w) = 1 /\ w[1] = s /\ Len(<<>>) = 0
  BY <1>1
<1>3. Leads(w, s, <<>>, s)
  BY <1>1, <1>2 DEF Leads
<1> QED BY <1>1, <1>2, <1>3 DEF Way, s

\* A message is written to the peer and waits.
LEMMA WayMore ==
  ASSUME NEW x \in Tellings, NEW q \in Seq(Packet), NEW t \in Tellings,
         NEW m \in Packet, m.kind = "audio" => Fits(t, m), Way(x, q, t)
  PROVE  Way(x, Append(q, m), Room!After(t, m))
<1> DEFINE a == Room!After(t, m)
<1>1. PICK w \in Seq(Tellings) : Leads(w, x, q, t)
  BY DEF Way
<1>2. a \in Tellings
  BY AfterTypes
<1> DEFINE v == Append(w, a)
           r == Append(q, m)
<1>3. /\ Len(w) = Len(q) + 1 /\ w[Len(w)] = t /\ Len(q) \in Nat
      /\ x.stream = w[1].stream /\ x.seq <= w[1].seq
      /\ \A k \in 1..Len(q) : /\ w[k + 1] = Room!After(w[k], q[k])
                              /\ q[k].kind = "audio" => Fits(w[k], q[k])
  BY <1>1 DEF Leads
<1>4. a = Room!After(t, m)
  OBVIOUS
<1> HIDE DEF a
<1>5. /\ v \in Seq(Tellings) /\ Len(v) = Len(w) + 1 /\ v[Len(v)] = a
      /\ \A k \in 1..Len(w) : v[k] = w[k]
  BY <1>2
<1>6. /\ Len(r) = Len(q) + 1 /\ r[Len(q) + 1] = m
      /\ \A k \in 1..Len(q) : r[k] = q[k]
  OBVIOUS
<1> HIDE DEF v, r
<1>7. ASSUME NEW k \in 1..Len(r)
      PROVE  /\ v[k + 1] = Room!After(v[k], r[k])
             /\ r[k].kind = "audio" => Fits(v[k], r[k])
  <2>1. CASE k \in 1..Len(q)
    <3>1. /\ v[k] = w[k] /\ v[k + 1] = w[k + 1] /\ r[k] = q[k]
      BY <1>3, <1>5, <1>6, <2>1
    <3> QED BY <1>3, <2>1, <3>1
  <2>2. CASE k = Len(q) + 1
    <3>1. v[k] = t /\ v[k + 1] = a /\ r[k] = m
      BY <1>3, <1>5, <1>6, <2>2
    <3> QED BY <1>4, <3>1
  <2> QED BY <1>3, <1>6, <2>1, <2>2
<1>8. v[1] = w[1] /\ Len(v) = Len(r) + 1
  BY <1>3, <1>5, <1>6
<1>9. Leads(v, x, r, a)
  BY <1>3, <1>5, <1>7, <1>8 DEF Leads
<1> QED BY <1>4, <1>5, <1>9 DEF Way, v, r

\* What the device plays after the first message it was told of.
Heeds(x, m, y) ==
  IF m.kind = "floor" THEN y = Tuned(m)
  ELSE y = x \/ (m.kind = "audio" /\ y = [x EXCEPT !.seq = m.n])

\* The device takes the first message.
LEMMA WayLess ==
  ASSUME NEW x \in Tellings, NEW q \in Seq(Packet), NEW t \in Tellings,
         q # <<>>, NEW y \in Tellings, Heeds(x, Head(q), y), Way(x, q, t)
  PROVE  Way(y, Tail(q), t)
<1> DEFINE m == Head(q)
           r == Tail(q)
<1>1. PICK w \in Seq(Tellings) : Leads(w, x, q, t)
  BY DEF Way
<1> DEFINE v == Tail(w)
<1>2. /\ Len(w) = Len(q) + 1 /\ w[Len(w)] = t /\ Len(q) \in Nat
      /\ x.stream = w[1].stream /\ x.seq <= w[1].seq
      /\ \A k \in 1..Len(q) : /\ w[k + 1] = Room!After(w[k], q[k])
                              /\ q[k].kind = "audio" => Fits(w[k], q[k])
  BY <1>1 DEF Leads
<1>3. m \in Packet /\ m = q[1] /\ Len(q) > 0 /\ w[1] \in Tellings
  BY <1>2
<1>4. /\ Len(r) = Len(q) - 1 /\ \A k \in 1..Len(q) - 1 : r[k] = q[k + 1]
  BY <1>2, <1>3
<1>5. /\ v \in Seq(Tellings) /\ Len(v) = Len(w) - 1
      /\ \A k \in 1..Len(w) - 1 : v[k] = w[k + 1]
  BY <1>2, <1>3
<1>6. Heeds(x, m, y)
  OBVIOUS
<1> HIDE DEF m, r, v
<1>7. /\ v[1] = Room!After(w[1], m)
      /\ m.kind = "audio" => Fits(w[1], m)
  BY <1>2, <1>3, <1>5
<1>8. y.stream = v[1].stream /\ y.seq <= v[1].seq
  <2>1. CASE m.kind = "floor"
    <3>1. y = v[1]
      BY <1>3, <1>6, <1>7, <2>1, AfterTypes DEF Heeds
    <3> QED BY <3>1 DEF Tellings
  <2>2. CASE m.kind = "audio"
    <3>1. v[1] = [w[1] EXCEPT !.seq = m.n] /\ m.n > w[1].seq /\ m.n \in Nat
      BY <1>3, <1>7, <2>2, AfterTypes DEF Fits, Packet
    <3>2. y = x \/ y = [x EXCEPT !.seq = m.n]
      BY <1>6, <2>2 DEF Heeds
    <3> QED BY <1>2, <1>3, <3>1, <3>2 DEF Tellings
  <2>3. CASE m.kind \notin {"floor", "audio"}
    <3>1. v[1] = w[1] /\ y = x
      BY <1>3, <1>6, <1>7, <2>3, AfterTypes DEF Heeds
    <3> QED BY <1>2, <3>1
  <2> QED BY <2>1, <2>2, <2>3
<1>9. ASSUME NEW k \in 1..Len(r)
      PROVE  /\ v[k + 1] = Room!After(v[k], r[k])
             /\ r[k].kind = "audio" => Fits(v[k], r[k])
  <2>1. v[k] = w[k + 1] /\ v[k + 1] = w[(k + 1) + 1] /\ r[k] = q[k + 1]
    BY <1>2, <1>3, <1>4, <1>5
  <2>2. k + 1 \in 1..Len(q)
    BY <1>2, <1>3, <1>4
  <2> QED BY <1>2, <2>1, <2>2
<1>10. v[Len(v)] = t /\ Len(v) = Len(r) + 1
  BY <1>2, <1>3, <1>4, <1>5
<1>11. Leads(v, y, r, t)
  BY <1>5, <1>8, <1>9, <1>10 DEF Leads
<1> QED BY <1>5, <1>11 DEF Way, v, r

\* The first message of a way, if it is a frame, is played.
LEMMA WayFits ==
  ASSUME NEW x \in Tellings, NEW q \in Seq(Packet), NEW t,
         q # <<>>, Head(q).kind = "audio", Way(x, q, t)
  PROVE  Fits(x, Head(q))
<1> DEFINE m == Head(q)
<1>1. PICK w \in Seq(Tellings) : Leads(w, x, q, t)
  BY DEF Way
<1>2. /\ m = q[1] /\ 1 \in 1..Len(q) /\ m \in Packet
  OBVIOUS
<1>3. /\ x.stream = w[1].stream /\ x.seq <= w[1].seq /\ Len(w) = Len(q) + 1
      /\ m.kind = "audio" => Fits(w[1], m)
  BY <1>1, <1>2 DEF Leads
<1>4. w[1] \in Tellings /\ m.kind = "audio"
  BY <1>2, <1>3
<1> HIDE DEF m
<1>5. Fits(x, m)
  BY <1>2, <1>3, <1>4 DEF Fits, Tellings, Packet
<1> QED BY <1>5 DEF m

-----------------------------------------------------------------------------
(* The session that goes on                                                *)

\* A queue that overflows cancels a session and starts none.
LEMMA PushOpens ==
  ASSUME NEW queue, NEW state, NEW ms, Push(queue, state, ms),
         NEW q \in Peers, life'[q] = "open"
  PROVE  state[q] = "open"
<1>1. life' = [p \in Peers |->
                 IF state[p] = "open" /\ Len(queue[p] \o ms[p]) > QueueLimit
                 THEN "stopped" ELSE state[p]]
  BY DEF Push
<1> HIDE DEF Push
<1> QED BY <1>1

\* What a peer sends opens no session.
LEMMA SendingOpens ==
  ASSUME HubInv, NEW p \in Peers, NEW q \in Peers, Goes(q),
         \/ \E n \in Nat : Request(p, n)
         \/ \E s \in Nat : Release(p, s)
         \/ \E s \in Nat, n \in Nat : SendAudio(p, s, n)
  PROVE  room[q] # NoRoom /\ life[q] = "open"
<1>1. room' = room
  BY DEF Request, Release, SendAudio
<1>2. life'[q] = "open" /\ life \in [Peers -> Lives]
  BY HubTypes DEF Goes
<1>3. life[q] = "open"
  <2>1. CASE \E n \in Nat : Request(p, n)
    BY <1>2, <2>1, PushOpens DEF Request, Refuse, Give
  <2>2. CASE \E s \in Nat : Release(p, s)
    BY <1>2, <2>2, PushOpens DEF Release
  <2>3. ASSUME NEW s \in Nat, NEW n \in Nat, SendAudio(p, s, n)
        PROVE  life[q] = "open"
    <3>1. CASE Carried(Swept[room[p]], p, s, n)
      BY <1>2, <2>3, <3>1, PushOpens DEF SendAudio
    <3>2. CASE ~Carried(Swept[room[p]], p, s, n)
      <4> DEFINE state == [life EXCEPT ![p] = "closing"]
      <4>1. Push(out, state, Notices(room))
        BY <2>3, <3>2 DEF SendAudio
      <4> HIDE DEF state
      <4>2. state[q] = "open"
        BY <1>2, <4>1, PushOpens
      <4> QED BY <1>2, <4>2 DEF state
    <3> QED BY <3>1, <3>2
  <2> QED BY <2>1, <2>2, <2>3
<1> QED BY <1>1, <1>3 DEF Goes

\* Nor does the rest of the relay, but for the peer that joins.
LEMMA RestOpens ==
  ASSUME HubInv, NEW p \in Peers, NEW q \in Peers, Goes(q),
         \/ Discard(p) \/ Deliver(p) \/ Tick(p) \/ Recheck(p) \/ Fail(p)
         \/ Hangup(p) \/ Leave(p) \/ \E r \in Rooms : TimePasses(r)
         \/ p # q /\ \E r \in Rooms : Join(p, r)
  PROVE  room[q] # NoRoom /\ life[q] = "open"
<1>1. /\ life'[q] = "open" /\ room'[q] # NoRoom
      /\ life \in [Peers -> Lives] /\ room \in [Peers -> Rooms \cup {NoRoom}]
  BY HubTypes DEF Goes, HubInv, HubTypeOK
<1>2. CASE Discard(p) \/ Deliver(p) \/ \E r \in Rooms : TimePasses(r)
  BY <1>1, <1>2 DEF Discard, Deliver, TimePasses, LeaseElapses, WindowElapses
<1>3. CASE Tick(p)
  BY <1>1, <1>3, PushOpens DEF Tick
<1>4. CASE Recheck(p) \/ Fail(p) \/ Hangup(p)
  BY <1>1, <1>4 DEF Recheck, Fail, Hangup
<1>5. CASE Leave(p)
  <2>1. room' = [room EXCEPT ![p] = NoRoom]
    BY <1>5 DEF Leave
  <2>2. p # q /\ room[q] # NoRoom
    BY <1>1, <2>1
  <2> DEFINE state == [life EXCEPT ![p] = "open"]
  <2>3. \/ \E queue, ms : Push(queue, state, ms)
        \/ life' = state
    BY <1>5 DEF Leave
  <2> HIDE DEF state
  <2>4. state[q] = "open"
    BY <1>1, <2>3, PushOpens
  <2> QED BY <1>1, <2>2, <2>4 DEF state
<1>6. ASSUME p # q, NEW r \in Rooms, Join(p, r)
      PROVE  room[q] # NoRoom /\ life[q] = "open"
  <2>1. room' = [room EXCEPT ![p] = r] /\ \E ms : Push(out, life, ms)
    BY <1>6 DEF Join
  <2> QED BY <1>1, <1>6, <2>1, PushOpens
<1> QED BY <1>2, <1>3, <1>4, <1>5, <1>6

\* What another client does.
LEMMA OthersOpen ==
  ASSUME HubInv, NEW p \in Peers, NEW q \in Peers, p # q, Goes(q), ByOthers(p)
  PROVE  room[q] # NoRoom /\ life[q] = "open"
<1>1. CASE Handle(p)
  <2>1. next \in Nat /\ MaxSeq \in Nat
    BY HubTypes, VoiceAssumption
  <2>2. \/ \E n \in Nat : Request(p, n)
        \/ \E s \in Nat : Release(p, s)
        \/ \E s \in Nat, n \in Nat : SendAudio(p, s, n)
    <3>1. CASE Request(p, 1)
      BY <3>1
    <3>2. ASSUME NEW s \in 0..next, Release(p, s)
          PROVE  \E z \in Nat : Release(p, z)
      BY <2>1, <3>2
    <3>3. ASSUME NEW s \in 1..next, NEW n \in 1..MaxSeq, SendAudio(p, s, n)
          PROVE  \E z \in Nat, k \in Nat : SendAudio(p, z, k)
      <4>1. s \in Nat /\ n \in Nat
        BY <2>1
      <4> QED BY <3>3, <4>1
    <3> QED BY <1>1, <3>1, <3>2, <3>3 DEF Handle
  <2> QED BY <2>2, SendingOpens
<1>2. CASE ~Handle(p)
  BY <1>2, RestOpens DEF ByOthers
<1> QED BY <1>1, <1>2

-----------------------------------------------------------------------------
(* The invariant                                                           *)

OnItsWay(p) == Sound(p) => Way(rx[p], incoming[p], told[p])

\* A device whose session goes on follows what it is told.
ListenInv ==
  /\ rx \in [Devices -> Tellings]
  /\ \A p \in Devices : OnItsWay(p)

\* What is known of a device when it is.
LEMMA ListenFacts ==
  ASSUME TalkInv, Proved!RoomInv, ListenInv, NEW p \in Devices
  PROVE  /\ p \in Peers /\ rx \in [Devices -> Tellings]
         /\ told \in [Peers -> Tellings] /\ rx[p] \in Tellings
         /\ told[p] \in Tellings
         /\ incoming[p] \in Seq(Packet) /\ out[p] \in Seq(Packet)
<1>1. /\ p \in Peers /\ incoming[p] \in Seq(Packet) /\ out[p] \in Seq(Packet)
  BY TalkFacts
<1>2. told \in [Peers -> Tellings]
  BY DEF Proved!RoomInv, Proved!RoomTypeOK, Tellings
<1> QED BY <1>1, <1>2 DEF ListenInv

\* A device to which nothing happens stays on its way.
LEMMA WayStays ==
  ASSUME ListenInv, NEW q \in Devices, Sound(q)' => Sound(q),
         rx'[q] = rx[q], incoming'[q] = incoming[q], told'[q] = told[q]
  PROVE  OnItsWay(q)'
<1> SUFFICES ASSUME Sound(q)' PROVE Way(rx'[q], incoming'[q], told'[q])
  BY DEF OnItsWay
<1>1. Way(rx[q], incoming[q], told[q])
  BY DEF ListenInv, OnItsWay
<1> QED BY <1>1

\* What one device does starts no session for itself or for another.
LEMMA AloneKeepsSound ==
  ASSUME TalkInv, NEW p \in Devices, NEW q \in Devices, Sound(q)',
         \/ Work(p) \/ Receive(p) \/ Button(p) \/ Quit(p) \/ DeviceNotices(p)
  PROVE  Sound(q)
<1>1. room' = room /\ life' = life
  BY WorkIsLocal DEF hubVars
<1>2. (link'[q] => link[q]) /\ (fault[q] => fault'[q])
  <2>1. link \in [Devices -> BOOLEAN] /\ fault \in [Devices -> BOOLEAN]
    BY DEF TalkInv, DeviceTypeOK
  <2>2. \/ link' = link
        \/ link' = [link EXCEPT ![p] = FALSE]
    BY DEF Work, Receive, Button, Quit, DeviceNotices, Cut, LetGo, AskForFloor,
       TimeOut, Expire, Idle, Transmit, Finish
  <2>3. \/ fault' = fault
        \/ fault' = [fault EXCEPT ![p] = TRUE]
    <3>1. CASE Button(p) \/ Quit(p) \/ DeviceNotices(p)
      BY <3>1 DEF Button, Quit, DeviceNotices, Cut, End
    <3>2. CASE Receive(p)
      BY <3>2 DEF Receive, Go, SendAndGo, End
    <3>3. CASE Work(p)
      BY <3>3 DEF Work, LetGo, AskForFloor, TimeOut, Expire, Idle, Transmit,
         Finish, Go, SendAndGo, End
    <3> QED BY <3>1, <3>2, <3>3
  <2> QED BY <2>1, <2>2, <2>3
<1> QED BY <1>1, <1>2 DEF Sound

\* A call of the hub that leaves the devices alone, or fills their queues.
LEMMA HubKeepsSound ==
  ASSUME NEW q \in Devices, Sound(q)', Goes(q) => room[q] # NoRoom /\ life[q] = "open",
         link'[q] => link[q], fault[q] => fault'[q]
  PROVE  Sound(q)
  BY DEF Sound, Goes

\* What no device hears of keeps them on their way.
LEMMA UnheardStays ==
  ASSUME TalkInv, ListenInv, Unheard, UNCHANGED <<rx, told>>
  PROVE  ListenInv'
<1>1. Devices \subseteq Peers /\ HubInv
  BY TalkAssumption DEF TalkInv
<1>2. incoming' = incoming
  BY DEF Unheard, Work, Button, Quit, DeviceNotices, Cut, LetGo, AskForFloor,
     TimeOut, Expire, Idle, Transmit, Finish, Serve, HubNotices, OnTheRelay,
     deviceVars
<1>3. ASSUME NEW q \in Devices, Sound(q)' PROVE Sound(q)
  <2>1. ASSUME NEW p \in Devices,
               Work(p) \/ Button(p) \/ Quit(p) \/ DeviceNotices(p)
        PROVE  Sound(q)
    BY <1>3, <2>1, AloneKeepsSound
  <2>2. ASSUME Goes(q) => room[q] # NoRoom /\ life[q] = "open",
               UNCHANGED <<link, fault>>
        PROVE  Sound(q)
    BY <1>3, <2>2, HubKeepsSound
  <2>3. ASSUME NEW p \in Devices, Serve(p) PROVE Sound(q)
    <3> DEFINE m == Head(up[p])
    <3>1. /\ up[p] # <<>> /\ UNCHANGED <<link, fault>>
          /\ \/ Request(p, m.n) \/ Release(p, m.stream)
             \/ SendAudio(p, m.stream, m.n)
      BY <2>3 DEF Serve
    <3>2. m \in Upward
      <4>1. up[p] \in Seq(Upward)
        BY TalkFacts
      <4> QED BY <3>1, <4>1
    <3> HIDE DEF m
    <3>3. m.n \in Nat /\ m.stream \in Nat
      BY <3>2 DEF Upward
    <3>4. Goes(q) => room[q] # NoRoom /\ life[q] = "open"
      BY <1>1, <3>1, <3>3, SendingOpens
    <3> QED BY <2>2, <3>1, <3>4
  <2>4. ASSUME NEW p \in Devices, HubNotices(p) PROVE Sound(q)
    <3>1. Goes(q) => room[q] # NoRoom /\ life[q] = "open"
      BY <1>1, <2>4, RestOpens DEF HubNotices
    <3> QED BY <2>2, <2>4, <3>1 DEF HubNotices, deviceVars
  <2>5. CASE OnTheRelay
    <3>1. Goes(q) => room[q] # NoRoom /\ life[q] = "open"
      <4>1. CASE \E r \in Rooms : TimePasses(r)
        BY <1>1, <4>1, RestOpens
      <4>2. CASE (\E p \in Devices : Discard(p)) \/ \E p \in Peers : Tick(p)
        BY <1>1, <4>2, RestOpens
      <4>3. CASE \E p \in Others : ByOthers(p)
        <5>1. PICK p \in Others : ByOthers(p)
          BY <4>3
        <5>2. p \in Peers /\ p # q
          BY DEF Others
        <5> QED BY <1>1, <5>1, <5>2, OthersOpen
      <4> QED BY <2>5, <4>1, <4>2, <4>3 DEF OnTheRelay
    <3> QED BY <2>2, <2>5, <3>1 DEF OnTheRelay, deviceVars
  <2> QED BY <2>1, <2>3, <2>4, <2>5 DEF Unheard
<1>4. \A q \in Devices : OnItsWay(q)'
  BY <1>2, <1>3, WayStays
<1> QED BY <1>4 DEF ListenInv

\* A step of one device: the others stay on their way.
LEMMA OneMoves ==
  ASSUME TalkInv, Proved!RoomInv, ListenInv, NEW p \in Devices,
         NEW x \in Tellings, rx' = [rx EXCEPT ![p] = x],
         \A q \in Devices \ {p} :
           /\ incoming'[q] = incoming[q] /\ told'[q] = told[q]
           /\ Sound(q)' => Sound(q),
         OnItsWay(p)'
  PROVE  ListenInv'
<1>1. rx' \in [Devices -> Tellings]
  BY ListenFacts
<1>2. ASSUME NEW q \in Devices \ {p} PROVE OnItsWay(q)'
  <2>1. rx'[q] = rx[q]
    BY ListenFacts
  <2> QED BY <1>2, <2>1, WayStays
<1> QED BY <1>1, <1>2 DEF ListenInv

\* The task handles a message: one is taken from the way.
LEMMA ReceiveStays ==
  ASSUME TalkInv, Proved!RoomInv, ListenInv, NEW p \in Devices,
         Receive(p), Play(p), UNCHANGED told
  PROVE  ListenInv'
<1> DEFINE m == Head(incoming[p])
           q == incoming[p]
<1>1. /\ q # <<>> /\ incoming' = [incoming EXCEPT ![p] = Tail(q)]
      /\ q \in Seq(Packet) /\ incoming \in [Devices -> Seq(Packet)]
  BY TalkFacts DEF Receive, TalkInv, DeviceTypeOK
<1>2. m \in Packet
  BY <1>1
<1>3. PICK x \in Tellings : rx' = [rx EXCEPT ![p] = x] /\ Heeds(rx[p], m, x)
  <2>1. rx[p] \in Tellings /\ rx = [rx EXCEPT ![p] = rx[p]]
    BY ListenFacts
  <2>2. CASE m.kind = "floor" /\ rx' = [rx EXCEPT ![p] = Tuned(m)]
    <3>1. Tuned(m) \in Tellings
      BY <1>2, <2>1, AfterTypes
    <3>2. Heeds(rx[p], m, Tuned(m))
      BY <2>2 DEF Heeds
    <3> QED BY <2>2, <3>1, <3>2
  <2>3. CASE m.kind = "audio" /\ rx' = [rx EXCEPT ![p].seq = m.n]
    <3> DEFINE x == [rx[p] EXCEPT !.seq = m.n]
    <3>1. x \in Tellings /\ rx' = [rx EXCEPT ![p] = x]
      BY <1>2, <2>1, <2>3 DEF Tellings, Packet
    <3>2. Heeds(rx[p], m, x)
      BY <2>3 DEF Heeds
    <3> QED BY <3>1, <3>2
  <2>4. CASE m.kind # "floor" /\ UNCHANGED rx
    BY <2>1, <2>4 DEF Heeds
  <2> QED BY <2>2, <2>3, <2>4 DEF Play
<1>4. \A z \in Devices : Sound(z)' => Sound(z)
  BY AloneKeepsSound
<1>5. OnItsWay(p)'
  <2> SUFFICES ASSUME Sound(p)' PROVE Way(rx'[p], incoming'[p], told'[p])
    BY DEF OnItsWay
  <2>1. Way(rx[p], q, told[p])
    BY <1>4 DEF ListenInv, OnItsWay
  <2>2. rx'[p] = x /\ incoming'[p] = Tail(q) /\ told'[p] = told[p]
    BY <1>1, <1>3, ListenFacts
  <2>3. rx[p] \in Tellings /\ told[p] \in Tellings
    BY ListenFacts
  <2>4. q # <<>> /\ q \in Seq(Packet) /\ Heeds(rx[p], Head(q), x) /\ x \in Tellings
    BY <1>1, <1>3
  <2> HIDE DEF q, m
  <2>5. Way(x, Tail(q), told[p])
    BY <2>1, <2>3, <2>4, WayLess
  <2> QED BY <2>2, <2>5
<1>6. \A z \in Devices \ {p} : incoming'[z] = incoming[z] /\ told'[z] = told[z]
  BY <1>1
<1> QED BY <1>3, <1>4, <1>5, <1>6, OneMoves

\* The writer's message reaches the device's queue: one is added to the way.
LEMMA ArriveStays ==
  ASSUME TalkInv, Proved!RoomInv, Proved!AudioInv, ListenInv, NEW p \in Devices,
         Arrive(p), Room!Read(p), UNCHANGED rx
  PROVE  ListenInv'
<1> DEFINE m == Head(out[p])
           q == incoming[p]
           t == told[p]
           full == Len(q) >= IncomingLimit
           gone == full \/ ~link[p] \/ pc[p] = "end"
<1>1. /\ p \in Peers /\ out[p] # <<>> /\ room' = room /\ life' = life
      /\ link' = link /\ fault' = [fault EXCEPT ![p] = @ \/ full]
      /\ incoming' = IF gone THEN incoming
                     ELSE [incoming EXCEPT ![p] = Append(q, m)]
      /\ told' = [told EXCEPT ![p] = Room!After(t, m)]
  BY ListenFacts DEF Arrive, Deliver, Room!Read
<1>2. /\ incoming \in [Devices -> Seq(Packet)] /\ fault \in [Devices -> BOOLEAN]
      /\ q \in Seq(Packet) /\ out[p] \in Seq(Packet)
      /\ t \in Tellings /\ rx[p] \in Tellings /\ told \in [Peers -> Tellings]
      /\ rx \in [Devices -> Tellings] /\ Devices \subseteq Peers
  BY ListenFacts, TalkAssumption DEF TalkInv, DeviceTypeOK
<1>3. m \in Packet
  BY <1>1, <1>2
<1> HIDE DEF m, full
<1>4. fault'[p] = (fault[p] \/ full) /\ \A z \in Devices \ {p} : fault'[z] = fault[z]
  BY <1>1, <1>2
<1>5. \A z \in Devices : Sound(z)' => Sound(z)
  BY <1>1, <1>4 DEF Sound
<1>6. OnItsWay(p)'
  <2> SUFFICES ASSUME Sound(p)' PROVE Way(rx'[p], incoming'[p], told'[p])
    BY DEF OnItsWay
  <2>1. Sound(p) /\ ~full /\ link[p] /\ ~fault[p] /\ life[p] = "open"
    BY <1>1, <1>4, <1>5 DEF Sound
  <2>2. pc[p] # "end"
    BY <2>1 DEF TalkInv, Away
  <2>3. incoming'[p] = Append(q, m) /\ told'[p] = Room!After(t, m) /\ rx'[p] = rx[p]
    BY <1>1, <1>2, <2>1, <2>2
  <2>4. m.kind = "audio" => Fits(t, m)
    <3>1. VoiceAssumption
      BY VoiceAssumption
    <3>2. ASSUME m.kind = "audio"
          PROVE  t.stream # 0 /\ m.stream = t.stream /\ t.seq < m.n
      BY <1>1, <2>1, <3>1, <3>2, Proved!NextFrameFits DEF m, VoiceAssumption
    <3>3. t.seq \in Nat /\ m.n \in Nat
      BY <1>2, <1>3 DEF Tellings, Packet
    <3> QED BY <3>2, <3>3 DEF Fits
  <2>5. Way(rx[p], q, t)
    BY <2>1 DEF ListenInv, OnItsWay
  <2> HIDE DEF q, t
  <2>6. Way(rx[p], Append(q, m), Room!After(t, m))
    BY <1>2, <1>3, <2>4, <2>5, WayMore
  <2> QED BY <2>3, <2>6
<1>7. \A z \in Devices \ {p} : incoming'[z] = incoming[z] /\ told'[z] = told[z]
  BY <1>1, <1>2
<1>8. rx' = [rx EXCEPT ![p] = rx[p]]
  BY <1>2
<1> QED BY <1>2, <1>5, <1>6, <1>7, <1>8, OneMoves

\* The relay's session of a device ends.
LEMMA ForgetStays ==
  ASSUME TalkInv, Proved!RoomInv, ListenInv, NEW p \in Devices,
         Forget(p), Room!Forgotten(p), UNCHANGED rx
  PROVE  ListenInv'
<1>1. /\ p \in Peers /\ Devices \subseteq Peers /\ HubInv
      /\ room \in [Peers -> Rooms \cup {NoRoom}] /\ told \in [Peers -> Tellings]
      /\ rx[p] \in Tellings /\ rx = [rx EXCEPT ![p] = rx[p]]
  BY ListenFacts, TalkAssumption, HubTypes DEF TalkInv, HubInv, HubTypeOK
<1>2. /\ Leave(p) /\ room' = [room EXCEPT ![p] = NoRoom]
      /\ UNCHANGED <<link, fault, incoming>>
      /\ told' = [told EXCEPT ![p] = Room!Silence]
  BY DEF Forget, Leave, Room!Forgotten
<1>3. ASSUME NEW z \in Devices, Sound(z)' PROVE Sound(z)
  <2>1. Goes(z) => room[z] # NoRoom /\ life[z] = "open"
    BY <1>1, <1>2, RestOpens
  <2> QED BY <1>2, <1>3, <2>1, HubKeepsSound
<1>4. OnItsWay(p)'
  BY <1>1, <1>2 DEF OnItsWay, Sound
<1>5. \A z \in Devices \ {p} : incoming'[z] = incoming[z] /\ told'[z] = told[z]
  BY <1>1, <1>2
<1> QED BY <1>1, <1>2, <1>3, <1>4, <1>5, OneMoves

\* A session begins: nothing waits, and nothing was told.
LEMMA EnterStays ==
  ASSUME TalkInv, Proved!RoomInv, Proved!Untold, ListenInv, NEW p \in Devices,
         NEW r \in Rooms, Enter(p, r), Retune(p), UNCHANGED told
  PROVE  ListenInv'
<1> DEFINE s == Room!Silence
<1>1. /\ p \in Peers /\ Devices \subseteq Peers /\ HubInv
      /\ incoming \in [Devices -> Seq(Packet)] /\ rx \in [Devices -> Tellings]
      /\ link \in [Devices -> BOOLEAN] /\ fault \in [Devices -> BOOLEAN]
  BY ListenFacts, TalkAssumption DEF TalkInv, DeviceTypeOK
<1>2. /\ Join(p, r) /\ room[p] = NoRoom
      /\ incoming' = [incoming EXCEPT ![p] = <<>>]
      /\ link' = [link EXCEPT ![p] = TRUE] /\ fault' = [fault EXCEPT ![p] = FALSE]
      /\ rx' = [rx EXCEPT ![p] = s] /\ told' = told
  BY DEF Enter, Join, Retune
<1>3. told[p] = s
  BY <1>1, <1>2, SameReading DEF Proved!Untold
<1>4. s \in Tellings /\ Way(s, <<>>, s)
  BY WayStart
<1> HIDE DEF s
<1>5. ASSUME NEW z \in Devices \ {p}, Sound(z)' PROVE Sound(z)
  <2>1. Goes(z) => room[z] # NoRoom /\ life[z] = "open"
    BY <1>1, <1>2, RestOpens
  <2>2. link'[z] = link[z] /\ fault'[z] = fault[z]
    BY <1>1, <1>2
  <2> QED BY <1>5, <2>1, <2>2, HubKeepsSound
<1>6. OnItsWay(p)'
  <2>1. rx'[p] = s /\ incoming'[p] = <<>> /\ told'[p] = s
    BY <1>1, <1>2, <1>3
  <2> QED BY <1>4, <2>1 DEF OnItsWay
<1>7. \A z \in Devices \ {p} : incoming'[z] = incoming[z] /\ told'[z] = told[z]
  BY <1>1, <1>2
<1> QED BY <1>2, <1>4, <1>5, <1>6, <1>7, OneMoves

\* Another client reads, or its session ends.
LEMMA OtherStays ==
  ASSUME TalkInv, Proved!RoomInv, ListenInv, NEW p \in Others,
         UNCHANGED <<deviceVars, rx>>,
         \/ Deliver(p) /\ Room!Read(p)
         \/ Leave(p) /\ Room!Forgotten(p)
  PROVE  ListenInv'
<1>1. p \in Peers /\ p \notin Devices /\ Devices \subseteq Peers /\ HubInv
  BY TalkAssumption DEF Others, TalkInv
<1>2. told \in [Peers -> Tellings]
  BY DEF Proved!RoomInv, Proved!RoomTypeOK, Tellings
<1>3. ASSUME NEW z \in Devices
      PROVE  /\ incoming'[z] = incoming[z] /\ told'[z] = told[z]
             /\ rx'[z] = rx[z] /\ Sound(z)' => Sound(z)
  <2>1. told'[z] = told[z]
    BY <1>1, <1>2 DEF Room!Read, Room!Forgotten
  <2>2. UNCHANGED <<incoming, link, fault, rx>>
    BY DEF deviceVars
  <2>3. Goes(z) => room[z] # NoRoom /\ life[z] = "open"
    BY <1>1, RestOpens
  <2>4. Sound(z)' => Sound(z)
    BY <2>2, <2>3, HubKeepsSound
  <2> QED BY <2>1, <2>2, <2>4
<1>4. \A z \in Devices : OnItsWay(z)'
  BY <1>3, WayStays
<1>5. rx' = rx
  OBVIOUS
<1> QED BY <1>4, <1>5 DEF ListenInv

-----------------------------------------------------------------------------
(* The system                                                              *)

\* It begins without a session.
LEMMA ListenBegins == ASSUME ListenInit PROVE ListenInv
<1>1. rx = [p \in Devices |-> Room!Silence] /\ Room!Silence \in Tellings
  BY WayStart DEF ListenInit
<1>2. \A p \in Devices : ~Sound(p)
  BY DEF ListenInit, Init, Sound
<1> QED BY <1>1, <1>2 DEF ListenInv, OnItsWay

\* Every step keeps it.
LEMMA ListenSteps ==
  ASSUME TalkInv, Proved!RoomInv, Proved!AudioInv, Proved!Untold, ListenInv,
         [ListenNext]_listenVars
  PROVE  ListenInv'
<1>1. CASE UNCHANGED listenVars
  <2>1. /\ UNCHANGED <<room, life, link, fault, incoming, rx, told>>
    BY <1>1 DEF listenVars, vars, hubVars, deviceVars
  <2>2. \A q \in Devices : Sound(q)' => Sound(q)
    BY <2>1 DEF Sound
  <2>3. \A q \in Devices : OnItsWay(q)'
    BY <2>1, <2>2, WayStays
  <2> QED BY <2>1, <2>3 DEF ListenInv
<1>2. CASE Unheard /\ UNCHANGED <<rx, told>>
  BY <1>2, UnheardStays
<1>3. ASSUME NEW p \in Devices, Receive(p), Play(p), UNCHANGED told
      PROVE  ListenInv'
  BY <1>3, ReceiveStays
<1>4. ASSUME NEW p \in Devices, Arrive(p), Room!Read(p), UNCHANGED rx
      PROVE  ListenInv'
  BY <1>4, ArriveStays
<1>5. ASSUME NEW p \in Devices, Forget(p), Room!Forgotten(p), UNCHANGED rx
      PROVE  ListenInv'
  BY <1>5, ForgetStays
<1>6. ASSUME NEW p \in Devices, NEW r \in Rooms, Enter(p, r), Retune(p),
             UNCHANGED told
      PROVE  ListenInv'
  BY <1>6, EnterStays
<1>7. ASSUME NEW p \in Others, GoneByOthers(p), Room!Forgotten(p), UNCHANGED rx
      PROVE  ListenInv'
  BY <1>7, OtherStays DEF GoneByOthers
<1>8. ASSUME NEW p \in Behind, Deliver(p), UNCHANGED deviceVars, Room!Read(p),
             UNCHANGED rx
      PROVE  ListenInv'
  BY <1>8, OtherStays DEF Behind
<1>9. CASE ListenStep
  BY <1>2, <1>3, <1>4, <1>5, <1>6, <1>7, <1>9 DEF ListenStep
<1>10. CASE ListenNext
  BY <1>8, <1>9, <1>10 DEF ListenNext
<1> QED BY <1>1, <1>10

\* Each device whose session goes on follows what it is told.
THEOREM ListenInvariant == ListenSpec => []ListenInv
<1>1. ListenInit => ListenInv
  BY ListenBegins
<1>2. TalkInv /\ Proved!RoomInv /\ Proved!AudioInv /\ Proved!Untold
        /\ ListenInv /\ [ListenNext]_listenVars => ListenInv'
  BY ListenSteps
<1>3. ListenSpec => []TalkInv
  BY ListeningIsTalking, TalkInvariant, PTL
<1>4. VoiceAssumption
  BY VoiceAssumption
<1>5. ListenSpec => []Proved!RoomInv
  BY <1>4, ListeningIsInARoom, Proved!RoomInvariant, PTL
<1>6. ListenSpec => []Proved!AudioInv
  BY <1>4, ListeningIsInARoom, Proved!AudioInvariant, PTL
<1>7. ListenSpec => []Proved!Untold
  BY <1>4, ListeningIsInARoom, Proved!NobodyIsTold, PTL
<1> QED BY <1>1, <1>2, <1>3, <1>5, <1>6, <1>7, PTL DEF ListenSpec

\* Every frame that reaches a device whose session goes on is of the stream it
\* plays and later than all it has played (hub.go Audio, pocketlink_voice.c
\* task).
THEOREM ComingIsPlayed == ListenSpec => []PlaysWhatComes
<1>1. ASSUME TalkInv, Proved!RoomInv, ListenInv PROVE PlaysWhatComes
  <2> SUFFICES ASSUME NEW p \in Devices, Sound(p), incoming[p] # <<>>,
                      Head(incoming[p]).kind = "audio"
               PROVE  Fits(rx[p], Head(incoming[p]))
    BY DEF PlaysWhatComes
  <2>1. Way(rx[p], incoming[p], told[p])
    BY <1>1 DEF ListenInv, OnItsWay
  <2> QED BY <1>1, <2>1, ListenFacts, WayFits
<1>2. TalkInv /\ Proved!RoomInv /\ ListenInv => PlaysWhatComes
  BY <1>1
<1>3. ListenSpec => []TalkInv
  BY ListeningIsTalking, TalkInvariant, PTL
<1>4. VoiceAssumption
  BY VoiceAssumption
<1>5. ListenSpec => []Proved!RoomInv
  BY <1>4, ListeningIsInARoom, Proved!RoomInvariant, PTL
<1> QED BY <1>2, <1>3, <1>5, ListenInvariant, PTL
=============================================================================
