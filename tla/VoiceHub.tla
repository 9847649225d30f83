------------------------------ MODULE VoiceHub ------------------------------
(***************************************************************************)
(* The relay's live voice (services/relay/internal/voice/hub.go and the    *)
(* session around it, httpapi/voice.go): each room has one floor, a peer   *)
(* that holds it may send audio, and everybody in the room is told who     *)
(* holds it.                                                               *)
(*                                                                         *)
(* Every method of the hub runs under its mutex and is one action.  A      *)
(* session is a reader, a writer that empties the peer's queue, and a      *)
(* ticker; cancelling its context stops all three, but the reader may      *)
(* still handle what it has read, and the peer leaves last.                *)
(*                                                                         *)
(* `streams' holds a session's key until after it left, so a peer has one  *)
(* session at a time.  Stream numbers wrap at 2^32, which the bounded      *)
(* number of requests never reaches.                                       *)
(***************************************************************************)
EXTENDS Naturals, FiniteSets, Sequences

CONSTANTS Peers, Rooms,
          NoRoom,       \* the room of a peer without a session
          Nobody,       \* the owner of a free floor
          MaxPeers, QueueLimit, MaxGap,  \* 32, 16 and 100 in the source
          MaxRate,      \* 60 in the source: frames of a stream in a second
          MaxStream, MaxSeq,  \* bounds: streams granted, frames of a stream
          Watched       \* bound: the peers whose permission changes

ASSUME VoiceAssumption ==
  /\ NoRoom \notin Rooms
  /\ Nobody \notin Peers /\ Watched \subseteq Peers
  /\ {MaxPeers, QueueLimit, MaxGap, MaxRate, MaxStream, MaxSeq} \subseteq Nat
  /\ QueueLimit > 0

VARIABLES
  room,     \* the room of each peer in `peers'
  floors,   \* who speaks in each room, in which stream, the last frame of it,
            \* whether the lease is over, and the frames of this second
  next,     \* the last stream number given
  out,      \* the queue of each peer
  life,     \* a session is "open", cancelled ("stopped"), or has stopped
            \* reading for good ("closing")
  allowed   \* <<peer, room>> that VoiceIdentity accepts

hubVars == <<room, floors, next, out, life, allowed>>

Held(p, s) ==
  [owner |-> p, stream |-> s, seq |-> 0, over |-> FALSE, frames |-> 0]
Free == Held(Nobody, 0)

Floor(s)    == [kind |-> "floor", stream |-> s, n |-> 0]
Grant(s, q) == [kind |-> "grant", stream |-> s, n |-> q]
Busy(q)     == [kind |-> "busy",  stream |-> 0, n |-> q]
Audio(s, n) == [kind |-> "audio", stream |-> s, n |-> n]

HubInit ==
  /\ room = [p \in Peers |-> NoRoom]
  /\ floors = [r \in Rooms |-> Free]
  /\ next = 0
  /\ out = [p \in Peers |-> <<>>]
  /\ life = [p \in Peers |-> "open"]
  /\ allowed = Peers \X Rooms

Joined == {p \in Peers : room[p] # NoRoom}

-----------------------------------------------------------------------------
(* Messages: ms[p] is what one call sends to p, in order                   *)

Nothing == [p \in Peers |-> <<>>]
To(p, m) == [Nothing EXCEPT ![p] = <<m>>]
ToRoom(at, r, m) == [p \in Peers |-> IF at[p] = r THEN <<m>> ELSE <<>>]
Then(a, b) == [p \in Peers |-> a[p] \o b[p]]

Queued(ms) == IF Len(ms) > QueueLimit THEN SubSeq(ms, 1, QueueLimit) ELSE ms

\* A full queue loses the message and cancels the peer's session.
Push(queue, state, ms) ==
  /\ out' = [p \in Peers |-> Queued(queue[p] \o ms[p])]
  /\ life' = [p \in Peers |->
       IF state[p] = "open" /\ Len(queue[p] \o ms[p]) > QueueLimit
       THEN "stopped" ELSE state[p]]

\* expire: the floors that are left, and what the rooms of the others hear.
Expired == {r \in Rooms : floors[r].over}
Swept == [r \in Rooms |-> IF r \in Expired THEN Free ELSE floors[r]]
\* Mutant of Notices: ends the lease in silence.
NoNotices(at) == Nothing

Notices(at) ==
  [p \in Peers |-> IF at[p] \in Expired THEN <<Floor(0)>> ELSE <<>>]

-----------------------------------------------------------------------------
(* The hub                                                                 *)

Join(p, r) ==
  /\ room[p] = NoRoom
  /\ <<p, r>> \in allowed
  /\ Cardinality(Joined) < MaxPeers
  /\ room' = [room EXCEPT ![p] = r]
  /\ floors' = Swept
  /\ Push(out, life, Then(Notices(room'), To(p, Floor(Swept[r].stream))))
  /\ UNCHANGED <<next, allowed>>

\* Mutant of Refuse: says nothing to whom it turns down.
RefuseSilently(p, q) ==
  /\ Swept[room[p]] # Free
  /\ floors' = Swept
  /\ Push(out, life, Notices(room))
  /\ UNCHANGED next

\* Request: busy while anybody, the peer itself included, has the floor.
Refuse(p, q) ==
  /\ Swept[room[p]] # Free
  /\ floors' = Swept
  /\ Push(out, life, Then(Notices(room), To(p, Busy(q))))
  /\ UNCHANGED next

\* Mutant of Granted: tells the peer and not its room.
GrantedInSecret(p, q, s) == To(p, Grant(s, q))

\* The room hears of it before the peer gets its grant.
Granted(p, q, s) == Then(ToRoom(room, room[p], Floor(s)), To(p, Grant(s, q)))

Give(p, q) ==
  /\ Swept[room[p]] = Free
  /\ next' = next + 1
  /\ floors' = [Swept EXCEPT ![room[p]] = Held(p, next + 1)]
  /\ Push(out, life, Then(Notices(room), Granted(p, q, next + 1)))

Request(p, q) ==
  /\ Refuse(p, q) \/ Give(p, q)
  /\ UNCHANGED <<room, allowed>>

Release(p, s) ==
  /\ IF floors[room[p]].owner = p /\ floors[room[p]].stream = s
     THEN /\ floors' = [floors EXCEPT ![room[p]] = Free]
          /\ Push(out, life, ToRoom(room, room[p], Floor(0)))
     ELSE UNCHANGED <<floors, out, life>>
  /\ UNCHANGED <<room, next, allowed>>

\* A frame of the stream, after the last one.
InTurn(f, p, s, n) ==
  f.owner = p /\ f.stream = s /\ f.seq < n /\ n - f.seq <= MaxGap

Carried(f, p, s, n) == InTurn(f, p, s, n) /\ f.frames < MaxRate
Counted(f, n) == [f EXCEPT !.seq = n, !.frames = f.frames + 1]

\* Audio: a frame the hub refuses ends the session.  The code also counts the
\* frame beyond the rate, which is its sender's last.
SendAudio(p, s, n) ==
  /\ IF Carried(Swept[room[p]], p, s, n)
     THEN /\ floors' = [Swept EXCEPT ![room[p]] = Counted(@, n)]
          /\ Push(out, life, Then(Notices(room),
               [ToRoom(room, room[p], Audio(s, n)) EXCEPT ![p] = <<>>]))
     ELSE /\ floors' = Swept
          /\ Push(out, [life EXCEPT ![p] = "closing"], Notices(room))
  /\ UNCHANGED <<room, next, allowed>>

\* Mutant of Leave: the floor outlives its peer.
LeaveFloorBehind(p) ==
  /\ room[p] # NoRoom /\ life[p] # "open"
  /\ room' = [room EXCEPT ![p] = NoRoom]
  /\ out' = [out EXCEPT ![p] = <<>>]
  /\ life' = [life EXCEPT ![p] = "open"]
  /\ UNCHANGED <<floors, next, allowed>>

Leave(p) ==
  /\ room[p] # NoRoom /\ life[p] # "open"
  /\ room' = [room EXCEPT ![p] = NoRoom]
  /\ LET r == room[p]
         queue == [out EXCEPT ![p] = <<>>]
         state == [life EXCEPT ![p] = "open"]
     IN  IF floors[r].owner = p
         THEN /\ floors' = [floors EXCEPT ![r] = Free]
              /\ Push(queue, state, ToRoom(room', r, Floor(0)))
         ELSE floors' = floors /\ out' = queue /\ life' = state
  /\ UNCHANGED <<next, allowed>>

-----------------------------------------------------------------------------
(* The session                                                             *)

Reading(p) == room[p] # NoRoom /\ life[p] # "closing"

\* The writer.
Deliver(p) ==
  /\ room[p] # NoRoom /\ out[p] # <<>>
  /\ out' = [out EXCEPT ![p] = Tail(@)]
  /\ UNCHANGED <<room, floors, next, life, allowed>>

\* A frame that waited more than 160 ms is not sent.
Discard(p) ==
  /\ room[p] # NoRoom /\ out[p] # <<>> /\ Head(out[p]).kind = "audio"
  /\ out' = [out EXCEPT ![p] = Tail(@)]
  /\ UNCHANGED <<room, floors, next, life, allowed>>

\* The ticker, once a second: leases, then the permission.
Tick(p) ==
  /\ room[p] # NoRoom /\ life[p] = "open"
  /\ Expired # {}
  /\ floors' = Swept
  /\ Push(out, life, Notices(room))
  /\ UNCHANGED <<room, next, allowed>>

\* Mutant of Recheck: asks only when the peer sends something.
NoRecheck(p) == FALSE /\ UNCHANGED hubVars

Recheck(p) ==
  /\ room[p] # NoRoom /\ life[p] = "open"
  /\ <<p, room[p]>> \notin allowed
  /\ life' = [life EXCEPT ![p] = "stopped"]
  /\ UNCHANGED <<room, floors, next, out, allowed>>

\* A write that fails or lasts 500 ms, or a ping without answer.
Fail(p) ==
  /\ room[p] # NoRoom /\ life[p] = "open"
  /\ life' = [life EXCEPT ![p] = "stopped"]
  /\ UNCHANGED <<room, floors, next, out, allowed>>

\* The reader returns: the connection is closed, the context cancelled, a
\* message is malformed, a control message over the rate of those, or the
\* permission is gone.
Hangup(p) ==
  /\ Reading(p)
  /\ life' = [life EXCEPT ![p] = "closing"]
  /\ UNCHANGED <<room, floors, next, out, allowed>>

\* A peer that sends anything.  The reader may use a permission that was right
\* up to a second ago.
Handle(p) ==
  /\ Reading(p)
  /\ \/ next < MaxStream /\ Request(p, 1)
     \/ \E s \in 0..next : Release(p, s)
     \/ \E s \in 1..next, n \in 1..MaxSeq : SendAudio(p, s, n)

-----------------------------------------------------------------------------
(* Time, and the rest of the relay                                         *)

LeaseElapses(r) ==
  /\ floors[r] # Free /\ ~floors[r].over
  /\ floors' = [floors EXCEPT ![r].over = TRUE]
  /\ UNCHANGED <<room, next, out, life, allowed>>

\* A second of the speaker's frames is over.
WindowElapses(r) ==
  /\ floors[r].frames # 0
  /\ floors' = [floors EXCEPT ![r].frames = 0]
  /\ UNCHANGED <<room, next, out, life, allowed>>

TimePasses(r) == LeaseElapses(r) \/ WindowElapses(r)

Permit(p, r) ==
  /\ p \in Watched
  /\ allowed' = allowed \cup {<<p, r>>}
  /\ UNCHANGED <<room, floors, next, out, life>>

Deny(p, r) ==
  /\ p \in Watched
  /\ allowed' = allowed \ {<<p, r>>}
  /\ UNCHANGED <<room, floors, next, out, life>>

-----------------------------------------------------------------------------
Packet ==
  [kind : {"floor", "grant", "busy", "audio"}, stream : Nat, n : Nat]

HubTypeOK ==
  /\ room \in [Peers -> Rooms \cup {NoRoom}]
  /\ floors \in [Rooms -> [owner : Peers \cup {Nobody}, stream : Nat,
                           seq : Nat, over : BOOLEAN, frames : 0..MaxRate]]
  /\ next \in Nat
  /\ out \in [Peers -> Seq(Packet)]
  /\ \A p \in Peers : Len(out[p]) <= QueueLimit
  /\ life \in [Peers -> {"open", "stopped", "closing"}]
  /\ allowed \subseteq Peers \X Rooms

\* A floor belongs to a peer that is in its room, whatever ended the session
\* of an earlier speaker (hub.go Leave): otherwise nobody could speak there
\* before the lease runs out.
FloorHasPeer ==
  \A r \in Rooms :
    floors[r] # Free => \E p \in Peers : floors[r].owner = p /\ room[p] = r
=============================================================================
