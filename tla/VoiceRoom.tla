----------------------------- MODULE VoiceRoom ------------------------------
(***************************************************************************)
(* The relay's voice hub with clients that send anything at any time, and  *)
(* what it promises them.                                                  *)
(***************************************************************************)
EXTENDS VoiceHub

VARIABLE told  \* what was written to each peer of a room last: the stream of
               \* a floor message, and the last frame after it

vars == <<hubVars, told>>

Silence == [stream |-> 0, seq |-> 0]

Init == HubInit /\ told = [p \in Peers |-> Silence]

\* Who knew t and reads the message m.
After(t, m) ==
  IF m.kind = "floor" THEN [stream |-> m.stream, seq |-> 0]
  ELSE IF m.kind = "audio" THEN [t EXCEPT !.seq = m.n]
  ELSE t

Read(p) == told' = [told EXCEPT ![p] = After(@, Head(out[p]))]
Forgotten(p) == told' = [told EXCEPT ![p] = Silence]

\* What the rest of the relay does to a session or with it.
Apart(p) ==
  \/ Discard(p) \/ Tick(p) \/ Recheck(p) \/ Fail(p) \/ Hangup(p)
  \/ \E r \in Rooms : Join(p, r) \/ Permit(p, r) \/ Deny(p, r)

Next ==
  \/ \E p \in Peers :
       \/ Deliver(p) /\ Read(p)
       \/ Leave(p) /\ Forgotten(p)
       \/ (Handle(p) \/ Apart(p)) /\ UNCHANGED told
  \/ \E r \in Rooms : TimePasses(r) /\ UNCHANGED told

Spec == Init /\ [][Next]_vars

\* The same without the bounds of Handle, which no proof needs.
HandleAny(p) ==
  /\ Reading(p)
  /\ \E s \in Nat, n \in Nat : Request(p, n) \/ Release(p, s) \/ SendAudio(p, s, n)

AnyNext ==
  Next \/ \E p \in Peers : HandleAny(p) /\ UNCHANGED told

AnySpec == Init /\ [][AnyNext]_vars

\* Time passes, the ticker runs, and a cancelled session is taken down.
FairSpec ==
  /\ Spec
  /\ \A r \in Rooms : WF_vars(LeaseElapses(r) /\ UNCHANGED told)
  /\ \A p \in Peers :
       /\ WF_vars(Tick(p) /\ UNCHANGED told)
       /\ WF_vars(Recheck(p) /\ UNCHANGED told)
       /\ WF_vars(Leave(p) /\ Forgotten(p))

-----------------------------------------------------------------------------
(* Properties                                                              *)

RoomTypeOK == HubTypeOK /\ told \in [Peers -> [stream : Nat, seq : Nat]]

\* Who knew of stream t and reads the messages ms knows of stream s then.
Hears(ms, t, s) ==
  LET F == {i \in DOMAIN ms : ms[i].kind = "floor"}
  IN  \/ F = {} /\ t = s
      \/ \E i \in F : ms[i].stream = s /\ \A j \in F : j <= i

\* Whatever happens to the floor, by requests, releases, leases and sessions
\* that end, each peer of the room whose session goes on has been told of it
\* or will be by its queue (hub.go state): nobody sees a floor taken that is
\* free.
PeersKnowFloor ==
  \A p \in Joined :
    life[p] = "open" => Hears(out[p], told[p].stream, floors[room[p]].stream)

\* Audio reaches a peer after the floor message it belongs to, before the next
\* one, and in the order of its frames (hub.go Audio, Request): a client that
\* plays only the stream it was told of loses nothing and plays nothing of
\* another room.
AudioFollowsFloor ==
  \A p \in Joined : life[p] = "open" =>
    \A k \in DOMAIN out[p] : out[p][k].kind = "audio" =>
      /\ Hears(SubSeq(out[p], 1, k - 1), told[p].stream, out[p][k].stream)
      /\ out[p][k].stream = told[p].stream => told[p].seq < out[p][k].n
      /\ \A j \in 1..k-1 : out[p][j].kind = "audio"
                           /\ out[p][j].stream = out[p][k].stream
                           => out[p][j].n < out[p][k].n

\* No peer keeps the floor for ever: the lease ends, or the session does, and
\* in both cases the hub frees the room (hub.go expire, Leave; voice.go's
\* ticker).
FloorReturns ==
  \A r \in Rooms, s \in 1..MaxStream :
    floors[r].stream = s ~> floors[r].stream # s

\* Removing a device or user, archiving a room or revoking a credential ends
\* the voice session even when the peer only listens
\* (docs/development/voice.en.md:11, voice.go's ticker).
DeniedLeaves ==
  \A p \in Peers, r \in Rooms :
    (room[p] = r /\ <<p, r>> \notin allowed)
      ~> (room[p] # r \/ <<p, r>> \in allowed)
=============================================================================
