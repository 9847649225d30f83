----------------------------- MODULE PushToTalk -----------------------------
(***************************************************************************)
(* The device's push-to-talk (pocketlink_ptt.c, pocketlink_voice.c) with   *)
(* the relay's voice hub (VoiceHub), over one websocket per session.  The  *)
(* other peers are clients that send anything at any time.                 *)
(*                                                                         *)
(* On the device, the button's callback sets `held', the websocket's       *)
(* callback fills the queue `incoming', and the voice task goes round a    *)
(* loop: it looks at the button, asks or gives up the floor, handles what  *)
(* came in, and sends one frame.  What the task sends waits in `up' until  *)
(* the relay's reader takes it.  `incoming' includes the messages on their *)
(* way to the device.                                                      *)
(*                                                                         *)
(* The text of the display is left out; what the task plays of what comes  *)
(* in is in Listening.                                                     *)
(***************************************************************************)
EXTENDS VoiceHub

CONSTANTS UpLimit, IncomingLimit, \* what a connection and the queue hold
          Devices,                \* the peers that are devices
          MaxAsks,                \* bound: requests of all devices
          Flaky                   \* bound: devices whose network or codec fails

ASSUME TalkAssumption ==
  /\ {UpLimit, IncomingLimit, MaxAsks} \subseteq Nat /\ MaxGap > 0
  /\ Devices \subseteq Peers /\ Flaky \subseteq Devices

VARIABLES
  held,      \* the button, as the callbacks left it
  ptt,       \* pl_ptt, and the last frame sent of its stream
  pc,        \* where the voice task is: "top", "receive", "send" or "end"
  fault,     \* the session is over, though the task may not have seen it
  link,      \* the device's side of the websocket is open
  up, incoming,
  asks       \* requests made so far

deviceVars == <<held, ptt, pc, fault, link, up, incoming, asks>>
vars == <<hubVars, deviceVars>>

Fresh == [held |-> FALSE, armed |-> TRUE, pending |-> 0, stream |-> 0,
          request |-> 0, seq |-> 0]

Init ==
  /\ HubInit
  /\ held = [p \in Devices |-> FALSE]
  /\ ptt = [p \in Devices |-> Fresh]
  /\ pc = [p \in Devices |-> "end"]
  /\ fault = [p \in Devices |-> FALSE]
  /\ link = [p \in Devices |-> FALSE]
  /\ up = [p \in Devices |-> <<>>]
  /\ incoming = [p \in Devices |-> <<>>]
  /\ asks = 0

Ask(q)      == [kind |-> "request", stream |-> 0, n |-> q]
GiveBack(s) == [kind |-> "release", stream |-> s, n |-> 0]

-----------------------------------------------------------------------------
(* The button and the connection, on the device                            *)

Button(p) ==
  /\ pc[p] # "end"
  /\ held' = [held EXCEPT ![p] = ~@]
  /\ UNCHANGED <<hubVars, ptt, pc, fault, link, up, incoming, asks>>

\* pl_voice_start, up to the hub's Join.  While the relay still has the old
\* session it answers 409, and the device may try again.
Enter(p, r) ==
  /\ pc[p] = "end" /\ ~link[p]
  /\ Join(p, r)
  /\ pc' = [pc EXCEPT ![p] = "top"]
  /\ fault' = [fault EXCEPT ![p] = FALSE]
  /\ link' = [link EXCEPT ![p] = TRUE]
  /\ up' = [up EXCEPT ![p] = <<>>]
  /\ incoming' = [incoming EXCEPT ![p] = <<>>]
  /\ UNCHANGED <<held, ptt, asks>>

\* The websocket reports the end of the connection; what was on its way is
\* read by the relay, and by the task until it looks at `fault'.
Cut(p) ==
  /\ link[p]
  /\ link' = [link EXCEPT ![p] = FALSE]
  /\ held' = [held EXCEPT ![p] = FALSE]
  /\ fault' = [fault EXCEPT ![p] = TRUE]
  /\ UNCHANGED <<hubVars, ptt, pc, up, incoming, asks>>

\* The task leaves its loop and forgets its state; the websocket stays open.
End(p) ==
  /\ pc' = [pc EXCEPT ![p] = "end"]
  /\ held' = [held EXCEPT ![p] = FALSE]
  /\ fault' = [fault EXCEPT ![p] = TRUE]
  /\ ptt' = [ptt EXCEPT ![p] = Fresh]

\* pl_voice_stop: the task has seen `running' or has ended before.
Quit(p) ==
  /\ link[p] /\ pc[p] \in {"top", "end"}
  /\ End(p)
  /\ link' = [link EXCEPT ![p] = FALSE]
  /\ UNCHANGED <<hubVars, up, incoming, asks>>

-----------------------------------------------------------------------------
(* The voice task: pl_ptt becomes t and the task goes on at `to'           *)

Go(p, t, to) ==
  /\ ptt' = [ptt EXCEPT ![p] = t]
  /\ pc' = [pc EXCEPT ![p] = to]
  /\ UNCHANGED <<held, fault>>

\* Mutant of CanSend: waits for room for ever and never has none.
CanSendAnything(p) == link[p]

\* What is sent after the relay left is lost; a send that has no room for
\* 100 ms ends the task.
CanSend(p) == link[p] /\ Len(up[p]) < UpLimit

SendAndGo(p, m, t, to) ==
  \/ /\ CanSend(p)
     /\ up' = IF room[p] = NoRoom THEN up ELSE [up EXCEPT ![p] = Append(@, m)]
     /\ Go(p, t, to)
  \/ ~CanSend(p) /\ End(p) /\ UNCHANGED up

\* The top of the loop: pl_ptt_hold, then pl_ptt_request, pl_ptt_timeout and
\* pl_ptt_expire, at most one of which finds something to do.
AtTop(p) == pc[p] = "top" /\ ~fault[p]
Pressed(p) == [ptt[p] EXCEPT !.held = TRUE]
MayAsk(t) == t.armed /\ t.pending = 0 /\ t.stream = 0

\* Mutant of LetGo: keeps the floor when the button goes up.
LetGoQuietly(p) ==
  /\ AtTop(p) /\ ~held[p]
  /\ Go(p, [ptt[p] EXCEPT !.held = FALSE, !.armed = TRUE, !.pending = 0,
                          !.stream = 0], "receive")
  /\ UNCHANGED <<hubVars, link, up, incoming, asks>>

LetGo(p) ==
  /\ AtTop(p) /\ ~held[p]
  /\ LET t == [ptt[p] EXCEPT !.held = FALSE, !.armed = TRUE, !.pending = 0,
                             !.stream = 0]
     IN  IF ptt[p].stream # 0
         THEN SendAndGo(p, GiveBack(ptt[p].stream), t, "receive")
         ELSE Go(p, t, "receive") /\ UNCHANGED up
  /\ UNCHANGED <<hubVars, link, incoming, asks>>

AskForFloor(p) ==
  /\ AtTop(p) /\ held[p] /\ MayAsk(ptt[p])
  /\ asks < MaxAsks /\ asks' = asks + 1
  /\ LET q == ptt[p].request + 1
     IN  SendAndGo(p, Ask(q), [Pressed(p) EXCEPT
           !.request = q, !.pending = q, !.armed = FALSE], "receive")
  /\ UNCHANGED <<hubVars, link, incoming>>

\* No answer within 3 s.
TimeOut(p) ==
  /\ AtTop(p) /\ held[p] /\ ptt[p].pending # 0
  /\ Go(p, [Pressed(p) EXCEPT !.pending = 0], "receive")
  /\ UNCHANGED <<hubVars, link, up, incoming, asks>>

\* 29 s of talking.
Expire(p) ==
  /\ AtTop(p) /\ held[p] /\ ptt[p].stream # 0
  /\ SendAndGo(p, GiveBack(ptt[p].stream), [Pressed(p) EXCEPT !.stream = 0],
               "receive")
  /\ UNCHANGED <<hubVars, link, incoming, asks>>

Idle(p) ==
  /\ AtTop(p) /\ held[p] /\ (MayAsk(ptt[p]) => asks = MaxAsks)
  /\ Go(p, Pressed(p), "receive")
  /\ UNCHANGED <<hubVars, link, up, incoming, asks>>

\* pl_ptt_grant with the button as it is now.
Wanted(p, m) ==
  /\ held[p] /\ ptt[p].held
  /\ ptt[p].pending # 0 /\ m.n = ptt[p].pending

\* Mutant of Heard: talks on when the floor is somebody else's.
HeardNoFloor(t, m) ==
  [t EXCEPT !.pending = IF m.kind = "busy" /\ m.n = @ THEN 0 ELSE @]

\* Busy, floor and audio: what is left of the request and of the stream.
Heard(t, m) ==
  [t EXCEPT !.pending = IF m.kind = "busy" /\ m.n = @ THEN 0 ELSE @,
            !.stream = IF m.kind = "floor" /\ m.stream # @ THEN 0 ELSE @]

\* One message of a batch of at most four, after which the batch may end.
Receive(p) ==
  /\ pc[p] = "receive" /\ incoming[p] # <<>>
  /\ incoming' = [incoming EXCEPT ![p] = Tail(@)]
  /\ \E to \in {"receive", "send"} :
       LET m == Head(incoming[p])
       IN  \/ /\ m.kind # "grant"
              /\ Go(p, Heard(ptt[p], m), to) /\ UNCHANGED up
           \/ /\ m.kind = "grant" /\ Wanted(p, m)
              /\ Go(p, [ptt[p] EXCEPT !.stream = m.stream, !.pending = 0,
                                      !.seq = 0], to)
              /\ UNCHANGED up
           \/ /\ m.kind = "grant" /\ ~Wanted(p, m)
              /\ SendAndGo(p, GiveBack(m.stream), ptt[p], to)
  /\ UNCHANGED <<hubVars, link, asks>>

\* The end of the loop's body: one frame of 20 ms, or a pause.
Received(p) == pc[p] = "send" \/ (pc[p] = "receive" /\ incoming[p] = <<>>)

\* Mutant of Transmit: numbers the frames from zero.
TransmitFromZero(p) ==
  /\ Received(p) /\ ~fault[p]
  /\ LET t == ptt[p]
     IN  IF t.stream # 0 /\ held[p] /\ t.seq < MaxSeq
         THEN SendAndGo(p, Audio(t.stream, t.seq), [t EXCEPT !.seq = @ + 1],
                        "top")
         ELSE Go(p, t, "top") /\ UNCHANGED up
  /\ UNCHANGED <<hubVars, link, incoming, asks>>

Transmit(p) ==
  /\ Received(p) /\ ~fault[p]
  /\ LET t == ptt[p]
     IN  IF t.stream # 0 /\ held[p] /\ t.seq < MaxSeq
         THEN SendAndGo(p, Audio(t.stream, t.seq + 1),
                        [t EXCEPT !.seq = @ + 1], "top")
         ELSE Go(p, t, "top") /\ UNCHANGED up
  /\ UNCHANGED <<hubVars, link, incoming, asks>>

\* On a fault, or because the codec fails.
Finish(p) ==
  /\ fault[p] \/ p \in Flaky
  /\ pc[p] = "top" \/ Received(p)
  /\ End(p)
  /\ UNCHANGED <<hubVars, link, up, incoming, asks>>

Work(p) ==
  \/ LetGo(p) \/ AskForFloor(p) \/ TimeOut(p) \/ Expire(p) \/ Idle(p)
  \/ Transmit(p) \/ Finish(p)

Task(p) == Work(p) \/ Receive(p)

-----------------------------------------------------------------------------
(* The relay's session, at the other end of the connection                 *)

Serve(p) ==
  /\ Reading(p) /\ up[p] # <<>>
  /\ up' = [up EXCEPT ![p] = Tail(@)]
  /\ LET m == Head(up[p])
     IN  \/ m.kind = "request" /\ Request(p, m.n)
         \/ m.kind = "release" /\ Release(p, m.stream)
         \/ m.kind = "audio" /\ SendAudio(p, m.stream, m.n)
  /\ UNCHANGED <<held, ptt, pc, fault, link, incoming, asks>>

\* Mutant of Arrive: a full queue loses the message and nothing else.
ArriveOrLose(p) ==
  /\ Deliver(p)
  /\ incoming' = IF Len(incoming[p]) >= IncomingLimit \/ ~link[p]
                    \/ pc[p] = "end" THEN incoming
                 ELSE [incoming EXCEPT ![p] = Append(@, Head(out[p]))]
  /\ UNCHANGED <<held, ptt, pc, fault, link, up, asks>>

\* The device's queue takes the message, or its session is over.
Arrive(p) ==
  /\ Deliver(p)
  /\ LET full == Len(incoming[p]) >= IncomingLimit
     IN  /\ incoming' = IF full \/ ~link[p] \/ pc[p] = "end" THEN incoming
                        ELSE [incoming EXCEPT ![p] = Append(@, Head(out[p]))]
         /\ fault' = [fault EXCEPT ![p] = @ \/ full]
  /\ UNCHANGED <<held, ptt, pc, link, up, asks>>

Forget(p) ==
  /\ Leave(p)
  /\ up' = [up EXCEPT ![p] = <<>>]
  /\ UNCHANGED <<held, ptt, pc, fault, link, incoming, asks>>

\* The connection ends: the device's side is gone, or the network is bad.
Lost(p) == p \in Flaky \/ ~link[p]

HubNotices(p) ==
  /\ Lost(p) /\ (Hangup(p) \/ Fail(p))
  /\ UNCHANGED deviceVars

DeviceNotices(p) == (p \in Flaky \/ room[p] = NoRoom) /\ Cut(p)

\* Everybody else in the room: browsers, and any client that keeps to no rule.
\* Bound: their queues are emptied before anything else happens; what a slow
\* client does to itself and to the room is checked in VoiceHub.
Others == Peers \ Devices
Behind == {p \in Others : out[p] # <<>>}

ByOthers(p) ==
  \/ Handle(p) \/ Recheck(p) \/ Fail(p) \/ Hangup(p)
  \/ \E r \in Rooms : Join(p, r)

OnTheRelay ==
  /\ \/ \E p \in Devices : Discard(p)
     \/ \E p \in Peers : Tick(p)
     \/ \E p \in Others : ByOthers(p)
     \/ \E r \in Rooms : TimePasses(r)
  /\ UNCHANGED deviceVars

GoneByOthers(p) == Leave(p) /\ UNCHANGED deviceVars

\* What no device hears of in this step.
Unheard ==
  \/ \E p \in Devices :
       \/ Button(p) \/ Quit(p) \/ Work(p) \/ Serve(p) \/ HubNotices(p)
       \/ DeviceNotices(p)
  \/ OnTheRelay

Step ==
  \/ Unheard
  \/ \E p \in Devices :
       \/ Receive(p) \/ Arrive(p) \/ Forget(p)
       \/ \E r \in Rooms : Enter(p, r)
  \/ \E p \in Others : GoneByOthers(p)

CatchUp == \E p \in Behind : Deliver(p) /\ UNCHANGED deviceVars

Next == (Behind = {} /\ Step) \/ CatchUp

Spec == Init /\ [][Next]_vars

\* The voice task and the relay's session run, and each side learns that the
\* other has closed the connection.  Nobody has to press, ask, or wait for a
\* lease or a time-out.
Fairness ==
  /\ WF_vars(CatchUp)
  /\ \A p \in Devices :
       /\ WF_vars(Task(p)) /\ WF_vars(Serve(p)) /\ WF_vars(Arrive(p))
       /\ WF_vars(Forget(p))
       /\ WF_vars(~link[p] /\ HubNotices(p))
       /\ WF_vars(room[p] = NoRoom /\ DeviceNotices(p))

FairSpec == Spec /\ Fairness

-----------------------------------------------------------------------------
(* Properties                                                              *)

Upward ==
  [kind : {"request", "release", "audio"}, stream : Nat, n : Nat]

TalkTypeOK ==
  /\ HubTypeOK
  /\ held \in [Devices -> BOOLEAN] /\ fault \in [Devices -> BOOLEAN]
  /\ link \in [Devices -> BOOLEAN]
  /\ ptt \in [Devices -> [held : BOOLEAN, armed : BOOLEAN, pending : Nat,
                        stream : Nat, request : Nat, seq : Nat]]
  /\ pc \in [Devices -> {"top", "receive", "send", "end"}]
  /\ up \in [Devices -> Seq(Upward)]
  /\ incoming \in [Devices -> Seq(Packet)]
  /\ \A p \in Devices : /\ Len(up[p]) <= UpLimit
                      /\ Len(incoming[p]) <= IncomingLimit
  /\ asks \in 0..MaxAsks

\* Both ends still count on the session.
Sound(p) ==
  /\ room[p] # NoRoom /\ life[p] = "open"
  /\ link[p] /\ ~fault[p]

Coming(p) == incoming[p] \o out[p]
Holds(p, s) == floors[room[p]].owner = p /\ floors[room[p]].stream = s

\* A device that captures the microphone has the floor, or the message that
\* tells it otherwise is on its way (pl_ptt_floor, hub.go state): a lease that
\* ends, or a floor given to another, never leaves it talking to nobody.
SpeakerWillKnow ==
  \A p \in Devices : (Sound(p) /\ ptt[p].stream # 0) =>
    \/ Holds(p, ptt[p].stream)
    \/ \E i \in DOMAIN Coming(p) : /\ Coming(p)[i].kind = "floor"
                                   /\ Coming(p)[i].stream # ptt[p].stream

\* The floor is never held by a device that does not know: it is used, or its
\* grant is on its way, or it is being given back, late grants included
\* (docs/development/voice.en.md: "A grant arriving after release is
\* immediately surrendered").
FloorIsAccountedFor ==
  \A p \in Devices, s \in 1..MaxStream + MaxAsks : (Sound(p) /\ Holds(p, s)) =>
    \/ ptt[p].stream = s
    \/ \E i \in DOMAIN Coming(p) : /\ Coming(p)[i].kind = "grant"
                                   /\ Coming(p)[i].stream = s
    \/ \E i \in DOMAIN up[p] : up[p][i] = GiveBack(s)

\* The hub ends the session of a device for a frame of the stream it talks on
\* only if the floor was taken from it and it will hear of that, or if the
\* frame is beyond the rate of the second (hub.go Audio): whatever the device
\* asked for and gave up before, its frames come with the stream and in the
\* order the hub asks for.
FramesAreCarried ==
  \A p \in Devices :
    (Sound(p) /\ up[p] # <<>> /\ ptt[p].stream # 0
      /\ Head(up[p]).kind = "audio" /\ Head(up[p]).stream = ptt[p].stream)
    => \/ Carried(floors[room[p]], p, ptt[p].stream, Head(up[p]).n)
       \/ /\ InTurn(floors[room[p]], p, ptt[p].stream, Head(up[p]).n)
          /\ floors[room[p]].frames = MaxRate
       \/ \E i \in DOMAIN Coming(p) : /\ Coming(p)[i].kind = "floor"
                                      /\ Coming(p)[i].stream # ptt[p].stream

\* A floor nobody talks on comes back without waiting for its lease, while the
\* device's voice task lives: its grant may come late, be refused by the
\* device, or be lost with the session.
UnusedFloorReturns ==
  \A p \in Devices, s \in 1..MaxStream + MaxAsks :
    (room[p] # NoRoom /\ Holds(p, s) /\ ~held[p])
      ~> (room[p] = NoRoom \/ ~Holds(p, s) \/ held[p] \/ pc[p] = "end")

\* While the button stays down, a request that was sent is answered with a
\* grant or with busy, or its session ends, even if the device never gives up
\* waiting.  (A button that goes up and down again between two laps of the task
\* loses the answer: the grant is given back, and the request waits for its
\* time-out.)
AskIsAnswered ==
  \A p \in Devices, q \in 1..MaxAsks :
    (ptt[p].pending = q /\ \E i \in DOMAIN up[p] : up[p][i] = Ask(q))
      ~> (ptt[p].pending # q \/ ~held[p])
=============================================================================
