----------------------------- MODULE Listening ------------------------------
(***************************************************************************)
(* What a device plays.  To the push-to-talk of PushToTalk this adds the   *)
(* other half of the voice task (pocketlink_voice.c): it follows the floor *)
(* messages and plays the frames of the stream they name, each later than  *)
(* the one played before.                                                  *)
(*                                                                         *)
(* `told' is the history variable of VoiceRoom: the hub together with      *)
(* these devices is a VoiceRoom, and what that promises a peer's queue is  *)
(* what a device can count on.                                             *)
(***************************************************************************)
EXTENDS PushToTalk

VARIABLES
  rx,    \* of each device: the stream it plays, and the last frame played
  told

Room == INSTANCE VoiceRoom

listenVars == <<vars, rx, told>>

ListenInit ==
  /\ Init
  /\ rx = [p \in Devices |-> Room!Silence]
  /\ told = [p \in Peers |-> Room!Silence]

Tuned(m) == [stream |-> m.stream, seq |-> 0]
Fits(x, m) == x.stream # 0 /\ m.stream = x.stream /\ m.n > x.seq

\* Mutant of Play: follows the floor only while it has not asked for it.
PlayUnlessAsking(p) ==
  LET m == Head(incoming[p])
  IN  \/ /\ m.kind = "floor" /\ ptt[p].pending = 0
         /\ rx' = [rx EXCEPT ![p] = Tuned(m)]
      \/ /\ m.kind = "audio" /\ Fits(rx[p], m) /\ ptt[p].stream = 0
         /\ rx' = [rx EXCEPT ![p].seq = m.n]
      \/ (m.kind # "floor" \/ ptt[p].pending # 0) /\ UNCHANGED rx

\* What the task does with the message it receives.  A frame that waited more
\* than 160 ms is not played.
Play(p) ==
  LET m == Head(incoming[p])
  IN  \/ m.kind = "floor" /\ rx' = [rx EXCEPT ![p] = Tuned(m)]
      \/ /\ m.kind = "audio" /\ Fits(rx[p], m) /\ ptt[p].stream = 0
         /\ rx' = [rx EXCEPT ![p].seq = m.n]
      \/ m.kind # "floor" /\ UNCHANGED rx

\* A task starts with nothing to play.
Retune(p) == rx' = [rx EXCEPT ![p] = Room!Silence]

ListenStep ==
  \/ Unheard /\ UNCHANGED <<rx, told>>
  \/ \E p \in Devices :
       \/ Receive(p) /\ Play(p) /\ UNCHANGED told
       \/ Arrive(p) /\ Room!Read(p) /\ UNCHANGED rx
       \/ Forget(p) /\ Room!Forgotten(p) /\ UNCHANGED rx
       \/ (\E r \in Rooms : Enter(p, r)) /\ Retune(p) /\ UNCHANGED told
  \/ \E p \in Others : GoneByOthers(p) /\ Room!Forgotten(p) /\ UNCHANGED rx

ListenNext ==
  \/ Behind = {} /\ ListenStep
  \/ \E p \in Behind :
       Deliver(p) /\ UNCHANGED deviceVars /\ Room!Read(p) /\ UNCHANGED rx

ListenSpec == ListenInit /\ [][ListenNext]_listenVars

FairListenSpec == ListenSpec /\ Fairness

-----------------------------------------------------------------------------
(* Properties                                                              *)

\* A frame that reaches a device whose session goes on is of the stream the
\* device plays and later than all it has played, so that it is dropped only
\* because it is late or the user talks (hub.go Audio, pocketlink_voice.c
\* task): no change of the floor, no request of its own and no session that
\* broke ever leaves a device deaf or playing another stream.
PlaysWhatComes ==
  \A p \in Devices :
    (Sound(p) /\ incoming[p] # <<>> /\ Head(incoming[p]).kind = "audio")
      => Fits(rx[p], Head(incoming[p]))
=============================================================================
