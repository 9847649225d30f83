-------------------------------- MODULE Auth --------------------------------
(***************************************************************************)
(* Sessions, requests and streams of the relay: httpapi.Auth, what its     *)
(* requests read from the accounts in between, and the drain of the        *)
(* server.                                                                 *)
(*                                                                         *)
(* Every request runs on its own, and each of its steps is one statement   *)
(* on the database or one critical section of a.mu; between two steps any  *)
(* other request may run.  Every reader of a.sessions first drops those    *)
(* that are over, so a session that expires is a session that is gone.     *)
(* The administrator, whom nobody manages, is not among the users; what he *)
(* does with their accounts is.  Rate limits and bad input end a request   *)
(* as if it had never come.                                                *)
(***************************************************************************)
EXTENDS Naturals, FiniteSets

CONSTANTS Users, Requests,
          Tokens,        \* session cookies
          Devices,       \* keys of a device in a.streams: one for its messages, one
                         \* for its voice
          NoOne,         \* no session, and nobody's proof
          NoRequest,     \* no stream
          SessionLimit,  \* 256 in the source
          UserLimit,     \* 16
          StreamLimit,   \* 64
          VersionLimit,  \* bounds how often an account is managed
          CodeLimit      \* bounds the codes that are live

ASSUME AuthAssumption ==
  /\ NoOne \notin [user : Users, version : Nat, password : Nat]
  /\ NoRequest \notin Requests
  /\ Tokens \cap Devices = {}
  /\ {SessionLimit, UserLimit, StreamLimit, VersionLimit, CodeLimit} \subseteq Nat

ASSUME SessionAssumption == NoOne \notin [user : Users, password : Nat]

VARIABLES
  account,   \* users: auth_version, generation of the password, and since
             \* which version disabled (0: enabled)
  codes,     \* pairing codes and invitations unused, with the versions at
             \* which their request was admitted and they were created
  sessions,  \* a.sessions
  streams,   \* a.streams
  req,       \* where each request is, whose it is, and its cookie or device
  server     \* draining, stopping, and whether the drain is over

vars == <<account, codes, sessions, streams, req, server>>

Keys == Tokens \cup Devices
Idle == [at |-> "idle", who |-> NoOne, key |-> NoOne]
At(p, w, k) == [at |-> p, who |-> w, key |-> k]

Init ==
  /\ account = [u \in Users |-> [version |-> 1, password |-> 0, since |-> 0]]
  /\ codes = {}
  /\ sessions = [t \in Tokens |-> NoOne]
  /\ streams = [k \in Keys |-> NoRequest]
  /\ req = [r \in Requests |-> Idle]
  /\ server = "up"

Go(r, to) == req' = [req EXCEPT ![r] = to]

\* A request comes; one that comes during the drain is answered 503.
Comes(r) == req[r] = Idle /\ server = "up"

-----------------------------------------------------------------------------
(* Login                                                                   *)

\* a.verifying: one password is hashed at a time, for whatever purpose.
Hashing == {"proved", "checked", "reset"}

\* Mutant of MayVerify: no semaphore.
VerifyAny == TRUE

MayVerify == \A r \in Requests : req[r].at \notin Hashing

Proof(u) == [user |-> u, version |-> account[u].version,
             password |-> account[u].password]

\* UserCredentials, and the password given is the right one.
Prove(r, u) ==
  /\ Comes(r) /\ MayVerify
  /\ account[u].since = 0
  /\ Go(r, At("proved", Proof(u), NoOne))
  /\ UNCHANGED <<account, codes, sessions, streams, server>>

\* What startSession and principal ask of the account.
Current(w) == account[w.user].since = 0 /\ account[w.user].version = w.version

CheckProof(r) ==
  /\ req[r].at = "proved"
  /\ Go(r, IF Current(req[r].who) THEN At("checked", req[r].who, NoOne) ELSE Idle)
  /\ UNCHANGED <<account, codes, sessions, streams, server>>

Live(s) == {t \in Tokens : s[t] # NoOne}
Of(s, u) == {t \in Live(s) : s[t].user = u}

\* Mutant of Full: one session too many.
FullAfter(s, u) == Cardinality(Live(s)) > SessionLimit \/ Cardinality(Of(s, u)) > UserLimit

Full(s, u) == Cardinality(Live(s)) >= SessionLimit \/ Cardinality(Of(s, u)) >= UserLimit

\* A token that no session, request or stream of this process has: the secrets
\* are random, and none is given twice.
Fresh(t) == sessions[t] = NoOne /\ \A r \in Requests : req[r].key # t

\* The browser may have come with the cookie of another session.
StartSession(r, t, cookie) ==
  /\ req[r].at = "checked"
  /\ LET w == req[r].who
         kept == [s \in Tokens |-> IF s = cookie THEN NoOne ELSE sessions[s]]
     IN  IF Full(kept, w.user)
         THEN sessions' = kept
         ELSE Fresh(t) /\ sessions' = [kept EXCEPT ![t] = w]
  /\ Go(r, Idle)
  /\ UNCHANGED <<account, codes, streams, server>>

-----------------------------------------------------------------------------
(* The administrator manages an account                                    *)

\* Mutant of Bump: a reset password leaves auth_version as it is.
BumpOthers(op) == IF op = "password" THEN 0 ELSE 1

Bump(op) == 1

\* Mutant of CodesLeft: disabling leaves the codes alone.
CodesKept(u, op) == codes

CodesLeft(u, op) ==
  IF op = "disable" THEN {c \in codes : c.user # u} ELSE codes

\* One transaction.  A reset password is hashed before it, under a.verifying.
Manage(r, u, op) ==
  /\ Comes(r)
  /\ account[u].version < VersionLimit
  /\ op = "password" => MayVerify
  /\ LET a == account[u]
         v == a.version + Bump(op)
     IN  account' = [account EXCEPT ![u] =
           [version |-> v,
            password |-> IF op = "password" THEN a.password + 1 ELSE a.password,
            since |-> IF op = "disable" THEN v ELSE IF op = "enable" THEN 0 ELSE a.since]]
  /\ codes' = CodesLeft(u, op)
  /\ Go(r, At(IF op = "password" THEN "reset" ELSE "managed", Proof(u), NoOne))
  /\ UNCHANGED <<sessions, streams, server>>

EndSessions(r) ==
  /\ req[r].at \in {"managed", "reset"}
  /\ sessions' = [t \in Tokens |->
       IF t \in Of(sessions, req[r].who.user) THEN NoOne ELSE sessions[t]]
  /\ Go(r, Idle)
  /\ UNCHANGED <<account, codes, streams, server>>

-----------------------------------------------------------------------------
(* Requests with a cookie                                                  *)

Gone(t) == [sessions EXCEPT ![t] = NoOne]

Expire(t) ==
  /\ sessions[t] # NoOne
  /\ sessions' = Gone(t)
  /\ UNCHANGED <<account, codes, streams, req, server>>

Find(r, t) ==
  /\ Comes(r) /\ sessions[t] # NoOne
  /\ Go(r, At("found", sessions[t], t))
  /\ UNCHANGED <<account, codes, sessions, streams, server>>

\* A session refused once is refused for good, so it does not matter when it
\* is taken out of the table.
Admit(r) ==
  /\ req[r].at = "found"
  /\ LET q == req[r]
     IN  IF Current(q.who) THEN Go(r, At("admitted", q.who, q.key)) /\ UNCHANGED sessions
                           ELSE Go(r, Idle) /\ sessions' = Gone(q.key)
  /\ UNCHANGED <<account, codes, streams, server>>

\* CreatePairing and CreateInvitation: the request was admitted, whatever has
\* become of its user since.
IssueCode(r) ==
  /\ req[r].at = "admitted" /\ Cardinality(codes) < CodeLimit
  /\ LET w == req[r].who
     IN  codes' = codes \cup {[user |-> w.user, admitted |-> w.version,
                               created |-> account[w.user].version]}
  /\ Go(r, Idle)
  /\ UNCHANGED <<account, sessions, streams, server>>

\* Used, revoked by its owner, or too old.
EndCode(c) ==
  /\ codes' = codes \ {c}
  /\ UNCHANGED <<account, sessions, streams, req, server>>

Logout(r) ==
  /\ req[r].at = "admitted"
  /\ sessions' = Gone(req[r].key)
  /\ Go(r, Idle)
  /\ UNCHANGED <<account, codes, streams, server>>

\* Everything else that a request of a user does.
Finish(r) ==
  /\ req[r].at = "admitted"
  /\ Go(r, Idle)
  /\ UNCHANGED <<account, codes, sessions, streams, server>>

-----------------------------------------------------------------------------
(* Streams: the device's messages, voice of a device and of a browser      *)

Open == {k \in Keys : streams[k] # NoRequest}
Stopping == server \in {"stopping", "drained"}

NoPlace(k) == Stopping \/ streams[k] # NoRequest \/ Cardinality(Open) >= StreamLimit

\* Mutant of Refused: what was true before the upgrade is not asked again.
NeverRefused(k) == FALSE

Refused(k) == NoPlace(k)

\* Asked before the upgrade.  A device has shown its credential, a browser was
\* admitted and may talk in the room.
Upgrade(r, k) ==
  /\ \/ Comes(r) /\ k \in Devices
     \/ req[r].at = "admitted" /\ k = req[r].key
  /\ ~NoPlace(k)
  /\ Go(r, At("upgrading", req[r].who, k))
  /\ UNCHANGED <<account, codes, sessions, streams, server>>

UpgradeFails(r) ==
  /\ req[r].at = "upgrading"
  /\ Go(r, Idle)
  /\ UNCHANGED <<account, codes, sessions, streams, server>>

\* And asked again after it.
Register(r) ==
  /\ req[r].at = "upgrading"
  /\ LET q == req[r]
     IN  IF Refused(q.key)
         THEN Go(r, Idle) /\ UNCHANGED streams
         ELSE /\ streams' = [streams EXCEPT ![q.key] = r]
              /\ Go(r, At("open", q.who, q.key))
  /\ UNCHANGED <<account, codes, sessions, server>>

\* Mutant of Closes: the browser's session is not looked at again.
NeverCloses(r) == FALSE

\* The ticker of a browser's stream asks principal again.
Refusable(t) == sessions[t] # NoOne => ~Current(sessions[t])
Closes(r) == req[r].key \in Tokens /\ Refusable(req[r].key)

Closing(r) == At("closing", req[r].who, req[r].key)

Recheck(r) ==
  /\ req[r].at = "open" /\ Closes(r)
  /\ sessions' = Gone(req[r].key)
  /\ Go(r, Closing(r))
  /\ UNCHANGED <<account, codes, streams, server>>

\* The peer leaves or breaks a rule, or the device or its room is refused.
Hangup(r) ==
  /\ req[r].at = "open"
  /\ Go(r, Closing(r))
  /\ UNCHANGED <<account, codes, sessions, streams, server>>

\* The deferred delete, and done.
Close(r) ==
  /\ req[r].at = "closing"
  /\ streams' = [streams EXCEPT ![req[r].key] = NoRequest]
  /\ Go(r, Idle)
  /\ UNCHANGED <<account, codes, sessions, server>>

-----------------------------------------------------------------------------
(* The server                                                              *)

\* SIGTERM: API.Drain first refuses what comes,
Drain ==
  /\ server = "up" /\ server' = "draining"
  /\ UNCHANGED <<account, codes, sessions, streams, req>>

\* then cancels every stream, and lets no other in,
StopStreams ==
  /\ server = "draining" /\ server' = "stopping"
  /\ req' = [r \in Requests |-> IF req[r].at = "open" THEN Closing(r) ELSE req[r]]
  /\ UNCHANGED <<account, codes, sessions, streams>>

\* then waits for all of them.
Drained ==
  /\ server = "stopping" /\ Open = {}
  /\ server' = "drained"
  /\ UNCHANGED <<account, codes, sessions, streams, req>>

\* The process ends, at any time, and starts again: sessions are in memory.
Restart ==
  /\ sessions' = [t \in Tokens |-> NoOne]
  /\ streams' = [k \in Keys |-> NoRequest]
  /\ req' = [r \in Requests |-> Idle]
  /\ server' = "up"
  /\ UNCHANGED <<account, codes>>

-----------------------------------------------------------------------------

Operations == {"disable", "enable", "logout", "password"}

Login(r) ==
  \/ \E u \in Users : Prove(r, u)
  \/ CheckProof(r)
  \/ \E t \in Tokens, c \in Tokens \cup {NoOne} : StartSession(r, t, c)

Administer(r) ==
  \/ \E u \in Users, op \in Operations : Manage(r, u, op)
  \/ EndSessions(r)

Serve(r) ==
  \/ \E t \in Tokens : Find(r, t)
  \/ Admit(r) \/ IssueCode(r) \/ Logout(r) \/ Finish(r)

Stream(r) ==
  \/ \E k \in Keys : Upgrade(r, k)
  \/ UpgradeFails(r) \/ Register(r) \/ Recheck(r) \/ Hangup(r) \/ Close(r)

Next ==
  \/ \E r \in Requests : Login(r) \/ Administer(r) \/ Serve(r) \/ Stream(r)
  \/ \E t \in Tokens : Expire(t)
  \/ \E c \in codes : EndCode(c)
  \/ Drain \/ StopStreams \/ Drained \/ Restart

Spec == Init /\ [][Next]_vars

\* The ticker ticks, a cancelled stream's handler returns (all its reads and
\* writes end with the context), and the drain goes on when it can.
FairSpec ==
  /\ Spec
  /\ \A r \in Requests : WF_vars(Recheck(r)) /\ WF_vars(Close(r))
  /\ WF_vars(StopStreams) /\ WF_vars(Drained)

-----------------------------------------------------------------------------
(* Properties                                                              *)

Proofs == [user : Users, version : Nat, password : Nat]
Stages == {"proved", "checked", "managed", "reset", "found", "admitted",
           "upgrading", "open", "closing"}
Streaming == {"open", "closing"}

\* Neither table ever has more entries than the source allows.
AuthTypeOK ==
  /\ account \in [Users -> [version : Nat, password : Nat, since : Nat]]
  /\ codes \subseteq [user : Users, admitted : Nat, created : Nat]
  /\ sessions \in [Tokens -> Proofs \cup {NoOne}]
  /\ Cardinality(Live(sessions)) <= SessionLimit
  /\ \A u \in Users : Cardinality(Of(sessions, u)) <= UserLimit
  /\ streams \in [Keys -> Requests \cup {NoRequest}]
  /\ req \in [Requests -> {Idle} \cup [at : Stages, who : Proofs \cup {NoOne},
                                       key : Keys \cup {NoOne}]]
  /\ server \in {"up", "draining", "stopping", "drained"}

\* A request is admitted only for a user who is enabled and whose password is
\* still the one that the session was opened with, even if the login was
\* overtaken by a reset between its checks and its session (principal,
\* startSession; docs/development/accounts.en.md:77).
OldProofsRefused ==
  [][\A r \in Requests :
       (req'[r].at = "admitted" /\ req[r].at # "admitted") =>
         LET w == req'[r].who
         IN  account[w.user].since = 0 /\ account[w.user].password = w.password]_vars

\* Two stores are changed one after the other, and the cookie and the account are
\* read in different steps; yet the handlers behave as if each session ended with
\* the transaction of ManageUser, with every login and request not yet admitted:
\* none of them gets any further, whatever is done to the account later, and the
\* stale rest in the table is of no meaning (startSession, principal, userManagementHTTP).
Shown(w) == [user |-> w.user, password |-> w.password]
Sees(stage, w) == [at |-> stage, who |-> Shown(w)]
SeenSession(t) ==
  LET w == sessions[t] IN IF w # NoOne /\ Current(w) THEN Shown(w) ELSE NoOne
SeenRequest(r) ==
  LET q == req[r]
  IN  CASE q.who # NoOne /\ q.at \in {"proved", "checked"} /\ Current(q.who) ->
             Sees("login", q.who)
        [] q.who # NoOne /\ q.at = "found" /\ Current(q.who) -> Sees("asking", q.who)
        [] q.who # NoOne /\ q.at \in {"admitted", "upgrading", "open", "closing"} ->
             Sees("admitted", q.who)
        [] OTHER -> [at |-> "idle", who |-> NoOne]
Atomic == INSTANCE Sessions WITH
  enabled <- [u \in Users |-> account[u].since = 0],
  password <- [u \in Users |-> account[u].password],
  session <- [t \in Tokens |-> SeenSession(t)],
  request <- [r \in Requests |-> SeenRequest(r)]
SessionsAreAtomic == Atomic!Spec

\* A login that was overtaken may leave a session that nobody can use in the
\* table, where it takes one of the user's places; but never two of them, once
\* the administrator's request is through (a.verifying, userManagementHTTP).
Useless(u) == {t \in Of(sessions, u) : ~Current(sessions[t])}
OneUselessSession ==
  \A u \in Users :
    \/ Cardinality(Useless(u)) <= 1
    \/ \E r \in Requests : req[r].at \in {"managed", "reset"} /\ req[r].who.user = u

\* The codes that a disabled user has were all created after he was disabled,
\* by requests admitted before; every other was removed (principal, ManageUser;
\* docs/development/accounts.en.md:74 does not know the exception).
OnlyLateCodes ==
  \A c \in codes : LET s == account[c.user].since
                   IN  s = 0 \/ (c.admitted < s /\ s <= c.created)

\* The table is what it says: each stream that is open is in it under its own
\* key and no other, no more of them than it may hold, none still runs as if
\* nothing happened once streams are stopped, and none at all after the drain
\* (the second look at the table after the upgrade, stopStreams).
StreamsRegistered ==
  /\ \A r \in Requests :
       req[r].at \in Streaming => streams[req[r].key] = r
  /\ \A k \in Open : req[streams[k]].at \in Streaming /\ req[streams[k]].key = k
  /\ Cardinality(Open) <= StreamLimit
  /\ Stopping => \A r \in Requests : req[r].at # "open"
  /\ server = "drained" => Open = {}

\* A browser's stream ends when its session is over, refused or gone, and the
\* drain comes to an end (the ticker of voiceHTTP; stopStreams waits for done).
StreamsEnd ==
  /\ \A r \in Requests : (req[r].at = "open" /\ req[r].key \in Tokens
                          /\ Refusable(req[r].key)) ~> req[r].at # "open"
  /\ server = "draining" ~> server \in {"drained", "up"}
=============================================================================
