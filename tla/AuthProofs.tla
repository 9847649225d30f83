------------------------------ MODULE AuthProofs ------------------------------
(***************************************************************************)
(* Proofs about sessions, requests and streams of the relay, for any users,*)
(* requests, tokens, devices and limits.                                   *)
(***************************************************************************)
EXTENDS Auth, FiniteSetTheorems, TLAPS

\* What each request carries at each place it can be in.
Typed ==
  /\ account \in [Users -> [version : Nat, password : Nat, since : Nat]]
  /\ codes \subseteq [user : Users, admitted : Nat, created : Nat]
  /\ sessions \in [Tokens -> Proofs \cup {NoOne}]
  /\ streams \in [Keys -> Requests \cup {NoRequest}]
  /\ req \in [Requests -> {Idle} \cup [at : Stages, who : Proofs \cup {NoOne},
                                       key : Keys \cup {NoOne}]]
  /\ server \in {"up", "draining", "stopping", "drained"}
  /\ \A r \in Requests :
       /\ req[r].at \in {"proved", "checked", "managed", "reset", "found", "admitted"}
            => req[r].who \in Proofs
       /\ req[r].at \in {"found", "admitted"} => req[r].key \in Tokens
       /\ req[r].at \in {"upgrading", "open", "closing"} => req[r].key \in Keys

Sizes ==
  /\ IsFiniteSet(Live(sessions)) /\ Cardinality(Live(sessions)) <= SessionLimit
  /\ \A u \in Users : Cardinality(Of(sessions, u)) <= UserLimit

\* A proof is never of a later version than its account, and of the same
\* version only with the same password.
Dated(w) ==
  /\ w.version <= account[w.user].version
  /\ w.version = account[w.user].version => w.password = account[w.user].password
ProofsInv ==
  /\ \A t \in Tokens : sessions[t] # NoOne => Dated(sessions[t])
  /\ \A r \in Requests : req[r].who # NoOne => Dated(req[r].who)

\* Who was admitted and is disabled now was disabled after it.
CodesInv ==
  /\ \A u \in Users : account[u].since <= account[u].version
  /\ \A r \in Requests :
       req[r].at = "admitted" =>
         LET s == account[req[r].who.user].since
         IN  s = 0 \/ req[r].who.version < s
  /\ OnlyLateCodes

StreamsInv == StreamsRegistered /\ IsFiniteSet(Open)

\* One request hashes at a time; and while nobody manages a user, he has at
\* most one useless session, and none while a stale login is under way.
HashingInv == \A q, r \in Requests :
  req[q].at \in Hashing /\ req[r].at \in Hashing => q = r
Managed(u) == \E r \in Requests :
  req[r].at \in {"managed", "reset"} /\ req[r].who.user = u
UselessInv ==
  \A u \in Users :
    \/ Managed(u)
    \/ /\ \A s, t \in Useless(u) : s = t
       /\ \A r \in Requests :
            req[r].at = "checked" /\ req[r].who.user = u /\ ~Current(req[r].who)
              => Useless(u) = {}

-----------------------------------------------------------------------------
(* Types                                                                   *)

LEMMA TypedStep == ASSUME Typed, [Next]_vars PROVE Typed'
<1> USE AuthAssumption DEF Typed, Go, At, Idle, Keys, Stages, Proofs
<1>1. ASSUME NEW r \in Requests, NEW u \in Users, Prove(r, u) PROVE Typed'
  BY <1>1 DEF Prove, Comes, Proof
<1>2. ASSUME NEW r \in Requests, CheckProof(r) PROVE Typed'
  BY <1>2 DEF CheckProof
<1>3. ASSUME NEW r \in Requests, NEW t \in Tokens, NEW c \in Tokens \cup {NoOne},
             StartSession(r, t, c) PROVE Typed'
  BY <1>3, SMTT(30) DEF StartSession
<1>4. ASSUME NEW r \in Requests, NEW u \in Users, NEW op \in Operations,
             Manage(r, u, op) PROVE Typed'
  BY <1>4 DEF Manage, Comes, Proof, Bump, CodesLeft
<1>5. ASSUME NEW r \in Requests, EndSessions(r) PROVE Typed'
  BY <1>5 DEF EndSessions
<1>6. ASSUME NEW r \in Requests, NEW t \in Tokens, Find(r, t) PROVE Typed'
  BY <1>6 DEF Find, Comes
<1>7. ASSUME NEW r \in Requests, Admit(r) PROVE Typed'
  BY <1>7 DEF Admit, Gone
<1>8. ASSUME NEW r \in Requests, IssueCode(r) PROVE Typed'
  BY <1>8 DEF IssueCode
<1>9. ASSUME NEW r \in Requests, Logout(r) PROVE Typed'
  BY <1>9 DEF Logout, Gone
<1>10. ASSUME NEW r \in Requests, Finish(r) \/ UpgradeFails(r) PROVE Typed'
  BY <1>10, SMTT(30) DEF Finish, UpgradeFails
<1>11. ASSUME NEW r \in Requests, NEW k \in Keys, Upgrade(r, k) PROVE Typed'
  BY <1>11 DEF Upgrade, Comes
<1>12. ASSUME NEW r \in Requests, Register(r) PROVE Typed'
  BY <1>12, SMTT(30) DEF Register
<1>13. ASSUME NEW r \in Requests, Recheck(r) PROVE Typed'
  BY <1>13 DEF Recheck, Closing, Closes, Gone
<1>14. ASSUME NEW r \in Requests, Hangup(r) PROVE Typed'
  BY <1>14 DEF Hangup, Closing
<1>15. ASSUME NEW r \in Requests, Close(r) PROVE Typed'
  BY <1>15 DEF Close
<1>16. ASSUME NEW t \in Tokens, Expire(t) PROVE Typed'
  BY <1>16 DEF Expire, Gone
<1>17. ASSUME NEW c \in codes, EndCode(c) PROVE Typed'
  BY <1>17 DEF EndCode
<1>18. ASSUME Drain \/ Drained PROVE Typed'
  BY <1>18 DEF Drain, Drained
<1>19. ASSUME StopStreams PROVE Typed'
  BY <1>19 DEF StopStreams, Closing
<1>20. ASSUME Restart PROVE Typed'
  BY <1>20 DEF Restart
<1>21. ASSUME UNCHANGED vars PROVE Typed'
  BY <1>21 DEF vars
<1> QED
  BY <1>1, <1>2, <1>3, <1>4, <1>5, <1>6, <1>7, <1>8, <1>9, <1>10, <1>11, <1>12, <1>13,
     <1>14, <1>15, <1>16, <1>17, <1>18, <1>19, <1>20, <1>21
     DEF Next, Login, Administer, Serve, Stream

-----------------------------------------------------------------------------
(* The sessions                                                            *)

\* Sessions that only go leave the table within its limits.
LEMMA SessionsGo ==
  ASSUME Sizes, \A t \in Tokens : sessions'[t] \in {sessions[t], NoOne}
  PROVE  Sizes'
<1>1. Live(sessions') \subseteq Live(sessions)
  BY DEF Live
<1>2. \A u \in Users : Of(sessions', u) \subseteq Of(sessions, u)
  BY DEF Live, Of
<1>3. \A u \in Users : IsFiniteSet(Of(sessions, u))
  BY FS_Subset DEF Sizes, Of
<1>4. /\ IsFiniteSet(Live(sessions'))
      /\ Cardinality(Live(sessions')) <= Cardinality(Live(sessions))
      /\ Cardinality(Live(sessions')) \in Nat /\ Cardinality(Live(sessions)) \in Nat
  BY <1>1, FS_Subset, FS_CardinalityType DEF Sizes
<1>5. ASSUME NEW u \in Users PROVE Cardinality(Of(sessions', u)) <= UserLimit
  <2>1. Cardinality(Of(sessions', u)) <= Cardinality(Of(sessions, u))
    BY <1>2, <1>3, FS_Subset
  <2>2. IsFiniteSet(Of(sessions', u))
    BY <1>2, <1>3, FS_Subset
  <2>3. Cardinality(Of(sessions', u)) \in Nat /\ Cardinality(Of(sessions, u)) \in Nat
    BY <1>3, <2>2, FS_CardinalityType
  <2> QED BY <2>1, <2>3, AuthAssumption DEF Sizes
<1> QED BY <1>4, <1>5, AuthAssumption DEF Sizes

\* A session comes only where there is room for it.
LEMMA SessionComes ==
  ASSUME Typed, Sizes, NEW r \in Requests, NEW t \in Tokens, NEW c \in Tokens \cup {NoOne},
         StartSession(r, t, c)
  PROVE  Sizes'
<1> DEFINE w == req[r].who
           kept == [s \in Tokens |-> IF s = c THEN NoOne ELSE sessions[s]]
<1>1. w \in Proofs /\ w \in [user : Users, version : Nat, password : Nat]
  BY DEF Typed, StartSession, Proofs
<1>2. CASE Full(kept, w.user)
  BY <1>2, SessionsGo DEF StartSession
<1>3. CASE ~Full(kept, w.user)
  <2>1. sessions' = [kept EXCEPT ![t] = w] /\ w # NoOne
    BY <1>1, <1>3, AuthAssumption DEF StartSession
  <2>2. /\ Live(kept) \subseteq Live(sessions)
        /\ \A u : Of(kept, u) \subseteq Live(kept) /\ Of(kept, u) \subseteq Of(sessions, u)
    BY DEF Live, Of
  <2>3. IsFiniteSet(Live(kept)) /\ \A u : IsFiniteSet(Of(kept, u))
    BY <2>2, FS_Subset DEF Sizes
  <2>4. /\ Live(sessions') \subseteq Live(kept) \cup {t}
        /\ Of(sessions', w.user) \subseteq Of(kept, w.user) \cup {t}
        /\ \A u \in Users : u # w.user => Of(sessions', u) \subseteq Of(kept, u)
    BY <2>1 DEF Live, Of
  <2>5. ASSUME NEW S, NEW L, NEW n \in Nat, IsFiniteSet(S), Cardinality(S) < n,
               L \subseteq S \cup {t}
        PROVE  IsFiniteSet(L) /\ Cardinality(L) <= n
    <3>1. /\ IsFiniteSet(S \cup {t})
          /\ Cardinality(S \cup {t}) \in {Cardinality(S), Cardinality(S) + 1}
      BY <2>5, FS_AddElement
    <3>2. IsFiniteSet(L) /\ Cardinality(L) <= Cardinality(S \cup {t})
      BY <2>5, <3>1, FS_Subset
    <3>3. Cardinality(S) \in Nat /\ Cardinality(L) \in Nat
      BY <2>5, <3>2, FS_CardinalityType
    <3> QED BY <3>1, <3>2, <3>3, <2>5
  <2>6. /\ Cardinality(Live(kept)) < SessionLimit
        /\ Cardinality(Of(kept, w.user)) < UserLimit
    BY <1>3, <2>3, FS_CardinalityType, AuthAssumption DEF Full
  <2>7. IsFiniteSet(Live(sessions')) /\ Cardinality(Live(sessions')) <= SessionLimit
    BY <2>3, <2>4, <2>5, <2>6, AuthAssumption
  <2>8. ASSUME NEW u \in Users PROVE Cardinality(Of(sessions', u)) <= UserLimit
    <3>1. CASE u = w.user
      BY <3>1, <2>3, <2>4, <2>5, <2>6, AuthAssumption
    <3>2. CASE u # w.user
      <4>1. Of(sessions', u) \subseteq Of(sessions, u) /\ IsFiniteSet(Of(sessions, u))
        BY <3>2, <2>2, <2>4, FS_Subset DEF Of, Sizes
      <4>2. /\ IsFiniteSet(Of(sessions', u))
            /\ Cardinality(Of(sessions', u)) <= Cardinality(Of(sessions, u))
        BY <4>1, FS_Subset
      <4>3. Cardinality(Of(sessions', u)) \in Nat /\ Cardinality(Of(sessions, u)) \in Nat
        BY <4>1, <4>2, FS_CardinalityType
      <4> QED BY <4>2, <4>3, AuthAssumption DEF Sizes
    <3> QED BY <3>1, <3>2
  <2> QED BY <2>7, <2>8 DEF Sizes
<1> QED BY <1>2, <1>3

LEMMA SizesStep == ASSUME Typed, Sizes, [Next]_vars PROVE Sizes'
<1>1. ASSUME NEW r \in Requests, NEW t \in Tokens, NEW c \in Tokens \cup {NoOne},
             StartSession(r, t, c) PROVE Sizes'
  BY <1>1, SessionComes
<1>2. ASSUME ~\E r \in Requests, t \in Tokens, c \in Tokens \cup {NoOne} :
                StartSession(r, t, c)
      PROVE  \A t \in Tokens : sessions'[t] \in {sessions[t], NoOne}
  BY <1>2 DEF Typed, Next, Login, Administer, Serve, Stream, Prove, CheckProof, Manage,
       EndSessions, Find, Admit, IssueCode, Logout, Finish, Upgrade, UpgradeFails,
       Register, Recheck, Hangup, Close, Expire, EndCode, Drain, StopStreams, Drained,
       Restart, Gone, vars
<1> QED BY <1>1, <1>2, SessionsGo

-----------------------------------------------------------------------------
(* What the sessions and the requests know of the accounts                 *)

\* Accounts only move on: a proof that was not ahead of its account is never.
LEMMA DatedStays ==
  ASSUME Typed, [Next]_vars, NEW w \in Proofs, Dated(w) PROVE Dated(w)'
<1> USE DEF Typed, Dated, Proofs
<1>1. CASE account' = account
  BY <1>1
<1>2. CASE account' # account
  <2>1. PICK r \in Requests, u \in Users, op \in Operations : Manage(r, u, op)
    BY <1>2 DEF Next, Login, Administer, Serve, Stream, Prove, CheckProof, StartSession,
         EndSessions, Find, Admit, IssueCode, Logout, Finish, Upgrade, UpgradeFails,
         Register, Recheck, Hangup, Close, Expire, EndCode, Drain, StopStreams, Drained,
         Restart, vars
  <2> QED BY <2>1 DEF Manage, Bump
<1> QED BY <1>1, <1>2

\* How a login goes on.
LEMMA LoginMoves ==
  ASSUME NEW r \in Requests, Login(r)
  PROVE  /\ UNCHANGED <<account, codes, streams, server>>
         /\ \/ \E u \in Users : req[r] = Idle /\ Go(r, At("proved", Proof(u), NoOne))
            \/ req[r].at = "proved" /\ Go(r, At("checked", req[r].who, NoOne))
            \/ req[r].at \in {"proved", "checked"} /\ Go(r, Idle)
<1>1. CASE \E u \in Users : Prove(r, u)
  BY <1>1 DEF Prove, Comes
<1>2. CASE CheckProof(r)
  BY <1>2 DEF CheckProof
<1>3. CASE \E t \in Tokens, c \in Tokens \cup {NoOne} : StartSession(r, t, c)
  BY <1>3 DEF StartSession
<1> QED BY <1>1, <1>2, <1>3 DEF Login

\* Every proof was read off an account, or copied from a session or a request.
LEMMA ProofsCome ==
  ASSUME Typed, [Next]_vars, NEW r \in Requests
  PROVE  \/ req'[r].who \in {req[r].who, NoOne}
         \/ \E t \in Tokens : req'[r].who = sessions[t]
         \/ \E u \in Users : req'[r].who = Proof(u)
<1> USE DEF Typed, Go, At, Idle
<1>1. ASSUME NEW q \in Requests, Login(q) PROVE req'[r].who \in {req[r].who, NoOne}
                                         \/ \E u \in Users : req'[r].who = Proof(u)
  BY <1>1, LoginMoves
<1>2. ASSUME NEW q \in Requests, Administer(q) PROVE req'[r].who \in {req[r].who, NoOne}
                                              \/ \E u \in Users : req'[r].who = Proof(u)
  BY <1>2 DEF Administer, Manage, EndSessions
<1>3. ASSUME NEW q \in Requests, Serve(q)
      PROVE  \/ req'[r].who \in {req[r].who, NoOne}
             \/ \E t \in Tokens : req'[r].who = sessions[t]
  BY <1>3 DEF Serve, Find, Admit, IssueCode, Logout, Finish
<1>4. ASSUME NEW q \in Requests, Stream(q) PROVE req'[r].who \in {req[r].who, NoOne}
  BY <1>4 DEF Stream, Upgrade, UpgradeFails, Register, Recheck, Hangup, Close, Closing
<1>5. ASSUME StopStreams \/ Restart PROVE req'[r].who \in {req[r].who, NoOne}
  BY <1>5 DEF StopStreams, Restart, Closing
<1>6. ASSUME \/ \E t \in Tokens : Expire(t)
             \/ \E c \in codes : EndCode(c)
             \/ Drain \/ Drained \/ UNCHANGED vars
      PROVE  req' = req
  BY <1>6 DEF Expire, EndCode, Drain, Drained, vars
<1> QED BY <1>1, <1>2, <1>3, <1>4, <1>5, <1>6 DEF Next

LEMMA ProofsStep == ASSUME Typed, ProofsInv, [Next]_vars PROVE ProofsInv'
<1>1. ASSUME NEW t \in Tokens
      PROVE  \/ sessions'[t] \in {sessions[t], NoOne}
             \/ \E r \in Requests : sessions'[t] = req[r].who
  <2> USE DEF Typed
  <2>1. ASSUME NEW r \in Requests, Login(r) PROVE
             \/ sessions'[t] \in {sessions[t], NoOne}
             \/ \E q \in Requests : sessions'[t] = req[q].who
    BY <2>1 DEF Login, Prove, CheckProof, StartSession
  <2>2. ASSUME NEW r \in Requests, Administer(r) \/ Serve(r) \/ Stream(r)
        PROVE  sessions'[t] \in {sessions[t], NoOne}
    <3>1. CASE Administer(r)
      BY <3>1 DEF Administer, Manage, EndSessions
    <3>2. CASE Serve(r)
      BY <3>2 DEF Serve, Find, Admit, IssueCode, Logout, Finish, Gone
    <3>3. CASE Stream(r)
      BY <3>3 DEF Stream, Upgrade, UpgradeFails, Register, Recheck, Hangup, Close, Gone
    <3> QED BY <2>2, <3>1, <3>2, <3>3
  <2>3. CASE \/ \E s \in Tokens : Expire(s)
             \/ \E c \in codes : EndCode(c)
             \/ Drain \/ StopStreams \/ Drained \/ Restart
             \/ UNCHANGED vars
    BY <2>3 DEF Expire, EndCode, Drain, StopStreams, Drained, Restart, Gone, vars
  <2> QED BY <2>1, <2>2, <2>3 DEF Next
<1>2. \A u \in Users : Proof(u) \in Proofs /\ Dated(Proof(u))
  BY DEF Typed, Proof, Proofs, Dated
<1>3. ASSUME NEW t \in Tokens, sessions'[t] # NoOne PROVE Dated(sessions[t])'
  <2>1. PICK w \in Proofs : w = sessions'[t] /\ Dated(w)
    BY <1>1, <1>3, TypedStep DEF ProofsInv, Typed
  <2> QED BY <2>1, DatedStays DEF Dated
<1>4. ASSUME NEW r \in Requests, req'[r].who # NoOne PROVE Dated(req[r].who)'
  <2>1. req'[r].who \in Proofs
    BY <1>4, TypedStep DEF Typed, Idle
  <2>2. Dated(req'[r].who)
    BY <1>2, <1>4, ProofsCome DEF ProofsInv
  <2>3. PICK w \in Proofs : w = req'[r].who /\ Dated(w)
    BY <2>1, <2>2
  <2> QED BY <2>3, DatedStays DEF Dated
<1> QED BY <1>3, <1>4 DEF ProofsInv

\* A disabled user's codes, and those still to come, are late ones.
LEMMA CodesStep == ASSUME Typed, ProofsInv, CodesInv, [Next]_vars PROVE CodesInv'
<1> USE AuthAssumption DEF Typed, CodesInv, OnlyLateCodes
<1>1. ASSUME NEW r \in Requests, NEW u \in Users, NEW op \in Operations,
             Manage(r, u, op) PROVE CodesInv'
  BY <1>1, SMTT(30) DEF Manage, Comes, Proof, Bump, CodesLeft, ProofsInv, Dated, Go, At, Idle,
       Operations, Proofs
<1>2. ASSUME NEW r \in Requests, Admit(r) PROVE CodesInv'
  BY <1>2 DEF Admit, Current, Go, At, Idle, Proofs
<1>3. ASSUME NEW r \in Requests, IssueCode(r) PROVE CodesInv'
  BY <1>3 DEF IssueCode, Go, Idle, Proofs
<1>4. ASSUME NEW c \in codes, EndCode(c) PROVE CodesInv'
  BY <1>4 DEF EndCode
<1>5. CASE UNCHANGED <<account, codes>>
           /\ \A r \in Requests : req'[r].at = "admitted" => req'[r] = req[r]
  BY <1>5
<1> DEFINE Same == UNCHANGED <<account, codes>>
                   /\ \A r \in Requests : req'[r].at = "admitted" => req'[r] = req[r]
<1> USE DEF Go, At, Idle
<1>6. ASSUME NEW r \in Requests, Login(r) PROVE Same
  BY <1>6, LoginMoves
<1>7. ASSUME NEW r \in Requests, EndSessions(r) \/ Logout(r) \/ Finish(r) PROVE Same
  BY <1>7 DEF EndSessions, Logout, Finish
<1>8. ASSUME NEW r \in Requests, NEW t \in Tokens, Find(r, t) PROVE Same
  BY <1>8 DEF Find
<1>9. ASSUME NEW r \in Requests, Stream(r) PROVE Same
  BY <1>9 DEF Stream, Upgrade, UpgradeFails, Register, Recheck, Hangup, Close, Closing
<1>10. ASSUME StopStreams \/ Restart PROVE Same
  BY <1>10 DEF StopStreams, Restart, Closing
<1>11. ASSUME (\E t \in Tokens : Expire(t)) \/ Drain \/ Drained \/ UNCHANGED vars PROVE Same
  BY <1>11 DEF Expire, Drain, Drained, vars
<1> QED BY <1>1, <1>2, <1>3, <1>4, <1>5, <1>6, <1>7, <1>8, <1>9, <1>10, <1>11
        DEF Next, Administer, Serve

-----------------------------------------------------------------------------
(* Streams                                                                 *)

LEMMA StreamsStep == ASSUME Typed, StreamsInv, [Next]_vars PROVE StreamsInv'
<1> DEFINE Agree == /\ \A r \in Requests :
                         req[r].at \in Streaming => streams[req[r].key] = r
                    /\ \A k \in Open :
                         req[streams[k]].at \in Streaming /\ req[streams[k]].key = k
           Few == IsFiniteSet(Open) /\ Cardinality(Open) <= StreamLimit
           Stop == /\ Stopping => \A r \in Requests : req[r].at # "open"
                   /\ server = "drained" => Open = {}
<1>1. Agree /\ Few /\ Stop
  BY DEF StreamsInv, StreamsRegistered
<1>2. ASSUME Agree', Few', Stop' PROVE StreamsInv'
  BY <1>2 DEF StreamsInv, StreamsRegistered
<1>3. Cardinality(Open) \in Nat
  BY <1>1, FS_CardinalityType
<1>4. streams' = streams => Open' = Open /\ Few'
  <2>1. streams' = streams => Open' = Open
    BY DEF Open
  <2> QED BY <1>1, <2>1
<1> USE AuthAssumption DEF Typed, Streaming, Stopping, Keys, Go, At, Idle, Closing
<1>5. ASSUME NEW r \in Requests, Register(r) PROVE StreamsInv'
  <2> DEFINE k == req[r].key
  <2>1. CASE Refused(k)
    <3>1. /\ streams' = streams /\ server' = server
          /\ req' = [req EXCEPT ![r] = Idle] /\ req[r].at = "upgrading"
      BY <2>1, <1>5 DEF Register
    <3>2. Agree' /\ Stop'
      BY <1>1, <1>4, <3>1 DEF Open
    <3> QED BY <1>2, <1>4, <3>1, <3>2
  <2>2. CASE ~Refused(k)
    <3>1. /\ k \in Keys /\ streams[k] = NoRequest /\ ~Stopping
          /\ ~(Cardinality(Open) >= StreamLimit)
      BY <2>2, <1>5 DEF Register, Refused, NoPlace
    <3>2. /\ streams' = [streams EXCEPT ![k] = r] /\ server' = server
          /\ req' = [req EXCEPT ![r] = At("open", req[r].who, k)] /\ req[r].at = "upgrading"
      BY <2>2, <1>5 DEF Register
    <3>3. Agree' /\ Stop'
      BY <1>1, <3>1, <3>2 DEF Open
    <3>4. Open' = Open \cup {k} /\ k \notin Open
      BY <3>1, <3>2 DEF Open
    <3>5. IsFiniteSet(Open \cup {k}) /\ Cardinality(Open \cup {k}) = Cardinality(Open) + 1
      BY <1>1, <3>4, FS_AddElement
    <3>6. Few'
      BY <1>3, <3>1, <3>4, <3>5
    <3> QED BY <1>2, <3>3, <3>6
  <2> QED BY <2>1, <2>2
<1>6. ASSUME NEW r \in Requests, Close(r) PROVE StreamsInv'
  <2>1. Open' \subseteq Open
    BY <1>6 DEF Close, Open
  <2>2. /\ IsFiniteSet(Open') /\ Cardinality(Open') <= Cardinality(Open)
        /\ Cardinality(Open') \in Nat
    BY <1>1, <2>1, FS_Subset, FS_CardinalityType
  <2>3. Agree' /\ Stop'
    BY <1>1, <1>6 DEF Close, Open
  <2> QED BY <1>1, <1>2, <1>3, <2>2, <2>3
<1>7. ASSUME Restart PROVE StreamsInv'
  <2>1. Open' = {} /\ Agree' /\ Stop'
    BY <1>7 DEF Restart, Open
  <2>2. Few'
    BY <2>1, FS_EmptySet
  <2> QED BY <1>2, <2>1, <2>2
<1>8. ASSUME NEW r \in Requests, Hangup(r) \/ Recheck(r) PROVE StreamsInv'
  <2>1. Agree' /\ Stop'
    BY <1>1, <1>8 DEF Hangup, Recheck, Open
  <2> QED BY <1>2, <1>4, <1>8, <2>1 DEF Hangup, Recheck
<1>9. ASSUME StopStreams PROVE StreamsInv'
  <2>1. Agree' /\ Stop'
    BY <1>1, <1>9 DEF StopStreams, Open
  <2> QED BY <1>2, <1>4, <1>9, <2>1 DEF StopStreams
<1>10. ASSUME Drain \/ Drained PROVE StreamsInv'
  <2>1. streams' = streams /\ req' = req
    BY <1>10 DEF Drain, Drained
  <2>2. Agree'
    BY <1>1, <1>4, <2>1
  <2>3. Stop'
    BY <1>1, <1>4, <1>10, <2>1 DEF Drain, Drained
  <2> QED BY <1>2, <1>4, <2>1, <2>2, <2>3
<1> DEFINE Aside == /\ UNCHANGED <<streams, server>>
                    /\ \A r \in Requests :
                         \/ req'[r] = req[r]
                         \/ req[r].at \notin Streaming /\ req'[r].at \notin Streaming
<1>11. ASSUME Aside PROVE StreamsInv'
  <2>1. Agree' /\ Stop'
    BY <1>1, <1>4, <1>11 DEF Open
  <2> QED BY <1>2, <1>4, <1>11, <2>1
<1>12. ASSUME NEW r \in Requests, Login(r) PROVE Aside
  BY <1>12, LoginMoves
<1>13. ASSUME NEW r \in Requests, Administer(r) PROVE Aside
  BY <1>13 DEF Administer, Manage, EndSessions, Comes
<1>14. ASSUME NEW r \in Requests, Serve(r) PROVE Aside
  BY <1>14 DEF Serve, Find, Admit, IssueCode, Logout, Finish, Comes
<1>15. ASSUME NEW r \in Requests, NEW k \in Keys, Upgrade(r, k) PROVE Aside
  BY <1>15 DEF Upgrade, Comes
<1>16. ASSUME NEW r \in Requests, UpgradeFails(r) PROVE Aside
  BY <1>16 DEF UpgradeFails
<1>17. ASSUME \/ \E t \in Tokens : Expire(t)
              \/ \E c \in codes : EndCode(c)
              \/ UNCHANGED vars
       PROVE  Aside
  BY <1>17 DEF Expire, EndCode, vars
<1> QED BY <1>5, <1>6, <1>7, <1>8, <1>9, <1>10, <1>11, <1>12, <1>13, <1>14, <1>15, <1>16,
           <1>17 DEF Next, Stream
-----------------------------------------------------------------------------
(* Logins that are overtaken                                               *)

\* Between two hashes the semaphore is free (a.verifying).
LEMMA HashingStep == ASSUME Typed, HashingInv, [Next]_vars PROVE HashingInv'
<1> USE DEF Typed, HashingInv, Hashing, Go, At, Idle, Closing
<1>1. ASSUME NEW r \in Requests, NEW u \in Users, Prove(r, u) PROVE HashingInv'
  BY <1>1 DEF Prove, MayVerify
<1>2. ASSUME NEW r \in Requests, NEW u \in Users, NEW op \in Operations,
             Manage(r, u, op) PROVE HashingInv'
  BY <1>2 DEF Manage, MayVerify, Comes
<1> DEFINE NoMore == \A r \in Requests : req'[r].at \in Hashing => req[r].at \in Hashing
<1>3. ASSUME NoMore PROVE HashingInv'
  BY <1>3
<1>4. ASSUME NEW r \in Requests, CheckProof(r) PROVE NoMore
  BY <1>4 DEF CheckProof
<1>5. ASSUME NEW r \in Requests, NEW t \in Tokens, NEW c \in Tokens \cup {NoOne},
             StartSession(r, t, c) PROVE NoMore
  BY <1>5 DEF StartSession
<1>6. ASSUME NEW r \in Requests, EndSessions(r) PROVE NoMore
  BY <1>6 DEF EndSessions
<1>7. ASSUME NEW r \in Requests, Serve(r) PROVE NoMore
  BY <1>7 DEF Serve, Find, Admit, IssueCode, Logout, Finish
<1>8. ASSUME NEW r \in Requests, Stream(r) PROVE NoMore
  BY <1>8 DEF Stream, Upgrade, UpgradeFails, Register, Recheck, Hangup, Close
<1>9. ASSUME StopStreams \/ Restart PROVE NoMore
  BY <1>9 DEF StopStreams, Restart
<1>10. ASSUME \/ \E t \in Tokens : Expire(t)
              \/ \E c \in codes : EndCode(c)
              \/ Drain \/ Drained \/ UNCHANGED vars
       PROVE  NoMore
  BY <1>10 DEF Expire, EndCode, Drain, Drained, vars
<1> QED BY <1>1, <1>2, <1>3, <1>4, <1>5, <1>6, <1>7, <1>8, <1>9, <1>10
        DEF Next, Login, Administer

LEMMA UselessStep ==
  ASSUME Typed, HashingInv, UselessInv, [Next]_vars PROVE UselessInv'
<1> DEFINE Stale(u) == \E r \in Requests : /\ req[r].at = "checked" /\ req[r].who.user = u
                                           /\ ~Current(req[r].who)
           Alright(u) == /\ \A s, t \in Useless(u) : s = t
                         /\ Stale(u) => Useless(u) = {}
<1>1. \A u \in Users : Managed(u) \/ Alright(u)
  BY DEF UselessInv
<1>2. ASSUME \A u \in Users : Managed(u)' \/ Alright(u)' PROVE UselessInv'
  BY <1>2 DEF UselessInv
\* What leaves a user's account alone, and opens no session of his, is no harm to him.
<1>3. ASSUME NEW u \in Users, account'[u] = account[u],
             \A t \in Tokens : sessions'[t] \in {sessions[t], NoOne}
      PROVE  Useless(u)' \subseteq Useless(u)
  BY <1>3 DEF Useless, Of, Live, Current
<1>4. ASSUME NEW u \in Users, account'[u] = account[u],
             \A r \in Requests : \/ req'[r] = req[r]
                                 \/ req'[r].at # "checked"
                                 \/ req'[r].who.user = u => Current(req'[r].who)
      PROVE  Stale(u)' => Stale(u)
  BY <1>4 DEF Current
<1>5. ASSUME NEW u \in Users, account'[u] = account[u],
             \A r \in Requests : \/ req'[r] = req[r]
                                 \/ req[r].at \notin {"managed", "reset"}
                                 \/ req[r].who.user # u
      PROVE  Managed(u) => Managed(u)'
  BY <1>5 DEF Managed
<1> DEFINE Harmless(u) ==
      /\ account'[u] = account[u]
      /\ \A t \in Tokens : sessions'[t] \in {sessions[t], NoOne}
      /\ \A r \in Requests : \/ req'[r] = req[r]
                              \/ /\ \/ req[r].at \notin {"managed", "reset"}
                                    \/ req[r].who.user # u
                                 /\ \/ req'[r].at # "checked"
                                    \/ req'[r].who.user = u => Current(req'[r].who)
<1>6. ASSUME NEW u \in Users, Harmless(u) PROVE Managed(u)' \/ Alright(u)'
  <2>1. Useless(u)' \subseteq Useless(u)
    BY <1>3, <1>6
  <2>2. Stale(u)' => Stale(u)
    BY <1>4, <1>6
  <2>3. Managed(u) => Managed(u)'
    BY <1>5, <1>6
  <2> QED BY <1>1, <2>1, <2>2, <2>3
<1> HIDE DEF Stale
<1> USE AuthAssumption DEF Typed, Go, At, Idle, Closing
<1>7. ASSUME NEW r \in Requests, NEW t \in Tokens, NEW c \in Tokens \cup {NoOne},
             StartSession(r, t, c)
      PROVE  \A u \in Users : Managed(u)' \/ Alright(u)'
  <2> DEFINE w == req[r].who
  <2>1. w \in Proofs /\ w.user \in Users /\ account' = account /\ req[r].at = "checked"
        /\ req' = [req EXCEPT ![r] = Idle]
    BY <1>7 DEF StartSession, Proofs
  <2>2. \A s \in Tokens : \/ sessions'[s] \in {sessions[s], NoOne}
                          \/ s = t /\ sessions'[s] = w
    BY <1>7 DEF StartSession
  <2>3. ASSUME NEW u \in Users, u # w.user \/ Current(w)
        PROVE  Managed(u)' \/ Alright(u)'
    <3>1. Useless(u)' \subseteq Useless(u)
      BY <2>1, <2>2, <2>3 DEF Useless, Of, Live, Current
    <3>2. Stale(u)' => Stale(u)
      BY <1>4, <2>1
    <3>3. Managed(u) => Managed(u)'
      BY <1>5, <2>1
    <3> QED BY <1>1, <3>1, <3>2, <3>3
  <2>4. CASE ~Current(w)
    <3>0. PICK u \in Users : u = w.user
      BY <2>1
    <3>1. Stale(u)
      BY <2>1, <2>4, <3>0 DEF Stale
    <3>2. Managed(u) => Managed(u)'
      BY <1>5, <2>1
    <3>3. Useless(u) = {} => Useless(u)' \subseteq {t}
      BY <2>1, <2>2, <3>0 DEF Useless, Of, Live, Current
    <3>4. ~Stale(u)'
      BY <2>1 DEF Stale, HashingInv, Hashing
    <3>5. Managed(u)' \/ Alright(u)'
      BY <1>1, <3>1, <3>2, <3>3, <3>4
    <3> QED BY <2>3, <3>0, <3>5
  <2> QED BY <2>3, <2>4
<1>8. ASSUME NEW r \in Requests, NEW v \in Users, NEW op \in Operations, Manage(r, v, op),
             NEW u \in Users
      PROVE  Managed(u)' \/ Alright(u)'
  <2>1. req'[r] = At(IF op = "password" THEN "reset" ELSE "managed", Proof(v), NoOne)
    BY <1>8 DEF Manage
  <2>2. CASE u = v
    BY <2>1, <2>2 DEF Managed, Proof
  <2>3. CASE u # v
    BY <1>6, <1>8, <2>1, <2>3 DEF Manage, Comes
  <2> QED BY <2>2, <2>3
<1>9. ASSUME NEW r \in Requests, EndSessions(r), NEW u \in Users
      PROVE  Managed(u)' \/ Alright(u)'
  <2>1. CASE u = req[r].who.user
    <3>1. Useless(u)' = {}
      BY <1>9, <2>1 DEF EndSessions, Useless, Of, Live
    <3> QED BY <3>1
  <2>2. CASE u # req[r].who.user
    BY <1>6, <1>9, <2>2 DEF EndSessions
  <2> QED BY <2>1, <2>2
<1>10. ASSUME NEW r \in Requests, NEW u \in Users, Prove(r, u)
       PROVE  \A v \in Users : Harmless(v)
  BY <1>10 DEF Prove, Comes
<1>11. ASSUME NEW r \in Requests, CheckProof(r) PROVE \A v \in Users : Harmless(v)
  <2>1. CASE Current(req[r].who)
    <3>1. req' = [req EXCEPT ![r] = At("checked", req[r].who, NoOne)]
      BY <1>11, <2>1 DEF CheckProof
    <3> QED BY <1>11, <2>1, <3>1 DEF CheckProof
  <2>2. CASE ~Current(req[r].who)
    <3>1. req' = [req EXCEPT ![r] = Idle]
      BY <1>11, <2>2 DEF CheckProof
    <3> QED BY <1>11, <3>1 DEF CheckProof
  <2> QED BY <2>1, <2>2
<1>12. ASSUME NEW r \in Requests, Serve(r) PROVE \A v \in Users : Harmless(v)
  BY <1>12 DEF Serve, Find, Admit, IssueCode, Logout, Finish, Comes, Gone
<1>13. ASSUME NEW r \in Requests, Stream(r) PROVE \A v \in Users : Harmless(v)
  BY <1>13 DEF Stream, Upgrade, UpgradeFails, Register, Recheck, Hangup, Close, Comes, Gone
<1>14. ASSUME StopStreams PROVE \A v \in Users : Harmless(v)
  BY <1>14 DEF StopStreams
<1>15. ASSUME \/ \E t \in Tokens : Expire(t)
              \/ \E c \in codes : EndCode(c)
              \/ Drain \/ Drained \/ UNCHANGED vars
       PROVE  \A v \in Users : Harmless(v)
  BY <1>15 DEF Expire, EndCode, Drain, Drained, Gone, vars
<1>16. ASSUME Restart, NEW u \in Users PROVE Alright(u)'
  <2>1. Useless(u)' = {}
    BY <1>16 DEF Restart, Useless, Of, Live
  <2> QED BY <2>1
<1>17. \A u \in Users : Managed(u)' \/ Alright(u)'
  BY <1>6, <1>7, <1>8, <1>9, <1>10, <1>11, <1>12, <1>13, <1>14, <1>15, <1>16
     DEF Next, Login, Administer
<1> QED BY <1>2, <1>17

-----------------------------------------------------------------------------
(* The theorems                                                            *)

AuthInv == Typed /\ Sizes /\ ProofsInv /\ CodesInv /\ StreamsInv /\ HashingInv /\ UselessInv

LEMMA AuthInit == Init => AuthInv
<1> SUFFICES ASSUME Init PROVE AuthInv
  OBVIOUS
<1> USE AuthAssumption DEF Init, Idle
<1>1. Typed
  BY DEF Typed, Stages, Keys, Proofs
<1>2. Live(sessions) = {} /\ \A u \in Users : Of(sessions, u) = {}
  BY DEF Live, Of
<1>3. Open = {}
  BY DEF Open
<1>4. Sizes
  BY <1>2, FS_EmptySet, SMTT(30) DEF Sizes
<1>5. ProofsInv /\ CodesInv
  BY DEF ProofsInv, CodesInv, OnlyLateCodes
<1>6. StreamsInv
  BY <1>3, FS_EmptySet DEF StreamsInv, StreamsRegistered, Streaming, Stopping
<1>7. HashingInv /\ UselessInv
  BY <1>2 DEF HashingInv, Hashing, UselessInv, Useless
<1> QED BY <1>1, <1>4, <1>5, <1>6, <1>7 DEF AuthInv

\* The inductive invariant of sessions, requests and streams.
THEOREM AuthInvariant == Spec => []AuthInv
<1>1. ASSUME AuthInv, [Next]_vars PROVE AuthInv'
  BY <1>1, TypedStep, SizesStep, ProofsStep, CodesStep, StreamsStep, HashingStep, UselessStep
     DEF AuthInv
<1> QED BY <1>1, AuthInit, PTL DEF Spec

\* Neither the relay's table of sessions nor a user's share of it is ever
\* fuller than the source allows (startSession).
THEOREM AuthTypeCorrect == Spec => []AuthTypeOK
<1>1. AuthInv => AuthTypeOK
  BY DEF AuthInv, Typed, Sizes, AuthTypeOK
<1> QED BY <1>1, AuthInvariant, PTL

\* A request is admitted only with the password that is still the user's
\* (principal, startSession).
THEOREM OldProofsAreRefused == Spec => OldProofsRefused
<1> DEFINE Good == \A r \in Requests :
             (req'[r].at = "admitted" /\ req[r].at # "admitted") =>
               LET w == req'[r].who
               IN  account[w.user].since = 0 /\ account[w.user].password = w.password
<1>1. ASSUME AuthInv, [Next]_vars PROVE [Good]_vars
  <2> SUFFICES ASSUME NEW r \in Requests, req'[r].at = "admitted", req[r].at # "admitted"
               PROVE  /\ account[req'[r].who.user].since = 0
                      /\ account[req'[r].who.user].password = req'[r].who.password
    OBVIOUS
  <2> USE DEF Go, At, Idle, Closing
  <2>1. CASE Admit(r)
    <3>1. Current(req[r].who) /\ req'[r].who = req[r].who /\ req[r].at = "found"
      BY <2>1, <1>1 DEF Admit, AuthInv, Typed
    <3>2. req[r].who \in Proofs
      BY <1>1, <3>1 DEF AuthInv, Typed
    <3>3. Dated(req[r].who)
      BY <1>1, <3>2, AuthAssumption DEF AuthInv, ProofsInv, Proofs
    <3> QED BY <3>1, <3>3 DEF Current, Dated
  <2>2. CASE ~Admit(r)
    <3>1. ASSUME NEW q \in Requests, Login(q) PROVE FALSE
      BY <1>1, <3>1, LoginMoves DEF AuthInv, Typed
    <3>2. ASSUME NEW q \in Requests, Administer(q) PROVE FALSE
      BY <1>1, <3>2 DEF AuthInv, Typed, Administer, Manage, EndSessions
    <3>3. ASSUME NEW q \in Requests, Serve(q) PROVE FALSE
      BY <1>1, <2>2, <3>3
         DEF AuthInv, Typed, Serve, Find, Admit, IssueCode, Logout, Finish
    <3>4. ASSUME NEW q \in Requests, Stream(q) PROVE FALSE
      BY <1>1, <3>4 DEF AuthInv, Typed, Stream, Upgrade, UpgradeFails, Register, Recheck,
                        Hangup, Close
    <3>5. ASSUME StopStreams \/ Restart PROVE FALSE
      BY <3>5 DEF StopStreams, Restart
    <3>6. ASSUME \/ \E t \in Tokens : Expire(t)
                 \/ \E c \in codes : EndCode(c)
                 \/ Drain \/ Drained \/ UNCHANGED vars
          PROVE  FALSE
      BY <3>6 DEF Expire, EndCode, Drain, Drained, vars
    <3> QED BY <1>1, <3>1, <3>2, <3>3, <3>4, <3>5, <3>6 DEF Next
  <2> QED BY <2>1, <2>2
<1> QED BY <1>1, AuthInvariant, PTL DEF Spec, OldProofsRefused

\* Logins that were overtaken leave a user at most one session that nobody can
\* use (a.verifying, startSession, userManagementHTTP).
THEOREM OneUseless == Spec => []OneUselessSession
<1>1. AuthInv => OneUselessSession
  <2> SUFFICES ASSUME AuthInv, NEW u \in Users, ~Managed(u)
               PROVE  Cardinality(Useless(u)) <= 1
    BY DEF OneUselessSession, Managed
  <2>1. CASE Useless(u) = {}
    BY <2>1, FS_EmptySet
  <2>2. CASE Useless(u) # {}
    <3>1. PICK t : t \in Useless(u)
      BY <2>2
    <3>2. Useless(u) = {t}
      BY <3>1 DEF AuthInv, UselessInv
    <3>3. Cardinality({t}) = 1
      BY FS_Singleton
    <3> QED BY <3>2, <3>3
  <2> QED BY <2>1, <2>2
<1> QED BY <1>1, AuthInvariant, PTL

\* The codes of a disabled user are those of requests admitted before
\* (CreatePairing, CreateInvitation, ManageUser).
THEOREM CodesAreLate == Spec => []OnlyLateCodes
<1>1. AuthInv => OnlyLateCodes
  BY DEF AuthInv, CodesInv
<1> QED BY <1>1, AuthInvariant, PTL

\* The table of streams says which streams are open, and the drain leaves none
\* (startStream, stopStreams).
THEOREM StreamsAreRegistered == Spec => []StreamsRegistered
<1>1. AuthInv => StreamsRegistered
  BY DEF AuthInv, StreamsInv
<1> QED BY <1>1, AuthInvariant, PTL
-----------------------------------------------------------------------------
(* The handlers implement Sessions                                         *)

Begun == {"admitted", "upgrading", "open", "closing"}
Nobody == [at |-> "idle", who |-> NoOne]

\* What request q may be seen as, s.
As(s, q) ==
  /\ q.who = NoOne => s = Nobody
  /\ q.at \in {"managed", "reset"} => s = Nobody
  /\ q.at \in {"proved", "checked", "found"} /\ ~Current(q.who) => s = Nobody
  /\ q.who # NoOne /\ q.at \in {"proved", "checked"} /\ Current(q.who)
       => s = Sees("login", q.who)
  /\ q.who # NoOne /\ q.at = "found" /\ Current(q.who) => s = Sees("asking", q.who)
  /\ q.who # NoOne /\ q.at \in Begun => s = Sees("admitted", q.who)

\* What a request is seen as before and after a step, at each place.
LEMMA SeenAs ==
  ASSUME NEW r \in Requests
  PROVE  /\ As(SeenRequest(r), req[r])
         /\ account' = account => As(SeenRequest(r)', req'[r])
  BY DEF SeenRequest, Nobody, Begun, As, Sees, Shown, Current

\* What is seen depends on nothing but the accounts, the session and the request.
LEMMA SessionStays ==
  ASSUME account' = account, NEW t \in Tokens
  PROVE  /\ sessions'[t] = sessions[t] => SeenSession(t)' = SeenSession(t)
         /\ sessions'[t] = NoOne => SeenSession(t)' = NoOne
  BY DEF SeenSession, Shown, Current

\* The same of a request.
LEMMA RequestStays ==
  ASSUME account' = account, NEW r \in Requests, req'[r] = req[r]
  PROVE  SeenRequest(r)' = SeenRequest(r)
  BY DEF SeenRequest, Sees, Shown, Current

\* Sessions and requests that end, as seen.
LEMMA EndIsSeen ==
  ASSUME account' = account,
         \A t \in Tokens : SeenSession(t)' \in {SeenSession(t), NoOne},
         \A r \in Requests : SeenRequest(r)' \in {SeenRequest(r), Nobody}
  PROVE  Atomic!Next
<1>1. Atomic!End
  BY DEF Atomic!End, Atomic!Idle, Nobody
<1> QED BY <1>1 DEF Atomic!Next

\* Steps that go unseen: requests end, or go on without asking the account.
LEMMA QuietIsSeen ==
  ASSUME account' = account,
         \A t \in Tokens : sessions'[t] \in {sessions[t], NoOne},
         \A r \in Requests :
           \/ req'[r] = req[r] \/ req'[r].who = NoOne
           \/ req'[r].who = req[r].who /\ req'[r].at \in Begun /\ req[r].at \in Begun
  PROVE  Atomic!Next
<1>1. ASSUME NEW t \in Tokens PROVE SeenSession(t)' \in {SeenSession(t), NoOne}
  BY SessionStays
<1>2. ASSUME NEW r \in Requests PROVE SeenRequest(r)' \in {SeenRequest(r), Nobody}
  <2>1. CASE req'[r] = req[r]
    BY <2>1, RequestStays
  <2>2. CASE req'[r].who = NoOne
    BY <2>2, SeenAs DEF As
  <2>3. CASE /\ req'[r].who = req[r].who /\ req[r].who # NoOne
             /\ req'[r].at \in Begun /\ req[r].at \in Begun
    BY <2>3, SeenAs DEF As
  <2> QED BY <2>1, <2>2, <2>3
<1> QED BY <1>1, <1>2, EndIsSeen

\* Who is current is enabled, with his present password.
LEMMA CurrentIsGood ==
  ASSUME Typed, NEW w \in Proofs, Dated(w), Current(w)
  PROVE  /\ Shown(w) = [user |-> w.user, password |-> account[w.user].password]
         /\ w.user \in Users /\ Atomic!Good(Shown(w)) /\ Shown(w) # NoOne
<1>1. w.user \in Users /\ w.password \in Nat
  BY DEF Proofs
<1>2. w.password = account[w.user].password /\ account[w.user].since = 0
  BY DEF Dated, Current
<1>3. Shown(w) \in [user : Users, password : Nat]
  BY <1>1 DEF Shown
<1>4. Shown(w).user = w.user /\ Shown(w).password = w.password
  BY DEF Shown
<1>5. Atomic!Good(Shown(w))
  BY <1>1, <1>2, <1>4 DEF Atomic!Good
<1> QED BY <1>1, <1>2, <1>3, <1>5, SessionAssumption DEF Shown

\* One request that goes on, as seen.
LEMMA OneGoes ==
  ASSUME Typed, account' = account, NEW r \in Requests, NEW q,
         req' = [req EXCEPT ![r] = q], NEW s, SeenRequest(r)' = s
  PROVE  [i \in Requests |-> SeenRequest(i)]'
           = [[i \in Requests |-> SeenRequest(i)] EXCEPT ![r] = s]
<1>1. \A i \in Requests : i # r => SeenRequest(i)' = SeenRequest(i)
  BY RequestStays DEF Typed
<1> QED BY <1>1

\* A login that is proved.
LEMMA ProveIsSeen ==
  ASSUME AuthInv, NEW r \in Requests, NEW u \in Users, Prove(r, u) PROVE Atomic!Next
<1> DEFINE w == Proof(u)
<1>1. /\ req[r] = Idle /\ account' = account /\ sessions' = sessions
      /\ req' = [req EXCEPT ![r] = At("proved", w, NoOne)]
  BY DEF Prove, Comes, Go
<1>2. w \in Proofs /\ Dated(w) /\ Current(w) /\ w.user = u /\ w # NoOne /\ Typed
  BY AuthAssumption DEF AuthInv, Typed, Proof, Proofs, Dated, Current, Prove
<1>3. /\ Shown(w) = [user |-> u, password |-> account[u].password]
      /\ Atomic!Good(Shown(w))
  BY <1>2, CurrentIsGood
<1>4. SeenRequest(r) = Nobody
  BY <1>1, SeenAs DEF Idle, As
<1>5. req'[r] = At("proved", w, NoOne)
  BY <1>1, <1>2 DEF Typed
<1> HIDE DEF w
<1>6. SeenRequest(r)' = Sees("login", w)
  BY <1>1, <1>2, <1>5, SeenAs DEF At, As
<1>7. [q \in Requests |-> SeenRequest(q)]'
        = [[q \in Requests |-> SeenRequest(q)] EXCEPT ![r] = Sees("login", w)]
  BY <1>1, <1>2, <1>6, OneGoes
<1>8. [t \in Tokens |-> SeenSession(t)]' = [t \in Tokens |-> SeenSession(t)]
  BY <1>1, SessionStays
<1>9. Atomic!Login(r, Shown(w))
  BY <1>1, <1>3, <1>4, <1>7, <1>8
     DEF Atomic!Login, Atomic!Idle, Atomic!Under, Nobody, Sees
<1> QED BY <1>3, <1>9 DEF Atomic!Next

\* A login that asks the account again.
LEMMA CheckIsSeen ==
  ASSUME AuthInv, NEW r \in Requests, CheckProof(r) PROVE Atomic!Next
<1> DEFINE w == req[r].who
           q == IF Current(w) THEN At("checked", w, NoOne) ELSE Idle
<1>1. /\ req[r].at = "proved" /\ account' = account /\ sessions' = sessions
      /\ req' = [req EXCEPT ![r] = q]
  BY DEF CheckProof, Go
<1>2. Typed /\ w \in Proofs /\ w # NoOne
  BY <1>1, AuthAssumption DEF AuthInv, Typed, Proofs
<1>3. req'[r] = q /\ \A i \in Requests : i # r => req'[i] = req[i]
  BY <1>1, <1>2 DEF Typed
<1>4. SeenRequest(r)' \in {SeenRequest(r), Nobody}
  <2>1. CASE Current(w)
    <3>1. req'[r].at = "checked" /\ req'[r].who = w
      BY <1>3, <2>1 DEF At
    <3>2. SeenRequest(r)' = Sees("login", w)
      BY <1>1, <1>2, <2>1, <3>1, SeenAs DEF As
    <3>3. SeenRequest(r) = Sees("login", w)
      BY <1>1, <1>2, <2>1, SeenAs DEF As
    <3> QED BY <3>2, <3>3
  <2>2. CASE ~Current(w)
    <3>1. req'[r].who = NoOne
      BY <1>3, <2>2 DEF Idle
    <3> QED BY <1>1, <3>1, SeenAs DEF As
  <2> QED BY <2>1, <2>2
<1>5. \A i \in Requests : SeenRequest(i)' \in {SeenRequest(i), Nobody}
  BY <1>1, <1>3, <1>4, RequestStays
<1>6. \A t \in Tokens : SeenSession(t)' \in {SeenSession(t), NoOne}
  BY <1>1, SessionStays
<1> QED BY <1>1, <1>5, <1>6, EndIsSeen

\* A session opens, and is seen unless its login was overtaken.
LEMMA StartIsSeen ==
  ASSUME AuthInv, NEW r \in Requests, NEW t \in Tokens, NEW c \in Tokens \cup {NoOne},
         StartSession(r, t, c)
  PROVE  Atomic!Next
<1> DEFINE w == req[r].who
           kept == [s \in Tokens |-> IF s = c THEN NoOne ELSE sessions[s]]
<1>1. /\ req[r].at = "checked" /\ account' = account
      /\ req' = [req EXCEPT ![r] = Idle]
      /\ \/ sessions' = kept
         \/ sessions[t] = NoOne /\ sessions' = [kept EXCEPT ![t] = w]
  BY DEF StartSession, Go, Fresh
<1>2. Typed /\ w \in Proofs /\ w # NoOne /\ Dated(w)
  BY <1>1, AuthAssumption DEF AuthInv, Typed, Proofs, ProofsInv
<1>3. req'[r] = Idle /\ \A i \in Requests : i # r => req'[i] = req[i]
  BY <1>1, <1>2 DEF Typed
<1>4. SeenRequest(r)' = Nobody /\ \A i \in Requests : i # r => SeenRequest(i)' = SeenRequest(i)
  <2>1. req'[r].who = NoOne
    BY <1>3 DEF Idle
  <2> QED BY <1>1, <1>3, <2>1, SeenAs, RequestStays DEF As
<1>5. \A s \in Tokens : s # t => SeenSession(s)' = IF s = c THEN NoOne ELSE SeenSession(s)
  <2> SUFFICES ASSUME NEW s \in Tokens, s # t
               PROVE  SeenSession(s)' = IF s = c THEN NoOne ELSE SeenSession(s)
    OBVIOUS
  <2>1. sessions'[s] = IF s = c THEN NoOne ELSE sessions[s]
    BY <1>1
  <2> QED BY <1>1, <2>1, SessionStays
<1>6. CASE sessions' = kept
  BY <1>1, <1>3, <1>6, QuietIsSeen DEF Idle
<1>7. CASE sessions[t] = NoOne /\ sessions' = [kept EXCEPT ![t] = w] /\ ~Current(w)
  <2>1. sessions'[t] = w
    BY <1>7
  <2>2. SeenSession(t)' = NoOne
    BY <1>1, <1>7, <2>1 DEF SeenSession, Current
  <2>3. \A s \in Tokens : SeenSession(s)' \in {SeenSession(s), NoOne}
    BY <1>5, <2>2
  <2> QED BY <1>1, <1>4, <2>3, EndIsSeen
<1>8. CASE sessions[t] = NoOne /\ sessions' = [kept EXCEPT ![t] = w] /\ Current(w)
  <2>1. Atomic!Good(Shown(w))
    BY <1>2, <1>8, CurrentIsGood
  <2>2. SeenRequest(r) = Sees("login", w)
    BY <1>1, <1>2, <1>8, SeenAs DEF As
  <2>3. SeenSession(t) = NoOne
    BY <1>8 DEF SeenSession
  <2>4. SeenSession(t)' = Shown(w)
    <3>1. sessions'[t] = w
      BY <1>8
    <3> QED BY <1>1, <1>2, <1>8, <3>1 DEF SeenSession, Shown, Current
  <2> HIDE DEF w
  <2>5. [s \in Tokens |-> SeenSession(s)]'
          = [s \in Tokens |-> IF s = t THEN Shown(w)
                              ELSE IF s = c THEN NoOne ELSE SeenSession(s)]
    BY <1>5, <2>4
  <2>6. [i \in Requests |-> SeenRequest(i)]'
          = [[i \in Requests |-> SeenRequest(i)] EXCEPT ![r] = Nobody]
    BY <1>4
  <2>7. Sees("login", w).at = "login" /\ Sees("login", w).who = Shown(w)
    BY DEF Sees
  <2>8. UNCHANGED <<[u \in Users |-> account[u].since = 0],
                    [u \in Users |-> account[u].password]>>
    BY <1>1
  <2>9. Atomic!Open(r, t, c)
    BY <2>1, <2>2, <2>3, <2>5, <2>6, <2>7, <2>8 DEF Atomic!Open, Atomic!Idle, Nobody
  <2> QED BY <2>9 DEF Atomic!Next
<1> QED BY <1>1, <1>6, <1>7, <1>8

\* A cookie is looked up.
LEMMA FindIsSeen ==
  ASSUME AuthInv, NEW r \in Requests, NEW t \in Tokens, Find(r, t) PROVE Atomic!Next
<1> DEFINE w == sessions[t]
<1>1. /\ req[r] = Idle /\ account' = account /\ sessions' = sessions /\ w # NoOne
      /\ req' = [req EXCEPT ![r] = At("found", w, t)]
  BY DEF Find, Comes, Go
<1>2. Typed /\ w \in Proofs
  BY <1>1 DEF AuthInv, Typed
<1>3. req'[r] = At("found", w, t) /\ \A i \in Requests : i # r => req'[i] = req[i]
  BY <1>1, <1>2 DEF Typed
<1>4. SeenRequest(r) = Nobody
  BY <1>1, SeenAs DEF Idle, As
<1>5. \A s \in Tokens : SeenSession(s)' = SeenSession(s)
  BY <1>1, SessionStays
<1>6. req'[r].at = "found" /\ req'[r].who = w
  BY <1>3 DEF At
<1>7. CASE Current(w)
  <2>1. SeenRequest(r)' = Sees("asking", w)
    BY <1>1, <1>6, <1>7, SeenAs DEF As
  <2>2. SeenSession(t) = Shown(w) /\ Shown(w) # NoOne
    <3>1. Shown(w) \in [user : Users, password : Nat]
      BY <1>2 DEF Shown, Proofs
    <3> QED BY <1>1, <1>7, <3>1, SessionAssumption DEF SeenSession
  <2> HIDE DEF w
  <2>3. [i \in Requests |-> SeenRequest(i)]'
          = [[i \in Requests |-> SeenRequest(i)] EXCEPT ![r] = Sees("asking", w)]
    BY <1>1, <1>2, <2>1, OneGoes
  <2>4. UNCHANGED <<[u \in Users |-> account[u].since = 0],
                    [u \in Users |-> account[u].password],
                    [s \in Tokens |-> SeenSession(s)]>>
    BY <1>1, <1>5
  <2>5. Atomic!Ask(r, t)
    BY <1>4, <2>2, <2>3, <2>4 DEF Atomic!Ask, Atomic!Idle, Atomic!Under, Nobody, Sees
  <2> QED BY <2>5 DEF Atomic!Next
<1>8. CASE ~Current(w)
  <2>1. SeenRequest(r)' = Nobody
    BY <1>1, <1>6, <1>8, SeenAs DEF As
  <2>2. \A i \in Requests : SeenRequest(i)' \in {SeenRequest(i), Nobody}
    BY <1>1, <1>3, <2>1, RequestStays
  <2> QED BY <1>1, <1>5, <2>2, EndIsSeen
<1> QED BY <1>7, <1>8

\* The account of a cookie is asked.
LEMMA AdmitIsSeen ==
  ASSUME AuthInv, NEW r \in Requests, Admit(r) PROVE Atomic!Next
<1> DEFINE w == req[r].who
           k == req[r].key
<1>1. /\ req[r].at = "found" /\ account' = account
      /\ IF Current(w) THEN req' = [req EXCEPT ![r] = At("admitted", w, k)]
                             /\ sessions' = sessions
                        ELSE req' = [req EXCEPT ![r] = Idle] /\ sessions' = Gone(k)
  BY DEF Admit, Go
<1>2. Typed /\ w \in Proofs /\ w # NoOne /\ Dated(w)
  BY <1>1, AuthAssumption DEF AuthInv, Typed, Proofs, ProofsInv
<1>3. CASE Current(w)
  <2>1. req'[r] = At("admitted", w, k)
    BY <1>1, <1>2, <1>3 DEF Typed
  <2>2. req'[r].at = "admitted" /\ req'[r].who = w
    BY <2>1 DEF At
  <2>3. SeenRequest(r)' = Sees("admitted", w)
    BY <1>1, <1>2, <2>2, SeenAs DEF As, Begun
  <2>4. SeenRequest(r) = Sees("asking", w)
    BY <1>1, <1>2, <1>3, SeenAs DEF As
  <2>5. Atomic!Good(Shown(w))
    BY <1>2, <1>3, CurrentIsGood
  <2>6. Sees("asking", w).at = "asking" /\ Sees("asking", w).who = Shown(w)
    BY DEF Sees
  <2> HIDE DEF w
  <2>7. [i \in Requests |-> SeenRequest(i)]'
          = [[i \in Requests |-> SeenRequest(i)] EXCEPT ![r] = Sees("admitted", w)]
    BY <1>1, <1>2, <1>3, <2>3, OneGoes
  <2>8. UNCHANGED <<[u \in Users |-> account[u].since = 0],
                    [u \in Users |-> account[u].password],
                    [s \in Tokens |-> SeenSession(s)]>>
    BY <1>1, <1>3, SessionStays
  <2>9. Atomic!Admit(r)
    BY <2>4, <2>5, <2>6, <2>7, <2>8 DEF Atomic!Admit, Atomic!Under, Sees
  <2> QED BY <2>9 DEF Atomic!Next
<1>4. CASE ~Current(w)
  <2>1. /\ req'[r] = Idle /\ \A i \in Requests : i # r => req'[i] = req[i]
        /\ \A s \in Tokens : sessions'[s] \in {sessions[s], NoOne}
    BY <1>1, <1>2, <1>4 DEF Typed, Gone
  <2>2. req'[r].who = NoOne
    BY <2>1 DEF Idle
  <2> QED BY <1>1, <2>1, <2>2, QuietIsSeen
<1> QED BY <1>3, <1>4

\* The account of a user is managed: all that rests on it goes out of sight.
LEMMA ManageIsSeen ==
  ASSUME AuthInv, NEW r \in Requests, NEW u \in Users, NEW op \in Operations,
         Manage(r, u, op)
  PROVE  Atomic!Next
<1> DEFINE on == account'[u].since = 0
           p == account'[u].password
<1>1. /\ Typed /\ ProofsInv /\ sessions' = sessions /\ req[r].who = NoOne
      /\ account'[u].version = account[u].version + 1
      /\ p \in {account[u].password, account[u].password + 1}
      /\ \A v \in Users : v # u => account'[v] = account[v]
      /\ account' \in [Users -> [version : Nat, password : Nat, since : Nat]]
      /\ account \in [Users -> [version : Nat, password : Nat, since : Nat]]
  <2>1. Typed /\ ProofsInv
    BY DEF AuthInv
  <2>2. sessions' = sessions /\ req[r].who = NoOne
    BY DEF Manage, Comes, Idle
  <2> QED BY <2>1, <2>2 DEF Manage, Bump, Typed
<1>2. req'[r].at \in {"managed", "reset"} /\ \A i \in Requests : i # r => req'[i] = req[i]
  BY <1>1 DEF Manage, Go, At, Typed
\* Who was current is not, if his account is this one, and is still, if not.
<1>3. ASSUME NEW w \in Proofs, Dated(w)
      PROVE  /\ w.user = u => ~Current(w)'
             /\ w.user # u => (Current(w)' <=> Current(w))
  <2>1. w.user \in Users /\ w.version \in Nat
    BY DEF Proofs
  <2>2. w.version <= account[w.user].version /\ account[w.user].version \in Nat
    <3>1. w.version <= account[w.user].version
      BY <1>3 DEF Dated
    <3>2. account[w.user] \in [version : Nat, password : Nat, since : Nat]
      BY <1>1, <2>1
    <3> QED BY <3>1, <3>2
  <2>3. w.user = u => w.version # account'[u].version
    BY <1>1, <2>1, <2>2
  <2> QED BY <1>1, <2>1, <2>3 DEF Current
<1>4. ASSUME NEW t \in Tokens
      PROVE  SeenSession(t)' = IF SeenSession(t) # NoOne /\ SeenSession(t).user = u
                               THEN NoOne ELSE SeenSession(t)
  <2>1. CASE sessions[t] = NoOne
    BY <1>1, <2>1 DEF SeenSession
  <2>2. CASE sessions[t] # NoOne
    <3> DEFINE w == sessions[t]
    <3>1. w \in Proofs /\ Dated(w) /\ sessions'[t] = w
      BY <1>1, <2>2 DEF ProofsInv, Typed
    <3>2. Shown(w).user = w.user
      BY DEF Shown
    <3>3. SeenSession(t) = IF Current(w) THEN Shown(w) ELSE NoOne
      BY <2>2 DEF SeenSession
    <3>4. SeenSession(t)' = IF Current(w)' THEN Shown(w) ELSE NoOne
      BY <2>2, <3>1 DEF SeenSession, Current, Shown
    <3>5. w.user = u => ~Current(w)'
      BY <1>1, <1>3, <3>1 DEF Current
    <3>6. w.user # u => (Current(w)' <=> Current(w))
      BY <1>1, <1>3, <3>1 DEF Current
    <3> HIDE DEF w
    <3> QED BY <3>2, <3>3, <3>4, <3>5, <3>6
  <2> QED BY <2>1, <2>2
<1>5. ASSUME NEW i \in Requests
      PROVE  SeenRequest(i)' = IF /\ SeenRequest(i).at \in {"login", "asking"}
                                  /\ SeenRequest(i).who.user = u
                               THEN Nobody ELSE SeenRequest(i)
  <2>0. Nobody.at = "idle" /\ \A st, v : Sees(st, v).at = st /\ Sees(st, v).who.user = v.user
    BY DEF Nobody, Sees, Shown
  <2>1. CASE i = r
    <3>1. SeenRequest(r)' = Nobody
      BY <1>2 DEF SeenRequest, Nobody
    <3>2. SeenRequest(r) = Nobody
      BY <1>1, SeenAs DEF As
    <3> QED BY <2>0, <2>1, <3>1, <3>2
  <2>2. CASE i # r
    <3> DEFINE w == req[i].who
               a == req[i].at
    <3>1. req'[i] = req[i]
      BY <1>2, <2>2
    <3>2. CASE w = NoOne \/ a \in {"managed", "reset", "idle"}
      <4>1. SeenRequest(i) = Nobody /\ SeenRequest(i)' = Nobody
        BY <3>1, <3>2 DEF SeenRequest, Nobody
      <4> QED BY <2>0, <4>1
    <3>3. CASE w # NoOne /\ a \in Begun
      <4>1. SeenRequest(i) = Sees("admitted", w) /\ SeenRequest(i)' = Sees("admitted", w)
        BY <3>1, <3>3 DEF SeenRequest, Begun, Sees, Shown
      <4> QED BY <2>0, <4>1
    <3>4. CASE w # NoOne /\ a \in {"proved", "checked", "found"}
      <4>1. w \in Proofs /\ Dated(w)
        BY <1>1, <3>4 DEF ProofsInv, Typed
      <4> DEFINE stage == IF a = "found" THEN "asking" ELSE "login"
      <4>2. SeenRequest(i) = IF Current(w) THEN Sees(stage, w) ELSE Nobody
        BY <3>4, SeenAs DEF As
      <4>3. SeenRequest(i)' = IF Current(w)' THEN Sees(stage, w) ELSE Nobody
        BY <3>1, <3>4 DEF SeenRequest, Nobody, Current, Sees, Shown
      <4>4. w.user = u => ~Current(w)'
        BY <1>3, <3>1, <4>1 DEF Current
      <4>5. w.user # u => (Current(w)' <=> Current(w))
        BY <1>3, <3>1, <4>1 DEF Current
      <4>6. stage \in {"login", "asking"}
        OBVIOUS
      <4> HIDE DEF w, stage
      <4> QED BY <2>0, <4>2, <4>3, <4>4, <4>5, <4>6
    <3>5. w = NoOne \/ a \in {"managed", "reset", "idle"} \cup Begun
                           \cup {"proved", "checked", "found"}
      BY <1>1 DEF Typed, Idle, Stages, Begun
    <3> QED BY <3>2, <3>3, <3>4, <3>5
  <2> QED BY <2>1, <2>2
<1>6. /\ on \in BOOLEAN /\ p \in {account[u].password, account[u].password + 1}
      /\ [v \in Users |-> account[v].since = 0]'
           = [[v \in Users |-> account[v].since = 0] EXCEPT ![u] = on]
      /\ [v \in Users |-> account[v].password]'
           = [[v \in Users |-> account[v].password] EXCEPT ![u] = p]
  BY <1>1
<1>7. /\ on \in BOOLEAN
      /\ p \in {[v \in Users |-> account[v].password][u],
                [v \in Users |-> account[v].password][u] + 1}
  BY <1>6
<1> HIDE DEF on, p
<1>8. PICK b \in BOOLEAN, q \in {[v \in Users |-> account[v].password][u],
                                [v \in Users |-> account[v].password][u] + 1} :
        b = on /\ q = p
  BY <1>7, Zenon
<1>9. Atomic!Manage(u, b, q)
  BY <1>4, <1>5, <1>6, <1>8 DEF Atomic!Manage, Atomic!Idle, Nobody
<1> QED BY <1>9 DEF Atomic!Next

\* Every step of the handlers is a step of Sessions, or leaves it alone.
LEMMA AuthStepIsSeen ==
  ASSUME AuthInv, [Next]_vars
  PROVE  Atomic!Next \/ UNCHANGED <<account, sessions, req>>
<1> DEFINE Quiet ==
      /\ account' = account
      /\ \A t \in Tokens : sessions'[t] \in {sessions[t], NoOne}
      /\ \A r \in Requests :
           \/ req'[r] = req[r] \/ req'[r].who = NoOne
           \/ req'[r].who = req[r].who /\ req'[r].at \in Begun /\ req[r].at \in Begun
<1>1. Quiet => Atomic!Next
  BY QuietIsSeen
<1> USE DEF Go, At, Idle, Begun
<1>2. /\ req \in [Requests -> {Idle} \cup [at : Stages, who : Proofs \cup {NoOne},
                                          key : Keys \cup {NoOne}]]
      /\ sessions \in [Tokens -> Proofs \cup {NoOne}]
  BY DEF AuthInv, Typed
<1>3. ASSUME NEW r \in Requests, Login(r) PROVE Atomic!Next
  BY <1>3, ProveIsSeen, CheckIsSeen, StartIsSeen DEF Login
<1>4. ASSUME NEW r \in Requests, Administer(r) PROVE Atomic!Next
  <2>1. EndSessions(r) => Quiet
    BY <1>2 DEF EndSessions
  <2> HIDE DEF Quiet
  <2> QED BY <1>1, <1>4, <2>1, ManageIsSeen DEF Administer
<1>5. ASSUME NEW r \in Requests, Serve(r) PROVE Atomic!Next
  <2>1. IssueCode(r) \/ Logout(r) \/ Finish(r) => Quiet
    BY <1>2 DEF IssueCode, Logout, Finish, Gone
  <2> HIDE DEF Quiet
  <2> QED BY <1>1, <1>5, <2>1, FindIsSeen, AdmitIsSeen DEF Serve
<1>6. ASSUME NEW r \in Requests, NEW k \in Keys, Upgrade(r, k) PROVE Quiet
  BY <1>2, <1>6 DEF Upgrade, Comes
<1>7. ASSUME NEW r \in Requests, UpgradeFails(r) \/ Register(r) \/ Hangup(r) \/ Close(r)
      PROVE  Quiet
  BY <1>2, <1>7 DEF UpgradeFails, Register, Hangup, Close, Closing
<1>8. ASSUME NEW r \in Requests, Recheck(r) PROVE Quiet
  BY <1>2, <1>8 DEF Recheck, Closing, Gone
<1>9. ASSUME StopStreams PROVE Quiet
  BY <1>2, <1>9 DEF StopStreams, Closing
<1>10. ASSUME Restart PROVE Quiet
  BY <1>2, <1>10 DEF Restart
<1>11. ASSUME NEW t \in Tokens, Expire(t) PROVE Quiet
  BY <1>2, <1>11 DEF Expire, Gone
<1>12. ASSUME \/ \E c \in codes : EndCode(c)
              \/ Drain \/ Drained \/ UNCHANGED vars
       PROVE  UNCHANGED <<account, sessions, req>>
  BY <1>12 DEF EndCode, Drain, Drained, vars
<1> HIDE DEF Quiet
<1> QED BY <1>1, <1>3, <1>4, <1>5, <1>6, <1>7, <1>8, <1>9, <1>10, <1>11, <1>12
        DEF Next, Stream

\* The handlers of sessions, interrupted anywhere, do what Sessions does in one
\* step each (startSession, principal, userManagementHTTP).
THEOREM AuthImplementsSessions == Spec => SessionsAreAtomic
<1>1. Init => Atomic!Init
  <2> SUFFICES ASSUME Init PROVE Atomic!Init
    OBVIOUS
  <2>1. \A t \in Tokens : SeenSession(t) = NoOne
    BY DEF Init, SeenSession
  <2>2. \A r \in Requests : SeenRequest(r) = Nobody
    BY DEF Init, Idle, SeenRequest, Nobody
  <2>3. /\ [u \in Users |-> account[u].since = 0] = [u \in Users |-> TRUE]
        /\ [u \in Users |-> account[u].password] = [u \in Users |-> 0]
    BY DEF Init
  <2> QED BY <2>1, <2>2, <2>3 DEF Atomic!Init, Atomic!Idle, Nobody
<1>2. AuthInv /\ [Next]_vars => [Atomic!Next]_(Atomic!sessionVars)
  <2> SUFFICES ASSUME AuthInv, [Next]_vars, UNCHANGED <<account, sessions, req>>
               PROVE  UNCHANGED Atomic!sessionVars
    BY AuthStepIsSeen
  <2>1. /\ \A t \in Tokens : SeenSession(t)' = SeenSession(t)
        /\ \A r \in Requests : SeenRequest(r)' = SeenRequest(r)
    BY SessionStays, RequestStays
  <2> QED BY <2>1 DEF Atomic!sessionVars
<1> QED BY <1>1, <1>2, AuthInvariant, PTL DEF Spec, SessionsAreAtomic, Atomic!Spec
=============================================================================
