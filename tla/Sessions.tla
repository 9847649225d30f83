------------------------------ MODULE Sessions ------------------------------
(***************************************************************************)
(* What the relay promises of sessions: an account and everything that     *)
(* rests on it change in one step.  Whoever manages a user ends his        *)
(* sessions, the logins under way and the requests not yet admitted, all   *)
(* at once; what was admitted before goes on.                              *)
(***************************************************************************)
EXTENDS Naturals

CONSTANTS Users, Tokens, Requests,
          NoOne  \* no session

VARIABLES
  enabled, password,  \* of each user: may he log in, which password is his
  session,            \* whose session a token is, and the password it began with
  request             \* a login, a request with a token, or one admitted

sessionVars == <<enabled, password, session, request>>

Idle == [at |-> "idle", who |-> NoOne]
Under(stage, w) == [at |-> stage, who |-> w]

Init ==
  /\ enabled = [u \in Users |-> TRUE]
  /\ password = [u \in Users |-> 0]
  /\ session = [t \in Tokens |-> NoOne]
  /\ request = [r \in Requests |-> Idle]

\* Enabled, with this password.
Good(w) == enabled[w.user] /\ password[w.user] = w.password

Login(r, w) ==
  /\ request[r] = Idle /\ Good(w)
  /\ request' = [request EXCEPT ![r] = Under("login", w)]
  /\ UNCHANGED <<enabled, password, session>>

\* The browser's last session c, if it has one, ends with it.
Open(r, t, c) ==
  /\ request[r].at = "login" /\ Good(request[r].who)
  /\ session[t] = NoOne
  /\ session' = [s \in Tokens |-> IF s = t THEN request[r].who
                                  ELSE IF s = c THEN NoOne ELSE session[s]]
  /\ request' = [request EXCEPT ![r] = Idle]
  /\ UNCHANGED <<enabled, password>>

Ask(r, t) ==
  /\ request[r] = Idle /\ session[t] # NoOne
  /\ request' = [request EXCEPT ![r] = Under("asking", session[t])]
  /\ UNCHANGED <<enabled, password, session>>

Admit(r) ==
  /\ request[r].at = "asking" /\ Good(request[r].who)
  /\ request' = [request EXCEPT ![r] = Under("admitted", @.who)]
  /\ UNCHANGED <<enabled, password, session>>

\* Disable, enable, log out everywhere, or a new password.
Manage(u, on, p) ==
  /\ enabled' = [enabled EXCEPT ![u] = on]
  /\ password' = [password EXCEPT ![u] = p]
  /\ session' = [t \in Tokens |->
       IF session[t] # NoOne /\ session[t].user = u THEN NoOne ELSE session[t]]
  /\ request' = [r \in Requests |->
       IF request[r].at \in {"login", "asking"} /\ request[r].who.user = u
       THEN Idle ELSE request[r]]

\* Sessions and requests may end at any time: by logout, expiry, a full table,
\* or a restart.
End ==
  /\ UNCHANGED <<enabled, password>>
  /\ \A t \in Tokens : session'[t] \in {session[t], NoOne}
  /\ \A r \in Requests : request'[r] \in {request[r], Idle}

Next ==
  \/ End
  \/ \E r \in Requests :
       \/ \E u \in Users : Login(r, [user |-> u, password |-> password[u]])
       \/ \E t \in Tokens : Ask(r, t) \/ \E c \in Tokens \cup {NoOne} : Open(r, t, c)
       \/ Admit(r)
  \/ \E u \in Users, on \in BOOLEAN : \E p \in {password[u], password[u] + 1} :
       Manage(u, on, p)

Spec == Init /\ [][Next]_sessionVars
=============================================================================
