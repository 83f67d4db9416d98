------------------------- MODULE AuthSessionsProofs -------------------------
(***************************************************************************)
(* Proofs, for any users, tokens, profiles and concurrent requests, of what*)
(* MCSessions checks for one user, three tokens and three requests.        *)
(*                                                                         *)
(* The argument: the row locks give every open refresh a live token and a  *)
(* user of its own (Locks), and keep what it read of them (Reads), so that *)
(* its rotation inserts one token where it takes one away, with the profile*)
(* the user still has.  An update_user that holds the user sees every token*)
(* such a rotation left, before it writes.                                 *)
(***************************************************************************)
EXTENDS AuthSessions, TLAPS

USE DEF Estados, Steps

\* Every request has a user that exists, and so has every token, with its family.
Owners ==
  /\ \A r \in Requests : request[r].pc # "idle" =>
       request[r].user \in Users /\ estado[request[r].user] # "none"
  /\ \A t \in Tokens : usuario[t] # NoUser =>
       /\ estado[usuario[t]] # "none"
       /\ familia[t] \in Tokens /\ usuario[familia[t]] # NoUser

Holding(r) == request[r].pc \in {"token locked", "user locked"}
Changing(r) == request[r].pc \in {"user locked", "updated", "revoking"}

\* A held token is live and belongs to the holder's user; rows have one holder.
HeldTokens ==
  \A r \in Requests : Holding(r) =>
    request[r].token \in live /\ usuario[request[r].token] = request[r].user
OneTokenHolder ==
  \A q, r \in Requests :
    Holding(q) /\ Holding(r) /\ request[q].token = request[r].token => q = r
OneUserHolder ==
  \A q, r \in Requests :
    Changing(q) /\ Changing(r) /\ request[q].user = request[r].user => q = r
Locks == HeldTokens /\ OneTokenHolder /\ OneUserHolder

\* What a request has read or will write agrees with the user's row, and the
\* tokens an update will revoke are all that a rotation left.
ReadUser ==
  \A r \in Requests : request[r].pc = "user locked" =>
    estado[request[r].user] = "ACTIVE" /\ profile[request[r].user] = request[r].profile
WriteUser ==
  \A r \in Requests : request[r].pc \in {"update", "updated", "revoking"} =>
    /\ request[r].estado # "none"
    /\ ~request[r].revoke =>
         /\ request[r].estado = "ACTIVE"
         /\ \/ profile[request[r].user] = request[r].profile
            \/ request[r].user \in overlapped
SeenTokens ==
  \A r \in Requests :
    IF request[r].pc = "revoking"
    THEN \A t \in live : usuario[t] = request[r].user /\ familia[t] # t => t \in request[r].seen
    ELSE request[r].seen = {}
Reads == ReadUser /\ WriteUser /\ SeenTokens

SessionInv ==
  /\ SessionTypeOK /\ Owners /\ Locks /\ Reads
  /\ OneLiveTokenPerFamily /\ RotatedTokensAreCurrent

-----------------------------------------------------------------------------
\* What an update_user that has read its target will write: a profile or an estado
\* that takes rights away comes with the revocation of the tokens.
LEMMA TargetRead ==
  ASSUME SessionTypeOK, NEW r \in Requests, NEW u \in Users, ReadTarget(r, u)
  PROVE  /\ request'[r].pc = "update" /\ request'[r].user = u /\ request'[r].seen = {}
         /\ request'[r].estado # "none"
         /\ ~request'[r].revoke =>
              request'[r].estado = "ACTIVE" /\ request'[r].profile = profile[u]
         /\ \A q \in Requests \ {r} : request'[q] = request[q]
<1>1. PICK e \in Estados, p \in Profiles, password \in BOOLEAN :
        request' = [request EXCEPT ![r] = [Idle EXCEPT
          !.pc = "update", !.user = u, !.estado = e, !.profile = p,
          !.revoke = p # profile[u] \/ e \in {"INACTIVE", "BLOCKED"} \/ password]]
  BY DEF ReadTarget
<1> DEFINE revoke == p # profile[u] \/ e \in {"INACTIVE", "BLOCKED"} \/ password
           next == [Idle EXCEPT !.pc = "update", !.user = u, !.estado = e, !.profile = p,
                                !.revoke = revoke]
<1>2. ~revoke => e = "ACTIVE" /\ p = profile[u]
  OBVIOUS
<1>3. request' = [request EXCEPT ![r] = next]
  BY <1>1
<1> HIDE DEF revoke
<1>4. /\ next.pc = "update" /\ next.user = u /\ next.seen = {} /\ next.estado = e
      /\ next.profile = p /\ next.revoke = revoke
  BY DEF Idle
<1> HIDE DEF next
<1>5. request'[r] = next /\ \A q \in Requests \ {r} : request'[q] = request[q]
  BY <1>3 DEF SessionTypeOK
<1> QED
  BY <1>2, <1>4, <1>5

\* The variables keep their types (auth.usuario, auth.refresh_token).
LEMMA TypeInductive ==
  ASSUME SessionTypeOK, Owners, Locks, [SessionNext]_sessionVars
  PROVE  SessionTypeOK'
<1> USE SessionAssumption
<1>1. ASSUME NEW u \in Users, NEW p \in Profiles, CreateUser(u, p)
      PROVE  SessionTypeOK'
  BY <1>1 DEF SessionTypeOK, Owners, RequestStates, CreateUser, tokenRows
<1>2. ASSUME NEW t \in Tokens, Logout(t)
      PROVE  SessionTypeOK'
  BY <1>2 DEF SessionTypeOK, Owners, RequestStates, Logout, userRows
<1>3. ASSUME NEW r \in Requests, NEW u \in Users, Login(r, u)
      PROVE  SessionTypeOK'
  BY <1>3 DEF SessionTypeOK, Owners, RequestStates, Login, Idle, userRows, tokenRows
<1>4. ASSUME NEW r \in Requests, NEW u \in Users, ReadTarget(r, u)
      PROVE  SessionTypeOK'
<2>1. PICK e \in Estados, p \in Profiles, password \in BOOLEAN :
        request' = [request EXCEPT ![r] = [Idle EXCEPT
          !.pc = "update", !.user = u, !.estado = e, !.profile = p,
          !.revoke = p # profile[u] \/ e \in {"INACTIVE", "BLOCKED"} \/ password]]
  BY <1>4 DEF ReadTarget
<2> DEFINE revoke == p # profile[u] \/ e \in {"INACTIVE", "BLOCKED"} \/ password
           next == [Idle EXCEPT !.pc = "update", !.user = u, !.estado = e, !.profile = p,
                                !.revoke = revoke]
<2>2. revoke \in BOOLEAN
  OBVIOUS
<2> HIDE DEF revoke
<2>3. next \in RequestStates
  BY <2>2 DEF Idle, RequestStates
<2>4. request' = [request EXCEPT ![r] = next]
  BY <2>1 DEF revoke
<2> HIDE DEF next
<2> QED
  BY <1>4, <2>3, <2>4 DEF SessionTypeOK, ReadTarget, userRows, tokenRows
<1>5. ASSUME NEW r \in Requests, NEW t \in Tokens, InsertToken(r, t)
      PROVE  SessionTypeOK'
<2>1. request[r] \in RequestStates /\ request[r].user \in Users
  BY <1>5 DEF SessionTypeOK, Owners, InsertToken
<2>2. t \in Tokens \cup {NoToken} /\ request[r].profile \in Profiles \cup {NoProfile}
  BY <1>5, <2>1 DEF SessionTypeOK, Locks, HeldTokens, Holding, RequestStates, InsertToken
<2>3. Insert(t, request[r].user, t, request[r].profile)
  BY <1>5 DEF InsertToken
<2>4. /\ usuario' \in [Tokens -> Users \cup {NoUser}]
      /\ familia' \in [Tokens -> Tokens \cup {NoToken}]
      /\ claims' \in [Tokens -> Profiles \cup {NoProfile}]
      /\ \A v \in Tokens : usuario'[v] = IF v = t THEN request[r].user ELSE usuario[v]
  BY <2>1, <2>2, <2>3 DEF SessionTypeOK, Insert
<2>5. live' \in SUBSET {v \in Tokens : usuario'[v] # NoUser}
  BY <1>5, <2>1, <2>4 DEF SessionTypeOK, InsertToken
<2>6. request' \in [Requests -> RequestStates]
  BY <1>5 DEF SessionTypeOK, InsertToken, Idle, RequestStates
<2> QED
  BY <1>5, <2>4, <2>5, <2>6 DEF SessionTypeOK, InsertToken, userRows
<1>6. ASSUME NEW r \in Requests, NEW t \in Tokens, LockToken(r, t)
      PROVE  SessionTypeOK'
  BY <1>6 DEF SessionTypeOK, Owners, RequestStates, LockToken, Idle, userRows, tokenRows
<1>7. ASSUME NEW r \in Requests, NEW t \in Tokens, Rotate(r, t)
      PROVE  SessionTypeOK'
<2>1. request[r] \in RequestStates /\ request[r].user \in Users
  BY <1>7 DEF SessionTypeOK, Owners, Rotate
<2>2. familia[request[r].token] \in Tokens \cup {NoToken} /\ request[r].profile \in Profiles \cup {NoProfile}
  BY <1>7, <2>1 DEF SessionTypeOK, Locks, HeldTokens, Holding, RequestStates, Rotate
<2>3. Insert(t, request[r].user, familia[request[r].token], request[r].profile)
  BY <1>7 DEF Rotate
<2>4. /\ usuario' \in [Tokens -> Users \cup {NoUser}]
      /\ familia' \in [Tokens -> Tokens \cup {NoToken}]
      /\ claims' \in [Tokens -> Profiles \cup {NoProfile}]
      /\ \A v \in Tokens : usuario'[v] = IF v = t THEN request[r].user ELSE usuario[v]
  BY <2>1, <2>2, <2>3 DEF SessionTypeOK, Insert
<2>5. live' \in SUBSET {v \in Tokens : usuario'[v] # NoUser}
  BY <1>7, <2>1, <2>4 DEF SessionTypeOK, Rotate
<2>6. request' \in [Requests -> RequestStates]
  BY <1>7 DEF SessionTypeOK, Rotate, Idle, RequestStates
<2> QED
  BY <1>7, <2>4, <2>5, <2>6 DEF SessionTypeOK, Rotate, userRows
<1>8. ASSUME NEW r \in Requests, LockUser(r)
      PROVE  SessionTypeOK'
<2> DEFINE next == [request[r] EXCEPT !.pc = "user locked", !.estado = estado[request[r].user],
                                   !.profile = profile[request[r].user]]
<2>1. request[r] \in RequestStates /\ request[r].user \in Users
  BY <1>8 DEF SessionTypeOK, Owners, LockUser
<2>2. next \in RequestStates
  BY <2>1 DEF SessionTypeOK, RequestStates
<2>3. request' = [request EXCEPT ![r] = next]
  BY <1>8 DEF LockUser
<2> HIDE DEF next
<2>4. request' \in [Requests -> RequestStates]
  BY <2>2, <2>3 DEF SessionTypeOK
<2>5. UNCHANGED <<userRows, tokenRows>>
  BY <1>8 DEF LockUser
<2> QED
  BY <2>4, <2>5 DEF SessionTypeOK, userRows, tokenRows
<1>9. ASSUME NEW r \in Requests, UpdateUser(r)
      PROVE  SessionTypeOK'
<2> DEFINE next == [request[r] EXCEPT !.pc = "updated"]
<2>1. request[r] \in RequestStates /\ request[r].user \in Users
  BY <1>9 DEF SessionTypeOK, Owners, UpdateUser
<2>2. next \in RequestStates
  BY <2>1 DEF SessionTypeOK, RequestStates
<2>3. request' = [request EXCEPT ![r] = next]
  BY <1>9 DEF UpdateUser
<2> HIDE DEF next
<2>4. request' \in [Requests -> RequestStates]
  BY <2>2, <2>3 DEF SessionTypeOK
<2>5. UNCHANGED <<userRows, tokenRows>>
  BY <1>9 DEF UpdateUser
<2> QED
  BY <2>4, <2>5 DEF SessionTypeOK, userRows, tokenRows
<1>10. ASSUME NEW r \in Requests, SeeTokens(r)
      PROVE  SessionTypeOK'
<2> DEFINE next == [request[r] EXCEPT !.pc = "revoking",
           !.seen = {t \in Tokens : usuario[t] = request[r].user}]
<2>1. request[r] \in RequestStates /\ request[r].user \in Users
  BY <1>10 DEF SessionTypeOK, Owners, SeeTokens
<2>2. next \in RequestStates
  BY <2>1 DEF SessionTypeOK, RequestStates
<2>3. request' = [request EXCEPT ![r] = next]
  BY <1>10 DEF SeeTokens
<2> HIDE DEF next
<2>4. request' \in [Requests -> RequestStates]
  BY <2>2, <2>3 DEF SessionTypeOK
<2>5. UNCHANGED <<userRows, tokenRows>>
  BY <1>10 DEF SeeTokens
<2> QED
  BY <2>4, <2>5 DEF SessionTypeOK, userRows, tokenRows
<1>11. ASSUME NEW r \in Requests, CommitUpdate(r)
      PROVE  SessionTypeOK'
  BY <1>11 DEF SessionTypeOK, Owners, RequestStates, CommitUpdate, Idle
<1>12. ASSUME NEW r \in Requests, Abort(r)
      PROVE  SessionTypeOK'
  BY <1>12 DEF SessionTypeOK, Owners, RequestStates, Abort, Idle, userRows, tokenRows
<1>13. CASE UNCHANGED sessionVars
  BY <1>13 DEF SessionTypeOK, Owners, RequestStates, sessionVars
<1> QED
  BY <1>1, <1>2, <1>3, <1>4, <1>5, <1>6, <1>7, <1>8, <1>9, <1>10, <1>11, <1>12, <1>13 DEF SessionNext

\* No request and no token is left without its user (the foreign keys).
LEMMA OwnersInductive ==
  ASSUME SessionTypeOK, Owners, Locks, Reads, [SessionNext]_sessionVars
  PROVE  Owners'
<1> USE SessionAssumption
<1>1. ASSUME NEW u \in Users, NEW p \in Profiles, CreateUser(u, p)
      PROVE  Owners'
  BY <1>1 DEF SessionTypeOK, Owners, RequestStates, CreateUser, tokenRows
<1>2. ASSUME NEW t \in Tokens, Logout(t)
      PROVE  Owners'
  BY <1>2 DEF SessionTypeOK, Owners, RequestStates, Logout, userRows
<1>3. ASSUME NEW r \in Requests, NEW u \in Users, Login(r, u)
      PROVE  Owners'
  BY <1>3 DEF SessionTypeOK, Owners, RequestStates, Login, Idle, userRows, tokenRows
<1>4. ASSUME NEW r \in Requests, NEW u \in Users, ReadTarget(r, u)
      PROVE  Owners'
<2>1. /\ request'[r].user = u
      /\ \A q \in Requests \ {r} : request'[q] = request[q]
  BY <1>4, TargetRead
<2> QED
  BY <1>4, <2>1 DEF SessionTypeOK, Owners, ReadTarget, userRows, tokenRows
<1>5. ASSUME NEW r \in Requests, NEW t \in Tokens, InsertToken(r, t)
      PROVE  Owners'
  BY <1>5 DEF SessionTypeOK, Owners, RequestStates, InsertToken, Insert, Idle, userRows
<1>6. ASSUME NEW r \in Requests, NEW t \in Tokens, LockToken(r, t)
      PROVE  Owners'
  BY <1>6 DEF SessionTypeOK, Owners, RequestStates, LockToken, Idle, userRows, tokenRows, Locks, HeldTokens, Holding
<1>7. ASSUME NEW r \in Requests, NEW t \in Tokens, Rotate(r, t)
      PROVE  Owners'
  BY <1>7 DEF SessionTypeOK, Owners, RequestStates, Rotate, Insert, Idle, userRows, Locks, HeldTokens, Holding
<1>8. ASSUME NEW r \in Requests, LockUser(r)
      PROVE  Owners'
  BY <1>8 DEF SessionTypeOK, Owners, RequestStates, LockUser, userRows, tokenRows
<1>9. ASSUME NEW r \in Requests, UpdateUser(r)
      PROVE  Owners'
  BY <1>9 DEF SessionTypeOK, Owners, RequestStates, UpdateUser, userRows, tokenRows
<1>10. ASSUME NEW r \in Requests, SeeTokens(r)
      PROVE  Owners'
  BY <1>10 DEF SessionTypeOK, Owners, RequestStates, SeeTokens, userRows, tokenRows
<1>11. ASSUME NEW r \in Requests, CommitUpdate(r)
      PROVE  Owners'
  BY <1>11 DEF SessionTypeOK, Owners, RequestStates, CommitUpdate, Idle, Reads, WriteUser
<1>12. ASSUME NEW r \in Requests, Abort(r)
      PROVE  Owners'
  BY <1>12 DEF SessionTypeOK, Owners, RequestStates, Abort, Idle, userRows, tokenRows
<1>13. CASE UNCHANGED sessionVars
  BY <1>13 DEF SessionTypeOK, Owners, RequestStates, sessionVars
<1> QED
  BY <1>1, <1>2, <1>3, <1>4, <1>5, <1>6, <1>7, <1>8, <1>9, <1>10, <1>11, <1>12, <1>13 DEF SessionNext

\* A step of one request keeps the locks when what it holds afterwards is held by
\* no other, and no other loses the token it holds.
LEMMA LocksKept ==
  ASSUME SessionTypeOK, Locks, NEW r \in Requests,
         \A q \in Requests \ {r} : request'[q] = request[q],
         \A t \in live : usuario'[t] = usuario[t],
         \A q \in Requests \ {r} : Holding(q) => request[q].token \in live',
         Holding(r)' =>
           /\ request'[r].token \in live /\ request'[r].token \in live'
           /\ usuario[request'[r].token] = request'[r].user
           /\ \A q \in Requests \ {r} : Holding(q) => request[q].token # request'[r].token,
         Changing(r)' =>
           \A q \in Requests \ {r} : Changing(q) => request[q].user # request'[r].user
  PROVE  Locks'
<1>1. HeldTokens'
<2> SUFFICES ASSUME NEW q \in Requests, Holding(q)'
             PROVE  /\ request'[q].token \in live'
                    /\ usuario'[request'[q].token] = request'[q].user
  BY DEF HeldTokens
<2>1. CASE q = r
  BY <2>1
<2>2. CASE q # r
<3>1. Holding(q) /\ request'[q] = request[q]
  BY <2>2 DEF Holding
<3>2. request[q].token \in live /\ usuario[request[q].token] = request[q].user
  BY <3>1 DEF Locks, HeldTokens
<3> QED
  BY <2>2, <3>1, <3>2
<2> QED
  BY <2>1, <2>2
<1>2. OneTokenHolder'
<2> SUFFICES ASSUME NEW p \in Requests, NEW q \in Requests, Holding(p)', Holding(q)',
                    request'[p].token = request'[q].token
             PROVE  p = q
  BY DEF OneTokenHolder
<2>1. CASE p = r
  BY <2>1 DEF Holding
<2>2. CASE q = r
  BY <2>2 DEF Holding
<2>3. CASE p # r /\ q # r
  BY <2>3 DEF Locks, OneTokenHolder, Holding
<2> QED
  BY <2>1, <2>2, <2>3
<1>3. OneUserHolder'
<2> SUFFICES ASSUME NEW p \in Requests, NEW q \in Requests, Changing(p)', Changing(q)',
                    request'[p].user = request'[q].user
             PROVE  p = q
  BY DEF OneUserHolder
<2>1. CASE p = r
  BY <2>1 DEF Changing
<2>2. CASE q = r
  BY <2>2 DEF Changing
<2>3. CASE p # r /\ q # r
<3>1. request'[p] = request[p] /\ request'[q] = request[q]
  BY <2>3
<3>2. Changing(p) /\ Changing(q) /\ request[p].user = request[q].user
  BY <3>1 DEF Changing
<3> QED
  BY <3>2 DEF Locks, OneUserHolder
<2> QED
  BY <2>1, <2>2, <2>3
<1> QED
  BY <1>1, <1>2, <1>3 DEF Locks

\* A held token is neither revoked nor locked by another request, and a held user
\* is not locked by another either (the reads FOR UPDATE, the UPDATE of the user).
LEMMA LocksInductive ==
  ASSUME SessionTypeOK, Owners, Locks, Reads, [SessionNext]_sessionVars
  PROVE  Locks'
<1> USE SessionAssumption
<1>1. ASSUME NEW u \in Users, NEW p \in Profiles, CreateUser(u, p)
      PROVE  Locks'
  BY <1>1 DEF CreateUser, tokenRows, Locks, HeldTokens, OneTokenHolder, OneUserHolder,
              Holding, Changing
<1>2. ASSUME NEW t \in Tokens, Logout(t)
      PROVE  Locks'
  BY <1>2 DEF Logout, userRows, Locks, HeldTokens, OneTokenHolder, OneUserHolder,
              Holding, Changing, HoldsToken
<1>3. ASSUME NEW r \in Requests, NEW u \in Users, Login(r, u)
      PROVE  Locks'
<2>1. request'[r].pc = "login" /\ \A q \in Requests \ {r} : request'[q] = request[q]
  BY <1>3 DEF SessionTypeOK, Login, Idle
<2> QED
  BY <1>3, <2>1, LocksKept DEF Login, tokenRows, Locks, HeldTokens, Holding, Changing
<1>4. ASSUME NEW r \in Requests, NEW u \in Users, ReadTarget(r, u)
      PROVE  Locks'
<2>1. request'[r].pc = "update" /\ \A q \in Requests \ {r} : request'[q] = request[q]
  BY <1>4, TargetRead
<2> QED
  BY <1>4, <2>1, LocksKept DEF ReadTarget, tokenRows, Locks, HeldTokens, Holding, Changing
<1>5. ASSUME NEW r \in Requests, NEW t \in Tokens, InsertToken(r, t)
      PROVE  Locks'
<2>1. request'[r].pc = "idle" /\ \A q \in Requests \ {r} : request'[q] = request[q]
  BY <1>5 DEF SessionTypeOK, InsertToken, Idle
<2>2. \A v \in live : usuario'[v] = usuario[v]
  BY <1>5 DEF SessionTypeOK, InsertToken, Insert
<2> QED
  BY <1>5, <2>1, <2>2, LocksKept DEF InsertToken, Locks, HeldTokens, Holding, Changing
<1>6. ASSUME NEW r \in Requests, NEW t \in Tokens, LockToken(r, t)
      PROVE  Locks'
<2>1. /\ request'[r].pc = "token locked" /\ request'[r].token = t
      /\ request'[r].user = usuario[t]
      /\ \A q \in Requests \ {r} : request'[q] = request[q]
  BY <1>6 DEF SessionTypeOK, LockToken, Idle
<2>2. \A q \in Requests \ {r} : Holding(q) => request[q].token # t
  BY <1>6 DEF LockToken, Holding, HoldsToken
<2>3. t \in live /\ UNCHANGED <<live, usuario>>
  BY <1>6 DEF LockToken, tokenRows
<2>4. \A q \in Requests \ {r} : Holding(q) => request[q].token \in live'
  BY <2>3 DEF Locks, HeldTokens
<2>5. ~Changing(r)'
  BY <2>1 DEF Changing
<2> QED
  BY <2>1, <2>2, <2>3, <2>4, <2>5, LocksKept
<1>7. ASSUME NEW r \in Requests, NEW t \in Tokens, Rotate(r, t)
      PROVE  Locks'
<2>1. request'[r].pc = "idle" /\ \A q \in Requests \ {r} : request'[q] = request[q]
  BY <1>7 DEF SessionTypeOK, Rotate, Idle
<2>2. \A v \in live : usuario'[v] = usuario[v]
  BY <1>7 DEF SessionTypeOK, Rotate, Insert
<2>3. \A q \in Requests \ {r} : Holding(q) => request[q].token \in live'
  BY <1>7 DEF Rotate, Locks, HeldTokens, OneTokenHolder, Holding
<2> QED
  BY <2>1, <2>2, <2>3, LocksKept DEF Holding, Changing
<1>8. ASSUME NEW r \in Requests, LockUser(r)
      PROVE  Locks'
<2>1. /\ request'[r].pc = "user locked" /\ request'[r].token = request[r].token
      /\ request'[r].user = request[r].user
      /\ \A q \in Requests \ {r} : request'[q] = request[q]
  BY <1>8 DEF SessionTypeOK, RequestStates, LockUser
<2>2. \A q \in Requests \ {r} : Changing(q) => request[q].user # request[r].user
  BY <1>8 DEF LockUser, HoldsUser, Refreshing, Changing
<2>3. Holding(r) /\ \A q \in Requests \ {r} : Holding(q) => request[q].token # request[r].token
  BY <1>8 DEF LockUser, Locks, OneTokenHolder, Holding
<2>4. UNCHANGED <<live, usuario>>
  BY <1>8 DEF LockUser, tokenRows
<2>5. \A q \in Requests : Holding(q) =>
        request[q].token \in live /\ usuario[request[q].token] = request[q].user
  BY DEF Locks, HeldTokens
<2>6. /\ \A v \in live : usuario'[v] = usuario[v]
      /\ \A q \in Requests \ {r} : Holding(q) => request[q].token \in live'
  BY <2>4, <2>5
<2>7. Changing(r)' =>
        \A q \in Requests \ {r} : Changing(q) => request[q].user # request'[r].user
  BY <2>1, <2>2
<2>8. /\ request'[r].token \in live /\ request'[r].token \in live'
      /\ usuario[request'[r].token] = request'[r].user
      /\ \A q \in Requests \ {r} : Holding(q) => request[q].token # request'[r].token
  BY <2>1, <2>3, <2>4, <2>5
<2> QED
  BY <2>1, <2>6, <2>7, <2>8, LocksKept
<1>9. ASSUME NEW r \in Requests, UpdateUser(r)
      PROVE  Locks'
<2>1. /\ request'[r].pc = "updated" /\ request'[r].user = request[r].user
      /\ \A q \in Requests \ {r} : request'[q] = request[q]
  BY <1>9 DEF SessionTypeOK, RequestStates, UpdateUser
<2>2. \A q \in Requests \ {r} : Changing(q) => request[q].user # request[r].user
  BY <1>9 DEF UpdateUser, HoldsUser, Refreshing, Changing
<2> QED
  BY <1>9, <2>1, <2>2, LocksKept DEF UpdateUser, tokenRows, Locks, HeldTokens, Holding
<1>10. ASSUME NEW r \in Requests, SeeTokens(r)
      PROVE  Locks'
<2>1. /\ request'[r].pc = "revoking" /\ request'[r].user = request[r].user
      /\ \A q \in Requests \ {r} : request'[q] = request[q]
  BY <1>10 DEF SessionTypeOK, RequestStates, SeeTokens
<2>2. \A q \in Requests \ {r} : Changing(q) => request[q].user # request[r].user
  BY <1>10 DEF SeeTokens, Locks, OneUserHolder, Changing
<2> QED
  BY <1>10, <2>1, <2>2, LocksKept DEF SeeTokens, tokenRows, Locks, HeldTokens, Holding
<1>11. ASSUME NEW r \in Requests, CommitUpdate(r)
      PROVE  Locks'
<2>1. request'[r].pc = "idle" /\ \A q \in Requests \ {r} : request'[q] = request[q]
  BY <1>11 DEF SessionTypeOK, CommitUpdate, Idle
<2>2. \A q \in Requests : Holding(q) => request[q].token \notin request[r].seen
  BY <1>11 DEF CommitUpdate, Reads, SeenTokens, Holding, HoldsToken
<2> QED
  BY <1>11, <2>1, <2>2, LocksKept DEF CommitUpdate, Locks, HeldTokens, Holding, Changing
<1>12. ASSUME NEW r \in Requests, Abort(r)
      PROVE  Locks'
<2>1. request'[r].pc = "idle" /\ \A q \in Requests \ {r} : request'[q] = request[q]
  BY <1>12 DEF SessionTypeOK, Abort, Idle
<2> QED
  BY <1>12, <2>1, LocksKept DEF Abort, tokenRows, Locks, HeldTokens, Holding, Changing
<1>13. CASE UNCHANGED sessionVars
  BY <1>13 DEF sessionVars, Locks, HeldTokens, OneTokenHolder, OneUserHolder, Holding, Changing
<1> QED
  BY <1>1, <1>2, <1>3, <1>4, <1>5, <1>6, <1>7, <1>8, <1>9, <1>10, <1>11, <1>12, <1>13 DEF SessionNext

\* A step of one request that changes no row of a user keeps what requests have
\* read of users, when what this one read agrees with the rows.
LEMMA ReadUserKept ==
  ASSUME ReadUser, NEW r \in Requests, UNCHANGED <<estado, profile>>,
         \A q \in Requests \ {r} : request'[q] = request[q],
         request'[r].pc = "user locked" =>
           /\ estado[request'[r].user] = "ACTIVE"
           /\ profile[request'[r].user] = request'[r].profile
  PROVE  ReadUser'
BY DEF ReadUser

\* The user a refresh has read stays active and keeps its profile until the
\* refresh ends (the second SELECT ... FOR UPDATE of the refresh).
LEMMA ReadUserInductive ==
  ASSUME SessionTypeOK, Owners, Locks, Reads, [SessionNext]_sessionVars
  PROVE  ReadUser'
<1> USE SessionAssumption
<1> USE DEF Reads
<1>1. ASSUME NEW u \in Users, NEW p \in Profiles, CreateUser(u, p)
      PROVE  ReadUser'
  BY <1>1 DEF CreateUser, SessionTypeOK, Owners, ReadUser
<1>2. ASSUME NEW t \in Tokens, Logout(t)
      PROVE  ReadUser'
  BY <1>2 DEF Logout, userRows, ReadUser
<1>3. ASSUME NEW r \in Requests, NEW u \in Users, Login(r, u)
      PROVE  ReadUser'
<2>1. request'[r].pc = "login" /\ \A q \in Requests \ {r} : request'[q] = request[q]
  BY <1>3 DEF SessionTypeOK, Login, Idle
<2> QED
  BY <1>3, <2>1, ReadUserKept DEF Login, userRows
<1>4. ASSUME NEW r \in Requests, NEW u \in Users, ReadTarget(r, u)
      PROVE  ReadUser'
<2>1. request'[r].pc = "update" /\ \A q \in Requests \ {r} : request'[q] = request[q]
  BY <1>4, TargetRead
<2> QED
  BY <1>4, <2>1, ReadUserKept DEF ReadTarget, userRows
<1>5. ASSUME NEW r \in Requests, NEW t \in Tokens, InsertToken(r, t)
      PROVE  ReadUser'
<2>1. request'[r].pc = "idle" /\ \A q \in Requests \ {r} : request'[q] = request[q]
  BY <1>5 DEF SessionTypeOK, InsertToken, Idle
<2> QED
  BY <1>5, <2>1, ReadUserKept DEF InsertToken, userRows
<1>6. ASSUME NEW r \in Requests, NEW t \in Tokens, LockToken(r, t)
      PROVE  ReadUser'
<2>1. request'[r].pc = "token locked" /\ \A q \in Requests \ {r} : request'[q] = request[q]
  BY <1>6 DEF SessionTypeOK, LockToken, Idle
<2> QED
  BY <1>6, <2>1, ReadUserKept DEF LockToken, userRows
<1>7. ASSUME NEW r \in Requests, NEW t \in Tokens, Rotate(r, t)
      PROVE  ReadUser'
<2>1. request'[r].pc = "idle" /\ \A q \in Requests \ {r} : request'[q] = request[q]
  BY <1>7 DEF SessionTypeOK, Rotate, Idle
<2> QED
  BY <1>7, <2>1, ReadUserKept DEF Rotate, userRows
<1>8. ASSUME NEW r \in Requests, LockUser(r)
      PROVE  ReadUser'
<2>1. /\ request'[r].user = request[r].user
      /\ request'[r].profile = profile[request[r].user]
      /\ \A q \in Requests \ {r} : request'[q] = request[q]
  BY <1>8 DEF SessionTypeOK, RequestStates, LockUser
<2>2. estado[request[r].user] = "ACTIVE" /\ UNCHANGED <<estado, profile>>
  BY <1>8 DEF LockUser, userRows
<2> QED
  BY <2>1, <2>2, ReadUserKept
<1>9. ASSUME NEW r \in Requests, UpdateUser(r)
      PROVE  ReadUser'
<2>1. request'[r].pc = "updated" /\ \A q \in Requests \ {r} : request'[q] = request[q]
  BY <1>9 DEF SessionTypeOK, RequestStates, UpdateUser
<2> QED
  BY <1>9, <2>1, ReadUserKept DEF UpdateUser, userRows
<1>10. ASSUME NEW r \in Requests, SeeTokens(r)
      PROVE  ReadUser'
<2>1. request'[r].pc = "revoking" /\ \A q \in Requests \ {r} : request'[q] = request[q]
  BY <1>10 DEF SessionTypeOK, RequestStates, SeeTokens
<2> QED
  BY <1>10, <2>1, ReadUserKept DEF SeeTokens, userRows
<1>11. ASSUME NEW r \in Requests, CommitUpdate(r)
      PROVE  ReadUser'
<2>1. request'[r].pc = "idle" /\ \A q \in Requests \ {r} : request'[q] = request[q]
  BY <1>11 DEF SessionTypeOK, CommitUpdate, Idle
<2>2. \A q \in Requests \ {r} : request[q].pc = "user locked" => request[q].user # request[r].user
  BY <1>11 DEF CommitUpdate, Locks, OneUserHolder, Changing
<2>3. \A v \in Users \ {request[r].user} : estado'[v] = estado[v] /\ profile'[v] = profile[v]
  BY <1>11 DEF SessionTypeOK, CommitUpdate
<2>4. \A q \in Requests : request[q].pc = "user locked" => request[q].user \in Users
  BY DEF Owners
<2>5. ASSUME NEW q \in Requests, request'[q].pc = "user locked"
      PROVE  estado'[request'[q].user] = "ACTIVE" /\ profile'[request'[q].user] = request'[q].profile
  <3>1. q # r /\ request'[q] = request[q]
    BY <2>1, <2>5
  <3>2. request[q].user \in Users \ {request[r].user}
    BY <2>2, <2>4, <2>5, <3>1
  <3> QED
    BY <2>3, <2>5, <3>1, <3>2 DEF ReadUser
<2> QED
  BY <2>5 DEF ReadUser
<1>12. ASSUME NEW r \in Requests, Abort(r)
      PROVE  ReadUser'
<2>1. request'[r].pc = "idle" /\ \A q \in Requests \ {r} : request'[q] = request[q]
  BY <1>12 DEF SessionTypeOK, Abort, Idle
<2> QED
  BY <1>12, <2>1, ReadUserKept DEF Abort, userRows
<1>13. CASE UNCHANGED sessionVars
  BY <1>13 DEF sessionVars, ReadUser
<1> QED
  BY <1>1, <1>2, <1>3, <1>4, <1>5, <1>6, <1>7, <1>8, <1>9, <1>10, <1>11, <1>12, <1>13 DEF SessionNext

\* A step of one request that changes no row of a user keeps what updates will
\* write, when what this one will write agrees with the rows.
LEMMA WriteUserKept ==
  ASSUME WriteUser, NEW r \in Requests, UNCHANGED <<profile, overlapped>>,
         \A q \in Requests \ {r} : request'[q] = request[q],
         request'[r].pc \in {"update", "updated", "revoking"} =>
           /\ request'[r].estado # "none"
           /\ ~request'[r].revoke =>
                /\ request'[r].estado = "ACTIVE"
                /\ \/ profile[request'[r].user] = request'[r].profile
                   \/ request'[r].user \in overlapped
  PROVE  WriteUser'
BY DEF WriteUser

\* An update that revokes nothing writes back what the user has, unless another
\* one came between its read and its write (update_user).
LEMMA WriteUserInductive ==
  ASSUME SessionTypeOK, Owners, Locks, Reads, [SessionNext]_sessionVars
  PROVE  WriteUser'
<1> USE SessionAssumption
<1> USE DEF Reads
<1>1. ASSUME NEW u \in Users, NEW p \in Profiles, CreateUser(u, p)
      PROVE  WriteUser'
<2>1. \A v \in Users : estado[v] # "none" => profile'[v] = profile[v]
  BY <1>1 DEF CreateUser, SessionTypeOK
<2>2. UNCHANGED <<overlapped, request>>
  BY <1>1 DEF CreateUser
<2> QED
  BY <2>1, <2>2 DEF Owners, WriteUser
<1>2. ASSUME NEW t \in Tokens, Logout(t)
      PROVE  WriteUser'
  BY <1>2 DEF Logout, userRows, WriteUser
<1>3. ASSUME NEW r \in Requests, NEW u \in Users, Login(r, u)
      PROVE  WriteUser'
<2>1. request'[r].pc = "login" /\ \A q \in Requests \ {r} : request'[q] = request[q]
  BY <1>3 DEF SessionTypeOK, Login, Idle
<2> QED
  BY <1>3, <2>1, WriteUserKept DEF Login, userRows
<1>4. ASSUME NEW r \in Requests, NEW u \in Users, ReadTarget(r, u)
      PROVE  WriteUser'
<2>1. UNCHANGED <<profile, overlapped>>
  BY <1>4 DEF ReadTarget, userRows
<2> QED
  BY <1>4, <2>1, TargetRead, WriteUserKept
<1>5. ASSUME NEW r \in Requests, NEW t \in Tokens, InsertToken(r, t)
      PROVE  WriteUser'
<2>1. request'[r].pc = "idle" /\ \A q \in Requests \ {r} : request'[q] = request[q]
  BY <1>5 DEF SessionTypeOK, InsertToken, Idle
<2> QED
  BY <1>5, <2>1, WriteUserKept DEF InsertToken, userRows
<1>6. ASSUME NEW r \in Requests, NEW t \in Tokens, LockToken(r, t)
      PROVE  WriteUser'
<2>1. request'[r].pc = "token locked" /\ \A q \in Requests \ {r} : request'[q] = request[q]
  BY <1>6 DEF SessionTypeOK, LockToken, Idle
<2> QED
  BY <1>6, <2>1, WriteUserKept DEF LockToken, userRows
<1>7. ASSUME NEW r \in Requests, NEW t \in Tokens, Rotate(r, t)
      PROVE  WriteUser'
<2>1. request'[r].pc = "idle" /\ \A q \in Requests \ {r} : request'[q] = request[q]
  BY <1>7 DEF SessionTypeOK, Rotate, Idle
<2> QED
  BY <1>7, <2>1, WriteUserKept DEF Rotate, userRows
<1>8. ASSUME NEW r \in Requests, LockUser(r)
      PROVE  WriteUser'
<2>1. request'[r].pc = "user locked" /\ \A q \in Requests \ {r} : request'[q] = request[q]
  BY <1>8 DEF SessionTypeOK, RequestStates, LockUser
<2> QED
  BY <1>8, <2>1, WriteUserKept DEF LockUser, userRows
<1>9. ASSUME NEW r \in Requests, UpdateUser(r)
      PROVE  WriteUser'
<2>1. /\ request'[r].user = request[r].user /\ request'[r].estado = request[r].estado
      /\ request'[r].profile = request[r].profile /\ request'[r].revoke = request[r].revoke
      /\ \A q \in Requests \ {r} : request'[q] = request[q]
  BY <1>9 DEF SessionTypeOK, RequestStates, UpdateUser
<2>2. request[r].pc = "update" /\ UNCHANGED <<profile, overlapped>>
  BY <1>9 DEF UpdateUser, userRows
<2> QED
  BY <2>1, <2>2, WriteUserKept DEF WriteUser
<1>10. ASSUME NEW r \in Requests, SeeTokens(r)
      PROVE  WriteUser'
<2>1. /\ request'[r].user = request[r].user /\ request'[r].estado = request[r].estado
      /\ request'[r].profile = request[r].profile /\ request'[r].revoke = request[r].revoke
      /\ \A q \in Requests \ {r} : request'[q] = request[q]
  BY <1>10 DEF SessionTypeOK, RequestStates, SeeTokens
<2>2. request[r].pc = "updated" /\ UNCHANGED <<profile, overlapped>>
  BY <1>10 DEF SeeTokens, userRows
<2> QED
  BY <2>1, <2>2, WriteUserKept DEF WriteUser
<1>11. ASSUME NEW r \in Requests, CommitUpdate(r)
      PROVE  WriteUser'
<2>1. request'[r].pc = "idle" /\ \A q \in Requests \ {r} : request'[q] = request[q]
  BY <1>11 DEF SessionTypeOK, CommitUpdate, Idle
<2>2. \A q \in Requests \ {r} :
        request[q].pc \in {"updated", "revoking"} => request[q].user # request[r].user
  BY <1>11 DEF CommitUpdate, Locks, OneUserHolder, Changing
<2>3. \A v \in Users \ {request[r].user} : profile'[v] = profile[v]
  BY <1>11 DEF SessionTypeOK, CommitUpdate
<2>4. \A q \in Requests \ {r} :
        request[q].pc = "update" /\ request[q].user = request[r].user =>
          request[q].user \in overlapped'
  BY <1>11 DEF CommitUpdate
<2>5. overlapped \subseteq overlapped'
  BY <1>11 DEF CommitUpdate
<2> SUFFICES ASSUME NEW q \in Requests \ {r},
                    request[q].pc \in {"update", "updated", "revoking"}
             PROVE  /\ request[q].estado # "none"
                    /\ ~request[q].revoke =>
                         /\ request[q].estado = "ACTIVE"
                         /\ \/ profile'[request[q].user] = request[q].profile
                            \/ request[q].user \in overlapped'
  BY <2>1 DEF WriteUser
<2>6. request[q].user \in Users
  BY DEF Owners
<2>7. CASE request[q].user = request[r].user
  BY <2>2, <2>4, <2>7 DEF WriteUser
<2>8. CASE request[q].user # request[r].user
  BY <2>3, <2>5, <2>6, <2>8 DEF WriteUser
<2> QED
  BY <2>7, <2>8
<1>12. ASSUME NEW r \in Requests, Abort(r)
      PROVE  WriteUser'
<2>1. request'[r].pc = "idle" /\ \A q \in Requests \ {r} : request'[q] = request[q]
  BY <1>12 DEF SessionTypeOK, Abort, Idle
<2> QED
  BY <1>12, <2>1, WriteUserKept DEF Abort, userRows
<1>13. CASE UNCHANGED sessionVars
  BY <1>13 DEF sessionVars, WriteUser
<1> QED
  BY <1>1, <1>2, <1>3, <1>4, <1>5, <1>6, <1>7, <1>8, <1>9, <1>10, <1>11, <1>12, <1>13 DEF SessionNext

\* A step of one request keeps what updates have seen, when the tokens it adds are
\* seen, are no rotation's, or belong to another user than the one being revoked.
LEMMA SeenTokensKept ==
  ASSUME SeenTokens, NEW r \in Requests,
         \A q \in Requests \ {r} : request'[q] = request[q],
         request'[r].pc # "revoking", request'[r].seen = {},
         \A v \in live : usuario'[v] = usuario[v] /\ familia'[v] = familia[v],
         \A v \in live' \ live : familia'[v] = v \/
           \A q \in Requests \ {r} : request[q].pc = "revoking" => usuario'[v] # request[q].user
  PROVE  SeenTokens'
<1> SUFFICES ASSUME NEW q \in Requests \ {r}
             PROVE  IF request[q].pc = "revoking"
                    THEN \A v \in live' : usuario'[v] = request[q].user /\ familia'[v] # v =>
                           v \in request[q].seen
                    ELSE request[q].seen = {}
  BY DEF SeenTokens
<1>1. ASSUME request[q].pc = "revoking", NEW v \in live', usuario'[v] = request[q].user,
             familia'[v] # v
      PROVE  v \in request[q].seen
<2>1. v \in live
  BY <1>1
<2> QED
  BY <1>1, <2>1 DEF SeenTokens
<1> QED
  BY <1>1 DEF SeenTokens

\* The tokens an update is about to revoke are all that rotations left of its
\* user: none can be added while it holds the user (the UPDATE of refresh_token).
LEMMA SeenTokensInductive ==
  ASSUME SessionTypeOK, Owners, Locks, Reads, [SessionNext]_sessionVars
  PROVE  SeenTokens'
<1> USE SessionAssumption
<1> USE DEF Reads
<1>1. ASSUME NEW u \in Users, NEW p \in Profiles, CreateUser(u, p)
      PROVE  SeenTokens'
  BY <1>1 DEF CreateUser, tokenRows, SeenTokens
<1>2. ASSUME NEW t \in Tokens, Logout(t)
      PROVE  SeenTokens'
  BY <1>2 DEF Logout, SeenTokens
<1>3. ASSUME NEW r \in Requests, NEW u \in Users, Login(r, u)
      PROVE  SeenTokens'
<2>1. /\ request'[r].pc = "login" /\ request'[r].seen = {}
      /\ \A q \in Requests \ {r} : request'[q] = request[q]
  BY <1>3 DEF SessionTypeOK, Login, Idle
<2> QED
  BY <1>3, <2>1, SeenTokensKept DEF Login, tokenRows
<1>4. ASSUME NEW r \in Requests, NEW u \in Users, ReadTarget(r, u)
      PROVE  SeenTokens'
  BY <1>4, TargetRead, SeenTokensKept DEF ReadTarget, tokenRows
<1>5. ASSUME NEW r \in Requests, NEW t \in Tokens, InsertToken(r, t)
      PROVE  SeenTokens'
<2>1. /\ request'[r].pc = "idle" /\ request'[r].seen = {}
      /\ \A q \in Requests \ {r} : request'[q] = request[q]
  BY <1>5 DEF SessionTypeOK, InsertToken, Idle
<2>2. \A v \in live : usuario'[v] = usuario[v] /\ familia'[v] = familia[v]
  BY <1>5 DEF SessionTypeOK, InsertToken, Insert
<2>3. live' \ live \subseteq {t} /\ familia'[t] = t
  BY <1>5 DEF SessionTypeOK, InsertToken, Insert
<2> QED
  BY <2>1, <2>2, <2>3, SeenTokensKept
<1>6. ASSUME NEW r \in Requests, NEW t \in Tokens, LockToken(r, t)
      PROVE  SeenTokens'
<2>1. /\ request'[r].pc = "token locked" /\ request'[r].seen = {}
      /\ \A q \in Requests \ {r} : request'[q] = request[q]
  BY <1>6 DEF SessionTypeOK, LockToken, Idle
<2> QED
  BY <1>6, <2>1, SeenTokensKept DEF LockToken, tokenRows
<1>7. ASSUME NEW r \in Requests, NEW t \in Tokens, Rotate(r, t)
      PROVE  SeenTokens'
<2>1. /\ request'[r].pc = "idle" /\ request'[r].seen = {}
      /\ \A q \in Requests \ {r} : request'[q] = request[q]
  BY <1>7 DEF SessionTypeOK, Rotate, Idle
<2>2. \A v \in live : usuario'[v] = usuario[v] /\ familia'[v] = familia[v]
  BY <1>7 DEF SessionTypeOK, Rotate, Insert
<2>3. live' \ live \subseteq {t} /\ usuario'[t] = request[r].user
  BY <1>7 DEF SessionTypeOK, Rotate, Insert
<2>4. \A q \in Requests \ {r} : request[q].pc = "revoking" => request[q].user # request[r].user
  BY <1>7 DEF Rotate, Locks, OneUserHolder, Changing
<2> QED
  BY <2>1, <2>2, <2>3, <2>4, SeenTokensKept
<1>8. ASSUME NEW r \in Requests, LockUser(r)
      PROVE  SeenTokens'
<2>1. /\ request'[r].pc = "user locked" /\ request'[r].seen = request[r].seen
      /\ \A q \in Requests \ {r} : request'[q] = request[q]
  BY <1>8 DEF SessionTypeOK, RequestStates, LockUser
<2>2. request[r].seen = {}
  BY <1>8 DEF LockUser, SeenTokens
<2> QED
  BY <1>8, <2>1, <2>2, SeenTokensKept DEF LockUser, tokenRows
<1>9. ASSUME NEW r \in Requests, UpdateUser(r)
      PROVE  SeenTokens'
<2>1. /\ request'[r].pc = "updated" /\ request'[r].seen = request[r].seen
      /\ \A q \in Requests \ {r} : request'[q] = request[q]
  BY <1>9 DEF SessionTypeOK, RequestStates, UpdateUser
<2>2. request[r].seen = {}
  BY <1>9 DEF UpdateUser, SeenTokens
<2> QED
  BY <1>9, <2>1, <2>2, SeenTokensKept DEF UpdateUser, tokenRows
<1>10. ASSUME NEW r \in Requests, SeeTokens(r)
      PROVE  SeenTokens'
<2>1. /\ request'[r].pc = "revoking" /\ request'[r].user = request[r].user
      /\ request'[r].seen = {t \in Tokens : usuario[t] = request[r].user}
      /\ \A q \in Requests \ {r} : request'[q] = request[q]
  BY <1>10 DEF SessionTypeOK, RequestStates, SeeTokens
<2>2. live \subseteq Tokens /\ UNCHANGED <<live, usuario, familia>>
  BY <1>10 DEF SessionTypeOK, SeeTokens, tokenRows
<2> QED
  BY <2>1, <2>2 DEF SeenTokens
<1>11. ASSUME NEW r \in Requests, CommitUpdate(r)
      PROVE  SeenTokens'
<2>1. /\ request'[r].pc = "idle" /\ request'[r].seen = {}
      /\ \A q \in Requests \ {r} : request'[q] = request[q]
  BY <1>11 DEF SessionTypeOK, CommitUpdate, Idle
<2>2. live' \subseteq live /\ UNCHANGED <<usuario, familia>>
  BY <1>11 DEF CommitUpdate
<2> QED
  BY <2>1, <2>2, SeenTokensKept
<1>12. ASSUME NEW r \in Requests, Abort(r)
      PROVE  SeenTokens'
<2>1. /\ request'[r].pc = "idle" /\ request'[r].seen = {}
      /\ \A q \in Requests \ {r} : request'[q] = request[q]
  BY <1>12 DEF SessionTypeOK, Abort, Idle
<2> QED
  BY <1>12, <2>1, SeenTokensKept DEF Abort, tokenRows
<1>13. CASE UNCHANGED sessionVars
  BY <1>13 DEF sessionVars, SeenTokens
<1> QED
  BY <1>1, <1>2, <1>3, <1>4, <1>5, <1>6, <1>7, <1>8, <1>9, <1>10, <1>11, <1>12, <1>13 DEF SessionNext

\* A family has one live token: a new family starts with the token of its own
\* name, and a rotation adds one where it takes one away.
LEMMA OneLiveInductive ==
  ASSUME SessionTypeOK, Owners, Locks, OneLiveTokenPerFamily, [SessionNext]_sessionVars
  PROVE  OneLiveTokenPerFamily'
<1> USE SessionAssumption
<1>1. ASSUME live' \subseteq live, UNCHANGED familia
      PROVE  OneLiveTokenPerFamily'
  BY <1>1 DEF OneLiveTokenPerFamily
<1>2. ASSUME NEW r \in Requests, NEW t \in Tokens, InsertToken(r, t)
      PROVE  OneLiveTokenPerFamily'
<2>1. live' = live \cup {t} /\ t \notin live /\ usuario[t] = NoUser
  BY <1>2 DEF SessionTypeOK, InsertToken, Insert
<2>2. familia'[t] = t /\ \A v \in live : familia'[v] = familia[v]
  BY <1>2 DEF SessionTypeOK, InsertToken, Insert
<2>3. \A v \in live : familia[v] # t
  BY <2>1 DEF SessionTypeOK, Owners
<2> QED
  BY <2>1, <2>2, <2>3 DEF OneLiveTokenPerFamily
<1>3. ASSUME NEW r \in Requests, NEW t \in Tokens, Rotate(r, t)
      PROVE  OneLiveTokenPerFamily'
<2> DEFINE old == request[r].token
<2>1. old \in live
  BY <1>3 DEF Rotate, Locks, HeldTokens, Holding
<2>2. live' = (live \ {old}) \cup {t} /\ t \notin live
  BY <1>3 DEF SessionTypeOK, Rotate, Insert
<2>3. familia'[t] = familia[old] /\ \A v \in live : familia'[v] = familia[v]
  BY <1>3 DEF SessionTypeOK, Rotate, Insert
<2>4. \A v \in live \ {old} : familia[v] # familia[old]
  BY <2>1 DEF OneLiveTokenPerFamily
<2> QED
  BY <2>2, <2>3, <2>4 DEF OneLiveTokenPerFamily
<1> QED
  BY <1>1, <1>2, <1>3 DEF SessionNext, sessionVars, userRows, tokenRows, CreateUser, Logout,
       Login, ReadTarget, LockToken, LockUser, UpdateUser, SeeTokens, CommitUpdate, Abort

\* What a refresh issued stays true of its user: an update either finds the token,
\* or changes nothing the token claims.
LEMMA RotatedInductive ==
  ASSUME SessionTypeOK, Owners, Locks, Reads, RotatedTokensAreCurrent,
         [SessionNext]_sessionVars
  PROVE  RotatedTokensAreCurrent'
<1> USE SessionAssumption
<1>1. ASSUME live' \subseteq live, UNCHANGED <<estado, profile, overlapped, usuario, familia, claims>>
      PROVE  RotatedTokensAreCurrent'
  BY <1>1 DEF RotatedTokensAreCurrent
<1>2. ASSUME NEW u \in Users, NEW p \in Profiles, CreateUser(u, p)
      PROVE  RotatedTokensAreCurrent'
<2>1. \A v \in Users : estado[v] # "none" => estado'[v] = estado[v] /\ profile'[v] = profile[v]
  BY <1>2 DEF SessionTypeOK, CreateUser
<2>2. UNCHANGED <<live, usuario, familia, claims, overlapped>>
  BY <1>2 DEF CreateUser, tokenRows
<2>3. \A v \in live : usuario[v] \in Users /\ estado[usuario[v]] # "none"
  BY DEF SessionTypeOK, Owners
<2> QED
  BY <2>1, <2>2, <2>3 DEF RotatedTokensAreCurrent
<1>3. ASSUME NEW r \in Requests, NEW t \in Tokens, InsertToken(r, t)
      PROVE  RotatedTokensAreCurrent'
<2>1. live' = live \cup {t} /\ familia'[t] = t
  BY <1>3 DEF SessionTypeOK, InsertToken, Insert
<2>2. \A v \in live : usuario'[v] = usuario[v] /\ familia'[v] = familia[v] /\ claims'[v] = claims[v]
  BY <1>3 DEF SessionTypeOK, InsertToken, Insert
<2>3. UNCHANGED <<estado, profile, overlapped>>
  BY <1>3 DEF InsertToken, userRows
<2> QED
  BY <2>1, <2>2, <2>3 DEF RotatedTokensAreCurrent
<1>4. ASSUME NEW r \in Requests, NEW t \in Tokens, Rotate(r, t)
      PROVE  RotatedTokensAreCurrent'
<2>1. live' \subseteq live \cup {t} /\ t \notin live
  BY <1>4 DEF SessionTypeOK, Rotate, Insert
<2>2. usuario'[t] = request[r].user /\ claims'[t] = request[r].profile
  BY <1>4 DEF SessionTypeOK, Rotate, Insert
<2>3. \A v \in live : usuario'[v] = usuario[v] /\ familia'[v] = familia[v] /\ claims'[v] = claims[v]
  BY <1>4 DEF SessionTypeOK, Rotate, Insert
<2>4. UNCHANGED <<estado, profile, overlapped>>
  BY <1>4 DEF Rotate, userRows
<2>5. estado[request[r].user] = "ACTIVE" /\ profile[request[r].user] = request[r].profile
  BY <1>4 DEF Rotate, Reads, ReadUser
<2> QED
  BY <2>1, <2>2, <2>3, <2>4, <2>5 DEF RotatedTokensAreCurrent
<1>5. ASSUME NEW r \in Requests, CommitUpdate(r)
      PROVE  RotatedTokensAreCurrent'
<2> DEFINE u == request[r].user
<2>1. UNCHANGED <<usuario, familia, claims>> /\ live' = live \ request[r].seen
  BY <1>5 DEF CommitUpdate
<2>2. overlapped \subseteq overlapped'
  BY <1>5 DEF CommitUpdate
<2>3. u \in Users
  BY <1>5 DEF CommitUpdate, Owners
<2>4. /\ estado'[u] = request[r].estado /\ profile'[u] = request[r].profile
      /\ \A v \in Users \ {u} : estado'[v] = estado[v] /\ profile'[v] = profile[v]
  BY <1>5, <2>3 DEF SessionTypeOK, CommitUpdate
<2> SUFFICES ASSUME NEW v \in live', familia[v] # v
             PROVE  /\ estado'[usuario[v]] = "ACTIVE"
                    /\ profile'[usuario[v]] = claims[v] \/ usuario[v] \in overlapped'
  BY <2>1 DEF RotatedTokensAreCurrent
<2>5. v \in live /\ usuario[v] \in Users
  BY <2>1 DEF SessionTypeOK
<2>6. estado[usuario[v]] = "ACTIVE" /\ (profile[usuario[v]] = claims[v] \/ usuario[v] \in overlapped)
  BY <2>5 DEF RotatedTokensAreCurrent
<2>7. CASE usuario[v] # u
  BY <2>2, <2>4, <2>5, <2>6, <2>7
<2>8. CASE usuario[v] = u
<3>1. request[r].pc # "revoking"
  BY <2>1, <2>5, <2>8 DEF Reads, SeenTokens
<3>2. request[r].pc = "updated" /\ ~request[r].revoke
  BY <1>5, <3>1 DEF CommitUpdate
<3>3. /\ request[r].estado = "ACTIVE"
      /\ profile[u] = request[r].profile \/ u \in overlapped
  BY <3>2 DEF Reads, WriteUser
<3> QED
  BY <2>2, <2>4, <2>6, <2>8, <3>3
<2> QED
  BY <2>7, <2>8
<1> QED
  BY <1>1, <1>2, <1>3, <1>4, <1>5 DEF SessionNext, sessionVars, userRows, tokenRows, Logout,
       Login, ReadTarget, LockToken, LockUser, UpdateUser, SeeTokens, Abort

-----------------------------------------------------------------------------
\* The inductive invariant holds of every behaviour of logins, refreshes, logouts
\* and updates of users.
THEOREM SessionInvariant == SessionSpec => []SessionInv
<1>1. SessionInit => SessionInv
<2> SUFFICES ASSUME SessionInit
             PROVE  SessionInv
  OBVIOUS
<2>1. Idle \in RequestStates /\ Idle.pc = "idle" /\ Idle.seen = {}
  BY SessionAssumption DEF Idle, RequestStates
<2>2. SessionTypeOK
  BY <2>1 DEF SessionInit, SessionTypeOK
<2>3. \A r \in Requests : request[r].pc = "idle" /\ request[r].seen = {}
  BY <2>1 DEF SessionInit
<2>4. live = {} /\ \A t \in Tokens : usuario[t] = NoUser
  BY DEF SessionInit
<2>5. Owners /\ Locks
  BY <2>3, <2>4 DEF Owners, Locks, HeldTokens, OneTokenHolder, OneUserHolder, Holding, Changing
<2>6. Reads
  BY <2>3 DEF Reads, ReadUser, WriteUser, SeenTokens
<2> QED
  BY <2>2, <2>4, <2>5, <2>6 DEF SessionInv, OneLiveTokenPerFamily, RotatedTokensAreCurrent
<1>2. SessionInv /\ [SessionNext]_sessionVars => SessionInv'
  BY TypeInductive, OwnersInductive, LocksInductive, ReadUserInductive, WriteUserInductive,
     SeenTokensInductive, OneLiveInductive, RotatedInductive DEF SessionInv, Reads
<1> QED
  BY <1>1, <1>2, PTL DEF SessionSpec

\* The rows of users and tokens keep their types.
THEOREM SessionTypes == SessionSpec => []SessionTypeOK
<1>1. SessionInv => SessionTypeOK
  BY DEF SessionInv
<1> QED
  BY <1>1, SessionInvariant, PTL

\* No session ever has two tokens that can be refreshed, whichever refreshes of
\* the same token overlap (refresh).
THEOREM OneLiveToken == SessionSpec => []OneLiveTokenPerFamily
<1>1. SessionInv => OneLiveTokenPerFamily
  BY DEF SessionInv
<1> QED
  BY <1>1, SessionInvariant, PTL

\* No refresh outlives a change of its user's rights: what it issued is revoked by
\* update_user, or claims what the user has.
THEOREM RotatedAreCurrent == SessionSpec => []RotatedTokensAreCurrent
<1>1. SessionInv => RotatedTokensAreCurrent
  BY DEF SessionInv
<1> QED
  BY <1>1, SessionInvariant, PTL
=============================================================================
