---------------------------- MODULE AuthSessions ----------------------------
(***************************************************************************)
(* Users and refresh tokens of AuthAuthz: login, refresh, logout,          *)
(* create_user and update_user.                                            *)
(*                                                                         *)
(* A refresh is one transaction that locks the token's row and then the    *)
(* user's.  A login reads the user and inserts a token in two statements   *)
(* of their own; update_user reads its target before its transaction, which*)
(* locks the user's row and then the tokens it revokes.  Requests that are *)
(* refused (unknown, expired or revoked token, wrong password, too many    *)
(* failures, unknown role) change none of this state: what a refused       *)
(* refresh updates is rolled back with it.                                 *)
(***************************************************************************)
EXTENDS FiniteSets

CONSTANTS Users, Tokens, Requests,
          Profiles,   \* a role with its level
          NoUser, NoToken, NoProfile

ASSUME SessionAssumption ==
  /\ NoUser \notin Users /\ NoToken \notin Tokens /\ NoProfile \notin Profiles

Estados == {"ACTIVE", "INACTIVE", "BLOCKED"}

VARIABLES
  estado,      \* usuario.estado, "none" before create_user
  profile,     \* usuario.rol_id and nivel_id
  usuario,     \* refresh_token.usuario_id, NoUser where there is no row
  familia,     \* refresh_token.familia_id
  live,        \* the tokens whose revocado_en is NULL
  claims,      \* the profile in the access token issued with each token
  overlapped,  \* users an update_user changed between another one's read and write
  request      \* the requests in progress

sessionVars == <<estado, profile, usuario, familia, live, claims, overlapped, request>>
userRows == <<estado, profile, overlapped>>
tokenRows == <<usuario, familia, live, claims>>

\* estado, profile: what a login or a refresh read, or an update writes;
\* seen: the tokens the revoking UPDATE sees.
Idle == [pc |-> "idle", user |-> NoUser, token |-> NoToken, estado |-> "none",
         profile |-> NoProfile, revoke |-> FALSE, seen |-> {}]
Steps == {"idle", "login", "token locked", "user locked", "update", "updated", "revoking"}
RequestStates ==
  [pc : Steps, user : Users \cup {NoUser}, token : Tokens \cup {NoToken},
   estado : Estados \cup {"none"}, profile : Profiles \cup {NoProfile},
   revoke : BOOLEAN, seen : SUBSET Tokens]

SessionTypeOK ==
  /\ estado \in [Users -> Estados \cup {"none"}]
  /\ profile \in [Users -> Profiles \cup {NoProfile}]
  /\ usuario \in [Tokens -> Users \cup {NoUser}]
  /\ familia \in [Tokens -> Tokens \cup {NoToken}]
  /\ live \in SUBSET {t \in Tokens : usuario[t] # NoUser}
  /\ claims \in [Tokens -> Profiles \cup {NoProfile}]
  /\ overlapped \in SUBSET Users
  /\ request \in [Requests -> RequestStates]

SessionInit ==
  /\ estado = [u \in Users |-> "none"]
  /\ profile = [u \in Users |-> NoProfile]
  /\ usuario = [t \in Tokens |-> NoUser]
  /\ familia = [t \in Tokens |-> NoToken]
  /\ live = {}
  /\ claims = [t \in Tokens |-> NoProfile]
  /\ overlapped = {}
  /\ request = [r \in Requests |-> Idle]

-----------------------------------------------------------------------------
\* Row locks.  An update that waits for tokens holds none of them yet.
HoldsToken(r, t) == request[r].token = t /\ request[r].pc \in {"token locked", "user locked"}
Refreshing(r, u) == request[r].user = u /\ request[r].pc = "user locked"
HoldsUser(r, u) ==
  Refreshing(r, u) \/ (request[r].user = u /\ request[r].pc \in {"updated", "revoking"})

\* Mutant: the row carries no user.
MutInsertWithoutUser(t, u, family, seen) ==
  /\ usuario[t] = NoUser
  /\ familia' = [familia EXCEPT ![t] = family]
  /\ claims' = [claims EXCEPT ![t] = seen]
  /\ UNCHANGED usuario

\* INSERT INTO auth.refresh_token, with the access token issued beside it.
Insert(t, u, family, seen) ==
  /\ usuario[t] = NoUser
  /\ usuario' = [usuario EXCEPT ![t] = u]
  /\ familia' = [familia EXCEPT ![t] = family]
  /\ claims' = [claims EXCEPT ![t] = seen]

CreateUser(u, p) ==
  /\ estado[u] = "none"
  /\ estado' = [estado EXCEPT ![u] = "ACTIVE"]
  /\ profile' = [profile EXCEPT ![u] = p]
  /\ UNCHANGED <<tokenRows, overlapped, request>>

-----------------------------------------------------------------------------
\* login: the user is read without a lock ...
Login(r, u) ==
  /\ request[r] = Idle /\ estado[u] = "ACTIVE"
  /\ request' = [request EXCEPT ![r] = [Idle EXCEPT
       !.pc = "login", !.user = u, !.estado = estado[u], !.profile = profile[u]]]
  /\ UNCHANGED <<userRows, tokenRows>>

\* ... and the first token of a family inserted later; the foreign key makes it
\* wait for a refresh that has locked the user, not for an update.
InsertToken(r, t) ==
  LET u == request[r].user IN
  /\ request[r].pc = "login"
  /\ \A q \in Requests : ~Refreshing(q, u)
  /\ Insert(t, u, t, request[r].profile)
  /\ live' = live \cup {t}
  /\ request' = [request EXCEPT ![r] = Idle]
  /\ UNCHANGED userRows

-----------------------------------------------------------------------------
\* Mutant: the token is read without FOR UPDATE.
MutLockTokenUnlocked(r, t) ==
  /\ request[r] = Idle /\ t \in live
  /\ request' = [request EXCEPT ![r] = [Idle EXCEPT
       !.pc = "token locked", !.token = t, !.user = usuario[t]]]
  /\ UNCHANGED <<userRows, tokenRows>>

\* refresh: SELECT ... FOR UPDATE of a token that is not revoked.
LockToken(r, t) ==
  /\ request[r] = Idle /\ t \in live
  /\ \A q \in Requests : ~HoldsToken(q, t)
  /\ request' = [request EXCEPT ![r] = [Idle EXCEPT
       !.pc = "token locked", !.token = t, !.user = usuario[t]]]
  /\ UNCHANGED <<userRows, tokenRows>>

\* Mutant: the user is read without FOR UPDATE.
MutLockUserUnlocked(r) ==
  LET u == request[r].user IN
  /\ request[r].pc = "token locked" /\ estado[u] = "ACTIVE"
  /\ request' = [request EXCEPT ![r].pc = "user locked", ![r].estado = estado[u],
                                ![r].profile = profile[u]]
  /\ UNCHANGED <<userRows, tokenRows>>

LockUser(r) ==
  LET u == request[r].user IN
  /\ request[r].pc = "token locked" /\ estado[u] = "ACTIVE"
  /\ \A q \in Requests : ~HoldsUser(q, u)
  /\ request' = [request EXCEPT ![r].pc = "user locked", ![r].estado = estado[u],
                                ![r].profile = profile[u]]
  /\ UNCHANGED <<userRows, tokenRows>>

\* The old token is revoked and replaced by a new one of its family.
Rotate(r, t) ==
  LET old == request[r].token IN
  /\ request[r].pc = "user locked"
  /\ Insert(t, request[r].user, familia[old], request[r].profile)
  /\ live' = (live \ {old}) \cup {t}
  /\ request' = [request EXCEPT ![r] = Idle]
  /\ UNCHANGED userRows

\* logout: one statement, which waits for the row.
Logout(t) ==
  /\ t \in live /\ \A q \in Requests : ~HoldsToken(q, t)
  /\ live' = live \ {t}
  /\ UNCHANGED <<userRows, usuario, familia, claims, request>>

-----------------------------------------------------------------------------
\* update_user: the target is read outside the transaction, and what the body
\* does not name is written as it was read.
ReadTarget(r, u) ==
  /\ request[r] = Idle /\ estado[u] # "none"
  /\ \E e \in Estados, p \in Profiles, password \in BOOLEAN :
       request' = [request EXCEPT ![r] = [Idle EXCEPT
         !.pc = "update", !.user = u, !.estado = e, !.profile = p,
         !.revoke = p # profile[u] \/ e \in {"INACTIVE", "BLOCKED"} \/ password]]
  /\ UNCHANGED <<userRows, tokenRows>>

UpdateUser(r) ==
  LET u == request[r].user IN
  /\ request[r].pc = "update"
  /\ \A q \in Requests : ~HoldsUser(q, u)
  /\ request' = [request EXCEPT ![r].pc = "updated"]
  /\ UNCHANGED <<userRows, tokenRows>>

\* The UPDATE of the tokens sees those of its start ...
SeeTokens(r) ==
  /\ request[r].pc = "updated" /\ request[r].revoke
  /\ request' = [request EXCEPT ![r].pc = "revoking",
                   ![r].seen = {t \in Tokens : usuario[t] = request[r].user}]
  /\ UNCHANGED <<userRows, tokenRows>>

\* ... and waits for the locked ones.
CommitUpdate(r) ==
  LET u == request[r].user IN
  /\ \/ request[r].pc = "updated" /\ ~request[r].revoke
     \/ /\ request[r].pc = "revoking"
        /\ \A t \in request[r].seen, q \in Requests : ~HoldsToken(q, t)
  /\ estado' = [estado EXCEPT ![u] = request[r].estado]
  /\ profile' = [profile EXCEPT ![u] = request[r].profile]
  /\ live' = live \ request[r].seen
  /\ overlapped' =
       IF \E q \in Requests \ {r} : request[q].pc = "update" /\ request[q].user = u
       THEN overlapped \cup {u} ELSE overlapped
  /\ request' = [request EXCEPT ![r] = Idle]
  /\ UNCHANGED <<usuario, familia, claims>>

\* An error, a deadlock the server breaks, a lost connection: rolled back.
Abort(r) ==
  /\ request[r] # Idle
  /\ request' = [request EXCEPT ![r] = Idle]
  /\ UNCHANGED <<userRows, tokenRows>>

SessionNext ==
  \/ \E u \in Users, p \in Profiles : CreateUser(u, p)
  \/ \E t \in Tokens : Logout(t)
  \/ \E r \in Requests :
       \/ \E u \in Users : Login(r, u) \/ ReadTarget(r, u)
       \/ \E t \in Tokens : InsertToken(r, t) \/ LockToken(r, t) \/ Rotate(r, t)
       \/ LockUser(r) \/ UpdateUser(r) \/ SeeTokens(r) \/ CommitUpdate(r) \/ Abort(r)

SessionSpec == SessionInit /\ [][SessionNext]_sessionVars

-----------------------------------------------------------------------------
\* However many refreshes of the same token overlap, and whatever logouts and
\* updates meet them, a session has at most one token that can be refreshed.
OneLiveTokenPerFamily ==
  \A t, v \in live : familia[t] = familia[v] => t = v

\* A token that a refresh issued and nothing has revoked belongs to an active
\* user, with the profile its access token claims: an update and a refresh of the
\* same user cannot miss each other.  Only an update that wrote back a stale
\* profile, or a login, whose read nothing protects, leaves another one.
RotatedTokensAreCurrent ==
  \A t \in live : familia[t] # t =>
    /\ estado[usuario[t]] = "ACTIVE"
    /\ profile[usuario[t]] = claims[t] \/ usuario[t] \in overlapped
=============================================================================
