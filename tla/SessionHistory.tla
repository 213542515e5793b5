--------------------------- MODULE SessionHistory ---------------------------
(***************************************************************************)
(* Session with history variables, for what logins and revocations promise *)
(* to those who asked for them and were answered.  The promises are        *)
(* conditional: the service takes no lock, so a request that ran together  *)
(* with another request of the same user may be undone by it.              *)
(*                                                                         *)
(* The history variables observe the steps of Session and constrain none.  *)
(***************************************************************************)
EXTENDS Session

CONSTANT AccessTtl      \* jwt.expiresIn of access JWTs, in seconds

ASSUME AccessTtlAssumption == AccessTtl \in Nat

VARIABLES
    alone,      \* no other request of the user was in flight during this one
    settled,    \* the last login of a user that ran alone and was answered
    closedAt    \* when the last revoke that ran alone was answered

historyVars == <<alone, settled, closedAt>>
hvars == <<vars, historyVars>>

Begins(r, kind, u) ==
    /\ pc[r] = "idle" /\ pc'[r] # "idle"
    /\ call'[r].kind = kind /\ call'[r].user = u

Succeeds(r, kind, u) ==
    /\ pc[r] # "ok" /\ pc'[r] = "ok"
    /\ call[r].kind = kind /\ call[r].user = u

\* A step of the service, observed.  A login that begins ends both promises.
Observe ==
    /\ alone' = [r \in Requests |->
          /\ alone[r]
          /\ pc'[r] \in InFlight =>
                \A q \in Requests \ {r} :
                    ~(pc'[q] \in InFlight /\ call'[q].user = call'[r].user)]
    /\ settled' = [u \in Users |->
          IF \E r \in Requests : Begins(r, "login", u) THEN None
          ELSE IF \E r \in Requests : alone[r] /\ Succeeds(r, "login", u)
          THEN CHOOSE r \in Requests : alone[r] /\ Succeeds(r, "login", u)
          ELSE settled[u]]
    /\ closedAt' = [u \in Users |->
          IF \E r \in Requests : Begins(r, "login", u) THEN None
          ELSE IF \E r \in Requests : alone[r] /\ Succeeds(r, "revoke", u)
          THEN now
          ELSE closedAt[u]]

HInit ==
    /\ Init
    /\ alone = [r \in Requests |-> TRUE]
    /\ settled = [u \in Users |-> None]
    /\ closedAt = [u \in Users |-> None]

HNext == Next /\ Observe

HSpec == HInit /\ [][HNext]_hvars
-----------------------------------------------------------------------------
\* A login that ran alone is not undone: until its user logs in again, the
\* row keeps the pair this login stored, so that its refresh JWT matches,
\* whatever refreshes and revokes come after and however they interleave.
\* (They write the whole entity back, but the pair they read is this one.)
SettledLogin ==
    \A u \in Users : settled[u] # None =>
        /\ u \in DOMAIN token
        /\ token[u].iv = settled[u]
        /\ Decrypt(token[u].refreshToken, token[u].iv) = call[settled[u]].jwt

\* Past the checks of refresh, with a new access JWT to hand out.
Refreshing(u) ==
    \E r \in Requests :
        /\ call[r].kind = "refresh" /\ UserOf(r) = u
        /\ pc[r] \in {"signAccess", "findForUpdate", "load", "update"}

\* A revoke that ran alone is final: until the user logs in again the session
\* stays expired and no refresh passes its checks, whatever other refreshes
\* and revokes run, and even within the millisecond of the revoke.
RevocationFinal ==
    \A u \in Users : closedAt[u] # None =>
        /\ u \in DOMAIN token /\ IsExpired(token[u])
        /\ ~Refreshing(u)

\* JwtAuthGuard accepts an access JWT of user u that some answer delivered.
Accepted(u) ==
    \E r \in Requests :
        /\ pc[r] = "ok" /\ call[r].kind \in {"login", "refresh"}
        /\ UserOf(r) = u
        /\ Seconds(now) < call[r].iat + AccessTtl

\* Access JWTs are not revoked; they outlive the revoke by no more than their
\* own lifetime, as no refresh replaces them.
RevokedAccessFades ==
    \A u \in Users :
        closedAt[u] # None /\ Seconds(now) >= Seconds(closedAt[u]) + AccessTtl =>
            ~Accepted(u)
=============================================================================
