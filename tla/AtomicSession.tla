---------------------------- MODULE AtomicSession ----------------------------
(***************************************************************************)
(* What the session service promises: every request takes effect at once   *)
(* and as a whole, or not at all.  A user has no session, or one with the  *)
(* refresh JWT of the last login and an expiry time.                       *)
(*                                                                         *)
(* A request takes time, and the service may read the clock at any moment  *)
(* of it: a time which it writes or compares with is one of Within(r).     *)
(* This specification knows no rows, ciphertexts, or round trips.          *)
(***************************************************************************)
EXTENDS Integers

CONSTANTS
    Users,
    Requests,
    RefreshTtl,     \* length of the session window
    MsPerSecond,    \* clock units in a second
    MaxTime,        \* bound of the clock
    None

VARIABLES
    now,
    session,        \* the session of each user, or None
    request,        \* what each request asks for and since when, or None
    answer          \* its answer, or None

avars == <<now, session, request, answer>>

IssuedAt(t) == t \div MsPerSecond

Pending(r) == request[r] # None /\ answer[r] = None

Within(r) == request[r].at .. now

\* The session of the user that a request is about.
SessionOf(r) == session[request[r].user]

Replies(r, status) ==
    /\ answer' = [answer EXCEPT ![r] = status]
    /\ UNCHANGED <<now, request>>

\* The effect may be there although the caller gets no answer.
Succeeds(r) == \E status \in {"ok", "aborted"} : Replies(r, status)

Fails(r, status) == Replies(r, status) /\ UNCHANGED session

Init ==
    /\ now = 0
    /\ session = [u \in Users |-> None]
    /\ request = [r \in Requests |-> None]
    /\ answer = [r \in Requests |-> None]

Tick ==
    /\ now < MaxTime
    /\ now' = now + 1
    /\ UNCHANGED <<session, request, answer>>

Asks(r, kind, u, bearer, jwt) ==
    /\ request[r] = None
    /\ request' = [request EXCEPT ![r] =
         [kind |-> kind, user |-> u, bearer |-> bearer, jwt |-> jwt, at |-> now]]

\* A refresh JWT that was issued by now.
Issued == [sub : Users, iat : 0 .. IssuedAt(now)]

Begin(r) ==
    /\ \/ \E kind \in {"login", "revoke"}, u \in Users :
              Asks(r, kind, u, None, None)
       \/ \E jwt \in Issued, bearer \in Users :
              Asks(r, "refresh", jwt.sub, bearer, jwt)
    /\ UNCHANGED <<now, session, answer>>

\* A string that is no JWT is refused at once.
Reject(r) ==
    /\ Asks(r, "refresh", None, None, None)
    /\ answer' = [answer EXCEPT ![r] = "invalidToken"]
    /\ UNCHANGED <<now, session>>

\* A login replaces the session.
Login(r) ==
    /\ Pending(r) /\ request[r].kind = "login"
    /\ \E signed, t \in Within(r) :
         session' = [session EXCEPT ![request[r].user] =
            [jwt |-> [sub |-> request[r].user, iat |-> IssuedAt(signed)],
             expires |-> t + RefreshTtl]]
    /\ Succeeds(r)

\* A refresh extends the session if it presents its JWT in time.
Refresh(r) ==
    /\ Pending(r) /\ request[r].kind = "refresh"
    /\ SessionOf(r) # None
    /\ request[r].bearer = request[r].user
    /\ request[r].jwt = SessionOf(r).jwt
    /\ \E checked, t \in Within(r) :
         /\ SessionOf(r).expires >= checked
         /\ session' = [session EXCEPT ![request[r].user].expires = t + RefreshTtl]
    /\ Succeeds(r)

Refuse(r) ==
    /\ Pending(r) /\ request[r].kind = "refresh"
    /\ \/ /\ SessionOf(r) = None \/ request[r].bearer # request[r].user
          /\ Fails(r, "unauthorized")
       \/ /\ SessionOf(r) # None /\ request[r].jwt # SessionOf(r).jwt
          /\ Fails(r, "invalidToken")
       \/ /\ SessionOf(r) # None
          /\ \E checked \in Within(r) : SessionOf(r).expires < checked
          /\ Fails(r, "expired")

\* A revoke puts the expiry time into the past.
Revoke(r) ==
    /\ Pending(r) /\ request[r].kind = "revoke"
    /\ SessionOf(r) # None
    /\ session' = [session EXCEPT ![request[r].user].expires =
                      request[r].at - RefreshTtl]
    /\ Succeeds(r)

NothingToRevoke(r) ==
    /\ Pending(r) /\ request[r].kind = "revoke"
    /\ SessionOf(r) = None
    /\ Fails(r, "notFound")

Abort(r) == Pending(r) /\ Fails(r, "aborted")

Next ==
    \/ Tick
    \/ \E r \in Requests :
          \/ Begin(r) \/ Reject(r) \/ Login(r) \/ Refresh(r) \/ Refuse(r)
          \/ Revoke(r) \/ NothingToRevoke(r) \/ Abort(r)

Spec == Init /\ [][Next]_avars
=============================================================================
