---------------------------- MODULE SerialSession ----------------------------
(***************************************************************************)
(* Session when no two requests of one user overlap, as for a user with    *)
(* one device and no administrator at work.  Requests of different users   *)
(* interleave as before, and any request may fail between any two of its   *)
(* round trips.  Then the service implements AtomicSession.                *)
(***************************************************************************)
EXTENDS Session

VARIABLE since      \* when each request began (history)

svars == <<vars, since>>

\* No other request of the user of r is in flight.
Alone(r) ==
    \A q \in Requests \ {r} : pc[q] \in InFlight => UserOf(q) # UserOf(r)

SerialInit == Init /\ since = [r \in Requests |-> 0]

SerialStart(r) ==
    /\ Start(r)
    /\ Alone(r)'
    /\ since' = [since EXCEPT ![r] = now]

SerialNext ==
    \/ Tick /\ UNCHANGED since
    \/ \E r \in Requests :
          \/ SerialStart(r)
          \/ Continue(r) /\ UNCHANGED since
          \/ Abort(r) /\ UNCHANGED since

SerialSpec == SerialInit /\ [][SerialNext]_svars
-----------------------------------------------------------------------------
(* The refinement mapping.                                                 *)

SessionMap ==
    [u \in Users |->
        IF u \in DOMAIN token
        THEN [jwt |-> Decrypt(token[u].refreshToken, token[u].iv),
              expires |-> token[u].refreshExpiresIn]
        ELSE None]

\* The JWT of a login is a result; that of a refresh is what it asks with.
RequestMap ==
    [r \in Requests |->
        IF call[r].kind = "none" THEN None
        ELSE [kind |-> call[r].kind, user |-> UserOf(r),
              bearer |-> call[r].bearer,
              jwt |-> IF call[r].kind = "refresh" THEN call[r].jwt ELSE None,
              at |-> since[r]]]

AnswerMap == [r \in Requests |-> IF pc[r] \in Answers THEN pc[r] ELSE None]

\* The mapping tells a user without a session, and a request not yet made,
\* from one with a value.
ASSUME NoneIsNoRecord ==
    /\ None \notin [jwt : Jwt \cup {None}, expires : Int]
    /\ None \notin [kind : {"login", "refresh", "revoke"}, user : Users \cup {None},
                   bearer : Users \cup {None}, jwt : Jwt \cup {None}, at : Nat]

Atomic == INSTANCE AtomicSession
            WITH session <- SessionMap, request <- RequestMap, answer <- AnswerMap

\* Without overlap, the three round trips of an update, the encrypted pair and
\* the failures in between are invisible: each request takes effect at once at
\* its last statement, on the session that it checked, or not at all; nothing
\* it decided from an earlier read is out of date when it writes.
ImplementsAtomicSession == Atomic!Spec
=============================================================================
