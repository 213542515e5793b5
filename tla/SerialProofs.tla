---------------------------- MODULE SerialProofs ----------------------------
(***************************************************************************)
(* SerialSession implements AtomicSession, for every value of the          *)
(* constants: requests that do not overlap take effect at once.            *)
(***************************************************************************)
EXTENDS SerialSession, SessionProofs

Times(r) == since[r] .. now

\* What request r is about, from its beginning on.
Asked(r) ==
    /\ since[r] <= now
    /\ pc[r] = "idle" => call[r] = NoCall
    /\ pc[r] # "idle" => call[r].kind # "none"
    /\ pc[r] \in InFlight /\ call[r].kind = "refresh" => call[r].jwt \in Jwt
    /\ call[r].kind = "login" /\ pc[r] \notin {"signRefresh", "aborted"} =>
         \E t \in Times(r) : call[r].jwt = [sub |-> UserOf(r), iat |-> Seconds(t)]

Open(r) == UserOf(r) \in DOMAIN token

\* The row of its user once r has written: what it inserts, or what its
\* difference makes of the row as it is.
Final(r) ==
    IF pc[r] \in {"insert", "load"} THEN frame[r]
    ELSE Spread(token[UserOf(r)], frame[r])

\* The expiry time that r writes is one window after a moment of r.
Extends(r) == \E t \in Times(r) : Final(r).refreshExpiresIn = t + RefreshTtl

KeepsPair(r) ==
    /\ Final(r).refreshToken = token[UserOf(r)].refreshToken
    /\ Final(r).iv = token[UserOf(r)].iv

\* A login writes its own pair over the row it found, or where it found none.
LoginWrites(r) ==
    call[r].kind = "login" =>
        /\ pc[r] = "insert" => ~Open(r)
        /\ pc[r] = "findForUpdate" => Open(r)
        /\ pc[r] \in {"insert", "findForUpdate", "load", "update"} =>
             /\ Final(r).iv = r /\ Final(r).refreshToken = Encrypt(call[r].jwt, r)
             /\ Extends(r)

\* The row that r, a refresh, has checked.
Checked(r) ==
    /\ Decrypt(token[UserOf(r)].refreshToken, token[UserOf(r)].iv) = call[r].jwt
    /\ \E checked \in Times(r) : token[UserOf(r)].refreshExpiresIn >= checked

\* A refresh works on the row that is still there.
RefreshWrites(r) ==
    call[r].kind = "refresh" =>
        /\ pc[r] \in {"decrypt", "signAccess", "findForUpdate", "load", "update"} =>
             Open(r) /\ call[r].bearer = UserOf(r)
        /\ pc[r] = "decrypt" => frame[r] = token[UserOf(r)]
        /\ pc[r] \in {"signAccess", "findForUpdate", "load", "update"} => Checked(r)
        /\ pc[r] \in {"findForUpdate", "load", "update"} => KeepsPair(r) /\ Extends(r)

RevokeWrites(r) ==
    /\ call[r].kind = "revoke" /\ Open(r)
    /\ pc[r] \in {"findForUpdate", "load", "update"}
    => KeepsPair(r) /\ Final(r).refreshExpiresIn = since[r] - RefreshTtl

Orderly(r) == Asked(r) /\ LoginWrites(r) /\ RefreshWrites(r) /\ RevokeWrites(r)

\* No two requests of one user are in flight.
NoOverlap ==
    \A r, q \in Requests :
        r # q /\ pc[r] \in InFlight /\ pc[q] \in InFlight => UserOf(r) # UserOf(q)

SerialInv ==
    /\ TypeOK /\ since \in [Requests -> Nat]
    /\ NoOverlap
    /\ \A r \in Requests : Orderly(r)
-----------------------------------------------------------------------------
(***************************************************************************)
(* The invariant.                                                          *)
(***************************************************************************)
LEMMA SerialInvInit == SerialInit => SerialInv
<1> SUFFICES ASSUME SerialInit PROVE SerialInv
  OBVIOUS
<1>1. Init /\ TypeOK
  BY TypeInit DEF SerialInit
<1>2. NoOverlap
  BY <1>1 DEF Init, NoOverlap, InFlight
<1>3. \A r \in Requests : Orderly(r)
  BY <1>1 DEF SerialInit, Init, Orderly, Asked, LoginWrites, RefreshWrites, RevokeWrites,
     NoCall, InFlight
<1>4. since \in [Requests -> Nat]
  BY DEF SerialInit
<1>5. QED
  BY <1>1, <1>2, <1>3, <1>4 DEF SerialInv

LEMMA SerialStep == SerialNext => Next
BY DEF SerialNext, SerialStart, Next

LEMMA NoOverlapStep == SerialInv /\ SerialNext => NoOverlap'
<1> SUFFICES ASSUME SerialInv, SerialNext PROVE NoOverlap'
  OBVIOUS
<1>1. CASE Tick
  BY <1>1 DEF Tick, SerialInv, NoOverlap, UserOf
<1>2. ASSUME NEW r \in Requests, SerialStart(r) PROVE NoOverlap'
  <2>1. \A q \in Requests \ {r} : pc'[q] = pc[q] /\ call'[q] = call[q]
    BY <1>2, StepOfOne DEF SerialStart, SerialInv
  <2>2. QED
    BY <1>2, <2>1 DEF SerialStart, Alone, SerialInv, NoOverlap, UserOf
<1>3. ASSUME NEW r \in Requests, Continue(r) \/ Abort(r) PROVE NoOverlap'
  <2>1. pc[r] \in InFlight
    BY <1>3 DEF Continue, Abort, LoginSign, LoginFind, LoginInsert, LoginConflict,
       RefreshFind, RefreshMismatch, RefreshExpired, RefreshSign, RefreshExtend,
       FindForUpdate, UpdateMissing, Load, Update, InFlight
  <2>2. /\ \A q \in Requests \ {r} : pc'[q] = pc[q] /\ call'[q] = call[q]
        /\ call'[r].user = UserOf(r)
    BY <1>3, <2>1, StepOfOne DEF SerialInv, InFlight
  <2>3. QED
    BY <2>1, <2>2 DEF SerialInv, NoOverlap, UserOf
<1>4. QED
  BY <1>1, <1>2, <1>3 DEF SerialNext

\* A step of one request leaves the row of every other one in flight.
LEMMA RowOfOthers ==
    ASSUME TypeOK, NoOverlap, NEW r \in Requests, Start(r) \/ Continue(r) \/ Abort(r),
           NEW q \in Requests \ {r}, pc[q] \in InFlight
    PROVE  /\ Open(q)' <=> Open(q)
           /\ Open(q) => token'[UserOf(q)] = token[UserOf(q)]
<1>1. call'[q] = call[q]
  BY StepOfOne
<1>2. CASE pc[r] \in InFlight
  <2>1. UserOf(q) # UserOf(r)
    BY <1>2 DEF NoOverlap
  <2>2. QED
    BY <1>1, <2>1, StepOfOne DEF Open, UserOf
<1>3. CASE pc[r] = "idle"
  <2>1. ~Continue(r) /\ ~Abort(r)
    BY <1>3 DEF Continue, Abort, LoginSign, LoginFind, LoginInsert, LoginConflict,
       RefreshFind, RefreshMismatch, RefreshExpired, RefreshSign, RefreshExtend,
       FindForUpdate, UpdateMissing, Load, Update, InFlight
  <2>2. token' = token
    BY <2>1 DEF Start, StartLogin, StartRefresh, RefreshUnverified, StartRevoke
  <2>3. QED
    BY <1>1, <2>2 DEF Open, UserOf
<1>4. QED
  BY <1>2, <1>3, StepOfOne

\* What is true of a request stays true while others move, or time passes.
LEMMA OrderlyStays ==
    ASSUME SerialInv, NEW q \in Requests, pc'[q] = pc[q], call'[q] = call[q],
           frame'[q] = frame[q], since'[q] = since[q], now' \in Nat, now <= now',
           pc[q] \in InFlight => /\ Open(q)' <=> Open(q)
                                 /\ Open(q) => token'[UserOf(q)] = token[UserOf(q)]
    PROVE  Orderly(q)'
<1>0. Orderly(q) /\ TypeOK /\ since[q] \in Nat
  BY DEF SerialInv
<1>1. Times(q) \subseteq Times(q)'
  BY <1>0 DEF Times, Orderly, Asked, TypeOK
<1>2. Asked(q)'
  BY <1>0, <1>1 DEF Orderly, Asked, UserOf, TypeOK
<1>3. pc[q] \in InFlight =>
        /\ pc[q] \in {"insert", "load"} \/ Open(q) => Final(q)' = Final(q)
        /\ Open(q) => (KeepsPair(q)' <=> KeepsPair(q))
  BY DEF Final, KeepsPair, Open, UserOf
<1>4. pc[q] \in InFlight /\ (pc[q] \in {"insert", "load"} \/ Open(q)) =>
        (Extends(q) => Extends(q)')
  BY <1>1, <1>3 DEF Extends
<1>5. pc[q] \in InFlight /\ Open(q) => (Checked(q) => Checked(q)')
  BY <1>1 DEF Checked, UserOf
<1>6. pc[q] \in {"load", "update"} => Open(q)
  BY <1>0 DEF TypeOK, Open
<1>7. LoginWrites(q)'
  BY <1>0, <1>3, <1>4, <1>6 DEF Orderly, LoginWrites, InFlight
<1>8. RefreshWrites(q)'
  BY <1>0, <1>3, <1>4, <1>5, <1>6 DEF Orderly, RefreshWrites, InFlight, UserOf
<1>9. RevokeWrites(q)'
  BY <1>0, <1>3 DEF Orderly, RevokeWrites, InFlight
<1>10. QED
  BY <1>2, <1>7, <1>8, <1>9 DEF Orderly

\* Applying a difference to the row it was made for gives the entity.
LEMMA SpreadPatch ==
    ASSUME NEW row \in Row, NEW entity \in Row
    PROVE  Spread(row, Patch(entity, row)) = entity
<1>1. /\ DOMAIN Spread(row, Patch(entity, row)) = DOMAIN entity
      /\ \A c \in DOMAIN entity : Spread(row, Patch(entity, row))[c] = entity[c]
  BY DEF Spread, Patch, Row
<1>2. Spread(row, Patch(entity, row)) =
        [c \in DOMAIN row |-> Spread(row, Patch(entity, row))[c]]
  BY DEF Spread
<1>3. QED
  BY <1>1, <1>2 DEF Row

\* The partial update of a refresh or a revoke.
LEMMA SpreadExpiry ==
    ASSUME NEW row \in Row, NEW t
    PROVE  LET new == Spread(row, [refreshExpiresIn |-> t])
           IN  /\ new.refreshToken = row.refreshToken /\ new.iv = row.iv
               /\ new.refreshExpiresIn = t
BY DEF Spread, Row

\* The partial update of a login.
LEMMA SpreadLogin ==
    ASSUME NEW row \in Row, NEW f \in Row
    PROVE  LET new == Spread(row, f)
           IN  /\ new.refreshToken = f.refreshToken /\ new.iv = f.iv
               /\ new.refreshExpiresIn = f.refreshExpiresIn
BY DEF Spread, Row

LEMMA OrderlyStart ==
    ASSUME SerialInv, NEW r \in Requests, SerialStart(r)
    PROVE  Orderly(r)'
<1>0. /\ TypeOK /\ now' = now /\ now \in Nat /\ since'[r] = now /\ token' = token
      /\ pc[r] = "idle" /\ now \in Times(r)'
  BY DEF SerialInv, TypeOK, SerialStart, Start, StartLogin, StartRefresh,
     RefreshUnverified, StartRevoke, Times
<1> USE DEF Orderly, Asked, LoginWrites, RefreshWrites, RevokeWrites, GoTo, Answer, UserOf,
            InFlight
<1>1. ASSUME NEW u \in Users, StartLogin(r, u) PROVE Orderly(r)'
  BY <1>0, <1>1 DEF StartLogin, TypeOK
<1>2. ASSUME NEW jwt \in HeldRefreshJwts, NEW bearer \in HeldBearers,
             StartRefresh(r, jwt, bearer)
      PROVE  Orderly(r)'
  <2>1. jwt \in Jwt
    BY <1>0 DEF HeldRefreshJwts, Delivered, TypeOK
  <2>2. QED
    BY <1>0, <1>2, <2>1 DEF StartRefresh, TypeOK
<1>3. CASE RefreshUnverified(r)
  BY <1>0, <1>3 DEF RefreshUnverified, TypeOK, Calls, SerialInv, NoCall
<1>4. ASSUME NEW u \in Users, StartRevoke(r, u) PROVE Orderly(r)'
  <2>1. /\ pc'[r] = "findForUpdate" /\ call'[r].kind = "revoke" /\ call'[r].user = u
        /\ frame'[r] = [refreshExpiresIn |-> now - RefreshTtl]
    BY <1>0, <1>4 DEF StartRevoke, TypeOK, RevokedTokenExpiry
  <2>2. ASSUME Open(r)' PROVE KeepsPair(r)' /\ Final(r)'.refreshExpiresIn = now - RefreshTtl
    <3>1. token[u] \in Row /\ Final(r)' = Spread(token[u], [refreshExpiresIn |-> now - RefreshTtl])
      BY <1>0, <2>1, <2>2 DEF Open, Final, TypeOK
    <3>2. QED
      BY <1>0, <2>1, <3>1, SpreadExpiry DEF KeepsPair
  <2>3. QED
    BY <1>0, <2>1, <2>2
<1>5. QED
  BY <1>1, <1>2, <1>3, <1>4 DEF SerialStart, Start

LEMMA OrderlyContinue ==
    ASSUME SerialInv, NEW r \in Requests, Continue(r) \/ Abort(r), UNCHANGED since
    PROVE  Orderly(r)'
<1>0. /\ TypeOK /\ Orderly(r) /\ now' = now /\ now \in Nat
      /\ Times(r)' = Times(r) /\ now \in Times(r)
  BY StepOfOne DEF SerialInv, TypeOK, Times, Orderly, Asked
<1>01. Seconds(now) \in Nat
  BY <1>0, SecondsNat
<1> USE DEF Orderly, Asked, LoginWrites, RefreshWrites, RevokeWrites, GoTo, Answer, UserOf
<1>1. CASE LoginSign(r)
  <2>1. /\ pc[r] = "signRefresh" /\ pc'[r] = "loginFind" /\ token' = token
        /\ call'[r].kind = "login" /\ call'[r].user = UserOf(r)
        /\ call'[r].jwt = [sub |-> UserOf(r), iat |-> Seconds(now)]
    BY <1>0, <1>1 DEF LoginSign, TypeOK, Calls, SignJwt
  <2>2. QED
    BY <1>0, <2>1, UNCHANGED since DEF InFlight
<1>2. CASE LoginFind(r)
  <2>1. /\ pc[r] = "loginFind"
        /\ pc'[r] = IF Open(r) THEN "findForUpdate" ELSE "insert"
        /\ frame'[r] = LoginColumns(r) /\ call' = call /\ token' = token
        /\ call[r].kind = "login"
    BY <1>0, <1>2 DEF LoginFind, TypeOK, Open
  <2>2. LoginColumns(r).iv = r /\ LoginColumns(r).refreshToken = Encrypt(call[r].jwt, r)
    BY DEF LoginColumns
  <2>3. LoginColumns(r).refreshExpiresIn = now + RefreshTtl /\ LoginColumns(r) \in Row
    BY <1>0, <1>2, RefreshTtlAssumption
    DEF LoginColumns, LoginFind, RefreshTokenExpiry, Row, Ciphertext, Encrypt, TypeOK
  <2>4. /\ Final(r)'.iv = r /\ Final(r)'.refreshToken = Encrypt(call[r].jwt, r)
        /\ Final(r)'.refreshExpiresIn = now + RefreshTtl
    <3>1. CASE Open(r)
      BY <1>0, <2>1, <2>2, <2>3, <3>1, SpreadLogin DEF Final, Open, TypeOK
    <3>2. CASE ~Open(r)
      BY <2>1, <2>2, <2>3, <3>2 DEF Final
    <3>3. QED
      BY <3>1, <3>2
  <2>5. QED
    BY <1>0, <2>1, <2>4 DEF Extends, Open
<1>3. CASE RefreshFind(r)
  BY <1>0, <1>3 DEF RefreshFind, TypeOK, Open, InFlight
<1>4. CASE RefreshSign(r)
  <2>1. /\ pc[r] = "decrypt" /\ pc'[r] = "signAccess" /\ token' = token
        /\ Matches(r) /\ ~IsExpired(frame[r])
        /\ call'[r].kind = "refresh" /\ call'[r].user = UserOf(r)
        /\ call'[r].bearer = call[r].bearer /\ call'[r].jwt = call[r].jwt
    BY <1>0, <1>4 DEF RefreshSign, TypeOK, Calls
  <2>2. Open(r) /\ call[r].bearer = UserOf(r) /\ frame[r] = token[UserOf(r)]
    BY <1>0, <2>1 DEF TypeOK
  <2>3. Checked(r)'
    BY <1>0, <2>1, <2>2 DEF Checked, Matches, IsExpired, TypeOK, Row, Open
  <2>4. QED
    BY <1>0, <2>1, <2>2, <2>3 DEF Open, InFlight, TypeOK
<1>5. CASE RefreshExtend(r)
  <2>1. /\ pc[r] = "signAccess" /\ pc'[r] = "findForUpdate" /\ token' = token /\ call' = call
        /\ call[r].kind = "refresh" /\ frame'[r] = [refreshExpiresIn |-> now + RefreshTtl]
    BY <1>0, <1>5 DEF RefreshExtend, TypeOK, RefreshTokenExpiry
  <2>2. Open(r) /\ call[r].bearer = UserOf(r) /\ Checked(r)
    BY <1>0, <2>1
  <2>3. Final(r)' = Spread(token[UserOf(r)], [refreshExpiresIn |-> now + RefreshTtl])
    BY <2>1 DEF Final
  <2>4. KeepsPair(r)' /\ Final(r)'.refreshExpiresIn = now + RefreshTtl
    BY <1>0, <2>1, <2>2, <2>3, SpreadExpiry DEF KeepsPair, Open, TypeOK
  <2>5. Checked(r)' /\ Extends(r)'
    BY <1>0, <2>1, <2>2, <2>4 DEF Checked, Extends
  <2>6. QED
    BY <1>0, <2>1, <2>2, <2>4, <2>5 DEF Open, InFlight
<1>6. CASE FindForUpdate(r)
  <2>1. /\ pc[r] = "findForUpdate" /\ pc'[r] = "load" /\ token' = token /\ call' = call
        /\ Open(r) /\ frame'[r] = Final(r)
    BY <1>0, <1>6 DEF FindForUpdate, TypeOK, Open, Final
  <2>2. Final(r)' = Final(r)
    BY <2>1 DEF Final
  <2>3. QED
    BY <1>0, <2>1, <2>2 DEF KeepsPair, Extends, Checked, Open, InFlight
<1>7. CASE Load(r)
  <2>1. /\ pc[r] = "load" /\ pc'[r] = "update" /\ token' = token /\ call' = call
        /\ Open(r) /\ frame'[r] = Patch(frame[r], token[UserOf(r)])
        /\ frame[r] \in Row /\ token[UserOf(r)] \in Row
    BY <1>0, <1>7 DEF Load, TypeOK, Open
  <2>2. Final(r)' = Final(r)
    BY <2>1, SpreadPatch DEF Final
  <2>3. QED
    BY <1>0, <2>1, <2>2 DEF KeepsPair, Extends, Checked, Open, InFlight
<1>8. CASE \/ LoginConflict(r) \/ RefreshMismatch(r) \/ RefreshExpired(r)
           \/ UpdateMissing(r) \/ LoginInsert(r) \/ Update(r) \/ Abort(r)
  <2>1. /\ call' = call /\ pc'[r] \in Answers /\ pc[r] \in InFlight
        /\ pc'[r] # "aborted" => pc[r] # "signRefresh"
    BY <1>0, <1>8 DEF LoginConflict, RefreshMismatch, RefreshExpired, UpdateMissing,
       LoginInsert, Update, Abort, TypeOK, InFlight, Answers
  <2>2. QED
    BY <1>0, <2>1 DEF InFlight, Answers
<1>9. QED
  BY <1>1, <1>2, <1>3, <1>4, <1>5, <1>6, <1>7, <1>8 DEF Continue

LEMMA SerialInvStep == SerialInv /\ [SerialNext]_svars => SerialInv'
<1> SUFFICES ASSUME SerialInv, [SerialNext]_svars PROVE SerialInv'
  OBVIOUS
<1>1. CASE UNCHANGED svars
  BY <1>1, NoColumnsIsPartial DEF svars, vars, SerialInv, NoOverlap, Orderly, Asked,
     LoginWrites, RefreshWrites, RevokeWrites, Times, Open, Final, Extends, KeepsPair,
     Checked, UserOf, TypeOK, IsPartial
<1>2. ASSUME SerialNext PROVE SerialInv'
  <2>1. TypeOK' /\ NoOverlap'
    BY <1>2, SerialStep, TypeStep, NoOverlapStep DEF SerialInv
  <2>2. since' \in [Requests -> Nat]
    BY <1>2 DEF SerialNext, SerialStart, SerialInv, TypeOK
  <2>3. ASSUME NEW q \in Requests PROVE Orderly(q)'
    <3>1. CASE Tick /\ UNCHANGED since
      BY <3>1, OrderlyStays DEF Tick, SerialInv, TypeOK, Open, UserOf
    <3>2. ASSUME NEW r \in Requests, r # q,
                 SerialStart(r) \/ ((Continue(r) \/ Abort(r)) /\ UNCHANGED since)
          PROVE  Orderly(q)'
      <4>1. Start(r) \/ Continue(r) \/ Abort(r)
        BY <3>2 DEF SerialStart
      <4>2. since'[q] = since[q]
        BY <3>2 DEF SerialStart, SerialInv
      <4>3. now' = now /\ pc'[q] = pc[q] /\ call'[q] = call[q] /\ frame'[q] = frame[q]
        BY <3>2, <4>1, StepOfOne DEF SerialInv
      <4>4. pc[q] \in InFlight => /\ Open(q)' <=> Open(q)
                                  /\ Open(q) => token'[UserOf(q)] = token[UserOf(q)]
        BY <3>2, <4>1, RowOfOthers DEF SerialInv
      <4>5. now' \in Nat /\ now <= now'
        BY <4>3 DEF SerialInv, TypeOK
      <4>6. QED
        BY <4>2, <4>3, <4>4, <4>5, OrderlyStays
    <3>3. CASE SerialStart(q)
      BY <3>3, OrderlyStart
    <3>4. CASE (Continue(q) \/ Abort(q)) /\ UNCHANGED since
      BY <3>4, OrderlyContinue
    <3>5. ASSUME NEW r \in Requests,
                 SerialStart(r) \/ ((Continue(r) \/ Abort(r)) /\ UNCHANGED since)
          PROVE  Orderly(q)'
      <4>1. CASE r = q
        BY <3>5, <4>1, <3>3, <3>4
      <4>2. CASE r # q
        BY <3>5, <4>2, <3>2
      <4>3. QED
        BY <4>1, <4>2
    <3>6. QED
      BY <1>2, <3>1, <3>5 DEF SerialNext
  <2>4. QED
    BY <2>1, <2>2, <2>3 DEF SerialInv
<1>3. QED
  BY <1>1, <1>2
-----------------------------------------------------------------------------
(***************************************************************************)
(* The refinement.                                                         *)
(***************************************************************************)
\* A row maps to a session, which is not None.
LEMMA SessionMapped ==
    ASSUME TypeOK, NEW u \in Users
    PROVE  /\ u \in DOMAIN token =>
                /\ SessionMap[u] # None
                /\ SessionMap[u] = [jwt |-> Decrypt(token[u].refreshToken, token[u].iv),
                                   expires |-> token[u].refreshExpiresIn]
           /\ u \notin DOMAIN token => SessionMap[u] = None
<1>1. ASSUME u \in DOMAIN token
      PROVE  [jwt |-> Decrypt(token[u].refreshToken, token[u].iv),
              expires |-> token[u].refreshExpiresIn]
               \in [jwt : Jwt \cup {None}, expires : Int]
  BY <1>1 DEF TypeOK, Row, Ciphertext, Decrypt
<1>2. QED
  BY <1>1, NoneIsNoRecord DEF SessionMap

\* A request in flight maps to one that is pending.
LEMMA RequestMapped ==
    ASSUME SerialInv, NEW r \in Requests, pc[r] \in InFlight
    PROVE  /\ Atomic!Pending(r)
           /\ RequestMap[r].kind = call[r].kind /\ RequestMap[r].user = UserOf(r)
           /\ RequestMap[r].bearer = call[r].bearer /\ RequestMap[r].at = since[r]
           /\ call[r].kind = "refresh" => RequestMap[r].jwt = call[r].jwt
           /\ UserOf(r) \in Users /\ Atomic!Within(r) = Times(r)
<1>1. call[r] \in Calls /\ call[r].kind # "none" /\ UserOf(r) \in Users
      /\ since[r] \in Nat /\ pc[r] \notin Answers
  BY DEF SerialInv, TypeOK, Orderly, Asked, InFlight, Answers
<1>2. RequestMap[r] = [kind |-> call[r].kind, user |-> UserOf(r),
                       bearer |-> call[r].bearer,
                       jwt |-> IF call[r].kind = "refresh" THEN call[r].jwt ELSE None,
                       at |-> since[r]]
  BY <1>1 DEF RequestMap
<1>3. RequestMap[r] \in [kind : {"login", "refresh", "revoke"}, user : Users \cup {None},
                         bearer : Users \cup {None}, jwt : Jwt \cup {None}, at : Nat]
  BY <1>1, <1>2 DEF Calls
<1>4. AnswerMap[r] = None
  BY <1>1 DEF AnswerMap
<1>5. Atomic!Pending(r)
  BY <1>3, <1>4, NoneIsNoRecord DEF Atomic!Pending
<1>6. Atomic!Within(r) = Times(r)
  BY <1>2 DEF Atomic!Within, Times
<1>7. QED
  BY <1>1, <1>2, <1>5, <1>6

\* While a request runs, what it asks for does not change: the JWT of a login
\* and the times at which access JWTs are signed are no part of it.
LEMMA RequestKept ==
    ASSUME TypeOK, NEW r \in Requests, Continue(r) \/ Abort(r), UNCHANGED since
    PROVE  RequestMap' = RequestMap
<1> USE DEF TypeOK, Calls, RequestMap, UserOf
<1>1. CASE LoginSign(r)
  BY <1>1 DEF LoginSign
<1>2. CASE RefreshSign(r)
  BY <1>2 DEF RefreshSign
<1>3. CASE ~LoginSign(r) /\ ~RefreshSign(r)
  <2>1. call' = call
    BY <1>3 DEF Continue, Abort, LoginFind, LoginInsert, LoginConflict, RefreshFind,
       RefreshMismatch, RefreshExpired, RefreshExtend, FindForUpdate, UpdateMissing,
       Load, Update
  <2>2. QED
    BY <2>1
<1>4. QED
  BY <1>1, <1>2, <1>3

\* A request that goes on is not answered; one that ends is.
LEMMA AnswerMapped ==
    ASSUME TypeOK, NEW r \in Requests, pc[r] \in {"idle"} \cup InFlight,
           NEW label, NEW object, GoTo(r, label, object)
    PROVE  /\ label \in InFlight => AnswerMap' = AnswerMap
           /\ label \in Answers => AnswerMap' = [AnswerMap EXCEPT ![r] = label]
BY DEF TypeOK, GoTo, AnswerMap, InFlight, Answers

\* A row written is a session written.
LEMMA SessionWritten ==
    ASSUME NEW u \in Users, NEW row,
           token' = [v \in DOMAIN token \cup {u} |-> IF v = u THEN row ELSE token[v]]
    PROVE  SessionMap' = [SessionMap EXCEPT ![u] =
                            [jwt |-> Decrypt(row.refreshToken, row.iv),
                             expires |-> row.refreshExpiresIn]]
BY DEF SessionMap, Decrypt

LEMMA RefinesInit == SerialInit => Atomic!Init
BY DEF SerialInit, Init, Atomic!Init, SessionMap, RequestMap, AnswerMap, NoCall, Answers

\* Beginning a request: it asks, and a string that is no JWT is refused.
LEMMA StartRefines ==
    ASSUME SerialInv, NEW r \in Requests, SerialStart(r)
    PROVE  Atomic!Next
<1>0. /\ TypeOK /\ pc[r] = "idle" /\ call[r] = NoCall /\ UNCHANGED <<now, token>>
      /\ since' = [since EXCEPT ![r] = now] /\ now \in Nat
      /\ SessionMap' = SessionMap
  <2>1. TypeOK /\ pc[r] = "idle" /\ UNCHANGED <<now, token>>
    BY DEF SerialInv, SerialStart, Start, StartLogin, StartRefresh, RefreshUnverified,
       StartRevoke
  <2>2. call[r] = NoCall /\ since' = [since EXCEPT ![r] = now]
    BY <2>1 DEF SerialInv, Orderly, Asked, SerialStart
  <2>3. QED
    BY <2>1, <2>2 DEF SessionMap, TypeOK
<1>1. RequestMap[r] = None
  BY <1>0 DEF RequestMap, NoCall
<1>2. \A c \in Calls : call' = [call EXCEPT ![r] = c] /\ c.kind # "none" =>
        RequestMap' = [RequestMap EXCEPT ![r] =
            [kind |-> c.kind, user |-> c.user, bearer |-> c.bearer,
             jwt |-> IF c.kind = "refresh" THEN c.jwt ELSE None, at |-> now]]
  <2> SUFFICES ASSUME NEW c \in Calls, call' = [call EXCEPT ![r] = c], c.kind # "none"
               PROVE  RequestMap' = [RequestMap EXCEPT ![r] =
                        [kind |-> c.kind, user |-> c.user, bearer |-> c.bearer,
                         jwt |-> IF c.kind = "refresh" THEN c.jwt ELSE None, at |-> now]]
    OBVIOUS
  <2>1. /\ call'[r] = c /\ since'[r] = now
        /\ \A q \in Requests \ {r} : call'[q] = call[q] /\ since'[q] = since[q]
    BY <1>0 DEF TypeOK, SerialInv
  <2>2. RequestMap'[r] =
          [kind |-> c.kind, user |-> c.user, bearer |-> c.bearer,
           jwt |-> IF c.kind = "refresh" THEN c.jwt ELSE None, at |-> now]
    BY <2>1 DEF RequestMap, UserOf
  <2>3. \A q \in Requests \ {r} : RequestMap'[q] = RequestMap[q]
    BY <2>1 DEF RequestMap, UserOf
  <2>4. /\ RequestMap = [q \in Requests |-> RequestMap[q]]
        /\ RequestMap' = [q \in Requests |-> RequestMap'[q]]
    BY DEF RequestMap
  <2>5. QED
    BY <2>2, <2>3, <2>4
<1>3. ASSUME NEW u \in Users, StartLogin(r, u) PROVE Atomic!Begin(r)
  <2> DEFINE c == [kind |-> "login", user |-> u, bearer |-> None,
                   jwt |-> None, iat |-> Seconds(now)]
  <2>1. c \in Calls /\ call' = [call EXCEPT ![r] = c]
    BY <1>0, <1>3, SecondsNat DEF StartLogin, Calls
  <2>2. Atomic!Asks(r, "login", u, None, None)
    BY <1>1, <1>2, <2>1 DEF Atomic!Asks
  <2>3. AnswerMap' = AnswerMap
    BY <1>0, <1>3, AnswerMapped DEF StartLogin, InFlight
  <2>4. QED
    BY <1>0, <2>2, <2>3 DEF Atomic!Begin
<1>4. ASSUME NEW u \in Users, StartRevoke(r, u) PROVE Atomic!Begin(r)
  <2> DEFINE c == [kind |-> "revoke", user |-> u, bearer |-> None,
                   jwt |-> None, iat |-> 0]
  <2>1. c \in Calls /\ call' = [call EXCEPT ![r] = c]
    BY <1>4 DEF StartRevoke, Calls
  <2>2. Atomic!Asks(r, "revoke", u, None, None)
    BY <1>1, <1>2, <2>1 DEF Atomic!Asks
  <2>3. AnswerMap' = AnswerMap
    BY <1>0, <1>4, AnswerMapped DEF StartRevoke, InFlight
  <2>4. QED
    BY <1>0, <2>2, <2>3 DEF Atomic!Begin
<1>5. ASSUME NEW jwt \in HeldRefreshJwts, NEW bearer \in HeldBearers,
             StartRefresh(r, jwt, bearer)
      PROVE  Atomic!Begin(r)
  <2> DEFINE c == [kind |-> "refresh", user |-> jwt.sub, bearer |-> bearer,
                   jwt |-> jwt, iat |-> 0]
  <2>1. PICK q \in Delivered : jwt = call[q].jwt
    BY DEF HeldRefreshJwts
  <2>2. bearer \in Users
    BY <1>0 DEF HeldBearers, Delivered, TypeOK, UserOf, InFlight
  <2>3. jwt \in Jwt
    BY <1>0, <2>1 DEF Delivered, TypeOK
  <2>4. PICK t \in Times(q) : jwt = [sub |-> UserOf(q), iat |-> Seconds(t)]
    BY <2>1 DEF Delivered, SerialInv, Orderly, Asked
  <2>5. t \in Nat /\ t <= now
    BY <1>0, <2>1 DEF SerialInv, Times, Delivered
  <2>6. Seconds(t) \in 0 .. Atomic!IssuedAt(now)
    BY <1>0, <2>5, SecondsNat, SecondsMonotonic DEF Seconds, Atomic!IssuedAt
  <2>7. jwt \in Atomic!Issued
    BY <2>3, <2>4, <2>6 DEF Jwt, Atomic!Issued
  <2>8. c \in Calls /\ call' = [call EXCEPT ![r] = c]
    BY <1>5, <2>2, <2>3 DEF StartRefresh, Calls, Jwt
  <2>9. Atomic!Asks(r, "refresh", jwt.sub, bearer, jwt)
    BY <1>1, <1>2, <2>8 DEF Atomic!Asks
  <2>10. AnswerMap' = AnswerMap
    BY <1>0, <1>5, AnswerMapped DEF StartRefresh, InFlight
  <2>11. QED
    BY <1>0, <2>2, <2>7, <2>9, <2>10 DEF Atomic!Begin
<1>6. CASE RefreshUnverified(r)
  <2> DEFINE c == [NoCall EXCEPT !.kind = "refresh"]
  <2>1. c \in Calls /\ call' = [call EXCEPT ![r] = c]
    BY <1>0, <1>6 DEF RefreshUnverified, Calls, NoCall, TypeOK
  <2>2. Atomic!Asks(r, "refresh", None, None, None)
    BY <1>1, <1>2, <2>1 DEF Atomic!Asks, NoCall
  <2>3. AnswerMap' = [AnswerMap EXCEPT ![r] = "invalidToken"]
    BY <1>0, <1>6, AnswerMapped DEF RefreshUnverified, Answer, Answers
  <2>4. Atomic!Reject(r)
    BY <1>0, <2>2, <2>3 DEF Atomic!Reject
  <2>5. QED
    BY <2>4 DEF Atomic!Next
<1>7. QED
  BY <1>3, <1>4, <1>5, <1>6 DEF SerialStart, Start, Atomic!Next

\* The last statement of a request takes its effect, the others none.
LEMMA ContinueRefines ==
    ASSUME SerialInv, NEW r \in Requests, Continue(r) \/ Abort(r), UNCHANGED since
    PROVE  [Atomic!Next]_(Atomic!avars)
<1>0. /\ TypeOK /\ Orderly(r) /\ now' = now /\ now \in Nat /\ now \in Times(r)
      /\ pc[r] \in InFlight
  <2>1. pc[r] \in InFlight
    BY DEF Continue, Abort, LoginSign, LoginFind, LoginInsert, LoginConflict, RefreshFind,
       RefreshMismatch, RefreshExpired, RefreshSign, RefreshExtend, FindForUpdate,
       UpdateMissing, Load, Update, InFlight
  <2>2. QED
    BY <2>1, StepOfOne DEF SerialInv, TypeOK, Times, Orderly, Asked
<1>1. RequestMap' = RequestMap
  BY <1>0, RequestKept
<1>2. /\ Atomic!Pending(r)
      /\ RequestMap[r].kind = call[r].kind /\ RequestMap[r].user = UserOf(r)
      /\ RequestMap[r].bearer = call[r].bearer /\ RequestMap[r].at = since[r]
      /\ call[r].kind = "refresh" => RequestMap[r].jwt = call[r].jwt
      /\ UserOf(r) \in Users /\ Atomic!Within(r) = Times(r)
  BY <1>0, RequestMapped
<1>3. /\ Open(r) => /\ SessionMap[UserOf(r)] # None /\ token[UserOf(r)] \in Row
                    /\ SessionMap[UserOf(r)] =
                         [jwt |-> Decrypt(token[UserOf(r)].refreshToken, token[UserOf(r)].iv),
                          expires |-> token[UserOf(r)].refreshExpiresIn]
      /\ ~Open(r) => SessionMap[UserOf(r)] = None
      /\ Atomic!SessionOf(r) = SessionMap[UserOf(r)]
  BY <1>0, <1>2, SessionMapped DEF Open, Atomic!SessionOf, TypeOK
<1>4. token' = token => SessionMap' = SessionMap
  BY DEF SessionMap
<1>5. ASSUME token' = token, NEW label \in InFlight, NEW object, GoTo(r, label, object)
      PROVE  UNCHANGED Atomic!avars
  BY <1>0, <1>1, <1>4, <1>5, AnswerMapped DEF Atomic!avars
<1>6. ASSUME token' = token, NEW status \in Answers, Answer(r, status)
      PROVE  Atomic!Fails(r, status)
  BY <1>0, <1>1, <1>4, <1>6, AnswerMapped DEF Answer, Atomic!Fails, Atomic!Replies
<1>7. ASSUME \E status \in {"ok", "aborted"} : Answer(r, status)
      PROVE  Atomic!Succeeds(r)
  BY <1>0, <1>1, <1>7, AnswerMapped DEF Answer, Answers, Atomic!Succeeds, Atomic!Replies
<1>8. CASE LoginSign(r) \/ LoginFind(r) \/ RefreshSign(r) \/ RefreshExtend(r)
           \/ FindForUpdate(r) \/ Load(r)
  <2>1. token' = token /\ \E label \in InFlight : \E object : GoTo(r, label, object)
    BY <1>8 DEF LoginSign, LoginFind, RefreshSign, RefreshExtend, FindForUpdate, Load,
       InFlight
  <2>2. QED
    BY <1>5, <2>1
<1>9. CASE LoginConflict(r)
  BY <1>0, <1>9 DEF LoginConflict, Orderly, LoginWrites, Open, TypeOK
<1>10. CASE RefreshFind(r)
  <2>1. token' = token /\ call[r].kind = "refresh"
    BY <1>0, <1>10 DEF RefreshFind, TypeOK
  <2>2. CASE UserOf(r) \in DOMAIN token /\ UserOf(r) = call[r].bearer
    BY <1>5, <1>10, <2>1, <2>2 DEF RefreshFind, InFlight
  <2>3. CASE ~(UserOf(r) \in DOMAIN token /\ UserOf(r) = call[r].bearer)
    <3>1. Atomic!Fails(r, "unauthorized")
      BY <1>6, <1>10, <2>1, <2>3 DEF RefreshFind, Answers
    <3>2. Atomic!Refuse(r)
      BY <1>2, <1>3, <2>1, <2>3, <3>1 DEF Atomic!Refuse, Open
    <3>3. QED
      BY <3>2 DEF Atomic!Next
  <2>4. QED
    BY <2>2, <2>3
<1>11. CASE RefreshMismatch(r)
  <2>1. /\ token' = token /\ call[r].kind = "refresh" /\ Open(r)
        /\ frame[r] = token[UserOf(r)] /\ Atomic!Fails(r, "invalidToken")
    BY <1>0, <1>6, <1>11 DEF RefreshMismatch, TypeOK, Orderly, RefreshWrites, Answers
  <2>2. RequestMap[r].jwt # SessionMap[UserOf(r)].jwt
    BY <1>2, <1>3, <1>11, <2>1 DEF RefreshMismatch, Matches
  <2>3. Atomic!Refuse(r)
    BY <1>2, <1>3, <2>1, <2>2 DEF Atomic!Refuse
  <2>4. QED
    BY <2>3 DEF Atomic!Next
<1>12. CASE RefreshExpired(r)
  <2>1. /\ token' = token /\ call[r].kind = "refresh" /\ Open(r)
        /\ frame[r] = token[UserOf(r)] /\ Atomic!Fails(r, "expired")
    BY <1>0, <1>6, <1>12 DEF RefreshExpired, TypeOK, Orderly, RefreshWrites, Answers
  <2>2. SessionMap[UserOf(r)].expires < now
    BY <1>3, <1>12, <2>1 DEF RefreshExpired, IsExpired
  <2>3. Atomic!Refuse(r)
    BY <1>0, <1>2, <1>3, <2>1, <2>2 DEF Atomic!Refuse
  <2>4. QED
    BY <2>3 DEF Atomic!Next
<1>13. CASE UpdateMissing(r)
  <2>1. token' = token /\ ~Open(r) /\ Atomic!Fails(r, "notFound")
    BY <1>6, <1>13 DEF UpdateMissing, Open, Answers
  <2>2. call[r].kind = "revoke"
    BY <1>0, <1>13, <2>1 DEF UpdateMissing, Orderly, Asked, LoginWrites, RefreshWrites,
       TypeOK, Calls, InFlight
  <2>3. Atomic!NothingToRevoke(r)
    BY <1>2, <1>3, <2>1, <2>2 DEF Atomic!NothingToRevoke
  <2>4. QED
    BY <2>3 DEF Atomic!Next
<1>14. CASE Abort(r)
  <2>1. Atomic!Fails(r, "aborted")
    BY <1>6, <1>14 DEF Abort, Answers
  <2>2. Atomic!Abort(r)
    BY <1>2, <2>1 DEF Atomic!Abort
  <2>3. QED
    BY <2>2 DEF Atomic!Next
<1>15. CASE LoginInsert(r) \/ Update(r)
  <2>1. /\ token' = [v \in DOMAIN token \cup {UserOf(r)} |->
                       IF v = UserOf(r) THEN Final(r) ELSE token[v]]
        /\ pc[r] \in {"insert", "update"} /\ Atomic!Succeeds(r)
        /\ pc[r] = "insert" => call[r].kind = "login"
        /\ pc[r] = "update" => Open(r)
    BY <1>0, <1>7, <1>15 DEF LoginInsert, Update, Final, TypeOK, Open
  <2>2. SessionMap' = [SessionMap EXCEPT ![UserOf(r)] =
                         [jwt |-> Decrypt(Final(r).refreshToken, Final(r).iv),
                          expires |-> Final(r).refreshExpiresIn]]
    BY <1>2, <2>1, SessionWritten
  <2>3. CASE call[r].kind = "login"
    <3>1. /\ Final(r).iv = r /\ Final(r).refreshToken = Encrypt(call[r].jwt, r)
          /\ Extends(r)
      BY <1>0, <2>1, <2>3 DEF Orderly, LoginWrites
    <3>2. Decrypt(Final(r).refreshToken, Final(r).iv) = call[r].jwt
      BY <3>1 DEF Encrypt, Decrypt
    <3>3. call[r].jwt \in Jwt
      BY <1>0, <2>1, <2>3 DEF TypeOK
    <3>4. \E signed \in Times(r) : call[r].jwt = [sub |-> UserOf(r), iat |-> Seconds(signed)]
      BY <1>0, <2>1, <2>3 DEF Orderly, Asked
    <3>5. Atomic!Login(r)
      BY <1>2, <2>1, <2>2, <2>3, <3>1, <3>2, <3>4
      DEF Atomic!Login, Extends, Seconds, Atomic!IssuedAt
    <3>6. QED
      BY <3>5 DEF Atomic!Next
  <2>4. ASSUME Open(r), KeepsPair(r)
        PROVE  SessionMap' = [SessionMap EXCEPT ![UserOf(r)].expires =
                                Final(r).refreshExpiresIn]
    <3>1. Decrypt(Final(r).refreshToken, Final(r).iv)
            = Decrypt(token[UserOf(r)].refreshToken, token[UserOf(r)].iv)
      BY <2>4 DEF KeepsPair
    <3>2. [SessionMap[UserOf(r)] EXCEPT !.expires = Final(r).refreshExpiresIn]
            = [jwt |-> Decrypt(token[UserOf(r)].refreshToken, token[UserOf(r)].iv),
               expires |-> Final(r).refreshExpiresIn]
      BY <1>3, <2>4
    <3>3. QED
      BY <2>2, <3>1, <3>2
  <2>5. CASE call[r].kind = "refresh"
    <3>1. /\ Open(r) /\ call[r].bearer = UserOf(r) /\ Checked(r) /\ KeepsPair(r) /\ Extends(r)
      BY <1>0, <2>1, <2>5 DEF Orderly, RefreshWrites
    <3>2. SessionMap[UserOf(r)].jwt = call[r].jwt
      BY <1>3, <3>1 DEF Checked
    <3>3. PICK checked \in Times(r) : SessionMap[UserOf(r)].expires >= checked
      BY <1>3, <3>1 DEF Checked
    <3>4. PICK t \in Times(r) :
             SessionMap' = [SessionMap EXCEPT ![UserOf(r)].expires = t + RefreshTtl]
      BY <2>4, <3>1 DEF Extends
    <3>5. Atomic!Refresh(r)
      BY <1>2, <1>3, <2>1, <2>5, <3>1, <3>2, <3>3, <3>4 DEF Atomic!Refresh
    <3>6. QED
      BY <3>5 DEF Atomic!Next
  <2>6. CASE call[r].kind = "revoke"
    <3>1. Open(r) /\ KeepsPair(r) /\ Final(r).refreshExpiresIn = since[r] - RefreshTtl
      BY <1>0, <2>1, <2>6 DEF Orderly, RevokeWrites
    <3>2. SessionMap' = [SessionMap EXCEPT ![UserOf(r)].expires = since[r] - RefreshTtl]
      BY <2>4, <3>1
    <3>3. Atomic!Revoke(r)
      BY <1>2, <1>3, <2>1, <2>6, <3>1, <3>2 DEF Atomic!Revoke
    <3>4. QED
      BY <3>3 DEF Atomic!Next
  <2>7. QED
    BY <1>0, <2>3, <2>5, <2>6 DEF TypeOK, Calls, Orderly, Asked, InFlight
<1>16. QED
  BY <1>8, <1>9, <1>10, <1>11, <1>12, <1>13, <1>14, <1>15 DEF Continue

LEMMA RefinesStep == SerialInv /\ [SerialNext]_svars => [Atomic!Next]_(Atomic!avars)
<1> SUFFICES ASSUME SerialInv, [SerialNext]_svars
             PROVE  [Atomic!Next]_(Atomic!avars)
  OBVIOUS
<1>1. CASE UNCHANGED svars
  BY <1>1 DEF svars, vars, Atomic!avars, SessionMap, RequestMap, AnswerMap, UserOf
<1>2. CASE Tick /\ UNCHANGED since
  <2>1. SessionMap' = SessionMap /\ RequestMap' = RequestMap /\ AnswerMap' = AnswerMap
    BY <1>2 DEF Tick, SessionMap, RequestMap, AnswerMap, UserOf
  <2>2. Atomic!Tick
    BY <1>2, <2>1 DEF Tick, Atomic!Tick
  <2>3. QED
    BY <2>2 DEF Atomic!Next
<1>3. ASSUME NEW r \in Requests,
             SerialStart(r) \/ ((Continue(r) \/ Abort(r)) /\ UNCHANGED since)
      PROVE  [Atomic!Next]_(Atomic!avars)
  BY <1>3, StartRefines, ContinueRefines
<1>4. QED
  BY <1>1, <1>2, <1>3 DEF SerialNext

\* Requests of one user that do not overlap take effect at once, as a whole or
\* not at all, each at its last statement: whatever the requests of other users
\* do meanwhile, and wherever a request fails between two of its round trips.
THEOREM RequestsAreAtomic == SerialSpec => ImplementsAtomicSession
<1>1. SerialInit => SerialInv
  BY SerialInvInit
<1>2. SerialInv /\ [SerialNext]_svars => SerialInv'
  BY SerialInvStep
<1>3. SerialInit => Atomic!Init
  BY RefinesInit
<1>4. SerialInv /\ [SerialNext]_svars => [Atomic!Next]_(Atomic!avars)
  BY RefinesStep
<1>5. QED
  BY <1>1, <1>2, <1>3, <1>4, PTL DEF SerialSpec, ImplementsAtomicSession, Atomic!Spec
=============================================================================
