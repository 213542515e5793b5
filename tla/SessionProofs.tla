---------------------------- MODULE SessionProofs ----------------------------
(***************************************************************************)
(* Theorems about Session for every set of users and requests, every       *)
(* length of the session window and every resolution of the clock.         *)
(***************************************************************************)
EXTENDS Session, TLAPS

(***************************************************************************)
(* Lemmas about the data operations.                                       *)
(***************************************************************************)
\* Spreading a partial update over a row gives a row.
LEMMA SpreadRow ==
    ASSUME NEW row \in Row, NEW f, IsPartial(f)
    PROVE  Spread(row, f) \in Row
BY DEF Spread, Row, IsPartial, Columns

\* A row is a partial update, with every column.
LEMMA RowIsPartial ==
    ASSUME NEW row \in Row
    PROVE  IsPartial(row) /\ DOMAIN row = Columns
BY DEF Row, IsPartial, Columns

\* The difference that save computes is a partial update.
LEMMA PatchIsPartial ==
    ASSUME NEW entity, IsPartial(entity), NEW row
    PROVE  IsPartial(Patch(entity, row))
BY DEF Patch, IsPartial, Columns

LEMMA NoColumnsIsPartial == IsPartial(NoColumns)
BY DEF NoColumns, IsPartial, Columns

\* A partial update of the expiry time alone.
LEMMA ExpiryIsPartial ==
    ASSUME NEW t \in Int
    PROVE  IsPartial([refreshExpiresIn |-> t])
BY DEF IsPartial, Columns

\* iat claims are natural numbers.
LEMMA SecondsNat == ASSUME NEW t \in Nat PROVE Seconds(t) \in Nat
BY SecondAssumption DEF Seconds

LEMMA SecondsMonotonic ==
    ASSUME NEW s \in Nat, NEW t \in Nat, s <= t
    PROVE  Seconds(s) <= Seconds(t)
BY SecondAssumption DEF Seconds

(***************************************************************************)
(* Type correctness.                                                       *)
(***************************************************************************)
LEMMA TypeInit == Init => TypeOK
BY NoColumnsIsPartial DEF Init, TypeOK, NoCall, Calls, InFlight, Answers

LEMMA TypeStep == TypeOK /\ [Next]_vars => TypeOK'
<1> SUFFICES ASSUME TypeOK, [Next]_vars PROVE TypeOK'
    OBVIOUS
<1> USE DEF TypeOK, GoTo, Answer, UserOf, InFlight, Answers
<1>1. CASE Tick
    BY <1>1 DEF Tick
<1>2. ASSUME NEW r \in Requests, NEW u \in Users, StartLogin(r, u)
      PROVE  TypeOK'
    BY <1>2, NoColumnsIsPartial, SecondsNat DEF StartLogin, Calls
<1>3. ASSUME NEW r \in Requests, LoginSign(r) PROVE TypeOK'
    BY <1>3, NoColumnsIsPartial, SecondsNat DEF LoginSign, Calls, SignJwt, Jwt
<1>4. ASSUME NEW r \in Requests, LoginFind(r) PROVE TypeOK'
    BY <1>4, RowIsPartial, RefreshTtlAssumption
    DEF LoginFind, LoginColumns, Encrypt, Ciphertext, Row, RefreshTokenExpiry
<1>5. ASSUME NEW r \in Requests, LoginInsert(r) PROVE TypeOK'
    BY <1>5, NoColumnsIsPartial DEF LoginInsert
<1>6. ASSUME NEW r \in Requests, LoginConflict(r) PROVE TypeOK'
    BY <1>6, NoColumnsIsPartial DEF LoginConflict
<1>7. ASSUME NEW r \in Requests, NEW jwt \in HeldRefreshJwts,
             NEW bearer \in HeldBearers, StartRefresh(r, jwt, bearer)
      PROVE  TypeOK'
    BY <1>7, NoColumnsIsPartial
    DEF StartRefresh, HeldRefreshJwts, HeldBearers, Delivered, Calls, Jwt
<1>8. ASSUME NEW r \in Requests, RefreshUnverified(r) PROVE TypeOK'
    BY <1>8, NoColumnsIsPartial DEF RefreshUnverified, Calls
<1>9. ASSUME NEW r \in Requests, RefreshFind(r) PROVE TypeOK'
    BY <1>9, NoColumnsIsPartial, RowIsPartial DEF RefreshFind
<1>10. ASSUME NEW r \in Requests, RefreshMismatch(r) \/ RefreshExpired(r)
       PROVE  TypeOK'
    BY <1>10, NoColumnsIsPartial DEF RefreshMismatch, RefreshExpired
<1>11. ASSUME NEW r \in Requests, RefreshSign(r) PROVE TypeOK'
    BY <1>11, NoColumnsIsPartial, SecondsNat DEF RefreshSign, Calls
<1>12. ASSUME NEW r \in Requests, RefreshExtend(r) PROVE TypeOK'
    BY <1>12, ExpiryIsPartial, RefreshTtlAssumption
    DEF RefreshExtend, RefreshTokenExpiry
<1>13. ASSUME NEW r \in Requests, NEW u \in Users, StartRevoke(r, u)
       PROVE  TypeOK'
    BY <1>13, ExpiryIsPartial, RefreshTtlAssumption
    DEF StartRevoke, RevokedTokenExpiry, Calls
<1>14. ASSUME NEW r \in Requests, FindForUpdate(r) PROVE TypeOK'
    BY <1>14, SpreadRow, RowIsPartial DEF FindForUpdate
<1>15. ASSUME NEW r \in Requests, UpdateMissing(r) PROVE TypeOK'
    BY <1>15, NoColumnsIsPartial DEF UpdateMissing
<1>16. ASSUME NEW r \in Requests, Load(r) PROVE TypeOK'
    BY <1>16, PatchIsPartial DEF Load
<1>17. ASSUME NEW r \in Requests, Update(r) PROVE TypeOK'
    BY <1>17, SpreadRow, NoColumnsIsPartial DEF Update
<1>18. ASSUME NEW r \in Requests, Abort(r) PROVE TypeOK'
    BY <1>18, NoColumnsIsPartial DEF Abort
<1>19. CASE UNCHANGED vars
    BY <1>19 DEF vars, IsPartial
<1>20. QED
    BY <1>1, <1>2, <1>3, <1>4, <1>5, <1>6, <1>7, <1>8, <1>9, <1>10, <1>11,
       <1>12, <1>13, <1>14, <1>15, <1>16, <1>17, <1>18, <1>19
    DEF Next, Start, Continue

\* Every state of the service is well typed, and every request carries the
\* object its next step needs.
THEOREM TypeCorrect == Spec => []TypeOK
<1>1. Init => TypeOK
    BY TypeInit
<1>2. TypeOK /\ [Next]_vars => TypeOK'
    BY TypeStep
<1>3. QED
    BY <1>1, <1>2, PTL DEF Spec

(***************************************************************************)
(* Rows and objects hold the pair of one login.                            *)
(***************************************************************************)
\* A login that has signed its refresh JWT.
Signed(q) == pc[q] \notin {"idle", "signRefresh"}

\* What a signed login is about no step changes.
Stable ==
    \A q \in Requests : Signed(q) =>
        /\ Signed(q)'
        /\ call'[q].kind = call[q].kind
        /\ call'[q].user = call[q].user
        /\ call'[q].jwt = call[q].jwt

LEMMA SignedIsStable == TypeOK /\ [Next]_vars => Stable
<1> SUFFICES ASSUME TypeOK, [Next]_vars PROVE Stable
    OBVIOUS
<1> USE DEF TypeOK, Calls, Stable, Signed, GoTo, Answer, InFlight, Answers
<1>1. CASE Tick
    BY <1>1 DEF Tick
<1>2. ASSUME NEW r \in Requests, Start(r) PROVE Stable
    BY <1>2 DEF Start, StartLogin, StartRefresh, RefreshUnverified, StartRevoke
<1>3. ASSUME NEW r \in Requests, LoginSign(r) PROVE Stable
    BY <1>3 DEF LoginSign
<1>4. ASSUME NEW r \in Requests, RefreshSign(r) PROVE Stable
    BY <1>4 DEF RefreshSign
<1>5. ASSUME NEW r \in Requests, Abort(r) PROVE Stable
    BY <1>5 DEF Abort
<1>6. ASSUME NEW r \in Requests, Continue(r), ~LoginSign(r), ~RefreshSign(r)
      PROVE  Stable
    BY <1>6 DEF Continue, LoginFind, LoginInsert, LoginConflict, RefreshFind,
                RefreshMismatch, RefreshExpired, RefreshExtend, FindForUpdate,
                UpdateMissing, Load, Update
<1>7. CASE UNCHANGED vars
    BY <1>7 DEF vars
<1>8. QED
    BY <1>1, <1>2, <1>3, <1>4, <1>5, <1>6, <1>7 DEF Next

\* A request takes its steps alone: they move no other request, and touch the
\* row of its own user at most.
LEMMA StepOfOne ==
    ASSUME TypeOK, NEW r \in Requests, Start(r) \/ Continue(r) \/ Abort(r)
    PROVE  /\ now' = now
           /\ pc[r] = "idle" \/ pc[r] \in InFlight
           /\ \A q \in Requests \ {r} :
                pc'[q] = pc[q] /\ call'[q] = call[q] /\ frame'[q] = frame[q]
           /\ DOMAIN token \subseteq DOMAIN token'
           /\ DOMAIN token' \subseteq DOMAIN token \cup {UserOf(r)}
           /\ \A u \in DOMAIN token : u # UserOf(r) => token'[u] = token[u]
           /\ pc[r] # "idle" => call'[r].kind = call[r].kind /\ call'[r].user = UserOf(r)
<1> USE DEF TypeOK, Calls, GoTo, Answer, InFlight, UserOf
<1>1. CASE Start(r)
  BY <1>1 DEF Start, StartLogin, StartRefresh, RefreshUnverified, StartRevoke
<1>2. CASE LoginSign(r) \/ RefreshSign(r)
  BY <1>2 DEF LoginSign, RefreshSign
<1>3. CASE LoginInsert(r) \/ Update(r)
  BY <1>3 DEF LoginInsert, Update
<1>4. CASE Abort(r)
  BY <1>4 DEF Abort
<1>5. CASE LoginFind(r) \/ LoginConflict(r) \/ RefreshFind(r) \/ RefreshMismatch(r)
  BY <1>5 DEF LoginFind, LoginConflict, RefreshFind, RefreshMismatch
<1>6. CASE RefreshExpired(r) \/ RefreshExtend(r) \/ FindForUpdate(r) \/ UpdateMissing(r) \/ Load(r)
  BY <1>6 DEF RefreshExpired, RefreshExtend, FindForUpdate, UpdateMissing, Load
<1>7. QED
  BY <1>1, <1>2, <1>3, <1>4, <1>5, <1>6 DEF Continue

\* Spreading a pair over a pair leaves a pair.
LEMMA SpreadFromOneLogin ==
    ASSUME NEW row \in Row, NEW f, IsPartial(f), NEW u,
           FromOneLogin(row, u), FromOneLogin(f, u)
    PROVE  FromOneLogin(Spread(row, f), u)
BY DEF FromOneLogin, Spread, Row, IsPartial, Columns

\* Two pairs differ in both parts or in none: a difference has both columns
\* of the entity's pair or neither.
LEMMA PatchFromOneLogin ==
    ASSUME NEW row \in Row, NEW f, IsPartial(f), NEW u,
           FromOneLogin(row, u), FromOneLogin(f, u)
    PROVE  FromOneLogin(Patch(f, row), u)
BY DEF FromOneLogin, Patch, Row, IsPartial, Columns, Encrypt

LEMMA WholePairsInit == Init => WholePairs
BY DEF Init, WholePairs, FromOneLogin, NoColumns

\* FromOneLogin in the state after a step, of values before or after it.
FromOneLoginNext(f, u) ==
    /\ "iv" \in DOMAIN f <=> "refreshToken" \in DOMAIN f
    /\ "iv" \in DOMAIN f =>
          LET login == call'[f["iv"]]
          IN  /\ pc'[f["iv"]] \notin {"idle", "signRefresh"}
              /\ login.kind = "login" /\ login.user = u
              /\ f["refreshToken"] = Encrypt(login.jwt, f["iv"])

\* A pair stays a pair, since the login it comes from is stable.
LEMMA PairIsStable ==
    ASSUME TypeOK, [Next]_vars, NEW f, IsPartial(f), NEW u, FromOneLogin(f, u)
    PROVE  FromOneLoginNext(f, u)
<1>1. Stable
    BY SignedIsStable
<1>2. QED
    BY <1>1 DEF FromOneLogin, FromOneLoginNext, Stable, Signed, IsPartial

LEMMA WholePairsStep == TypeOK /\ WholePairs /\ [Next]_vars => WholePairs'
<1> SUFFICES ASSUME TypeOK, WholePairs, [Next]_vars PROVE WholePairs'
    OBVIOUS
<1>1. /\ \A u \in DOMAIN token : /\ token[u] \in Row
                                 /\ FromOneLogin(token[u], u)
                                 /\ FromOneLoginNext(token[u], u)
      /\ \A q \in Requests : /\ IsPartial(frame[q])
                             /\ FromOneLogin(frame[q], UserOf(q))
                             /\ FromOneLoginNext(frame[q], UserOf(q))
    BY PairIsStable, RowIsPartial DEF TypeOK, WholePairs
<1> DEFINE Goal == /\ \A u \in DOMAIN token' : FromOneLoginNext(token'[u], u)
                   /\ \A q \in Requests : FromOneLoginNext(frame'[q], call'[q].user)
<1>2. SUFFICES Goal
    BY DEF WholePairs, FromOneLogin, FromOneLoginNext, UserOf
<1>3. \A u : FromOneLoginNext(NoColumns, u)
    BY DEF FromOneLoginNext, NoColumns
<1>4. \A u, t : FromOneLoginNext([refreshExpiresIn |-> t], u)
    BY DEF FromOneLoginNext
<1> USE DEF GoTo, Answer, UserOf, TypeOK
<1>5. CASE Tick
    BY <1>1, <1>5 DEF Tick
<1>6. ASSUME NEW r \in Requests, Start(r) PROVE Goal
    BY <1>1, <1>3, <1>4, <1>6 DEF Start, StartLogin, StartRefresh,
       RefreshUnverified, StartRevoke
<1>7. ASSUME NEW r \in Requests, LoginSign(r) PROVE Goal
    BY <1>1, <1>3, <1>7 DEF LoginSign, Calls
<1>8. ASSUME NEW r \in Requests, LoginFind(r) PROVE Goal
  <2>1. FromOneLoginNext(LoginColumns(r), UserOf(r))
    BY <1>8 DEF LoginFind, LoginColumns, FromOneLoginNext
  <2>2. QED
    BY <1>1, <1>8, <2>1 DEF LoginFind
<1>9. ASSUME NEW r \in Requests, LoginInsert(r) PROVE Goal
    BY <1>1, <1>3, <1>9 DEF LoginInsert
<1>10. ASSUME NEW r \in Requests, RefreshFind(r) PROVE Goal
    BY <1>1, <1>3, <1>10 DEF RefreshFind
<1>11. ASSUME NEW r \in Requests, RefreshSign(r) PROVE Goal
    BY <1>1, <1>3, <1>11 DEF RefreshSign, Calls
<1>12. ASSUME NEW r \in Requests, RefreshExtend(r) PROVE Goal
    BY <1>1, <1>4, <1>12 DEF RefreshExtend
<1>13. ASSUME NEW r \in Requests, FindForUpdate(r) PROVE Goal
  <2>1. FromOneLogin(Spread(token[UserOf(r)], frame[r]), UserOf(r))
    BY <1>1, <1>13, SpreadFromOneLogin DEF FindForUpdate
  <2>2. FromOneLoginNext(Spread(token[UserOf(r)], frame[r]), UserOf(r))
    BY <1>1, <1>13, <2>1, SpreadRow, RowIsPartial, PairIsStable DEF FindForUpdate
  <2>3. QED
    BY <1>1, <1>13, <2>2 DEF FindForUpdate
<1>14. ASSUME NEW r \in Requests, Load(r) PROVE Goal
  <2>1. FromOneLogin(Patch(frame[r], token[UserOf(r)]), UserOf(r))
    BY <1>1, <1>14, PatchFromOneLogin DEF Load
  <2>2. FromOneLoginNext(Patch(frame[r], token[UserOf(r)]), UserOf(r))
    BY <1>1, <2>1, PatchIsPartial, PairIsStable
  <2>3. QED
    BY <1>1, <1>14, <2>2 DEF Load
<1>15. ASSUME NEW r \in Requests, Update(r) PROVE Goal
  <2>1. FromOneLogin(Spread(token[UserOf(r)], frame[r]), UserOf(r))
    BY <1>1, <1>15, SpreadFromOneLogin DEF Update
  <2>2. FromOneLoginNext(Spread(token[UserOf(r)], frame[r]), UserOf(r))
    BY <1>1, <1>15, <2>1, SpreadRow, RowIsPartial, PairIsStable DEF Update
  <2>3. QED
    BY <1>1, <1>3, <1>15, <2>2 DEF Update
<1>16. ASSUME NEW r \in Requests,
              \/ LoginConflict(r) \/ RefreshMismatch(r) \/ RefreshExpired(r)
              \/ UpdateMissing(r) \/ Abort(r)
       PROVE  Goal
    BY <1>1, <1>3, <1>16 DEF LoginConflict, RefreshMismatch, RefreshExpired,
       UpdateMissing, Abort
<1>17. CASE UNCHANGED vars
    BY <1>1, <1>17 DEF vars
<1>18. QED
    BY <1>5, <1>6, <1>7, <1>8, <1>9, <1>10, <1>11, <1>12, <1>13, <1>14, <1>15,
       <1>16, <1>17 DEF Next, Continue

LEMMA WholePairsAlways == Spec => [](TypeOK /\ WholePairs)
<1>1. Init => TypeOK /\ WholePairs
    BY TypeInit, WholePairsInit
<1>2. TypeOK /\ WholePairs /\ [Next]_vars => (TypeOK /\ WholePairs)'
    BY TypeStep, WholePairsStep
<1>3. QED
    BY <1>1, <1>2, PTL DEF Spec

\* No row, and no object that a request holds between its steps, has the iv of
\* one login and the refresh token of another, nor one of the two columns only.
THEOREM PairsStayWhole == Spec => []WholePairs
BY WholePairsAlways, PTL

\* A row always decrypts to the refresh JWT of one login of its user.
THEOREM RowsDecrypt == Spec => []RowDecrypts
<1>1. TypeOK /\ WholePairs => RowDecrypts
  <2> SUFFICES ASSUME TypeOK, WholePairs, NEW u \in DOMAIN token
               PROVE  LET row == token[u]  login == call[row.iv]
                      IN  /\ login.kind = "login" /\ login.user = u
                          /\ Decrypt(row.refreshToken, row.iv) = login.jwt
      BY DEF RowDecrypts
  <2>1. token[u] \in Row /\ FromOneLogin(token[u], u)
      BY DEF TypeOK, WholePairs
  <2>2. token[u].refreshToken = Encrypt(call[token[u].iv].jwt, token[u].iv)
      BY <2>1 DEF FromOneLogin, Row
  <2>3. QED
      BY <2>1, <2>2 DEF FromOneLogin, Row, Decrypt, Encrypt
<1>2. QED
    BY <1>1, WholePairsAlways, PTL

(***************************************************************************)
(* Expiry times.                                                           *)
(***************************************************************************)
LEMMA ExpiryStep ==
    TypeOK /\ ObjectsBounded /\ ExpiryBounded /\ [Next]_vars
        => (ObjectsBounded /\ ExpiryBounded)'
<1> SUFFICES ASSUME TypeOK, ObjectsBounded, ExpiryBounded, [Next]_vars
             PROVE  (ObjectsBounded /\ ExpiryBounded)'
    OBVIOUS
<1> USE RefreshTtlAssumption
        DEF TypeOK, GoTo, Answer, UserOf, ObjectsBounded, ExpiryBounded
<1>1. \A u \in DOMAIN token : token[u]["refreshExpiresIn"] \in Int
    BY DEF Row
<1>2. \A r \in Requests : "refreshExpiresIn" \in DOMAIN frame[r] =>
            frame[r]["refreshExpiresIn"] \in Int
    BY DEF IsPartial
<1>3. CASE Tick
    BY <1>1, <1>2, <1>3 DEF Tick
<1>4. ASSUME NEW r \in Requests, Start(r)
      PROVE  (ObjectsBounded /\ ExpiryBounded)'
    BY <1>4 DEF Start, StartLogin, StartRefresh, RefreshUnverified,
                StartRevoke, RevokedTokenExpiry, NoColumns
<1>5. ASSUME NEW r \in Requests, LoginFind(r)
      PROVE  (ObjectsBounded /\ ExpiryBounded)'
    BY <1>5 DEF LoginFind, LoginColumns, RefreshTokenExpiry
<1>6. ASSUME NEW r \in Requests, LoginInsert(r)
      PROVE  (ObjectsBounded /\ ExpiryBounded)'
    BY <1>6 DEF LoginInsert, NoColumns, Row
<1>7. ASSUME NEW r \in Requests, RefreshFind(r)
      PROVE  (ObjectsBounded /\ ExpiryBounded)'
    BY <1>7 DEF RefreshFind, NoColumns
<1>8. ASSUME NEW r \in Requests, RefreshExtend(r)
      PROVE  (ObjectsBounded /\ ExpiryBounded)'
    BY <1>8 DEF RefreshExtend, RefreshTokenExpiry
<1>9. ASSUME NEW r \in Requests, FindForUpdate(r)
      PROVE  (ObjectsBounded /\ ExpiryBounded)'
    BY <1>9 DEF FindForUpdate, Spread
<1>10. ASSUME NEW r \in Requests, Load(r)
       PROVE  (ObjectsBounded /\ ExpiryBounded)'
    BY <1>10 DEF Load, Patch
<1>11. ASSUME NEW r \in Requests, Update(r)
       PROVE  (ObjectsBounded /\ ExpiryBounded)'
    BY <1>11 DEF Update, Spread, NoColumns, Row
<1>12. ASSUME NEW r \in Requests,
              \/ LoginSign(r) \/ LoginConflict(r) \/ RefreshMismatch(r)
              \/ RefreshExpired(r) \/ RefreshSign(r) \/ UpdateMissing(r)
              \/ Abort(r)
       PROVE  (ObjectsBounded /\ ExpiryBounded)'
    BY <1>12 DEF LoginSign, LoginConflict, RefreshMismatch, RefreshExpired,
                 RefreshSign, UpdateMissing, Abort, NoColumns
<1>13. CASE UNCHANGED vars
    BY <1>13 DEF vars
<1>14. QED
    BY <1>3, <1>4, <1>5, <1>6, <1>7, <1>8, <1>9, <1>10, <1>11, <1>12, <1>13
    DEF Next, Continue

LEMMA ExpiryAlways == Spec => [](ObjectsBounded /\ ExpiryBounded)
<1>1. Init => ObjectsBounded /\ ExpiryBounded
    BY DEF Init, ObjectsBounded, ExpiryBounded, NoColumns
<1>2. QED
    BY <1>1, ExpiryStep, TypeCorrect, PTL DEF Spec

\* No request carries an expiry time beyond one window from now, however long
\* ago it took the time from a row or computed it.
THEOREM ObjectsAreBounded == Spec => []ObjectsBounded
BY ExpiryAlways, PTL

\* No session is open for longer than one window from now.
THEOREM ExpiryIsBounded == Spec => []ExpiryBounded
BY ExpiryAlways, PTL

(***************************************************************************)
(* What a login returns is what it stored.                                 *)
(***************************************************************************)
LEMMA PairUntilWrittenStep ==
    TypeOK /\ WholePairs /\ PairUntilWritten /\ [Next]_vars => PairUntilWritten'
<1> SUFFICES ASSUME TypeOK, WholePairs, PairUntilWritten, [Next]_vars
             PROVE  PairUntilWritten'
    OBVIOUS
\* A request that has not begun has no pair.
<1>0. \A r \in Requests : pc[r] = "idle" =>
        /\ \A u \in DOMAIN token : ~Has(token[u], r)
        /\ \A q \in Requests : ~Has(frame[q], r)
    BY DEF WholePairs, FromOneLogin, Has
<1> USE DEF TypeOK, Calls, GoTo, Answer, UserOf, InFlight, Answers,
            PairUntilWritten, Has, Writing
<1>1. CASE Tick
    BY <1>1 DEF Tick
<1>2. ASSUME NEW r \in Requests, Start(r) PROVE PairUntilWritten'
  <2>1. CASE \E u \in Users : StartLogin(r, u)
    BY <1>0, <2>1 DEF StartLogin, NoColumns
  <2>2. CASE \E jwt \in HeldRefreshJwts, bearer \in HeldBearers :
                StartRefresh(r, jwt, bearer)
    BY <2>2 DEF StartRefresh, NoColumns
  <2>3. CASE RefreshUnverified(r)
    BY <2>3 DEF RefreshUnverified, NoColumns
  <2>4. CASE \E u \in Users : StartRevoke(r, u)
    BY <2>4 DEF StartRevoke
  <2>5. QED
    BY <1>2, <2>1, <2>2, <2>3, <2>4 DEF Start
<1>3. ASSUME NEW r \in Requests, LoginSign(r) PROVE PairUntilWritten'
    BY <1>3 DEF LoginSign, NoColumns
<1>4. ASSUME NEW r \in Requests, LoginFind(r) PROVE PairUntilWritten'
    BY <1>4 DEF LoginFind, LoginColumns
<1>5. ASSUME NEW r \in Requests, LoginInsert(r) PROVE PairUntilWritten'
    BY <1>5 DEF LoginInsert, NoColumns
<1>6. ASSUME NEW r \in Requests, RefreshFind(r) PROVE PairUntilWritten'
  <2> DEFINE found == UserOf(r) \in DOMAIN token /\ UserOf(r) = call[r].bearer
  <2>1. CASE found
    BY <1>6, <2>1 DEF RefreshFind
  <2>2. CASE ~found
    <3>1. /\ pc' = [pc EXCEPT ![r] = "unauthorized"]
          /\ frame' = [frame EXCEPT ![r] = NoColumns]
          /\ UNCHANGED <<token, call>>
      BY <1>6, <2>2 DEF RefreshFind
    <3>2. QED
      BY <3>1 DEF NoColumns
  <2>3. QED
    BY <2>1, <2>2
<1>7. ASSUME NEW r \in Requests, RefreshSign(r) PROVE PairUntilWritten'
    BY <1>7 DEF RefreshSign, NoColumns
<1>8. ASSUME NEW r \in Requests, RefreshExtend(r) PROVE PairUntilWritten'
    BY <1>8 DEF RefreshExtend
<1>9. ASSUME NEW r \in Requests, FindForUpdate(r) PROVE PairUntilWritten'
    BY <1>9 DEF FindForUpdate, Spread, Row
<1>10. ASSUME NEW r \in Requests, Load(r) PROVE PairUntilWritten'
    BY <1>10 DEF Load, Patch, Row
<1>11. ASSUME NEW r \in Requests, Update(r) PROVE PairUntilWritten'
    BY <1>11 DEF Update, Spread, NoColumns, Row
<1>12. ASSUME NEW r \in Requests,
              \/ LoginConflict(r) \/ RefreshMismatch(r) \/ RefreshExpired(r)
              \/ UpdateMissing(r) \/ Abort(r)
       PROVE  PairUntilWritten'
  <2>1. /\ pc' = [pc EXCEPT ![r] = pc'[r]] /\ pc'[r] \notin InFlight
        /\ frame' = [frame EXCEPT ![r] = NoColumns]
        /\ UNCHANGED <<token, call>>
    BY <1>12 DEF LoginConflict, RefreshMismatch, RefreshExpired,
                 UpdateMissing, Abort
  <2>2. QED
    BY <2>1 DEF NoColumns
<1>13. CASE UNCHANGED vars
    BY <1>13 DEF vars
<1>14. QED
    BY <1>1, <1>2, <1>3, <1>4, <1>5, <1>6, <1>7, <1>8, <1>9, <1>10, <1>11,
       <1>12, <1>13 DEF Next, Continue

\* All that is invariant about the pairs.
LEMMA PairsAlways == Spec => [](TypeOK /\ WholePairs /\ PairUntilWritten)
<1>1. Init => PairUntilWritten
    BY DEF Init, PairUntilWritten, InFlight
<1>2. QED
    BY <1>1, PairUntilWrittenStep, WholePairsAlways, PTL DEF Spec

\* A login keeps its pair to itself, and keeps it, until it writes: no refresh
\* or revoke of the user can have read it from a row.
THEOREM PairsStayUntilWritten == Spec => []PairUntilWritten
BY PairsAlways, PTL

\* Only an INSERT or an UPDATE answers "ok".
LEMMA OnlyWritesSucceed ==
    ASSUME TypeOK, [Next]_vars, NEW r \in Requests, pc[r] # "ok", pc'[r] = "ok"
    PROVE  LoginInsert(r) \/ Update(r)
<1> USE DEF TypeOK, GoTo, Answer
<1>1. pc' # pc
  OBVIOUS
<1>2. PICK q \in Requests : Start(q) \/ Continue(q) \/ Abort(q)
  BY <1>1 DEF Next, Tick, vars
<1>3. ~Start(q)
  BY DEF Start, StartLogin, StartRefresh, RefreshUnverified, StartRevoke
<1>4. ~Abort(q)
  BY DEF Abort
<1>5. ~LoginSign(q) /\ ~LoginFind(q) /\ ~LoginConflict(q)
  BY DEF LoginSign, LoginFind, LoginConflict
<1>6. ~RefreshFind(q) /\ ~RefreshMismatch(q) /\ ~RefreshExpired(q)
  BY DEF RefreshFind, RefreshMismatch, RefreshExpired
<1>7. ~RefreshSign(q) /\ ~RefreshExtend(q)
  BY DEF RefreshSign, RefreshExtend
<1>8. ~FindForUpdate(q) /\ ~UpdateMissing(q) /\ ~Load(q)
  BY DEF FindForUpdate, UpdateMissing, Load
<1>9. LoginInsert(q) \/ Update(q)
  BY <1>2, <1>3, <1>4, <1>5, <1>6, <1>7, <1>8 DEF Continue
<1>10. q = r
  BY <1>9 DEF LoginInsert, Update
<1>11. QED
  BY <1>9, <1>10

\* A login that succeeds leaves its own pair in the row of its user.
LEMMA LoginStores ==
    ASSUME TypeOK, PairUntilWritten, NEW r \in Requests, LoginInsert(r) \/ Update(r),
           call[r].kind = "login"
    PROVE  UserOf(r) \in DOMAIN token' /\ Has(token'[UserOf(r)], r)
<1>1. Has(frame[r], r)
  BY DEF LoginInsert, Update, PairUntilWritten, InFlight, Writing
<1>2. QED
  BY <1>1 DEF LoginInsert, Update, Has, Spread, TypeOK, Row, UserOf

\* Whoever is answered "ok" to a login holds the JWT that the row then holds.
THEOREM LoginsAreStored == Spec => LoginStored
<1> DEFINE A == \A r \in Requests :
          pc[r] # "ok" /\ pc'[r] = "ok" /\ call[r].kind = "login" =>
             /\ token'[UserOf(r)].iv = r
             /\ Decrypt(token'[UserOf(r)].refreshToken, r) = call[r].jwt
<1>1. ASSUME TypeOK, WholePairs', PairUntilWritten, [Next]_vars
      PROVE  A
  <2> SUFFICES ASSUME NEW r \in Requests, pc[r] # "ok", pc'[r] = "ok",
                      call[r].kind = "login"
               PROVE  /\ token'[UserOf(r)].iv = r
                      /\ Decrypt(token'[UserOf(r)].refreshToken, r) = call[r].jwt
      OBVIOUS
  <2> DEFINE u == UserOf(r)
  <2>1. LoginInsert(r) \/ Update(r)
    BY <1>1, OnlyWritesSucceed
  <2>2. u \in DOMAIN token' /\ Has(token'[u], r)
    BY <1>1, <2>1, LoginStores
  <2>3. call' = call
    BY <2>1 DEF LoginInsert, Update
  <2>4. token'[u]["refreshToken"] = Encrypt(call[r].jwt, r)
    BY <1>1, <2>2, <2>3 DEF WholePairs, FromOneLogin, Has
  <2>5. QED
    BY <2>2, <2>4 DEF Has, Decrypt, Encrypt
<1>2. QED
    BY <1>1, PairsAlways, PTL DEF Spec, LoginStored

(***************************************************************************)
(* Only a revoke finds no entity.                                          *)
(***************************************************************************)
\* A request that has found a row finds it again.
FoundStays ==
    \A r \in Requests :
        /\ pc[r] \in InFlight => call[r].kind # "none"
        /\ \/ pc[r] \in {"decrypt", "signAccess"}
           \/ pc[r] = "findForUpdate" /\ call[r].kind # "revoke"
           => UserOf(r) \in DOMAIN token

LEMMA FoundStaysStep ==
    TypeOK /\ FoundStays /\ OnlyRevokeMisses /\ [Next]_vars
        => (FoundStays /\ OnlyRevokeMisses)'
<1> SUFFICES ASSUME TypeOK, FoundStays, OnlyRevokeMisses, [Next]_vars
             PROVE  (FoundStays /\ OnlyRevokeMisses)'
    OBVIOUS
<1> USE DEF TypeOK, Calls, GoTo, Answer, UserOf, InFlight, Answers,
            FoundStays, OnlyRevokeMisses
<1>1. CASE Tick \/ UNCHANGED vars
    BY <1>1 DEF Tick, vars
<1>2. ASSUME NEW r \in Requests, Start(r)
      PROVE  (FoundStays /\ OnlyRevokeMisses)'
    BY <1>2 DEF Start, StartLogin, StartRefresh, RefreshUnverified, StartRevoke
<1>3. ASSUME NEW r \in Requests, LoginSign(r) \/ LoginFind(r)
      PROVE  (FoundStays /\ OnlyRevokeMisses)'
    BY <1>3 DEF LoginSign, LoginFind
<1>4. ASSUME NEW r \in Requests, LoginInsert(r) \/ Update(r)
      PROVE  (FoundStays /\ OnlyRevokeMisses)'
    BY <1>4 DEF LoginInsert, Update
<1>5. ASSUME NEW r \in Requests, RefreshFind(r)
      PROVE  (FoundStays /\ OnlyRevokeMisses)'
    BY <1>5 DEF RefreshFind
<1>6. ASSUME NEW r \in Requests, RefreshSign(r) \/ RefreshExtend(r)
      PROVE  (FoundStays /\ OnlyRevokeMisses)'
    BY <1>6 DEF RefreshSign, RefreshExtend
<1>7. ASSUME NEW r \in Requests, FindForUpdate(r) \/ UpdateMissing(r) \/ Load(r)
      PROVE  (FoundStays /\ OnlyRevokeMisses)'
    BY <1>7 DEF FindForUpdate, UpdateMissing, Load
<1>8. ASSUME NEW r \in Requests,
             \/ LoginConflict(r) \/ RefreshMismatch(r) \/ RefreshExpired(r)
             \/ Abort(r)
      PROVE  (FoundStays /\ OnlyRevokeMisses)'
    BY <1>8 DEF LoginConflict, RefreshMismatch, RefreshExpired, Abort
<1>9. QED
    BY <1>1, <1>2, <1>3, <1>4, <1>5, <1>6, <1>7, <1>8 DEF Next, Continue

\* updateById never misses the row that a login or a refresh has found.
THEOREM LoginsAndRefreshesNeverMiss == Spec => []OnlyRevokeMisses
<1>1. Init => FoundStays /\ OnlyRevokeMisses
    BY DEF Init, FoundStays, OnlyRevokeMisses, InFlight
<1>2. QED
    BY <1>1, FoundStaysStep, TypeCorrect, PTL DEF Spec
==============================================================================
