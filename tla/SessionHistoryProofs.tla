------------------------ MODULE SessionHistoryProofs ------------------------
(***************************************************************************)
(* Theorems about SessionHistory: what a login or a revoke that ran alone  *)
(* promises lasts, whatever later requests do and however they interleave. *)
(***************************************************************************)
EXTENDS SessionHistory, SessionProofs

\* The types of the state and of its history.
HistoryTypeOK ==
    /\ TypeOK
    /\ alone \in [Requests -> BOOLEAN]
    /\ settled \in [Users -> Requests \cup {None}]
    /\ closedAt \in [Users -> Nat \cup {None}]

\* What a request of user u still in flight is about.
Active(q, u) == pc[q] \in InFlight /\ UserOf(q) = u

\* A request that is still alone is the only one of its user.
AloneIsOnly ==
    \A r, q \in Requests :
        /\ alone[r] /\ pc[r] \in InFlight
        /\ q # r /\ pc[q] \in InFlight
        => UserOf(q) # UserOf(r)

\* The login that is settled, its row, and the objects of later requests of
\* the same user, which all have its pair or none.
SettledInv ==
    \A u \in Users : settled[u] # None =>
        /\ u \in DOMAIN token /\ token[u].iv = settled[u]
        /\ \A q \in Requests : Active(q, u) =>
             /\ call[q].kind # "login"
             /\ "iv" \in DOMAIN frame[q] => frame[q]["iv"] = settled[u]

\* What a revoke writes has expired; it may leave the expiry time out only
\* because the row it loaded has the same.
RevokeWritesPast ==
    \A r \in Requests : call[r].kind = "revoke" =>
        /\ pc[r] \in {"findForUpdate", "load"} =>
             "refreshExpiresIn" \in DOMAIN frame[r] /\ frame[r]["refreshExpiresIn"] < now
        /\ pc[r] = "update" /\ alone[r] =>
             Spread(token[UserOf(r)], frame[r]).refreshExpiresIn < now

\* After a revoke that ran alone: the row has expired, and so has the copy of
\* every later request, so that none gets past the comparison.
ClosedInv ==
    \A u \in Users : closedAt[u] # None =>
        /\ u \in DOMAIN token /\ token[u].refreshExpiresIn < now
        /\ closedAt[u] <= now
        /\ \A q \in Requests : Active(q, u) =>
             /\ call[q].kind # "login"
             /\ call[q].kind = "refresh" => pc[q] \in {"refreshFind", "decrypt"}
             /\ "refreshExpiresIn" \in DOMAIN frame[q] =>
                    frame[q]["refreshExpiresIn"] < now

\* Access JWTs are from the past, and those of a closed session from before
\* the revoke.
IssuedBefore ==
    /\ \A r \in Requests : call[r].iat <= Seconds(now)
    /\ \A u \in Users : closedAt[u] # None =>
         \A r \in Requests :
            pc[r] = "ok" /\ call[r].kind \in {"login", "refresh"} /\ UserOf(r) = u =>
                call[r].iat <= Seconds(closedAt[u])

HistoryInv ==
    /\ HistoryTypeOK /\ WholePairs /\ PairUntilWritten
    /\ AloneIsOnly /\ SettledInv /\ RevokeWritesPast /\ ClosedInv /\ IssuedBefore
-----------------------------------------------------------------------------
(***************************************************************************)
(* What the history makes of the steps of the service.                     *)
(***************************************************************************)
\* A login becomes settled only by its own success, and no login begins then.
LEMMA SettledChange ==
    ASSUME HistoryTypeOK, [HNext]_hvars, NEW u \in Users, settled'[u] # None
    PROVE  /\ \A r \in Requests : ~Begins(r, "login", u)
           /\ \/ settled'[u] = settled[u]
              \/ /\ settled'[u] \in Requests
                 /\ alone[settled'[u]] /\ Succeeds(settled'[u], "login", u)
<1>1. CASE UNCHANGED hvars
  BY <1>1 DEF hvars, historyVars, vars, Begins
<1>2. CASE HNext
  <2>1. settled'[u] =
          IF \E r \in Requests : Begins(r, "login", u) THEN None
          ELSE IF \E r \in Requests : alone[r] /\ Succeeds(r, "login", u)
          THEN CHOOSE r \in Requests : alone[r] /\ Succeeds(r, "login", u)
          ELSE settled[u]
    BY <1>2 DEF HNext, Observe
  <2>2. QED
    BY <2>1
<1>3. QED
  BY <1>1, <1>2

\* A session is closed only by a revoke that succeeds, at that time.
LEMMA ClosedChange ==
    ASSUME HistoryTypeOK, [HNext]_hvars, NEW u \in Users, closedAt'[u] # None
    PROVE  /\ \A r \in Requests : ~Begins(r, "login", u)
           /\ \/ closedAt'[u] = closedAt[u]
              \/ /\ closedAt'[u] = now
                 /\ \E r \in Requests : alone[r] /\ Succeeds(r, "revoke", u)
<1>1. CASE UNCHANGED hvars
  BY <1>1 DEF hvars, historyVars, vars, Begins
<1>2. CASE HNext
  BY <1>2 DEF HNext, Observe
<1>3. QED
  BY <1>1, <1>2

LEMMA HistoryStep == [HNext]_hvars => [Next]_vars
BY DEF HNext, hvars, vars

LEMMA HistoryTypeStep == HistoryTypeOK /\ [HNext]_hvars => HistoryTypeOK'
<1> SUFFICES ASSUME HistoryTypeOK, [HNext]_hvars PROVE HistoryTypeOK'
  OBVIOUS
<1>1. [Next]_vars
  BY HistoryStep
<1>2. TypeOK'
  BY <1>1, TypeStep DEF HistoryTypeOK
<1>3. CASE UNCHANGED hvars
  BY <1>2, <1>3 DEF hvars, historyVars, HistoryTypeOK
<1>4. CASE HNext
  <2>1. alone' \in [Requests -> BOOLEAN]
    BY <1>4 DEF HNext, Observe, HistoryTypeOK
  <2>2. settled' \in [Users -> Requests \cup {None}]
    <3>1. DOMAIN settled' = Users /\ settled' = [u \in Users |-> settled'[u]]
      BY <1>4 DEF HNext, Observe
    <3>2. \A u \in Users : settled'[u] \in Requests \cup {None}
      BY SettledChange DEF HistoryTypeOK
    <3>3. QED
      BY <3>1, <3>2
  <2>3. closedAt' \in [Users -> Nat \cup {None}]
    <3>1. DOMAIN closedAt' = Users /\ closedAt' = [u \in Users |-> closedAt'[u]]
      BY <1>4 DEF HNext, Observe
    <3>2. \A u \in Users : closedAt'[u] \in Nat \cup {None}
      BY ClosedChange DEF HistoryTypeOK, TypeOK
    <3>3. QED
      BY <3>1, <3>2
  <2>4. QED
    BY <1>2, <2>1, <2>2, <2>3 DEF HistoryTypeOK
<1>5. QED
  BY <1>3, <1>4

LEMMA AloneStep ==
    HistoryTypeOK /\ AloneIsOnly /\ [HNext]_hvars => AloneIsOnly'
<1>1. CASE UNCHANGED hvars
  BY <1>1 DEF hvars, historyVars, vars, AloneIsOnly, UserOf
<1>2. ASSUME HNext PROVE AloneIsOnly'
  BY <1>2 DEF HNext, Observe, AloneIsOnly, UserOf
<1>3. QED
  BY <1>1, <1>2
-----------------------------------------------------------------------------
(***************************************************************************)
(* A login that ran alone.                                                 *)
(***************************************************************************)
\* What SettledInv says of one user.
SettledFor(u, login) ==
    /\ u \in DOMAIN token /\ token[u].iv = login
    /\ \A q \in Requests : Active(q, u) =>
         /\ call[q].kind # "login"
         /\ "iv" \in DOMAIN frame[q] => frame[q]["iv"] = login

\* No step but the beginning of a login ends it.
LEMMA SettledStays ==
    ASSUME TypeOK, [Next]_vars, NEW u \in Users, NEW login, SettledFor(u, login),
           \A r \in Requests : ~Begins(r, "login", u)
    PROVE  SettledFor(u, login)'
<1> USE DEF TypeOK, SettledFor, Active, UserOf, GoTo, Answer
<1>1. CASE Tick \/ UNCHANGED vars
  BY <1>1 DEF Tick, vars
<1>2. ASSUME NEW r \in Requests, Start(r) \/ Continue(r) \/ Abort(r)
      PROVE  SettledFor(u, login)'
  <2>1. \A q \in Requests \ {r} :
           pc'[q] = pc[q] /\ call'[q] = call[q] /\ frame'[q] = frame[q]
    BY <1>2, StepOfOne
  <2>2. token[u] \in Row
    OBVIOUS
  <2>3. SUFFICES /\ u \in DOMAIN token' /\ token'[u].iv = login
                 /\ pc'[r] \in InFlight /\ call'[r].user = u =>
                      /\ call'[r].kind # "login"
                      /\ "iv" \in DOMAIN frame'[r] => frame'[r]["iv"] = login
    BY <2>1
  <2>4. CASE Start(r)
    <3>1. CASE \E v \in Users : StartLogin(r, v)
      BY <3>1 DEF StartLogin, Begins, InFlight, Calls
    <3>2. CASE \/ \E jwt \in HeldRefreshJwts, bearer \in HeldBearers :
                     StartRefresh(r, jwt, bearer)
               \/ \E v \in Users : StartRevoke(r, v)
               \/ RefreshUnverified(r)
      BY <3>2 DEF StartRefresh, StartRevoke, RefreshUnverified, NoColumns, InFlight, Answers
    <3>3. QED
      BY <2>4, <3>1, <3>2 DEF Start
  <2>5. CASE \/ LoginSign(r) \/ LoginFind(r) \/ LoginInsert(r)
    <3>1. call[r].kind = "login" /\ pc[r] \in InFlight
      BY <2>5 DEF LoginSign, LoginFind, LoginInsert, InFlight
    <3>2. UserOf(r) # u
      BY <3>1
    <3>3. QED
      BY <2>5, <3>2 DEF LoginSign, LoginFind, LoginInsert, Calls
  <2>6. CASE RefreshFind(r)
    BY <2>6, <2>2 DEF RefreshFind, Row, NoColumns
  <2>7. CASE RefreshSign(r) \/ RefreshExtend(r)
    BY <2>7 DEF RefreshSign, RefreshExtend, NoColumns, Calls, InFlight
  <2>8. CASE FindForUpdate(r)
    BY <2>2, <2>8 DEF FindForUpdate, Spread, Row, InFlight
  <2>9. CASE Load(r)
    BY <2>9 DEF Load, Patch, InFlight
  <2>10. CASE Update(r)
    <3>1. token'[u].iv = login
      BY <2>2, <2>10 DEF Update, Spread, Row, InFlight
    <3>2. QED
      BY <2>10, <3>1 DEF Update, InFlight
  <2>11. CASE \/ LoginConflict(r) \/ RefreshMismatch(r) \/ RefreshExpired(r)
              \/ UpdateMissing(r) \/ Abort(r)
    BY <2>11 DEF LoginConflict, RefreshMismatch, RefreshExpired, UpdateMissing, Abort, InFlight
  <2>12. QED
    BY <1>2, <2>4, <2>5, <2>6, <2>7, <2>8, <2>9, <2>10, <2>11 DEF Continue
<1>3. QED
  BY <1>1, <1>2 DEF Next

LEMMA SettledStep ==
    HistoryTypeOK /\ PairUntilWritten /\ AloneIsOnly /\ SettledInv /\ [HNext]_hvars
        => SettledInv'
<1> SUFFICES ASSUME HistoryTypeOK, PairUntilWritten, AloneIsOnly, SettledInv, [HNext]_hvars,
                    NEW u \in Users, settled'[u] # None
             PROVE  SettledFor(u, settled[u])' 
  BY DEF SettledInv, SettledFor
<1>1. [Next]_vars /\ TypeOK
  BY HistoryStep DEF HistoryTypeOK
<1>2. CASE settled'[u] = settled[u]
  <2>1. SettledFor(u, settled[u])
    BY <1>2 DEF SettledInv, SettledFor
  <2>2. \A r \in Requests : ~Begins(r, "login", u)
    BY SettledChange
  <2>3. QED
    BY <1>1, <1>2, <2>1, <2>2, SettledStays DEF SettledFor, Active, UserOf
<1>3. ASSUME NEW r \in Requests, settled'[u] = r, alone[r], Succeeds(r, "login", u)
      PROVE  SettledFor(u, settled[u])'
  <2>1. LoginInsert(r) \/ Update(r)
    BY <1>1, <1>3, OnlyWritesSucceed DEF Succeeds
  <2>2. u \in DOMAIN token' /\ token'[u].iv = r
    BY <1>1, <1>3, <2>1, LoginStores DEF Succeeds, UserOf, Has
  <2>3. pc[r] \in InFlight /\ pc'[r] \notin InFlight
    BY <1>1, <1>3, <2>1 DEF LoginInsert, Update, Succeeds, InFlight
  <2>4. \A q \in Requests \ {r} : pc'[q] = pc[q] /\ call'[q] = call[q]
    BY <1>1, <2>1, StepOfOne DEF Continue
  <2>5. \A q \in Requests : ~Active(q, u)'
    BY <1>3, <2>3, <2>4 DEF Active, AloneIsOnly, UserOf, Succeeds
  <2>6. QED
    BY <1>3, <2>2, <2>5 DEF SettledFor
<1>4. QED
  BY <1>2, <1>3, SettledChange
-----------------------------------------------------------------------------
(***************************************************************************)
(* A revoke that ran alone.                                                *)
(***************************************************************************)
\* A request that was alone so far: a step of another request leaves the row
\* of its user as it was.
LEMMA RowOfAlone ==
    ASSUME TypeOK, AloneIsOnly, NEW q \in Requests, alone[q], pc[q] \in InFlight,
           UserOf(q) \in DOMAIN token,
           NEW r \in Requests, r # q, Start(r) \/ Continue(r) \/ Abort(r)
    PROVE  token'[UserOf(q)] = token[UserOf(q)]
<1>1. CASE pc[r] \in InFlight
  BY <1>1, StepOfOne DEF AloneIsOnly
<1>2. CASE pc[r] = "idle"
  <2>1. ~Continue(r) /\ ~Abort(r)
    BY <1>2 DEF Continue, Abort, LoginSign, LoginFind, LoginInsert, LoginConflict,
       RefreshFind, RefreshMismatch, RefreshExpired, RefreshSign, RefreshExtend,
       FindForUpdate, UpdateMissing, Load, Update, InFlight
  <2>2. QED
    BY <2>1 DEF Start, StartLogin, StartRefresh, RefreshUnverified, StartRevoke
<1>3. QED
  BY <1>1, <1>2, StepOfOne

\* What RevokeWritesPast says of one request, once it is a revoke.
WritesPast(r) ==
    /\ pc[r] \in {"findForUpdate", "load"} =>
         "refreshExpiresIn" \in DOMAIN frame[r] /\ frame[r]["refreshExpiresIn"] < now
    /\ pc[r] = "update" /\ alone[r] =>
         Spread(token[UserOf(r)], frame[r]).refreshExpiresIn < now

LEMMA RevokeWritesPastStep ==
    HistoryTypeOK /\ AloneIsOnly /\ RevokeWritesPast /\ [HNext]_hvars
        => RevokeWritesPast'
<1> SUFFICES ASSUME HistoryTypeOK, AloneIsOnly, RevokeWritesPast, [HNext]_hvars,
                    NEW q \in Requests, call'[q].kind = "revoke"
             PROVE  WritesPast(q)'
  BY DEF RevokeWritesPast, WritesPast
<1> USE DEF UserOf, GoTo, Answer
<1>0. TypeOK /\ [Next]_vars
  BY HistoryStep DEF HistoryTypeOK
<1>1. alone'[q] => alone[q]
  BY DEF HNext, Observe, hvars, historyVars
<1>2. CASE Tick \/ UNCHANGED vars
  <2>1. UNCHANGED <<token, pc, call, frame>> /\ now' >= now /\ now \in Nat /\ now' \in Nat
    BY <1>0, <1>2 DEF Tick, vars, TypeOK
  <2>2. pc[q] = "update" => Spread(token[UserOf(q)], frame[q]).refreshExpiresIn \in Int
    BY <1>0, SpreadRow DEF TypeOK, Row
  <2>3. "refreshExpiresIn" \in DOMAIN frame[q] => frame[q]["refreshExpiresIn"] \in Int
    BY <1>0 DEF TypeOK, IsPartial
  <2>4. QED
    BY <1>1, <2>1, <2>2, <2>3 DEF RevokeWritesPast, WritesPast
<1>3. ASSUME NEW r \in Requests, Start(r) \/ Continue(r) \/ Abort(r), r # q
      PROVE  WritesPast(q)'
  <2>1. now' = now /\ pc'[q] = pc[q] /\ call'[q] = call[q] /\ frame'[q] = frame[q]
    BY <1>0, <1>3, StepOfOne
  <2>2. pc[q] = "update" /\ alone[q] => token'[UserOf(q)] = token[UserOf(q)]
    BY <1>0, <1>3, RowOfAlone DEF TypeOK, InFlight
  <2>3. QED
    BY <1>1, <2>1, <2>2 DEF RevokeWritesPast, WritesPast
<1>4. ASSUME Start(q) \/ Continue(q) \/ Abort(q)
      PROVE  WritesPast(q)'
  <2> USE <1>0 DEF TypeOK, WritesPast, RevokeWritesPast
  <2>1. CASE Start(q)
    BY <2>1, RefreshTtlAssumption DEF Start, StartLogin, StartRefresh, RefreshUnverified,
       StartRevoke, RevokedTokenExpiry
  <2>2. CASE FindForUpdate(q)
    BY <2>2 DEF FindForUpdate, Spread, Row
  <2>3. CASE Load(q)
    <3>1. frame[q] \in Row /\ token[UserOf(q)] \in Row
      BY <2>3 DEF Load
    <3>2. Spread(token[UserOf(q)], Patch(frame[q], token[UserOf(q)])).refreshExpiresIn
              = frame[q].refreshExpiresIn
      BY <3>1 DEF Spread, Patch, Row
    <3>3. QED
      BY <2>3, <3>2 DEF Load, Row
  <2>4. CASE \/ LoginConflict(q) \/ RefreshMismatch(q) \/ RefreshExpired(q)
             \/ UpdateMissing(q) \/ LoginInsert(q) \/ Update(q) \/ Abort(q)
    BY <2>4 DEF LoginConflict, RefreshMismatch, RefreshExpired, UpdateMissing, LoginInsert,
       Update, Abort
  <2>5. CASE LoginSign(q) \/ LoginFind(q) \/ RefreshFind(q) \/ RefreshSign(q) \/ RefreshExtend(q)
    BY <2>5 DEF LoginSign, LoginFind, RefreshFind, RefreshSign, RefreshExtend, Calls
  <2>6. QED
    BY <1>4, <2>1, <2>2, <2>3, <2>4, <2>5 DEF Continue
<1>5. QED
  BY <1>0, <1>2, <1>3, <1>4 DEF Next

\* What ClosedInv says of one user.
ClosedFor(u) ==
    /\ u \in DOMAIN token /\ token[u].refreshExpiresIn < now
    /\ \A q \in Requests : Active(q, u) =>
         /\ call[q].kind # "login"
         /\ call[q].kind = "refresh" => pc[q] \in {"refreshFind", "decrypt"}
         /\ "refreshExpiresIn" \in DOMAIN frame[q] => frame[q]["refreshExpiresIn"] < now

\* No step but the beginning of a login opens a closed session again.
LEMMA ClosedStays ==
    ASSUME TypeOK, [Next]_vars, NEW u \in Users, ClosedFor(u),
           \A r \in Requests : ~Begins(r, "login", u)
    PROVE  ClosedFor(u)'
<1> USE DEF TypeOK, ClosedFor, Active, UserOf, GoTo, Answer
<1>0. token[u] \in Row /\ token[u].refreshExpiresIn \in Int
  BY DEF Row
<1>1. CASE Tick \/ UNCHANGED vars
  <2>1. UNCHANGED <<token, pc, call, frame>> /\ now' >= now /\ now' \in Nat
    BY <1>1 DEF Tick, vars
  <2>2. \A q \in Requests : "refreshExpiresIn" \in DOMAIN frame[q] =>
            frame[q]["refreshExpiresIn"] \in Int
    BY DEF IsPartial
  <2>3. QED
    BY <1>0, <2>1, <2>2
<1>2. ASSUME NEW r \in Requests, Start(r) \/ Continue(r) \/ Abort(r)
      PROVE  ClosedFor(u)'
  <2>1. /\ now' = now
        /\ \A q \in Requests \ {r} :
             pc'[q] = pc[q] /\ call'[q] = call[q] /\ frame'[q] = frame[q]
    BY <1>2, StepOfOne
  <2>2. SUFFICES /\ u \in DOMAIN token' /\ token'[u].refreshExpiresIn < now
                 /\ pc'[r] \in InFlight /\ call'[r].user = u =>
                      /\ call'[r].kind # "login"
                      /\ call'[r].kind = "refresh" => pc'[r] \in {"refreshFind", "decrypt"}
                      /\ "refreshExpiresIn" \in DOMAIN frame'[r] =>
                             frame'[r]["refreshExpiresIn"] < now
    BY <2>1
  <2>3. CASE Start(r)
    <3>1. CASE \E v \in Users : StartLogin(r, v)
      BY <3>1 DEF StartLogin, Begins, InFlight, Calls
    <3>2. CASE \/ \E jwt \in HeldRefreshJwts, bearer \in HeldBearers :
                     StartRefresh(r, jwt, bearer)
               \/ \E v \in Users : StartRevoke(r, v)
               \/ RefreshUnverified(r)
      BY <3>2, RefreshTtlAssumption
      DEF StartRefresh, StartRevoke, RefreshUnverified, RevokedTokenExpiry, NoColumns,
          InFlight, Answers
    <3>3. QED
      BY <2>3, <3>1, <3>2 DEF Start
  <2>4. CASE \/ LoginSign(r) \/ LoginFind(r) \/ LoginInsert(r)
    <3>1. call[r].kind = "login" /\ pc[r] \in InFlight
      BY <2>4 DEF LoginSign, LoginFind, LoginInsert, InFlight
    <3>2. UserOf(r) # u
      BY <3>1
    <3>3. QED
      BY <2>4, <3>2 DEF LoginSign, LoginFind, LoginInsert, Calls
  <2>5. CASE RefreshFind(r)
    <3>1. UserOf(r) = u /\ pc'[r] \in InFlight => frame'[r] = token[u] /\ pc'[r] = "decrypt"
      BY <2>5 DEF RefreshFind, InFlight
    <3>2. call' = call /\ token' = token
      BY <2>5 DEF RefreshFind
    <3>3. call[r].kind = "refresh"
      BY <2>5 DEF RefreshFind
    <3>4. QED
      BY <1>0, <3>1, <3>2, <3>3
\* The copy has expired.
  <2>6. CASE RefreshSign(r)
    <3>1. frame[r]["refreshExpiresIn"] \in Int /\ "refreshExpiresIn" \in DOMAIN frame[r]
      BY <2>6 DEF RefreshSign, Row
    <3>2. UserOf(r) # u
      BY <2>6, <3>1 DEF RefreshSign, IsExpired, InFlight
    <3>3. QED
      BY <2>6, <3>2 DEF RefreshSign, Calls
  <2>7. CASE RefreshExtend(r)
    BY <2>7 DEF RefreshExtend, InFlight
  <2>8. CASE FindForUpdate(r)
    BY <1>0, <2>8 DEF FindForUpdate, Spread, Row, InFlight
  <2>9. CASE Load(r)
    BY <2>9 DEF Load, Patch, InFlight
  <2>10. CASE Update(r)
    <3>1. token'[u].refreshExpiresIn < now
      BY <1>0, <2>10 DEF Update, Spread, Row, InFlight
    <3>2. QED
      BY <2>10, <3>1 DEF Update, InFlight
  <2>11. CASE \/ LoginConflict(r) \/ RefreshMismatch(r) \/ RefreshExpired(r)
              \/ UpdateMissing(r) \/ Abort(r)
    BY <2>11 DEF LoginConflict, RefreshMismatch, RefreshExpired, UpdateMissing, Abort, InFlight
  <2>12. QED
    BY <1>2, <2>3, <2>4, <2>5, <2>6, <2>7, <2>8, <2>9, <2>10, <2>11 DEF Continue
<1>3. QED
  BY <1>1, <1>2 DEF Next

LEMMA ClosedStep ==
    HistoryTypeOK /\ AloneIsOnly /\ RevokeWritesPast /\ ClosedInv /\ [HNext]_hvars
        => ClosedInv'
<1> SUFFICES ASSUME HistoryTypeOK, AloneIsOnly, RevokeWritesPast, ClosedInv, [HNext]_hvars,
                    NEW u \in Users, closedAt'[u] # None
             PROVE  ClosedFor(u)' /\ closedAt'[u] <= now'
  BY DEF ClosedInv, ClosedFor
<1>1. [Next]_vars /\ TypeOK
  BY HistoryStep DEF HistoryTypeOK
<1>2. now \in Nat /\ now' \in Nat /\ now <= now'
  <2>1. CASE Tick \/ UNCHANGED vars
    BY <1>1, <2>1 DEF TypeOK, Tick, vars
  <2>2. ASSUME NEW r \in Requests, Start(r) \/ Continue(r) \/ Abort(r)
        PROVE  now' = now
    BY <1>1, <2>2, StepOfOne
  <2>3. QED
    BY <1>1, <2>1, <2>2 DEF Next, TypeOK
<1>3. CASE closedAt'[u] = closedAt[u]
  <2>1. ClosedFor(u) /\ closedAt[u] <= now /\ closedAt[u] \in Nat
    BY <1>3 DEF ClosedInv, ClosedFor, HistoryTypeOK
  <2>2. \A r \in Requests : ~Begins(r, "login", u)
    BY ClosedChange
  <2>3. QED
    BY <1>1, <1>2, <1>3, <2>1, <2>2, ClosedStays
<1>4. ASSUME NEW r \in Requests, closedAt'[u] = now, alone[r], Succeeds(r, "revoke", u)
      PROVE  ClosedFor(u)' /\ closedAt'[u] <= now'
  <2>1. Update(r)
    BY <1>1, <1>4, OnlyWritesSucceed DEF Succeeds, LoginInsert, TypeOK
  <2>2. u \in DOMAIN token' /\ token'[u].refreshExpiresIn < now
    BY <1>1, <1>4, <2>1 DEF Update, RevokeWritesPast, Succeeds, UserOf, TypeOK
  <2>3. pc[r] \in InFlight /\ pc'[r] \notin InFlight
    BY <1>1, <1>4, <2>1 DEF Update, Succeeds, InFlight
  <2>4. now' = now /\ \A q \in Requests \ {r} : pc'[q] = pc[q] /\ call'[q] = call[q]
    BY <1>1, <2>1, StepOfOne DEF Continue
  <2>5. \A q \in Requests : ~Active(q, u)'
    BY <1>4, <2>3, <2>4 DEF Active, AloneIsOnly, UserOf, Succeeds
  <2>6. QED
    BY <1>2, <1>4, <2>2, <2>4, <2>5 DEF ClosedFor
<1>5. QED
  BY <1>3, <1>4, ClosedChange
-----------------------------------------------------------------------------
(***************************************************************************)
(* Access JWTs of a closed session.                                        *)
(***************************************************************************)
LEMMA IssuedBeforeStep ==
    HistoryTypeOK /\ ClosedInv /\ IssuedBefore /\ [HNext]_hvars => IssuedBefore'
<1> SUFFICES ASSUME HistoryTypeOK, ClosedInv, IssuedBefore, [HNext]_hvars
             PROVE  IssuedBefore'
  OBVIOUS
<1>0. TypeOK /\ [Next]_vars
  BY HistoryStep DEF HistoryTypeOK
<1> USE DEF UserOf, GoTo, Answer
<1>1. Seconds(now) \in Int /\ Seconds(now') \in Int /\ Seconds(now) <= Seconds(now')
  <2>1. CASE Tick \/ UNCHANGED vars
    BY <1>0, <2>1, SecondsMonotonic, SecondsNat DEF Tick, vars, TypeOK
  <2>2. ASSUME NEW r \in Requests, Start(r) \/ Continue(r) \/ Abort(r)
        PROVE  now' = now
    BY <1>0, <2>2, StepOfOne
  <2>3. QED
    BY <1>0, <2>1, <2>2, SecondsNat DEF Next, TypeOK
\* A step changes the time of issue to the present second, or not at all.
<1>2. \A r \in Requests : call'[r].iat = call[r].iat \/ call'[r].iat = Seconds(now)
                            \/ call'[r].iat = 0
  <2>1. CASE Tick \/ UNCHANGED vars
    BY <2>1 DEF Tick, vars
  <2>2. ASSUME NEW r \in Requests, Start(r)
        PROVE  \/ call'[r].iat = call[r].iat \/ call'[r].iat = Seconds(now)
               \/ call'[r].iat = 0
    BY <1>0, <2>2 DEF Start, StartLogin, StartRefresh, RefreshUnverified, StartRevoke,
       TypeOK, Calls
  <2>3. ASSUME NEW r \in Requests, Continue(r) \/ Abort(r)
        PROVE  \/ call'[r].iat = call[r].iat \/ call'[r].iat = Seconds(now)
    BY <1>0, <2>3 DEF Continue, Abort, LoginSign, LoginFind, LoginInsert, LoginConflict,
       RefreshFind, RefreshMismatch, RefreshExpired, RefreshSign, RefreshExtend,
       FindForUpdate, UpdateMissing, Load, Update, TypeOK, Calls
  <2>4. QED
    BY <1>0, <2>1, <2>2, <2>3, StepOfOne DEF Next
<1>3. \A r \in Requests : call'[r].iat <= Seconds(now)
  <2>1. \A r \in Requests : call[r].iat \in Int /\ call[r].iat <= Seconds(now)
    BY <1>0 DEF TypeOK, Calls, IssuedBefore
  <2>2. 0 <= Seconds(now)
    BY <1>0, SecondsNat DEF TypeOK
  <2>3. QED
    BY <1>1, <1>2, <2>1, <2>2
<1>4. \A r \in Requests : call'[r].iat <= Seconds(now')
  <2>1. \A r \in Requests : call'[r].iat \in Int
    BY <1>0, TypeStep DEF TypeOK, Calls
  <2>2. QED
    BY <1>1, <1>3, <2>1
<1>5. ASSUME NEW u \in Users, closedAt'[u] # None, NEW r \in Requests,
             pc'[r] = "ok", call'[r].kind \in {"login", "refresh"}, call'[r].user = u
      PROVE  call'[r].iat <= Seconds(closedAt'[u])
  <2>1. CASE closedAt'[u] # closedAt[u]
    BY <1>3, <1>5, <2>1, ClosedChange
  <2>2. CASE closedAt'[u] = closedAt[u]
    <3>1. CASE pc[r] = "ok"
      <4>1. call'[r] = call[r]
        <5>1. ASSUME NEW q \in Requests, Start(q) \/ Continue(q) \/ Abort(q)
              PROVE  q # r
          BY <1>0, <3>1, <5>1, StepOfOne DEF InFlight
        <5>2. QED
          BY <1>0, <5>1, StepOfOne DEF Next, Tick, vars
      <4>2. QED
        BY <1>5, <2>2, <3>1, <4>1 DEF IssuedBefore
\* No login or refresh is about to succeed in a closed session.
    <3>2. CASE pc[r] # "ok"
      <4>1. LoginInsert(r) \/ Update(r)
        BY <1>0, <1>5, <3>2, OnlyWritesSucceed
      <4>2. call' = call /\ pc[r] \in {"insert", "update"}
        BY <4>1 DEF LoginInsert, Update
      <4>3. Active(r, u)
        BY <1>5, <4>2 DEF Active, InFlight
      <4>4. QED
        BY <1>5, <2>2, <4>2, <4>3 DEF ClosedInv
    <3>3. QED
      BY <3>1, <3>2
  <2>3. QED
    BY <2>1, <2>2
<1>6. QED
  BY <1>4, <1>5 DEF IssuedBefore
-----------------------------------------------------------------------------
(***************************************************************************)
(* The theorems.                                                           *)
(***************************************************************************)
LEMMA HistoryInvInit == HInit => HistoryInv
<1> SUFFICES ASSUME HInit PROVE HistoryInv
  OBVIOUS
<1>1. Init /\ TypeOK /\ WholePairs
  BY TypeInit, WholePairsInit DEF HInit
<1>2. HistoryTypeOK
  BY <1>1 DEF HInit, HistoryTypeOK
<1>3. PairUntilWritten
  BY <1>1 DEF Init, PairUntilWritten, InFlight
<1>4. AloneIsOnly /\ SettledInv /\ RevokeWritesPast /\ ClosedInv
  BY <1>1 DEF HInit, Init, InFlight, AloneIsOnly, SettledInv, RevokeWritesPast, ClosedInv,
     NoCall
<1>5. IssuedBefore
  BY <1>1, SecondsNat DEF HInit, Init, IssuedBefore, NoCall
<1>6. QED
  BY <1>1, <1>2, <1>3, <1>4, <1>5 DEF HistoryInv

LEMMA HistoryInvStep == HistoryInv /\ [HNext]_hvars => HistoryInv'
<1> SUFFICES ASSUME HistoryInv, [HNext]_hvars PROVE HistoryInv'
  OBVIOUS
<1>1. TypeOK /\ [Next]_vars
  BY HistoryStep DEF HistoryInv, HistoryTypeOK
<1>2. HistoryTypeOK' /\ AloneIsOnly' /\ RevokeWritesPast' /\ ClosedInv'
  BY HistoryTypeStep, AloneStep, RevokeWritesPastStep, ClosedStep DEF HistoryInv
<1>3. WholePairs' /\ PairUntilWritten'
  BY <1>1, WholePairsStep, PairUntilWrittenStep DEF HistoryInv
<1>4. SettledInv' /\ IssuedBefore'
  BY SettledStep, IssuedBeforeStep DEF HistoryInv
<1>5. QED
  BY <1>2, <1>3, <1>4 DEF HistoryInv

LEMMA HistoryAlways == HSpec => []HistoryInv
BY HistoryInvInit, HistoryInvStep, PTL DEF HSpec

\* A login that ran alone keeps the row with its own JWT until its user logs
\* in again, whatever refreshes and revokes come after it.
THEOREM LoginsSettle == HSpec => []SettledLogin
<1>1. HistoryInv => SettledLogin
  <2> SUFFICES ASSUME HistoryInv, NEW u \in Users, settled[u] # None
               PROVE  /\ u \in DOMAIN token
                      /\ token[u].iv = settled[u]
                      /\ Decrypt(token[u].refreshToken, token[u].iv) = call[settled[u]].jwt
    BY DEF SettledLogin
  <2>1. u \in DOMAIN token /\ token[u].iv = settled[u] /\ token[u] \in Row
    BY DEF HistoryInv, HistoryTypeOK, TypeOK, SettledInv
  <2>2. token[u].refreshToken = Encrypt(call[token[u].iv].jwt, token[u].iv)
    BY <2>1 DEF HistoryInv, WholePairs, FromOneLogin, Row
  <2>3. QED
    BY <2>1, <2>2 DEF Decrypt, Encrypt
<1>2. QED
  BY <1>1, HistoryAlways, PTL

\* A revoke that ran alone keeps the session expired, and lets no refresh past
\* its checks, until the user logs in again.
THEOREM RevocationsAreFinal == HSpec => []RevocationFinal
<1>1. HistoryInv => RevocationFinal
  BY DEF HistoryInv, ClosedInv, RevocationFinal, Refreshing, Active, IsExpired, InFlight
<1>2. QED
  BY <1>1, HistoryAlways, PTL

\* After such a revoke, access JWTs live no longer than their own lifetime.
THEOREM RevokedAccessRunsOut == HSpec => []RevokedAccessFades
<1>1. HistoryInv => RevokedAccessFades
  <2> SUFFICES ASSUME HistoryInv, NEW u \in Users, closedAt[u] # None,
                      Seconds(now) >= Seconds(closedAt[u]) + AccessTtl,
                      NEW r \in Requests, pc[r] = "ok",
                      call[r].kind \in {"login", "refresh"}, UserOf(r) = u
               PROVE  ~(Seconds(now) < call[r].iat + AccessTtl)
    BY DEF RevokedAccessFades, Accepted
  <2>1. call[r].iat <= Seconds(closedAt[u])
    BY DEF HistoryInv, IssuedBefore
  <2>2. call[r].iat \in Int /\ Seconds(now) \in Int /\ Seconds(closedAt[u]) \in Int
    BY SecondsNat DEF HistoryInv, HistoryTypeOK, TypeOK, Calls
  <2>3. QED
    BY <2>1, <2>2, AccessTtlAssumption
<1>2. QED
  BY <1>1, HistoryAlways, PTL
=============================================================================
