------------------------------- MODULE Session -------------------------------
(***************************************************************************)
(* Login sessions: RefreshTokenService with the part of BaseService and of *)
(* AuthService that its requests run.  Every user has at most one row in   *)
(* table "token", which holds the encrypted refresh JWT of a login, the IV *)
(* it was encrypted with, and the time the session expires.                *)
(*                                                                         *)
(* Requests run concurrently in one Node process and share only the table. *)
(* An action is what the process does between two awaits: the database     *)
(* statement (or the signing, or the decryption) a request waits for takes *)
(* effect, and its handler runs on to the next await.  A request belongs   *)
(* to one HTTP call, so it runs once.                                      *)
(*                                                                         *)
(* Left out: the columns id, createdAt and updatedAt (a row is identified  *)
(* by its user: userId is unique and no code deletes a row), the user name *)
(* and role that a JWT carries beside its subject, and the log.            *)
(*                                                                         *)
(* X_Something is a faulty variant of X, for mutation tests.               *)
(***************************************************************************)
EXTENDS Integers, BaseService

CONSTANTS
    Users,          \* ids of the rows of table "user"
    Requests,       \* the HTTP requests
    RefreshTtl,     \* jwt.refreshExpiresIn, in clock units
    MsPerSecond,    \* clock units in a second
    MaxTime,        \* bound of the clock
    None            \* no value yet

ASSUME RefreshTtlAssumption == RefreshTtl \in Nat \ {0}
ASSUME SecondAssumption == MsPerSecond \in Nat \ {0}
ASSUME MaxTimeAssumption == MaxTime \in Nat
ASSUME NoneAssumption == None \notin Users /\ None \notin Requests

VARIABLES
    now,            \* DateTime.now(), which every request reads
    token,          \* table "token", a function from some users to rows
    pc,             \* what a request waits for, or its answer
    call,           \* what a request is about: its arguments and its JWTs
    frame           \* the local object a request takes to its next step

vars == <<now, token, pc, call, frame>>

Columns == {"refreshToken", "iv", "refreshExpiresIn"}

\* The claims of a signed JWT.  Two JWTs with the same claims are the same
\* string: HS256 is deterministic and iat is in whole seconds.
Jwt == [sub : Users, iat : Nat]

Seconds(ms) == ms \div MsPerSecond

SignJwt(user) == [sub |-> user, iat |-> Seconds(now)]

\* AES-256-CTR with a key fixed in the environment.  The random IV of a login
\* is represented by the login itself, so no two encryptions share one.
Encrypt(jwt, iv) == [jwt |-> jwt, iv |-> iv]

\* Decrypting with another IV yields bytes that are no JWT.
Decrypt(data, iv) == IF data.iv = iv THEN data.jwt ELSE None

\* Fault: the seconds of the configuration converted twice.
RefreshTokenExpiry_Twice == now + RefreshTtl * MsPerSecond

\* updateRefreshTokenExpiry(): one window from now.
RefreshTokenExpiry == now + RefreshTtl

\* Fault: a revoked session expires now, not earlier.
RevokedTokenExpiry_Now == now

\* updateRefreshTokenExpiry(true): one window ago.
RevokedTokenExpiry == now - RefreshTtl

InFlight == {"signRefresh", "loginFind", "insert", "refreshFind", "decrypt",
             "signAccess", "findForUpdate", "load", "update"}
Answers  == {"ok", "unauthorized", "invalidToken", "expired", "notFound",
             "conflict", "aborted"}

NoCall == [kind |-> "none", user |-> None, bearer |-> None,
           jwt |-> None, iat |-> 0]

UserOf(r) == call[r].user
-----------------------------------------------------------------------------
\* Control: a request moves on, carrying an object, or is answered.
GoTo(r, label, object) ==
    /\ pc' = [pc EXCEPT ![r] = label]
    /\ frame' = [frame EXCEPT ![r] = object]

Answer(r, status) == GoTo(r, status, NoColumns)

\* The tokens a client holds: every answer "ok" to a login delivered one
\* refresh JWT and one access JWT.
Delivered == {r \in Requests : pc[r] = "ok" /\ call[r].kind = "login"}

HeldRefreshJwts == {call[r].jwt : r \in Delivered}
HeldBearers     == {call[r].user : r \in Delivered}
-----------------------------------------------------------------------------
Init ==
    /\ now = 0
    /\ token = [u \in {} |-> NoColumns]
    /\ pc = [r \in Requests |-> "idle"]
    /\ call = [r \in Requests |-> NoCall]
    /\ frame = [r \in Requests |-> NoColumns]

Tick ==
    /\ now < MaxTime
    /\ now' = now + 1
    /\ UNCHANGED <<token, pc, call, frame>>

\* POST /auth/login: createToken signs the access JWT.
StartLogin(r, u) ==
    /\ pc[r] = "idle"
    /\ call' = [call EXCEPT ![r] =
                  [kind |-> "login", user |-> u, bearer |-> None,
                   jwt |-> None, iat |-> Seconds(now)]]
    /\ GoTo(r, "signRefresh", NoColumns)
    /\ UNCHANGED <<now, token>>

\* It signs the refresh JWT, a little later, and encrypts it.
LoginSign(r) ==
    /\ pc[r] = "signRefresh"
    /\ call' = [call EXCEPT ![r].jwt = SignJwt(UserOf(r))]
    /\ GoTo(r, "loginFind", NoColumns)
    /\ UNCHANGED <<now, token>>

\* Fault: the row keeps the IV of its first login.
LoginColumns_OldIv(r) ==
    [refreshToken |-> Encrypt(call[r].jwt, r),
     iv |-> IF UserOf(r) \in DOMAIN token THEN token[UserOf(r)].iv ELSE r,
     refreshExpiresIn |-> RefreshTokenExpiry]

\* The columns that a login writes.
LoginColumns(r) ==
    [refreshToken |-> Encrypt(call[r].jwt, r),
     iv |-> r,
     refreshExpiresIn |-> RefreshTokenExpiry]

\* Fault: a login of a user who has a session only extends it.
LoginFind_Extends(r) ==
    /\ pc[r] = "loginFind"
    /\ IF UserOf(r) \in DOMAIN token
         THEN GoTo(r, "findForUpdate", [refreshExpiresIn |-> RefreshTokenExpiry])
         ELSE GoTo(r, "insert", LoginColumns(r))
    /\ UNCHANGED <<now, token, call>>

\* Fault: the first login of a user goes through updateById, too.
LoginFind_NoInsert(r) ==
    /\ pc[r] = "loginFind"
    /\ GoTo(r, "findForUpdate", LoginColumns(r))
    /\ UNCHANGED <<now, token, call>>

\* findOne by userId: without a row the login inserts one, with a row it
\* goes through updateById.
LoginFind(r) ==
    /\ pc[r] = "loginFind"
    /\ GoTo(r, IF UserOf(r) \in DOMAIN token THEN "findForUpdate" ELSE "insert",
            LoginColumns(r))
    /\ UNCHANGED <<now, token, call>>

\* save without an id is an INSERT.  The answer is lost when the process
\* stops or the connection breaks after the commit.
LoginInsert(r) ==
    /\ pc[r] = "insert"
    /\ UserOf(r) \notin DOMAIN token
    /\ token' = [u \in DOMAIN token \cup {UserOf(r)} |->
                    IF u = UserOf(r) THEN frame[r] ELSE token[u]]
    /\ \E status \in {"ok", "aborted"} : Answer(r, status)
    /\ UNCHANGED <<now, call>>

\* The unique constraint on userId refuses the second of two first logins.
LoginConflict(r) ==
    /\ pc[r] = "insert"
    /\ UserOf(r) \in DOMAIN token
    /\ Answer(r, "conflict")
    /\ UNCHANGED <<now, token, call>>
-----------------------------------------------------------------------------
\* POST /refresh-token/refresh with the refresh JWT jwt and an access JWT of
\* bearer, expired or not.
StartRefresh(r, jwt, bearer) ==
    /\ pc[r] = "idle"
    /\ call' = [call EXCEPT ![r] =
                  [kind |-> "refresh", user |-> jwt.sub, bearer |-> bearer,
                   jwt |-> jwt, iat |-> 0]]
    /\ GoTo(r, "refreshFind", NoColumns)
    /\ UNCHANGED <<now, token>>

\* The same with a string that one of the two verify calls rejects.
RefreshUnverified(r) ==
    /\ pc[r] = "idle"
    /\ call' = [call EXCEPT ![r].kind = "refresh"]
    /\ Answer(r, "invalidToken")
    /\ UNCHANGED <<now, token>>

\* findOne by the refresh JWT's subject: the row must be the bearer's.
RefreshFind(r) ==
    /\ pc[r] = "refreshFind"
    /\ IF UserOf(r) \in DOMAIN token /\ UserOf(r) = call[r].bearer
         THEN GoTo(r, "decrypt", token[UserOf(r)])
         ELSE Answer(r, "unauthorized")
    /\ UNCHANGED <<now, token, call>>

Matches(r) == Decrypt(frame[r].refreshToken, frame[r].iv) = call[r].jwt

\* Fault: the expiry time is not looked at.
IsExpired_Never(row) == FALSE

\* The comparison is strict: a session lives through its expiry time.
IsExpired(row) == row.refreshExpiresIn < now

\* Fault: another login may have replaced the row, so look again.
RefreshMismatch_Retries(r) ==
    /\ pc[r] = "decrypt"
    /\ ~Matches(r)
    /\ GoTo(r, "refreshFind", NoColumns)
    /\ UNCHANGED <<now, token, call>>

RefreshMismatch(r) ==
    /\ pc[r] = "decrypt"
    /\ ~Matches(r)
    /\ Answer(r, "invalidToken")
    /\ UNCHANGED <<now, token, call>>

RefreshExpired(r) ==
    /\ pc[r] = "decrypt"
    /\ Matches(r)
    /\ IsExpired(frame[r])
    /\ Answer(r, "expired")
    /\ UNCHANGED <<now, token, call>>

\* The row found, which is older than the present table, passes both checks:
\* the new access JWT is signed.
RefreshSign(r) ==
    /\ pc[r] = "decrypt"
    /\ Matches(r)
    /\ ~IsExpired(frame[r])
    /\ call' = [call EXCEPT ![r].iat = Seconds(now)]
    /\ GoTo(r, "signAccess", NoColumns)
    /\ UNCHANGED <<now, token>>

\* Fault: the window is added to the stored expiry time.
RefreshExtend_FromStored(r) ==
    /\ pc[r] = "signAccess"
    /\ GoTo(r, "findForUpdate",
            [refreshExpiresIn |-> token[UserOf(r)].refreshExpiresIn + RefreshTtl])
    /\ UNCHANGED <<now, token, call>>

\* Fault: refresh rotates the refresh JWT and forgets its IV.
RefreshExtend_Rotates(r) ==
    /\ pc[r] = "signAccess"
    /\ GoTo(r, "findForUpdate",
            [refreshToken |-> Encrypt(SignJwt(UserOf(r)), r),
             refreshExpiresIn |-> RefreshTokenExpiry])
    /\ UNCHANGED <<now, token, call>>

\* updateById(id, { refreshExpiresIn }), after the new access JWT is signed.
RefreshExtend(r) ==
    /\ pc[r] = "signAccess"
    /\ GoTo(r, "findForUpdate", [refreshExpiresIn |-> RefreshTokenExpiry])
    /\ UNCHANGED <<now, token, call>>

\* DELETE /refresh-token/revoke, by an administrator, for any user.
StartRevoke(r, u) ==
    /\ pc[r] = "idle"
    /\ call' = [call EXCEPT ![r] =
                  [kind |-> "revoke", user |-> u, bearer |-> None,
                   jwt |-> None, iat |-> 0]]
    /\ GoTo(r, "findForUpdate", [refreshExpiresIn |-> RevokedTokenExpiry])
    /\ UNCHANGED <<now, token>>
-----------------------------------------------------------------------------
\* updateById and updateOne find the entity and spread the partial over it.
FindForUpdate(r) ==
    /\ pc[r] = "findForUpdate"
    /\ UserOf(r) \in DOMAIN token
    /\ GoTo(r, "load", Spread(token[UserOf(r)], frame[r]))
    /\ UNCHANGED <<now, token, call>>

\* Fault: no test of the entity; the partial update is saved by itself.
UpdateMissing_Unchecked(r) ==
    /\ pc[r] = "findForUpdate"
    /\ UserOf(r) \notin DOMAIN token
    /\ GoTo(r, "load", frame[r])
    /\ UNCHANGED <<now, token, call>>

UpdateMissing(r) ==
    /\ pc[r] = "findForUpdate"
    /\ UserOf(r) \notin DOMAIN token
    /\ Answer(r, "notFound")
    /\ UNCHANGED <<now, token, call>>

\* repository.save loads the row again and keeps the columns that differ.
Load(r) ==
    /\ pc[r] = "load"
    /\ GoTo(r, "update", Patch(frame[r], token[UserOf(r)]))
    /\ UNCHANGED <<now, token, call>>

\* The UPDATE (no statement when no column differs), then the answer.
Update(r) ==
    /\ pc[r] = "update"
    /\ token' = [token EXCEPT ![UserOf(r)] = Spread(token[UserOf(r)], frame[r])]
    /\ \E status \in {"ok", "aborted"} : Answer(r, status)
    /\ UNCHANGED <<now, call>>

\* A statement or a signature fails, or the process stops: the request ends
\* between two awaits, with what it has written so far.
Abort(r) ==
    /\ pc[r] \in InFlight
    /\ Answer(r, "aborted")
    /\ UNCHANGED <<now, token, call>>
-----------------------------------------------------------------------------
Start(r) ==
    \/ \E u \in Users : StartLogin(r, u)
    \/ \E jwt \in HeldRefreshJwts, bearer \in HeldBearers :
            StartRefresh(r, jwt, bearer)
    \/ RefreshUnverified(r)
    \/ \E u \in Users : StartRevoke(r, u)

\* What the process does for a request it has accepted.
Continue(r) ==
    \/ LoginSign(r) \/ LoginFind(r) \/ LoginInsert(r) \/ LoginConflict(r)
    \/ RefreshFind(r) \/ RefreshMismatch(r) \/ RefreshExpired(r)
    \/ RefreshSign(r) \/ RefreshExtend(r)
    \/ FindForUpdate(r) \/ UpdateMissing(r) \/ Load(r) \/ Update(r)

Next == Tick \/ \E r \in Requests : Start(r) \/ Continue(r) \/ Abort(r)

\* Node runs every callback that is ready and PostgreSQL answers every
\* statement, if only with an error; nothing obliges a client to call.
Fairness == \A r \in Requests : WF_vars(Continue(r))

Spec == Init /\ [][Next]_vars
FairSpec == Spec /\ Fairness
-----------------------------------------------------------------------------
(***************************************************************************)
(* Properties                                                              *)
(***************************************************************************)
Ciphertext == [jwt : Jwt, iv : Requests]

Row == [refreshToken : Ciphertext, iv : Requests, refreshExpiresIn : Int]

\* A partial update: some of the columns, each with a value of its type.
IsPartial(f) ==
    /\ DOMAIN f \subseteq Columns
    /\ "refreshToken" \in DOMAIN f => f["refreshToken"] \in Ciphertext
    /\ "iv" \in DOMAIN f => f["iv"] \in Requests
    /\ "refreshExpiresIn" \in DOMAIN f => f["refreshExpiresIn"] \in Int

Calls == [kind : {"none", "login", "refresh", "revoke"},
          user : Users \cup {None}, bearer : Users \cup {None},
          jwt : Jwt \cup {None}, iat : Nat]

\* Types, with the shape of the object each step works on, and a user for
\* every request that has one: what the handlers may take for granted.
TypeOK ==
    /\ now \in Nat
    /\ DOMAIN token \subseteq Users
    /\ \A u \in DOMAIN token : token[u] \in Row
    /\ pc \in [Requests -> {"idle"} \cup InFlight \cup Answers]
    /\ call \in [Requests -> Calls]
    /\ DOMAIN frame = Requests
    /\ \A r \in Requests :
         /\ IsPartial(frame[r])
         /\ pc[r] \in {"insert", "decrypt", "load"} => frame[r] \in Row
         /\ pc[r] \in {"load", "update"} => UserOf(r) \in DOMAIN token
         /\ pc[r] \in InFlight \cup {"ok"} => UserOf(r) \in Users
         /\ pc[r] \in {"signRefresh", "loginFind", "insert"} =>
                call[r].kind = "login"
         /\ pc[r] \in {"refreshFind", "decrypt", "signAccess"} =>
                call[r].kind = "refresh"
         /\ call[r].kind = "login" /\ pc[r] \notin {"signRefresh", "aborted"} =>
                call[r].jwt \in Jwt

\* Whatever requests interleave, and although a row is written column by
\* column from stale copies, its ciphertext and its IV come from one and the
\* same login of its user, and decrypt to the JWT which that login signed.
\* (createToken stores the pair; refresh and revoke write it back.)
RowDecrypts ==
    \A u \in DOMAIN token :
        LET row == token[u]  login == call[row.iv]
        IN  /\ login.kind = "login" /\ login.user = u
            /\ Decrypt(row.refreshToken, row.iv) = login.jwt

\* No history of stale write-backs leaves a session open beyond one window
\* from now (updateRefreshTokenExpiry is the only source of expiry times).
ExpiryBounded == \A u \in DOMAIN token : token[u].refreshExpiresIn <= now + RefreshTtl

\* A login that is answered "ok" has, at that moment, its own refresh JWT in
\* the row: the JWT it returns is the one createToken stored, whatever was
\* written between its two SELECTs and its UPDATE.
LoginStored ==
    [][\A r \in Requests :
          pc[r] # "ok" /\ pc'[r] = "ok" /\ call[r].kind = "login" =>
             /\ token'[UserOf(r)].iv = r
             /\ Decrypt(token'[UserOf(r)].refreshToken, r) = call[r].jwt]_vars

\* Only a revoke can be told that there is no entity to update: the row which
\* a login or a refresh found is there when updateById looks again.
OnlyRevokeMisses ==
    \A r \in Requests : pc[r] = "notFound" => call[r].kind = "revoke"

\* Every request that was accepted is answered.
Answered ==
    \A r \in Requests : pc[r] \in InFlight ~> pc[r] \in Answers

-----------------------------------------------------------------------------
(***************************************************************************)
(* Why they hold: what is also true of the objects that requests carry     *)
(* between two steps, which will be written over rows that have changed.   *)
(***************************************************************************)
\* Columns f, about user u, have both parts of one login's pair or neither.
\* That login has signed its JWT, which therefore will not change.
FromOneLogin(f, u) ==
    /\ "iv" \in DOMAIN f <=> "refreshToken" \in DOMAIN f
    /\ "iv" \in DOMAIN f =>
          LET login == call[f["iv"]]
          IN  /\ pc[f["iv"]] \notin {"idle", "signRefresh"}
              /\ login.kind = "login" /\ login.user = u
              /\ f["refreshToken"] = Encrypt(login.jwt, f["iv"])

\* No row and no object mixes the pairs of two logins.  In particular the
\* difference that save computes has both columns of a pair or neither.
WholePairs ==
    /\ \A u \in DOMAIN token : FromOneLogin(token[u], u)
    /\ \A r \in Requests : FromOneLogin(frame[r], UserOf(r))

\* No object carries an expiry time beyond one window from now.
ObjectsBounded ==
    \A r \in Requests : "refreshExpiresIn" \in DOMAIN frame[r] =>
        frame[r]["refreshExpiresIn"] <= now + RefreshTtl

Has(f, r) == "iv" \in DOMAIN f /\ f["iv"] = r

Writing(r) == pc[r] \in {"insert", "findForUpdate", "load", "update"}

\* Until a login writes, it alone has its pair, and it has it until it writes:
\* so the difference which save computes contains the pair.
PairUntilWritten ==
    \A r \in Requests :
        call[r].kind = "login" /\ pc[r] \in InFlight =>
            /\ \A u \in DOMAIN token : ~Has(token[u], r)
            /\ \A q \in Requests \ {r} : ~Has(frame[q], r)
            /\ Writing(r) => Has(frame[r], r)
-----------------------------------------------------------------------------
(* What a test says of refresh, and concurrent requests refute.            *)

IsRefreshUpdate(r) == call[r].kind = "refresh" /\ pc[r] = "update" /\ Update(r)

\* refresh writes the expiry time of a session and nothing else
\* (refreshToken.service.spec.ts expects updateById with this column alone).
RefreshTouchesOnlyExpiry ==
    [][\A r \in Requests : IsRefreshUpdate(r) =>
          LET u == UserOf(r)
          IN  /\ token'[u].refreshToken = token[u].refreshToken
              /\ token'[u].iv = token[u].iv]_vars

\* refresh does not extend a session that has expired
\* (refreshToken.service.spec.ts: the error, and no updateById).
RefreshNeverRevives ==
    [][\A r \in Requests : IsRefreshUpdate(r) =>
          LET u == UserOf(r)
          IN  IsExpired(token[u]) => token'[u].refreshExpiresIn < now]_vars
=============================================================================
