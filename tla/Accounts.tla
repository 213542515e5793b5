------------------------------ MODULE Accounts ------------------------------
(***************************************************************************)
(* Table "user": registration, the check of a login's password, changes of *)
(* a profile and of a password (AuthService, UserService), and the seed of *)
(* the root user, which a script runs in a process of its own.             *)
(*                                                                         *)
(* Nothing makes user names or emails unique: neither has a constraint in  *)
(* UserEntity, and no lock or transaction spans the steps of a request.    *)
(*                                                                         *)
(* The columns phone and role are left out: a body may give them to a row  *)
(* as it may the user name.  A body without an email has email null.       *)
(***************************************************************************)
EXTENDS Repository

CONSTANTS
    Names,          \* user names
    Emails,
    Passwords,      \* in plain text
    FirstPassword,  \* the password of the early users
    Root,           \* the user name and the password of the root user
    Dropped         \* early ids without a row: made up, or of rows that went
                    \* with an earlier schema (database.pg.dropSchema), whose
                    \* JWTs are still valid

ASSUME NamesAssumption ==
    /\ (Early \ Dropped) \cup {Root} \subseteq Names
    /\ {Root, FirstPassword} \subseteq Passwords
ASSUME NoneAssumption == None \notin Passwords
ASSUME DroppedAssumption == Dropped \subseteq Early

vars == <<table, pc, call, frame>>

\* bcrypt.hash: each hash has a salt of its own, named after who made it.
Hash(password, maker) == [password |-> password, salt |-> maker]

\* A password that a body puts into the row as it is: a text that is no hash (one
\* that is, is left out), which compare finds equal to nothing.
Text(maker) == [password |-> None, salt |-> maker]

\* bcrypt.compare
Compare(password, hash) == hash.password = password

InFlight == {"registerFind", "hash", "loginFind", "loginCompare", "changeFind",
             "changeCompare", "changeHash"} \cup SavingSteps
Answers  == {"ok", "userExisted", "unauthorized", "userNotFound", "samePassword",
             "invalidOldPassword", "notFound", "conflict", "aborted"}

\* id: the row that a request finds; target: the row that it saves; columns:
\* those of a profile update's body.
NoCall == [kind |-> "none", id |-> None, target |-> None, username |-> None,
           email |-> None, old |-> None, password |-> None, columns |-> NoColumns]

\* An early user's name is its id.
Init ==
    /\ table = [e \in Early \ Dropped |->
                  [username |-> e, email |-> None, name |-> e,
                   password |-> Hash(FirstPassword, e)]]
    /\ pc = [r \in Requests |-> "idle"]
    /\ call = [r \in Requests |-> NoCall]
    /\ frame = [r \in Requests |-> NoFrame]

Begin(r, label, args) ==
    /\ pc[r] = "idle"
    /\ call' = [call EXCEPT ![r] = args]
    /\ GoTo(r, label, NoFrame)
    /\ UNCHANGED table
-----------------------------------------------------------------------------
\* POST /auth/register.  The body may name the target.
StartRegister(r, username, email, password, target) ==
    Begin(r, "registerFind",
          [NoCall EXCEPT !.kind = "register", !.target = target, !.username = username,
                         !.email = email, !.password = password])

\* Fault: the email is looked for only when no user name is given.
Taken_NameOnly(username, email) ==
    \E id \in DOMAIN table : table[id].username = username

\* findOne where the user name or, when one is given, the email is taken.
Taken(username, email) ==
    \E id \in DOMAIN table :
        \/ table[id].username = username
        \/ email # None /\ table[id].email = email

RegisterFind(r) ==
    /\ pc[r] = "registerFind"
    /\ IF Taken(call[r].username, call[r].email)
         THEN Answer(r, "userExisted")
         ELSE GoTo(r, "hash", NoFrame)
    /\ UNCHANGED <<table, call>>

\* yarn run initDb: createRootUser does not look for a root user.
StartSeed(r) ==
    Begin(r, "hash", [NoCall EXCEPT !.kind = "seed", !.target = r, !.username = Root,
                                    !.password = Root])

\* The hash is ready: register and createRootUser save a user, which has an id
\* only if the body of register had one.
HashAndSave(r) ==
    /\ pc[r] = "hash"
    /\ Save(r, call[r].target,
            [username |-> call[r].username, email |-> call[r].email, name |-> r,
             password |-> Hash(call[r].password, r)])
    /\ UNCHANGED <<table, call>>
-----------------------------------------------------------------------------
\* POST /auth/login: validateUser
StartLogin(r, username, password) ==
    Begin(r, "loginFind", [NoCall EXCEPT !.kind = "login", !.username = username,
                                         !.password = password])

\* findOne without an order: any row with the name.
LoginFind(r) ==
    /\ pc[r] = "loginFind"
    /\ LET named == {id \in DOMAIN table : table[id].username = call[r].username}
       IN  \/ /\ named = {}
              /\ Answer(r, "unauthorized")
              /\ UNCHANGED call
           \/ \E id \in named :
                /\ call' = [call EXCEPT ![r].id = id]
                /\ GoTo(r, "loginCompare",
                        [rows |-> [i \in {id} |-> table[id]], absent |-> {}])
    /\ UNCHANGED table

\* The row a request took from its find.
Mine(r) == frame[r].rows[call[r].id]

\* Fault: a login stores its password with a fresh hash.
LoginCompare_Rehashes(r) ==
    /\ pc[r] = "loginCompare"
    /\ IF Compare(call[r].password, Mine(r).password)
         THEN BeginUpdate(r, {call[r].id}, [password |-> Hash(call[r].password, r)])
         ELSE Answer(r, "unauthorized")
    /\ call' = [call EXCEPT ![r].target = call[r].id]
    /\ UNCHANGED table

LoginCompare(r) ==
    /\ pc[r] = "loginCompare"
    /\ Answer(r, IF Compare(call[r].password, Mine(r).password) THEN "ok"
                 ELSE "unauthorized")
    /\ UNCHANGED <<table, call>>
-----------------------------------------------------------------------------
\* PUT /user/me/change-password
StartChange(r, id, old, new) ==
    Begin(r, "changeFind", [NoCall EXCEPT !.kind = "change", !.id = id, !.target = id,
                                          !.old = old, !.password = new])

ChangeFind(r) ==
    /\ pc[r] = "changeFind"
    /\ LET id == call[r].id
       IN  IF id \notin DOMAIN table THEN Answer(r, "userNotFound")
           ELSE IF call[r].old = call[r].password THEN Answer(r, "samePassword")
           ELSE GoTo(r, "changeCompare", [rows |-> [i \in {id} |-> table[id]], absent |-> {}])
    /\ UNCHANGED <<table, call>>

\* Fault: the promise of compare is not awaited, and a promise is truthy.
ChangeCompare_NoAwait(r) ==
    /\ pc[r] = "changeCompare"
    /\ GoTo(r, "changeHash", NoFrame)
    /\ UNCHANGED <<table, call>>

ChangeCompare(r) ==
    /\ pc[r] = "changeCompare"
    /\ IF Compare(call[r].old, Mine(r).password)
         THEN GoTo(r, "changeHash", NoFrame)
         ELSE Answer(r, "invalidOldPassword")
    /\ UNCHANGED <<table, call>>

\* updateById(user.id, { password })
ChangeHash(r) ==
    /\ pc[r] = "changeHash"
    /\ BeginUpdate(r, {call[r].id}, [password |-> Hash(call[r].password, r)])
    /\ UNCHANGED <<table, call>>

\* The columns that the body of a profile update may have: name and email, and
\* those that its DTO does not declare.
Bodies(r) ==
    {Given(columns) : columns \in [name : {r}, email : Emails,
                                   username : Names \cup {None},
                                   password : {Text(r), None}]}

\* PUT /user/me: updateById(id, updateDto), which looks for no duplicate, and
\* whose body may name another target than the caller's row.
StartProfile(r, id, columns, target) ==
    /\ pc[r] = "idle"
    /\ call' = [call EXCEPT ![r] = [NoCall EXCEPT !.kind = "profile", !.id = id,
                                                  !.target = target, !.columns = columns]]
    /\ BeginUpdate(r, {id}, columns)
    /\ UNCHANGED table

\* A statement or a hash fails, or the process stops.
Abort(r) ==
    /\ pc[r] \in InFlight
    /\ Answer(r, "aborted")
    /\ UNCHANGED <<table, call>>
-----------------------------------------------------------------------------
\* The ids in JWTs that clients hold, or in their bodies.
Known == DOMAIN table \cup Dropped

Start(r) ==
    \/ \E username \in Names, email \in Emails \cup {None}, password \in Passwords,
          target \in Known \cup {r} :
            StartRegister(r, username, email, password, target)
    \/ StartSeed(r)
    \/ \E username \in Names, password \in Passwords : StartLogin(r, username, password)
    \/ \E id \in Known, old, new \in Passwords : StartChange(r, id, old, new)
    \/ \E id, target \in Known, columns \in Bodies(r) :
            StartProfile(r, id, columns, target)

Continue(r) ==
    \/ RegisterFind(r) \/ HashAndSave(r) \/ LoginFind(r) \/ LoginCompare(r)
    \/ ChangeFind(r) \/ ChangeCompare(r) \/ ChangeHash(r) \/ UpdateFind(r)
    \/ UpdateMissing(r) \/ Load(r) \/ Write(r) \/ WriteConflict(r)

Next == \E r \in Requests : Start(r) \/ Continue(r) \/ Abort(r)

Spec == Init /\ [][Next]_vars
-----------------------------------------------------------------------------
(***************************************************************************)
(* Properties                                                              *)
(***************************************************************************)
Secret == [password : Passwords \cup {None}, salt : Ids]

Row == [username : Names, email : Emails \cup {None}, name : Ids, password : Secret]

\* Types; no partial row is ever stored, and what a step works on is there.
TypeOK ==
    /\ DOMAIN table \subseteq Ids
    /\ \A id \in DOMAIN table : table[id] \in Row
    /\ pc \in [Requests -> {"idle"} \cup InFlight \cup Answers]
    /\ \A r \in Requests :
         /\ \A id \in frame[r].absent : frame[r].rows[id] \in Row
         /\ pc[r] \in {"loginCompare", "changeCompare", "load"} =>
                \A id \in DOMAIN frame[r].rows : frame[r].rows[id] \in Row
         /\ pc[r] \in {"loginCompare", "changeCompare"} =>
                call[r].id \in DOMAIN frame[r].rows

\* A change that is answered "ok" has its new password in the row at that
\* moment, whatever was written to the row during its compare, hash, SELECTs
\* and UPDATE: the user who was told so can log in with it.
ChangeStored ==
    [][\A r \in Requests :
          pc[r] # "ok" /\ pc'[r] = "ok" /\ call[r].kind = "change" =>
              table'[call[r].id].password = Hash(call[r].password, r)]_vars

=============================================================================
