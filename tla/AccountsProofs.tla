--------------------------- MODULE AccountsProofs ---------------------------
(***************************************************************************)
(* Theorems about Accounts and its history, for every set of names,        *)
(* emails, passwords and requests.                                         *)
(***************************************************************************)
EXTENDS AccountsHistory, TLAPS

Columns == {"username", "email", "name", "password"}

Fields == {"kind", "id", "target", "username", "email", "old", "password", "columns"}

Labels == {"idle"} \cup InFlight \cup Answers

\* Columns of a row, each with a value of its type.
IsPartial(f) ==
    /\ DOMAIN f \subseteq Columns
    /\ "username" \in DOMAIN f => f["username"] \in Names
    /\ "email" \in DOMAIN f => f["email"] \in Emails \cup {None}
    /\ "name" \in DOMAIN f => f["name"] \in Ids
    /\ "password" \in DOMAIN f => f["password"] \in Secret

Creating(args) == args.kind \in {"register", "seed"}
Updating(args) == args.kind \in {"change", "profile"}

\* The arguments of a request.
IsCall(args) ==
    /\ DOMAIN args = Fields
    /\ Creating(args) => /\ args.username \in Names /\ args.email \in Emails \cup {None}
                         /\ args.password \in Passwords /\ args.target \in Ids
    /\ Updating(args) => args.id \in Ids /\ args.target \in Ids
    /\ args.kind = "change" => args.target = args.id /\ args.password \in Passwords
    /\ args.kind = "profile" => IsPartial(args.columns)
    /\ args.kind # "profile" => args.columns = NoColumns

\* The columns with which r updates the row that it finds.
Partial(r) ==
    IF call[r].kind = "profile" THEN call[r].columns
    ELSE [password |-> Hash(call[r].password, r)]

\* Until q ends, what it puts into a password column is in no columns but its
\* own.
Running(q) == pc[q] \in {"idle"} \cup InFlight

SaltedBefore(f, r) ==
    "password" \in DOMAIN f =>
        \A q \in Requests \ {r} : Running(q) => f["password"].salt # q

\* What a request is about at each step.
Asks(r) ==
    /\ IsCall(call[r])
    /\ pc[r] = "idle" => call[r] = NoCall
    /\ pc[r] = "registerFind" => call[r].kind = "register"
    /\ pc[r] = "hash" => Creating(call[r])
    /\ pc[r] \in {"loginFind", "loginCompare"} => call[r].kind = "login"
    /\ pc[r] \in {"changeFind", "changeCompare", "changeHash"} => call[r].kind = "change"
    /\ pc[r] = "updateFind" => Updating(call[r])
    /\ pc[r] \in {"load", "write"} => Creating(call[r]) \/ Updating(call[r])
    /\ call[r].kind = "seed" => call[r].target = r
    /\ call[r].kind = "profile" /\ "password" \in DOMAIN call[r].columns =>
         call[r].columns["password"] = Text(r)
    /\ call[r].kind = "change" /\ pc[r] \in {"changeCompare", "changeHash", "load", "write"} =>
         call[r].id \in DOMAIN table
    /\ Creating(call[r]) => call[r].target \in DOMAIN table \cup Dropped \cup {r}
    /\ Updating(call[r]) => call[r].target \in DOMAIN table \cup Dropped
    /\ r \in DOMAIN table => ~Running(r) /\ Creating(call[r]) /\ call[r].target = r

\* What it carries: the row it found, the columns of its update, and then the
\* entity that it saves for its target.
Carries(r) ==
    LET rows == frame[r].rows
        target == call[r].target
    IN  /\ pc[r] \notin SavingSteps \cup {"loginCompare", "changeCompare"} =>
             frame[r] = NoFrame
        /\ pc[r] \in {"loginCompare", "changeCompare"} =>
             /\ DOMAIN rows = {call[r].id} /\ frame[r].absent = {}
             /\ rows[call[r].id] \in Row
        /\ pc[r] = "updateFind" =>
             /\ DOMAIN rows = {call[r].id} /\ frame[r].absent = {}
             /\ rows[call[r].id] = Partial(r)
        /\ pc[r] \in {"load", "write"} =>
             /\ DOMAIN rows = {target} /\ frame[r].absent \subseteq {target}
             /\ IsPartial(rows[target])
             /\ call[r].kind = "change" =>
                  /\ "password" \in DOMAIN rows[target]
                  /\ rows[target]["password"] = Hash(call[r].password, r)
                  /\ pc[r] = "write" => frame[r].absent = {}
        /\ pc[r] = "load" => rows[target] \in Row
        /\ \A id \in frame[r].absent : rows[id] \in Row
        /\ \A id \in DOMAIN rows : SaltedBefore(rows[id], r)

AccountsInv ==
    /\ pc \in [Requests -> Labels]
    /\ DOMAIN call = Requests /\ DOMAIN frame = Requests
    /\ DOMAIN table \subseteq Ids
    /\ \A id \in DOMAIN table :
         /\ table[id] \in Row
         /\ \A q \in Requests : Running(q) => table[id].password.salt # q
    /\ \A r \in Requests : Asks(r) /\ Carries(r)

Step(r) == Start(r) \/ Continue(r) \/ Abort(r)
-----------------------------------------------------------------------------
(***************************************************************************)
(* Lemmas about the data operations.                                       *)
(***************************************************************************)
LEMMA RowIsPartial ==
    ASSUME NEW row \in Row
    PROVE  /\ IsPartial(row) /\ DOMAIN row = Columns
           /\ row["username"] = row.username /\ row["email"] = row.email
           /\ row["password"] = row.password /\ row.password \in Secret
BY DEF Row, IsPartial, Columns

\* Spreading columns over a row gives a row.
LEMMA SpreadRow ==
    ASSUME NEW row \in Row, NEW f, IsPartial(f)
    PROVE  /\ Spread(row, f) \in Row
           /\ \A c \in Columns : Spread(row, f)[c] = IF c \in DOMAIN f THEN f[c] ELSE row[c]
<1>1. /\ DOMAIN Spread(row, f) = Columns
      /\ \A c \in Columns : Spread(row, f)[c] = IF c \in DOMAIN f THEN f[c] ELSE row[c]
  BY RowIsPartial DEF Spread
<1>2. Spread(row, f) = [username |-> Spread(row, f)["username"],
                        email |-> Spread(row, f)["email"],
                        name |-> Spread(row, f)["name"],
                        password |-> Spread(row, f)["password"]]
  BY <1>1 DEF Spread, Columns
<1>3. Spread(row, f) \in Row
  BY <1>1, <1>2 DEF Row, IsPartial, Columns
<1>4. QED
  BY <1>1, <1>3

\* The difference between an entity and the row: columns of the entity.
LEMMA PatchIsPartial ==
    ASSUME NEW entity, IsPartial(entity), NEW row \in Row
    PROVE  LET patch == Patch(entity, row)
           IN  /\ IsPartial(patch) /\ DOMAIN patch \subseteq DOMAIN entity
               /\ \A c \in DOMAIN patch : patch[c] = entity[c]
               /\ "password" \in DOMAIN entity /\ entity["password"] # row.password =>
                    "password" \in DOMAIN patch
BY RowIsPartial DEF Patch, IsPartial

LEMMA NoFrameIsEmpty == NoFrame.absent = {} /\ DOMAIN NoFrame.rows = {}
BY DEF NoFrame, NoColumns

LEMMA NoCallIsCall ==
    /\ IsCall(NoCall) /\ NoCall.kind = "none" /\ NoCall.columns = NoColumns
    /\ DOMAIN NoColumns = {}
BY DEF NoCall, IsCall, Fields, Creating, Updating, NoColumns

LEMMA HashIsSecret ==
    ASSUME NEW password \in Passwords, NEW maker \in Ids
    PROVE  /\ Hash(password, maker) \in Secret /\ Hash(password, maker).salt = maker
           /\ Text(maker) \in Secret /\ Text(maker).salt = maker
BY DEF Hash, Text, Secret

LEMMA EarlyAndRequests ==
    /\ Requests \subseteq Ids /\ Early \subseteq Ids /\ Dropped \subseteq Early
    /\ \A e \in Early : e \notin Requests
BY EarlyAssumption, DroppedAssumption DEF Ids

\* The columns of a body are columns of a row.
LEMMA BodyIsPartial ==
    ASSUME NEW r \in Requests, NEW body \in Bodies(r)
    PROVE  IsPartial(body) /\ ("password" \in DOMAIN body => body["password"] = Text(r))
<1>1. PICK columns \in [name : {r}, email : Emails, username : Names \cup {None},
                        password : {Text(r), None}] : body = Given(columns)
  BY DEF Bodies
<1>2. /\ DOMAIN columns = Columns /\ columns["name"] = r /\ columns["email"] \in Emails
      /\ columns["username"] \in Names \cup {None}
      /\ columns["password"] \in {Text(r), None}
  BY <1>1 DEF Columns
<1>3. /\ DOMAIN body = {c \in Columns : columns[c] # None}
      /\ \A c \in DOMAIN body : body[c] = columns[c] /\ columns[c] # None
  BY <1>1, <1>2 DEF Given
<1>4. Text(r) \in Secret /\ r \in Ids
  BY EarlyAndRequests DEF Text, Secret
<1>5. QED
  BY <1>2, <1>3, <1>4 DEF IsPartial, Columns
-----------------------------------------------------------------------------
(***************************************************************************)
(* Types, and what is true of the requests and of the rows they carry.     *)
(***************************************************************************)
LEMMA AccountsInvInit == Init => AccountsInv
<1> SUFFICES ASSUME Init PROVE AccountsInv
  OBVIOUS
<1>1. \A r \in Requests : pc[r] = "idle" /\ call[r] = NoCall /\ frame[r] = NoFrame
  BY DEF Init
<1>2. \A r \in Requests : Asks(r) /\ Carries(r)
  <2>1. \A r \in Requests : r \notin DOMAIN table
    BY EarlyAndRequests DEF Init
  <2>2. QED
    BY <1>1, <2>1, NoFrameIsEmpty, NoCallIsCall
    DEF Asks, Carries, SavingSteps, Creating, Updating
<1>3. ASSUME NEW id \in DOMAIN table
      PROVE  id \in Ids /\ table[id] \in Row /\ table[id].password.salt \notin Requests
  <2>1. /\ id \in Early /\ id \in Names /\ id \in Ids
        /\ table[id] = [username |-> id, email |-> None, name |-> id,
                        password |-> Hash(FirstPassword, id)]
    BY <1>3, NamesAssumption, EarlyAndRequests DEF Init
  <2>2. Hash(FirstPassword, id) \in Secret /\ Hash(FirstPassword, id).salt = id
    BY <2>1, NamesAssumption, HashIsSecret
  <2>3. QED
    BY <2>1, <2>2, EarlyAndRequests DEF Row
<1>4. pc \in [Requests -> Labels] /\ DOMAIN call = Requests /\ DOMAIN frame = Requests
  BY DEF Init, Labels
<1>5. QED
  BY <1>2, <1>3, <1>4 DEF AccountsInv

LEMMA GoesTo ==
    ASSUME AccountsInv, NEW r \in Requests, NEW label \in Labels, NEW object,
           GoTo(r, label, object)
    PROVE  /\ pc' \in [Requests -> Labels] /\ DOMAIN frame' = Requests
           /\ pc'[r] = label /\ frame'[r] = object
           /\ \A q \in Requests \ {r} : pc'[q] = pc[q] /\ frame'[q] = frame[q]
BY DEF GoTo, AccountsInv

LEMMA LabelsAre ==
    /\ {"registerFind", "hash", "loginFind", "loginCompare", "changeFind", "changeCompare",
        "changeHash", "updateFind", "load", "write"} = InFlight
    /\ Labels = {"idle"} \cup InFlight \cup Answers /\ "idle" \notin InFlight
    /\ \A answer \in Answers : answer \notin {"idle"} \cup InFlight
BY DEF Labels, InFlight, SavingSteps, Answers

\* A request that begins, and goes on as it was called.
Begun(r, args) ==
    /\ IsCall(args)
    /\ \/ /\ args.kind = "register" /\ GoTo(r, "registerFind", NoFrame)
          /\ args.target \in Known \cup {r}
       \/ args.kind = "seed" /\ GoTo(r, "hash", NoFrame) /\ args.target = r
       \/ args.kind = "login" /\ GoTo(r, "loginFind", NoFrame) /\ args.target = None
       \/ args.kind = "change" /\ GoTo(r, "changeFind", NoFrame) /\ args.target \in Known
       \/ /\ args.kind = "profile" /\ BeginUpdate(r, {args.id}, args.columns)
          /\ args.target \in Known
          /\ "password" \in DOMAIN args.columns => args.columns["password"] = Text(r)

LEMMA KnownIds ==
    ASSUME AccountsInv
    PROVE  Known \subseteq Ids
BY EarlyAndRequests DEF AccountsInv, Known

LEMMA Begins ==
    ASSUME AccountsInv, NEW r \in Requests, Start(r)
    PROVE  /\ pc[r] = "idle" /\ call[r] = NoCall /\ table' = table
           /\ \E args : Begun(r, args) /\ call' = [call EXCEPT ![r] = args]
<1>0. Known \subseteq Ids /\ r \in Ids /\ {Root, FirstPassword} \subseteq Passwords
      /\ Root \in Names /\ (pc[r] = "idle" => call[r] = NoCall)
  BY KnownIds, EarlyAndRequests, NamesAssumption DEF AccountsInv, Asks
<1> DEFINE Goal == /\ pc[r] = "idle" /\ table' = table
                   /\ \E args : Begun(r, args) /\ call' = [call EXCEPT ![r] = args]
<1>1. ASSUME NEW username \in Names, NEW email \in Emails \cup {None},
             NEW password \in Passwords, NEW target \in Known \cup {r},
             StartRegister(r, username, email, password, target)
      PROVE  Goal
  <2> DEFINE args == [NoCall EXCEPT !.kind = "register", !.target = target,
                                    !.username = username, !.email = email,
                                    !.password = password]
  <2>1. IsCall(args) /\ args.kind = "register" /\ args.target = target
    BY <1>0 DEF NoCall, IsCall, Fields, Creating, Updating
  <2> HIDE DEF args
  <2>2. Begin(r, "registerFind", args)
    BY <1>1 DEF StartRegister, args
  <2>3. QED
    BY <2>1, <2>2 DEF Begin, Begun
<1>2. ASSUME StartSeed(r) PROVE Goal
  <2> DEFINE args == [NoCall EXCEPT !.kind = "seed", !.target = r, !.username = Root,
                                    !.password = Root]
  <2>1. IsCall(args) /\ args.kind = "seed" /\ args.target = r
    BY <1>0, NamesAssumption DEF NoCall, IsCall, Fields, Creating, Updating
  <2> HIDE DEF args
  <2>2. Begin(r, "hash", args)
    BY <1>2 DEF StartSeed, args
  <2>3. QED
    BY <2>1, <2>2 DEF Begin, Begun
<1>3. ASSUME NEW username \in Names, NEW password \in Passwords,
             StartLogin(r, username, password)
      PROVE  Goal
  <2> DEFINE args == [NoCall EXCEPT !.kind = "login", !.username = username,
                                    !.password = password]
  <2>1. IsCall(args) /\ args.kind = "login" /\ args.target = None
    BY DEF NoCall, IsCall, Fields, Creating, Updating
  <2> HIDE DEF args
  <2>2. Begin(r, "loginFind", args)
    BY <1>3 DEF StartLogin, args
  <2>3. QED
    BY <2>1, <2>2 DEF Begin, Begun
<1>4. ASSUME NEW id \in Known, NEW old \in Passwords, NEW new \in Passwords,
             StartChange(r, id, old, new)
      PROVE  Goal
  <2> DEFINE args == [NoCall EXCEPT !.kind = "change", !.id = id, !.target = id,
                                    !.old = old, !.password = new]
  <2>1. IsCall(args) /\ args.kind = "change" /\ args.target = id
    BY <1>0 DEF NoCall, IsCall, Fields, Creating, Updating
  <2> HIDE DEF args
  <2>2. Begin(r, "changeFind", args)
    BY <1>4 DEF StartChange, args
  <2>3. QED
    BY <2>1, <2>2 DEF Begin, Begun
<1>5. ASSUME NEW id \in Known, NEW target \in Known, NEW body \in Bodies(r),
             StartProfile(r, id, body, target)
      PROVE  Goal
  <2> DEFINE args == [NoCall EXCEPT !.kind = "profile", !.id = id, !.target = target,
                                    !.columns = body]
  <2>1. /\ IsCall(args) /\ args.kind = "profile" /\ args.target = target
        /\ args.id = id /\ args.columns = body
    BY <1>0, BodyIsPartial DEF NoCall, IsCall, Fields, Creating, Updating
  <2> HIDE DEF args
  <2>2. /\ pc[r] = "idle" /\ table' = table /\ call' = [call EXCEPT ![r] = args]
        /\ BeginUpdate(r, {args.id}, args.columns)
    BY <1>5, <2>1 DEF StartProfile, args
  <2>3. QED
    BY <2>1, <2>2, BodyIsPartial DEF Begun
<1> HIDE DEF Goal
<1>6. Goal
  BY <1>1, <1>2, <1>3, <1>4, <1>5 DEF Start
<1>7. QED
  BY <1>0, <1>6 DEF Goal

\* A request takes its steps alone, and keeps what it is about.
LEMMA StepOfOne ==
    ASSUME AccountsInv, NEW r \in Requests, Step(r)
    PROVE  /\ Running(r) /\ pc'[r] # "idle"
           /\ pc' \in [Requests -> Labels] /\ DOMAIN call' = Requests /\ DOMAIN frame' = Requests
           /\ \A q \in Requests \ {r} :
                pc'[q] = pc[q] /\ call'[q] = call[q] /\ frame'[q] = frame[q]
           /\ pc[r] # "idle" =>
                \/ call' = call
                \/ call[r].kind = "login" /\ \E id : call' = [call EXCEPT ![r].id = id]
           /\ table' = table \/ Write(r)
<1>0. pc \in [Requests -> Labels] /\ DOMAIN call = Requests /\ DOMAIN frame = Requests
  BY DEF AccountsInv
<1>1. CASE Start(r)
  <2>1. PICK args : Begun(r, args) /\ call' = [call EXCEPT ![r] = args]
    BY <1>1, Begins
  <2>2. \E label, object : label \in InFlight /\ GoTo(r, label, object)
    BY <2>1, LabelsAre DEF Begun, BeginUpdate
  <2>3. QED
    BY <1>0, <1>1, <2>1, <2>2, Begins, GoesTo, LabelsAre DEF Running
<1>2. CASE Continue(r) \/ Abort(r)
  <2>1. /\ pc[r] \in InFlight
        /\ \E label, object : label \in InFlight \cup Answers /\ GoTo(r, label, object)
        /\ table' = table \/ Write(r)
    BY <1>2, LabelsAre DEF Continue, Abort, RegisterFind, HashAndSave, LoginFind,
       LoginCompare, ChangeFind, ChangeCompare, ChangeHash, BeginUpdate, UpdateFind,
       UpdateMissing, Load, Write, WriteConflict, Save, Answer, Answers
  <2>2. \/ call' = call
        \/ call[r].kind = "login" /\ \E id : call' = [call EXCEPT ![r].id = id]
    BY <1>2 DEF Continue, Abort, RegisterFind, HashAndSave, LoginFind, LoginCompare,
       ChangeFind, ChangeCompare, ChangeHash, UpdateFind, UpdateMissing, Load, Write,
       WriteConflict, AccountsInv, Asks
  <2>3. PICK label, object : label \in InFlight \cup Answers /\ GoTo(r, label, object)
    BY <2>1
  <2>4. label \in Labels /\ label # "idle"
    BY <2>3, LabelsAre
  <2>5. DOMAIN call' = Requests /\ \A q \in Requests \ {r} : call'[q] = call[q]
    BY <1>0, <2>2
  <2>6. QED
    BY <2>1, <2>2, <2>3, <2>4, <2>5, GoesTo DEF Running
<1>3. QED
  BY <1>1, <1>2 DEF Step

\* What a request keeps of its call after it has begun.
LEMMA CallKept ==
    ASSUME AccountsInv, NEW r \in Requests, Step(r), NEW q \in Requests, pc[q] # "idle"
    PROVE  /\ call'[q].kind = call[q].kind /\ call'[q].target = call[q].target
           /\ call'[q].username = call[q].username /\ call'[q].email = call[q].email
           /\ call'[q].old = call[q].old /\ call'[q].password = call[q].password
           /\ call'[q].columns = call[q].columns
           /\ call[q].kind # "login" => call'[q] = call[q]
           /\ IsCall(call'[q]) /\ pc'[q] # "idle"
<1>0. DOMAIN call = Requests /\ IsCall(call[q])
  BY DEF AccountsInv, Asks
<1>1. CASE call'[q] = call[q]
  BY <1>0, <1>1, StepOfOne
<1>2. CASE call'[q] # call[q]
  <2>1. q = r /\ call[q].kind = "login" /\ \E id : call' = [call EXCEPT ![q].id = id]
    BY <1>2, StepOfOne
  <2>2. PICK id : call' = [call EXCEPT ![q].id = id]
    BY <2>1
  <2>3. call'[q] = [call[q] EXCEPT !.id = id]
    BY <1>0, <2>2
  <2>4. DOMAIN call'[q] = Fields /\ \A f \in Fields \ {"id"} : call'[q][f] = call[q][f]
    BY <1>0, <2>3 DEF IsCall
  <2>5. QED
    BY <1>0, <2>1, <2>4, StepOfOne DEF IsCall, Fields, Creating, Updating
<1>3. QED
  BY <1>1, <1>2
-----------------------------------------------------------------------------
(***************************************************************************)
(* What a save is made of: where each column of an entity comes from, and  *)
(* what a write leaves in the table.                                       *)
(***************************************************************************)
LEMMA PartialIsPartial ==
    ASSUME AccountsInv, NEW r \in Requests, Updating(call[r])
    PROVE  IsPartial(Partial(r)) /\ SaltedBefore(Partial(r), r)
<1>0. IsCall(call[r]) /\ Asks(r) /\ r \in Ids
  BY EarlyAndRequests DEF AccountsInv, Asks
<1>1. CASE call[r].kind = "profile"
  BY <1>0, <1>1, EarlyAndRequests DEF IsCall, Partial, Asks, SaltedBefore, Text
<1>2. CASE call[r].kind # "profile"
  <2>1. /\ DOMAIN Partial(r) = {"password"}
        /\ Partial(r)["password"] = Hash(call[r].password, r)
    BY <1>2 DEF Partial
  <2>2. call[r].password \in Passwords
    BY <1>0, <1>2 DEF IsCall, Updating
  <2>3. QED
    BY <1>0, <2>1, <2>2, HashIsSecret DEF IsPartial, SaltedBefore, Columns
<1>3. QED
  BY <1>1, <1>2

\* The entity of a registration or a seed.
NewUser(r) ==
    [username |-> call[r].username, email |-> call[r].email, name |-> r,
     password |-> Hash(call[r].password, r)]

LEMMA NewUserIsRow ==
    ASSUME AccountsInv, NEW r \in Requests, Creating(call[r])
    PROVE  /\ NewUser(r) \in Row /\ NewUser(r)["password"] = Hash(call[r].password, r)
           /\ NewUser(r)["username"] = call[r].username
           /\ NewUser(r)["email"] = call[r].email
           /\ SaltedBefore(NewUser(r), r)
<1>1. /\ IsCall(call[r]) /\ r \in Ids
  BY EarlyAndRequests DEF AccountsInv, Asks
<1>2. /\ Hash(call[r].password, r) \in Secret /\ Hash(call[r].password, r).salt = r
      /\ call[r].username \in Names /\ call[r].email \in Emails \cup {None}
  BY <1>1, HashIsSecret DEF IsCall
<1>3. QED
  BY <1>1, <1>2 DEF NewUser, Row, SaltedBefore

LEMMA SaveGoes ==
    ASSUME AccountsInv, NEW r \in Requests, NEW target, NEW entity, Save(r, target, entity)
    PROVE  /\ pc'[r] \in {"load", "write"}
           /\ DOMAIN frame'[r].rows = {target} /\ frame'[r].rows[target] = entity
           /\ frame'[r].absent \subseteq {target}
           /\ pc'[r] = "write" => target = r
<1>1. {"load", "write"} \subseteq Labels
  BY LabelsAre
<1>2. QED
  BY <1>1, GoesTo DEF Save

\* Where an entity comes from: from the load, whose difference it is; or it is
\* a new user; or the row found, with the columns of the update over it.
Saved(r, entity) ==
    \/ /\ pc[r] = "load" /\ Load(r) /\ DOMAIN entity \subseteq DOMAIN frame[r].rows[call[r].target]
       /\ \A c \in DOMAIN entity : entity[c] = frame[r].rows[call[r].target][c]
    \/ /\ pc[r] = "hash" /\ Creating(call[r]) /\ entity = NewUser(r)
    \/ /\ pc[r] = "updateFind" /\ Updating(call[r]) /\ entity \in Row
       /\ call[r].id \in DOMAIN table
       /\ \A c \in Columns : entity[c] = IF c \in DOMAIN Partial(r) THEN Partial(r)[c]
                                         ELSE table[call[r].id][c]

LEMMA Saves ==
    ASSUME AccountsInv, NEW r \in Requests, Step(r), pc'[r] \in {"load", "write"}
    PROVE  /\ call' = call /\ table' = table /\ call[r].target \in Ids
           /\ DOMAIN frame'[r].rows = {call[r].target}
           /\ frame'[r].absent \subseteq {call[r].target}
           /\ IsPartial(frame'[r].rows[call[r].target])
           /\ frame'[r].absent # {} \/ pc'[r] = "load" =>
                frame'[r].rows[call[r].target] \in Row
           /\ Saved(r, frame'[r].rows[call[r].target])
           /\ pc[r] = "load" /\ pc'[r] = "write" /\ call[r].target \in DOMAIN table =>
                /\ frame'[r].absent = {}
                /\ \A c \in {"password"} \cap DOMAIN frame[r].rows[call[r].target] :
                     frame[r].rows[call[r].target][c] # table[call[r].target].password =>
                        c \in DOMAIN frame'[r].rows[call[r].target]
           /\ pc[r] # "load" /\ pc'[r] = "write" => call[r].target = r
<1>0. /\ DOMAIN pc = Requests /\ DOMAIN call = Requests /\ Asks(r) /\ Carries(r)
      /\ IsCall(call[r]) /\ \A id \in DOMAIN table : table[id] \in Row
  BY DEF AccountsInv, Asks
<1>1. ~Start(r)
  <2> SUFFICES ASSUME Start(r) PROVE FALSE
    OBVIOUS
  <2>1. PICK args : Begun(r, args)
    BY Begins
  <2>2. QED
    BY <1>0, <2>1 DEF Begun, BeginUpdate, GoTo
<1>2. HashAndSave(r) \/ UpdateFind(r) \/ Load(r)
  BY <1>0, <1>1 DEF Step, Continue, Abort, RegisterFind, LoginFind, LoginCompare,
     ChangeFind, ChangeCompare, ChangeHash, BeginUpdate, UpdateMissing, Write, WriteConflict,
     Answer, GoTo
<1>3. CASE HashAndSave(r)
  <2>1. /\ pc[r] = "hash" /\ Creating(call[r]) /\ call' = call /\ table' = table
        /\ Save(r, call[r].target, NewUser(r)) /\ call[r].target \in Ids
    BY <1>0, <1>3 DEF HashAndSave, Asks, NewUser, IsCall
  <2>2. QED
    BY <1>0, <2>1, NewUserIsRow, RowIsPartial, SaveGoes DEF Saved
<1>4. CASE UpdateFind(r)
  <2>1. /\ pc[r] = "updateFind" /\ call' = call /\ table' = table /\ Updating(call[r])
        /\ DOMAIN frame[r].rows = {call[r].id} /\ frame[r].rows[call[r].id] = Partial(r)
        /\ call[r].target \in Ids
    BY <1>0, <1>4 DEF UpdateFind, Asks, Carries, IsCall
  <2>2. /\ call[r].id \in DOMAIN table
        /\ Save(r, call[r].target, Spread(table[call[r].id], Partial(r)))
    BY <1>4, <2>1 DEF UpdateFind, Found
  <2>3. /\ Spread(table[call[r].id], Partial(r)) \in Row
        /\ \A c \in Columns : Spread(table[call[r].id], Partial(r))[c] =
              IF c \in DOMAIN Partial(r) THEN Partial(r)[c] ELSE table[call[r].id][c]
    BY <1>0, <2>1, <2>2, PartialIsPartial, SpreadRow
  <2>4. QED
    BY <2>1, <2>2, <2>3, RowIsPartial, SaveGoes DEF Saved
<1>5. CASE Load(r)
  <2> DEFINE id == call[r].target
             entity == frame[r].rows[id]
             new == [i \in DOMAIN frame[r].rows |->
                       IF i \in DOMAIN table THEN Patch(frame[r].rows[i], table[i])
                       ELSE frame[r].rows[i]]
             absent == DOMAIN frame[r].rows \ DOMAIN table
  <2>1. /\ pc[r] = "load" /\ call' = call /\ table' = table /\ id \in Ids
        /\ DOMAIN frame[r].rows = {id} /\ entity \in Row
        /\ GoTo(r, "write", [rows |-> new, absent |-> absent])
    BY <1>0, <1>5 DEF Load, Asks, Carries, IsCall
  <2>2. pc'[r] = "write" /\ frame'[r] = [rows |-> new, absent |-> absent]
    BY <2>1, GoesTo, LabelsAre
  <2>3. DOMAIN new = {id} /\ absent \subseteq {id} /\ (id \in DOMAIN table <=> absent = {})
    BY <2>1
  <2>4. new[id] = IF id \in DOMAIN table THEN Patch(entity, table[id]) ELSE entity
    BY <2>1
  <2>5. /\ IsPartial(new[id]) /\ DOMAIN new[id] \subseteq DOMAIN entity
        /\ \A c \in DOMAIN new[id] : new[id][c] = entity[c]
        /\ id \notin DOMAIN table => new[id] \in Row
        /\ id \in DOMAIN table /\ "password" \in DOMAIN entity
             /\ entity["password"] # table[id].password => "password" \in DOMAIN new[id]
    BY <1>0, <2>1, <2>4, PatchIsPartial, RowIsPartial
  <2> HIDE DEF new, absent
  <2>6. QED
    BY <1>5, <2>1, <2>2, <2>3, <2>5 DEF Saved
<1>6. QED
  BY <1>2, <1>3, <1>4, <1>5

\* The rows that a write leaves: those of the table, with the columns of its
\* entity in the row of the target, or the whole entity where there was none.
LEMMA Writes ==
    ASSUME AccountsInv, NEW r \in Requests, Write(r)
    PROVE  LET target == call[r].target
               entity == frame[r].rows[target]
           IN  /\ pc[r] = "write" /\ pc'[r] \in {"ok", "aborted"} /\ call' = call
               /\ target \in Ids
               /\ DOMAIN frame[r].rows = {target} /\ IsPartial(entity)
               /\ DOMAIN table' = DOMAIN table \cup frame[r].absent
               /\ frame[r].absent \subseteq {target} \ DOMAIN table
               /\ \A id \in DOMAIN table : id # target => table'[id] = table[id]
               /\ target \in frame[r].absent => table'[target] = entity /\ entity \in Row
               /\ target \in DOMAIN table =>
                    /\ table'[target] \in Row
                    /\ \A c \in Columns :
                         table'[target][c] = IF c \in DOMAIN entity THEN entity[c]
                                             ELSE table[target][c]
<1> DEFINE target == call[r].target
           entity == frame[r].rows[target]
           absent == frame[r].absent
<1>1. /\ pc[r] = "write" /\ absent \cap DOMAIN table = {} /\ table' = Written(r)
      /\ call' = call /\ \E status \in {"ok", "aborted"} : Answer(r, status)
  BY DEF Write
<1>2. pc'[r] \in {"ok", "aborted"}
  BY <1>1 DEF Answer, GoTo, AccountsInv
<1>3. /\ Asks(r) /\ Carries(r) /\ \A id \in DOMAIN table : table[id] \in Row
  BY DEF AccountsInv
<1>4. /\ DOMAIN frame[r].rows = {target} /\ IsPartial(entity) /\ absent \subseteq {target}
      /\ \A id \in absent : frame[r].rows[id] \in Row
      /\ target \in Ids
  BY <1>1, <1>3 DEF Carries, Asks, IsCall
<1>5. /\ DOMAIN table' = DOMAIN table \cup absent
      /\ \A id \in DOMAIN table' :
            table'[id] = IF id \in absent THEN frame[r].rows[id]
                         ELSE IF id \in DOMAIN frame[r].rows
                                THEN Spread(table[id], frame[r].rows[id])
                         ELSE table[id]
  BY <1>1 DEF Written
<1>6. target \in DOMAIN table =>
        /\ table'[target] = Spread(table[target], entity)
        /\ Spread(table[target], entity) \in Row
        /\ \A c \in Columns : Spread(table[target], entity)[c] =
                                IF c \in DOMAIN entity THEN entity[c] ELSE table[target][c]
  BY <1>1, <1>3, <1>4, <1>5, SpreadRow
<1> HIDE DEF target, entity, absent
<1>7. \A id \in DOMAIN table : id # target => table'[id] = table[id]
  BY <1>1, <1>4, <1>5 DEF absent
<1>8. target \in absent => table'[target] = entity /\ entity \in Row
  BY <1>4, <1>5 DEF entity, absent
<1>9. QED
  BY <1>1, <1>2, <1>4, <1>5, <1>6, <1>7, <1>8 DEF target, entity, absent

\* No row goes, and the row that a step adds is its own, or one of Dropped.
LEMMA TableGrows ==
    ASSUME AccountsInv, NEW r \in Requests, Step(r)
    PROVE  /\ DOMAIN table \subseteq DOMAIN table' /\ Known \subseteq Known'
           /\ DOMAIN table' \subseteq DOMAIN table \cup Dropped \cup {r}
           /\ \A q \in Requests : Running(q)' => Running(q)
           /\ r \in DOMAIN table' => ~Running(r)' /\ Creating(call[r]) /\ call[r].target = r
                                     /\ call' = call
<1>0. Running(r) /\ Asks(r) /\ \A q \in Requests : Running(q)' => Running(q)
  BY StepOfOne DEF AccountsInv, Running
<1>1. CASE table' = table
  BY <1>0, <1>1 DEF Known, Asks
<1>2. CASE Write(r)
  <2>1. /\ pc[r] = "write" /\ pc'[r] \in {"ok", "aborted"} /\ call' = call
        /\ DOMAIN table' = DOMAIN table \cup frame[r].absent
        /\ frame[r].absent \subseteq {call[r].target} \ DOMAIN table
    BY <1>2, Writes
  <2>2. ~Running(r)'
    BY <2>1, LabelsAre DEF Running, Answers
  <2>3. Creating(call[r]) \/ Updating(call[r])
    BY <1>0, <2>1 DEF Asks
  <2>4. QED
    BY <1>0, <2>1, <2>2, <2>3, EarlyAndRequests DEF Known, Asks
<1>3. QED
  BY <1>1, <1>2, StepOfOne

LEMMA OthersCarry ==
    ASSUME AccountsInv, NEW r \in Requests, Step(r), NEW q \in Requests \ {r}
    PROVE  Asks(q)' /\ Carries(q)'
<1>0. /\ Asks(q) /\ Carries(q) /\ pc'[q] = pc[q] /\ call'[q] = call[q] /\ frame'[q] = frame[q]
      /\ DOMAIN table \subseteq DOMAIN table'
      /\ DOMAIN table' \subseteq DOMAIN table \cup Dropped \cup {r}
      /\ \A i \in Requests : Running(i)' => Running(i)
  BY StepOfOne, TableGrows DEF AccountsInv
<1>1. Asks(q)'
  BY <1>0, EarlyAndRequests DEF Asks
<1>2. Partial(q)' = Partial(q)
  BY <1>0 DEF Partial
<1>3. (\A id \in DOMAIN frame[q].rows : SaltedBefore(frame[q].rows[id], q))'
  BY <1>0 DEF Carries, SaltedBefore
<1>4. Carries(q)'
  BY <1>0, <1>2, <1>3 DEF Carries
<1>5. QED
  BY <1>1, <1>4

\* A request that carries nothing.
LEMMA EmptyCarries ==
    ASSUME NEW r \in Requests, frame'[r] = NoFrame, pc'[r] \notin SavingSteps,
           pc'[r] \notin {"loginCompare", "changeCompare"}
    PROVE  Carries(r)'
BY NoFrameIsEmpty DEF Carries, SavingSteps

\* A request whose call is what it is about.
LEMMA AskingGoesOn ==
    ASSUME AccountsInv, NEW r \in Requests, Step(r), pc[r] # "idle",
           \/ pc'[r] \in Answers
           \/ /\ call' = call
              /\ pc'[r] \in SavingSteps \cup {"hash", "changeCompare", "changeHash"},
           pc'[r] = "hash" => Creating(call[r]),
           pc'[r] \in {"changeCompare", "changeHash"} =>
               call[r].kind = "change" /\ call[r].id \in DOMAIN table,
           pc'[r] = "updateFind" => Updating(call[r]),
           pc'[r] \in {"load", "write"} =>
               \/ Creating(call[r])
               \/ Updating(call[r]) /\ call[r].id \in DOMAIN table
    PROVE  Asks(r)'
<1>1. /\ Asks(r) /\ IsCall(call'[r]) /\ call'[r].kind = call[r].kind
      /\ call'[r].target = call[r].target /\ call'[r].columns = call[r].columns
      /\ call[r].kind # "login" => call'[r] = call[r]
  BY CallKept DEF AccountsInv
<1>2. /\ DOMAIN table \subseteq DOMAIN table'
      /\ r \in DOMAIN table' => ~Running(r)' /\ Creating(call[r]) /\ call[r].target = r
  BY TableGrows
<1>3. Creating(call'[r]) = Creating(call[r]) /\ Updating(call'[r]) = Updating(call[r])
  BY <1>1 DEF Creating, Updating
<1>4. pc'[r] \in Answers => pc'[r] \notin {"idle"} \cup InFlight
  BY LabelsAre
<1>5. QED
  BY <1>1, <1>2, <1>3, <1>4, LabelsAre DEF Asks, SavingSteps, Creating, Updating

LEMMA StartCarries ==
    ASSUME AccountsInv, NEW r \in Requests, Start(r)
    PROVE  Asks(r)' /\ Carries(r)'
<1>0. /\ DOMAIN call = Requests /\ pc[r] = "idle" /\ table' = table /\ call[r] = NoCall
      /\ r \notin DOMAIN table /\ Step(r)
  BY Begins DEF AccountsInv, Asks, Running, Step
<1>1. PICK args : Begun(r, args) /\ call' = [call EXCEPT ![r] = args]
  BY Begins
<1>2. call'[r] = args /\ IsCall(args)
  BY <1>0, <1>1 DEF Begun
<1>3. CASE /\ args.kind = "register" /\ GoTo(r, "registerFind", NoFrame)
           /\ args.target \in Known \cup {r}
  BY <1>0, <1>2, <1>3, GoesTo, LabelsAre, EmptyCarries
  DEF Asks, Creating, Updating, SavingSteps, Known
<1>4. CASE args.kind = "seed" /\ GoTo(r, "hash", NoFrame) /\ args.target = r
  BY <1>0, <1>2, <1>4, GoesTo, LabelsAre, EmptyCarries
  DEF Asks, Creating, Updating, SavingSteps
<1>5. CASE args.kind = "login" /\ GoTo(r, "loginFind", NoFrame)
  BY <1>0, <1>2, <1>5, GoesTo, LabelsAre, EmptyCarries
  DEF Asks, Creating, Updating, SavingSteps
<1>6. CASE /\ args.kind = "change" /\ GoTo(r, "changeFind", NoFrame)
           /\ args.target \in Known
  BY <1>0, <1>2, <1>6, GoesTo, LabelsAre, EmptyCarries
  DEF Asks, Creating, Updating, SavingSteps, Known
<1>7. CASE /\ args.kind = "profile" /\ BeginUpdate(r, {args.id}, args.columns)
           /\ args.target \in Known
           /\ "password" \in DOMAIN args.columns => args.columns["password"] = Text(r)
  <2>1. /\ pc'[r] = "updateFind"
        /\ frame'[r] = [rows |-> [id \in {args.id} |-> args.columns], absent |-> {}]
    BY <1>7, GoesTo, LabelsAre DEF BeginUpdate
  <2>2. Partial(r)' = args.columns
    BY <1>2, <1>7 DEF Partial
  <2>3. Asks(r)'
    BY <1>0, <1>2, <1>7, <2>1 DEF Asks, Creating, Updating, Known
  <2>4. (\A id \in DOMAIN frame[r].rows : SaltedBefore(frame[r].rows[id], r))'
    <3>1. \A id \in DOMAIN frame'[r].rows : frame'[r].rows[id] = args.columns
      BY <2>1
    <3>2. "password" \in DOMAIN args.columns => args.columns["password"].salt = r
      BY <1>7 DEF Text
    <3>3. QED
      BY <3>1, <3>2 DEF SaltedBefore
  <2>5. Carries(r)'
    BY <1>2, <2>1, <2>2, <2>4 DEF Carries, SavingSteps
  <2>6. QED
    BY <2>3, <2>5
<1>8. QED
  BY <1>1, <1>3, <1>4, <1>5, <1>6, <1>7 DEF Begun

\* A request that has come to the save of its entity, or on to its write.
LEMMA SavesCarry ==
    ASSUME AccountsInv, NEW r \in Requests, Step(r), pc'[r] \in {"load", "write"}
    PROVE  Asks(r)' /\ Carries(r)'
<1> DEFINE target == call[r].target
           entity == frame'[r].rows[target]
<1>0. /\ Asks(r) /\ Carries(r) /\ Running(r) /\ IsCall(call[r])
      /\ \A q \in Requests : Running(q)' => Running(q)
      /\ \A id \in DOMAIN table : /\ table[id] \in Row
                                  /\ \A q \in Requests : Running(q) => table[id].password.salt # q
  BY StepOfOne, TableGrows DEF AccountsInv, Asks
<1>1. /\ call' = call /\ table' = table /\ target \in Ids
      /\ DOMAIN frame'[r].rows = {target} /\ frame'[r].absent \subseteq {target}
      /\ IsPartial(entity)
      /\ frame'[r].absent # {} \/ pc'[r] = "load" => entity \in Row
      /\ Saved(r, entity)
      /\ pc[r] = "load" /\ pc'[r] = "write" /\ target \in DOMAIN table =>
           /\ frame'[r].absent = {}
           /\ \A c \in {"password"} \cap DOMAIN frame[r].rows[target] :
                frame[r].rows[target][c] # table[target].password => c \in DOMAIN entity
      /\ pc[r] # "load" /\ pc'[r] = "write" => target = r
  BY Saves
<1> HIDE DEF entity
<1>2. CASE pc[r] = "load"
  <2>1. /\ DOMAIN entity \subseteq DOMAIN frame[r].rows[target]
        /\ \A c \in DOMAIN entity : entity[c] = frame[r].rows[target][c]
        /\ Load(r)
    BY <1>1, <1>2 DEF Saved
  <2>2. pc'[r] = "write"
    BY <1>2, <2>1, GoesTo, LabelsAre DEF Load
  <2>3. SaltedBefore(frame[r].rows[target], r)
    BY <1>0, <1>2 DEF Carries
  <2>4. "password" \in DOMAIN entity =>
            \A q \in Requests \ {r} : Running(q)' => entity["password"].salt # q
    BY <1>0, <2>1, <2>3 DEF SaltedBefore
  <2>5. ASSUME call[r].kind = "change"
        PROVE  /\ call[r].id \in DOMAIN table /\ frame'[r].absent = {}
               /\ "password" \in DOMAIN entity
               /\ entity["password"] = Hash(call[r].password, r)
    <3>1. /\ call[r].id \in DOMAIN table /\ target = call[r].id
          /\ "password" \in DOMAIN frame[r].rows[target]
          /\ frame[r].rows[target]["password"] = Hash(call[r].password, r)
      BY <1>0, <1>2, <2>5 DEF Asks, Carries, IsCall
    <3>2. Hash(call[r].password, r).salt = r
      BY DEF Hash
    <3>3. frame[r].rows[target]["password"] # table[target].password
      BY <1>0, <3>1, <3>2
    <3>4. QED
      BY <1>1, <1>2, <2>1, <2>2, <3>1, <3>3
  <2>6. Asks(r)'
    <3>1. Creating(call[r]) \/ Updating(call[r])
      BY <1>0, <1>2 DEF Asks
    <3>2. QED
      BY <1>0, <1>1, <1>2, <2>2, <2>5, <3>1, LabelsAre DEF Asks, Running
  <2>7. Carries(r)'
    BY <1>1, <2>2, <2>4, <2>5 DEF Carries, SavingSteps, SaltedBefore, entity
  <2>8. QED
    BY <2>6, <2>7
<1>3. CASE pc[r] = "hash"
  <2>1. Creating(call[r]) /\ entity = NewUser(r)
    BY <1>1, <1>3 DEF Saved
  <2>2. /\ NewUser(r) \in Row /\ SaltedBefore(NewUser(r), r)
    BY <2>1, NewUserIsRow
  <2>3. "password" \in DOMAIN entity =>
            \A q \in Requests \ {r} : Running(q)' => entity["password"].salt # q
    BY <1>0, <2>1, <2>2 DEF SaltedBefore
  <2>4. call[r].kind # "change"
    BY <2>1 DEF Creating
  <2>5. Asks(r)'
    BY <1>0, <1>1, <1>3, <2>1, <2>4, LabelsAre DEF Asks, Running
  <2>6. Carries(r)'
    BY <1>1, <2>1, <2>2, <2>3, <2>4 DEF Carries, SavingSteps, SaltedBefore, entity
  <2>7. QED
    BY <2>5, <2>6
<1>4. CASE pc[r] = "updateFind"
  <2>1. /\ Updating(call[r]) /\ entity \in Row /\ call[r].id \in DOMAIN table
        /\ \A c \in Columns : entity[c] = IF c \in DOMAIN Partial(r) THEN Partial(r)[c]
                                          ELSE table[call[r].id][c]
    BY <1>1, <1>4 DEF Saved
  <2>2. SaltedBefore(Partial(r), r)
    BY <2>1, PartialIsPartial
  <2>3. \A q \in Requests \ {r} : Running(q)' => entity["password"].salt # q
    BY <1>0, <2>1, <2>2, RowIsPartial DEF SaltedBefore, Columns
  <2>4. ASSUME call[r].kind = "change"
        PROVE  /\ pc'[r] = "load" /\ "password" \in DOMAIN entity
               /\ entity["password"] = Hash(call[r].password, r)
    <3>1. target = call[r].id /\ r \notin DOMAIN table
      BY <1>0, <2>4 DEF IsCall, Asks
    <3>2. pc'[r] # "write"
      BY <1>1, <1>4, <2>1, <3>1
    <3>3. QED
      BY <2>1, <2>4, <3>2, RowIsPartial DEF Partial, Columns
  <2>5. Asks(r)'
    BY <1>0, <1>1, <1>4, <2>1, LabelsAre DEF Asks, Running
  <2>6. Carries(r)'
    BY <1>1, <2>1, <2>3, <2>4 DEF Carries, SavingSteps, SaltedBefore, entity
  <2>7. QED
    BY <2>5, <2>6
<1>5. QED
  BY <1>1, <1>2, <1>3, <1>4 DEF Saved

\* A row that a request finds.
LEMMA FoundCarries ==
    ASSUME AccountsInv, NEW r \in Requests, Step(r), NEW id \in DOMAIN table,
           pc'[r] \in {"loginCompare", "changeCompare"}, call'[r].id = id,
           frame'[r] = [rows |-> [i \in {id} |-> table[id]], absent |-> {}]
    PROVE  Carries(r)'
<1>1. /\ table[id] \in Row
      /\ \A q \in Requests : Running(q)' => table[id].password.salt # q
  BY TableGrows DEF AccountsInv
<1>2. (\A i \in DOMAIN frame[r].rows : SaltedBefore(frame[r].rows[i], r))'
  BY <1>1 DEF SaltedBefore
<1>3. QED
  BY <1>1, <1>2 DEF Carries, SavingSteps

LEMMA ContinueCarries ==
    ASSUME AccountsInv, NEW r \in Requests, Continue(r) \/ Abort(r)
    PROVE  Asks(r)' /\ Carries(r)'
<1>0. /\ Asks(r) /\ Carries(r) /\ Step(r) /\ DOMAIN pc = Requests /\ DOMAIN call = Requests
      /\ DOMAIN frame = Requests /\ IsCall(call[r]) /\ pc[r] \in InFlight /\ pc[r] # "idle"
  <2>1. pc[r] \in InFlight
    BY LabelsAre DEF Continue, Abort, RegisterFind, HashAndSave, LoginFind, LoginCompare,
       ChangeFind, ChangeCompare, ChangeHash, UpdateFind, UpdateMissing, Load, Write,
       WriteConflict
  <2>2. QED
    BY <2>1, LabelsAre DEF AccountsInv, Step, Asks
<1>1. CASE pc'[r] \in {"load", "write"}
  BY <1>0, <1>1, SavesCarry
<1>2. CASE pc'[r] \in Answers /\ frame'[r] = NoFrame
  <2>1. Carries(r)'
    BY <1>2, LabelsAre, EmptyCarries DEF SavingSteps
  <2>2. Asks(r)'
    BY <1>0, <1>2, LabelsAre, AskingGoesOn DEF SavingSteps
  <2>3. QED
    BY <2>1, <2>2
<1>3. CASE RegisterFind(r) \/ ChangeCompare(r)
  <2>1. CASE pc'[r] \in {"hash", "changeHash"}
    <3>1. /\ frame'[r] = NoFrame /\ call' = call
          /\ \/ pc[r] = "registerFind" /\ pc'[r] = "hash"
             \/ pc[r] = "changeCompare" /\ pc'[r] = "changeHash"
      BY <1>0, <1>3, <2>1 DEF RegisterFind, ChangeCompare, Answer, GoTo
    <3>2. Carries(r)'
      BY <3>1, EmptyCarries DEF SavingSteps
    <3>3. Asks(r)'
      BY <1>0, <3>1, LabelsAre, AskingGoesOn DEF SavingSteps, Asks, Creating
    <3>4. QED
      BY <3>2, <3>3
  <2>2. CASE pc'[r] \notin {"hash", "changeHash"}
    BY <1>0, <1>2, <1>3, <2>2 DEF RegisterFind, ChangeCompare, Answer, Answers, GoTo
  <2>3. QED
    BY <2>1, <2>2
<1>4. CASE LoginCompare(r) \/ UpdateMissing(r) \/ Write(r) \/ WriteConflict(r) \/ Abort(r)
  BY <1>0, <1>2, <1>4 DEF LoginCompare, UpdateMissing, Write, WriteConflict, Abort, Answer,
     Answers, GoTo
<1>5. CASE HashAndSave(r) \/ UpdateFind(r) \/ Load(r)
  BY <1>0, <1>1, <1>5 DEF HashAndSave, UpdateFind, Load, Save, GoTo
<1>6. CASE LoginFind(r)
  <2>1. CASE Answer(r, "unauthorized")
    BY <1>0, <1>2, <2>1 DEF Answer, Answers, GoTo
  <2>2. ASSUME NEW id \in DOMAIN table, call' = [call EXCEPT ![r].id = id],
               GoTo(r, "loginCompare", [rows |-> [i \in {id} |-> table[id]], absent |-> {}])
        PROVE  Asks(r)' /\ Carries(r)'
    <3>1. /\ pc[r] = "loginFind" /\ call[r].kind = "login" /\ r \notin DOMAIN table'
          /\ pc'[r] = "loginCompare" /\ table' = table
          /\ frame'[r] = [rows |-> [i \in {id} |-> table[id]], absent |-> {}]
      BY <1>0, <1>6, <2>2, LabelsAre DEF LoginFind, Asks, GoTo, Running
    <3>2. call'[r] = [call[r] EXCEPT !.id = id]
      BY <1>0, <2>2
    <3>3. call'[r].id = id /\ IsCall(call'[r]) /\ call'[r].kind = "login"
      BY <1>0, <3>1, <3>2, CallKept DEF IsCall, Fields
    <3>4. Asks(r)'
      BY <3>1, <3>3, LabelsAre DEF Asks, Creating, Updating
    <3>5. Carries(r)'
      BY <1>0, <3>1, <3>3, FoundCarries
    <3>6. QED
      BY <3>4, <3>5
  <2>3. QED
    BY <1>6, <2>1, <2>2 DEF LoginFind
<1>7. CASE ChangeFind(r)
  <2>1. CASE Answer(r, "userNotFound") \/ Answer(r, "samePassword")
    BY <1>0, <1>2, <2>1 DEF Answer, Answers, GoTo
  <2>2. CASE ~(Answer(r, "userNotFound") \/ Answer(r, "samePassword"))
    <3> DEFINE id == call[r].id
    <3>1. /\ id \in DOMAIN table /\ call' = call /\ call[r].kind = "change"
          /\ GoTo(r, "changeCompare", [rows |-> [i \in {id} |-> table[id]], absent |-> {}])
      BY <1>0, <1>7, <2>2 DEF ChangeFind, Asks
    <3>2. /\ pc'[r] = "changeCompare"
          /\ frame'[r] = [rows |-> [i \in {id} |-> table[id]], absent |-> {}]
      BY <1>0, <3>1 DEF GoTo
    <3>3. Asks(r)'
      BY <1>0, <3>1, <3>2, LabelsAre, AskingGoesOn DEF SavingSteps
    <3>4. Carries(r)'
      BY <1>0, <3>1, <3>2, FoundCarries
    <3>5. QED
      BY <3>3, <3>4
  <2>3. QED
    BY <2>1, <2>2
<1>8. CASE ChangeHash(r)
  <2> DEFINE id == call[r].id
             f == [password |-> Hash(call[r].password, r)]
  <2>1. /\ pc[r] = "changeHash" /\ pc'[r] = "updateFind" /\ call' = call
        /\ frame'[r] = [rows |-> [i \in {id} |-> f], absent |-> {}]
        /\ call[r].kind = "change" /\ Updating(call[r])
    BY <1>0, <1>8 DEF ChangeHash, BeginUpdate, Asks, GoTo, Updating
  <2>2. f = Partial(r) /\ Partial(r)' = f
    BY <2>1 DEF Partial
  <2>3. \A q \in Requests \ {r} : f["password"].salt # q
    BY DEF Hash
  <2>4. (\A i \in DOMAIN frame[r].rows : SaltedBefore(frame[r].rows[i], r))'
    BY <2>1, <2>3 DEF SaltedBefore
  <2>5. Asks(r)'
    BY <1>0, <2>1, LabelsAre, AskingGoesOn DEF SavingSteps
  <2> HIDE DEF f
  <2>6. Carries(r)'
    BY <2>1, <2>2, <2>4 DEF Carries, SavingSteps
  <2>7. QED
    BY <2>5, <2>6
<1>9. QED
  BY <1>3, <1>4, <1>5, <1>6, <1>7, <1>8 DEF Continue

LEMMA TableStep ==
    ASSUME AccountsInv, NEW r \in Requests, Step(r), NEW id \in DOMAIN table'
    PROVE  /\ id \in Ids /\ table'[id] \in Row
           /\ \A q \in Requests : Running(q)' => table'[id].password.salt # q
<1>0. /\ \A q \in Requests : Running(q)' => Running(q)
      /\ \A i \in DOMAIN table :
           /\ i \in Ids /\ table[i] \in Row
           /\ \A q \in Requests : Running(q) => table[i].password.salt # q
      /\ Carries(r) /\ Running(r)
  BY TableGrows, StepOfOne DEF AccountsInv
<1>1. CASE table' = table
  BY <1>0, <1>1
<1>2. CASE Write(r)
  <2> DEFINE target == call[r].target
             entity == frame[r].rows[target]
  <2>1. /\ pc[r] = "write" /\ pc'[r] \in {"ok", "aborted"} /\ target \in Ids
        /\ DOMAIN table' = DOMAIN table \cup frame[r].absent
        /\ frame[r].absent \subseteq {target} \ DOMAIN table
        /\ DOMAIN frame[r].rows = {target}
        /\ id \in DOMAIN table /\ id # target => table'[id] = table[id]
        /\ target \in frame[r].absent => table'[target] = entity /\ entity \in Row
        /\ target \in DOMAIN table =>
             /\ table'[target] \in Row
             /\ \A c \in Columns : table'[target][c] = IF c \in DOMAIN entity THEN entity[c]
                                                       ELSE table[target][c]
    BY <1>2, Writes
  <2>2. ~Running(r)'
    BY <2>1, LabelsAre DEF Running, Answers
  <2>3. SaltedBefore(entity, r)
    BY <1>0, <2>1 DEF Carries
  <2> HIDE DEF entity
  <2>4. CASE id # target
    BY <1>0, <2>1, <2>4
  <2>5. CASE id = target /\ target \in DOMAIN table
    BY <1>0, <2>1, <2>2, <2>3, <2>5, RowIsPartial DEF SaltedBefore, Columns
  <2>6. CASE id = target /\ target \notin DOMAIN table
    BY <1>0, <2>1, <2>2, <2>3, <2>6, RowIsPartial DEF SaltedBefore, Columns
  <2>7. QED
    BY <2>4, <2>5, <2>6
<1>3. QED
  BY <1>1, <1>2, StepOfOne

LEMMA AccountsInvStep == AccountsInv /\ [Next]_vars => AccountsInv'
<1> SUFFICES ASSUME AccountsInv, [Next]_vars PROVE AccountsInv'
  OBVIOUS
<1>1. CASE UNCHANGED vars
  <2>1. UNCHANGED <<table, pc, call, frame>>
    BY <1>1 DEF vars
  <2>2. \A q \in Requests : Asks(q)'
    BY <2>1 DEF AccountsInv, Asks, Running
  <2>3. \A q \in Requests : Carries(q)'
    BY <2>1 DEF AccountsInv, Carries, SaltedBefore, Partial, Running
  <2>4. QED
    BY <2>1, <2>2, <2>3 DEF AccountsInv, Running
<1>2. ASSUME NEW r \in Requests, Start(r) \/ Continue(r) \/ Abort(r) PROVE AccountsInv'
  <2>1. Step(r)
    BY <1>2 DEF Step
  <2>2. \A q \in Requests : Asks(q)' /\ Carries(q)'
    BY <1>2, <2>1, OthersCarry, StartCarries, ContinueCarries
  <2>3. QED
    BY <2>1, <2>2, StepOfOne, TableStep DEF AccountsInv
<1>3. QED
  BY <1>1, <1>2 DEF Next

LEMMA AccountsInvAlways == Spec => []AccountsInv
<1>1. QED
  BY AccountsInvInit, AccountsInvStep, PTL DEF Spec

\* Every row is whole and well typed whatever columns the bodies gave and
\* whichever rows they named, and a login or a change that compares a password
\* has the row of its user to compare it with.
THEOREM AccountsTypeCorrect == Spec => []TypeOK
<1>1. AccountsInv => TypeOK
  <2> SUFFICES ASSUME AccountsInv PROVE TypeOK
    OBVIOUS
  <2>1. ASSUME NEW r \in Requests
        PROVE  /\ \A id \in frame[r].absent : frame[r].rows[id] \in Row
               /\ pc[r] \in {"loginCompare", "changeCompare", "load"} =>
                     \A id \in DOMAIN frame[r].rows : frame[r].rows[id] \in Row
               /\ pc[r] \in {"loginCompare", "changeCompare"} =>
                     call[r].id \in DOMAIN frame[r].rows
    BY DEF AccountsInv, Carries
  <2>2. QED
    BY <2>1 DEF AccountsInv, TypeOK, Labels
<1>2. QED
  BY <1>1, AccountsInvAlways, PTL
-----------------------------------------------------------------------------
(***************************************************************************)
(* Changes of a password.                                                  *)
(***************************************************************************)
\* A change that is answered "ok" writes its hash into the row of its user.
LEMMA ChangeWrites ==
    ASSUME AccountsInv, NEW r \in Requests, Step(r), pc[r] # "ok", pc'[r] = "ok",
           call'[r].kind = "change"
    PROVE  /\ Write(r) /\ call' = call /\ call[r].kind = "change"
           /\ call[r].id \in DOMAIN table /\ call[r].target = call[r].id
           /\ table'[call[r].id].password = Hash(call[r].password, r)
<1>0. Asks(r) /\ Carries(r) /\ DOMAIN pc = Requests /\ DOMAIN call = Requests
      /\ IsCall(call[r])
  BY DEF AccountsInv, Asks
<1>1. pc[r] # "idle"
  <2>1. SUFFICES ASSUME Start(r) PROVE pc'[r] # "ok"
    BY <1>0, LabelsAre DEF Step, Continue, Abort, RegisterFind, HashAndSave, LoginFind,
       LoginCompare, ChangeFind, ChangeCompare, ChangeHash, UpdateFind, UpdateMissing, Load,
       Write, WriteConflict
  <2>2. PICK args : Begun(r, args)
    BY <2>1, Begins
  <2>3. QED
    BY <1>0, <2>2 DEF Begun, BeginUpdate, GoTo
<1>2. call[r].kind = "change" /\ call' = call
  BY <1>1, CallKept, StepOfOne
<1>3. Write(r)
  <2>1. pc[r] \notin {"loginFind", "loginCompare"}
    BY <1>0, <1>2 DEF Asks
  <2>2. ~Start(r)
    BY <1>1, Begins
  <2>3. QED
    BY <1>0, <1>2, <2>1, <2>2 DEF Step, Continue, Abort, RegisterFind, HashAndSave,
       LoginFind, LoginCompare, ChangeFind, ChangeCompare, ChangeHash, BeginUpdate,
       UpdateFind, UpdateMissing, Load, WriteConflict, Save, Answer, GoTo
<1>4. /\ pc[r] = "write" /\ call[r].target = call[r].id /\ call[r].id \in DOMAIN table
      /\ "password" \in DOMAIN frame[r].rows[call[r].target]
      /\ frame[r].rows[call[r].target]["password"] = Hash(call[r].password, r)
  BY <1>0, <1>2, <1>3 DEF Write, Asks, Carries, IsCall
<1>5. /\ table'[call[r].id] \in Row
      /\ table'[call[r].id]["password"] = Hash(call[r].password, r)
  BY <1>3, <1>4, Writes DEF Columns
<1>6. table'[call[r].id].password = Hash(call[r].password, r)
  BY <1>5, RowIsPartial
<1>7. QED
  BY <1>2, <1>3, <1>4, <1>6

\* When a change of password is answered "ok" its new hash is in the row of its
\* user, whatever other requests wrote since it compared the old password: its
\* hash is in nobody's hands before it writes, so save finds it different from
\* what is stored and puts it into the UPDATE.
THEOREM ChangesAreStored == Spec => ChangeStored
<1> DEFINE Stored(r) == pc[r] # "ok" /\ pc'[r] = "ok" /\ call[r].kind = "change" =>
                          table'[call[r].id].password = Hash(call[r].password, r)
<1>1. ASSUME AccountsInv, [Next]_vars, NEW r \in Requests PROVE Stored(r)
  <2> SUFFICES ASSUME pc[r] # "ok", pc'[r] = "ok", call[r].kind = "change"
               PROVE  table'[call[r].id].password = Hash(call[r].password, r)
    OBVIOUS
  <2>1. PICK q \in Requests : Step(q)
    BY <1>1 DEF Next, vars, Step
  <2>2. q = r /\ pc[r] # "idle"
    BY <1>1, <2>1, StepOfOne, NoCallIsCall DEF AccountsInv, Asks
  <2>3. call'[r].kind = "change"
    BY <1>1, <2>1, <2>2, CallKept
  <2>4. QED
    BY <1>1, <2>1, <2>2, <2>3, ChangeWrites
<1>2. AccountsInv /\ [Next]_vars => [\A r \in Requests : Stored(r)]_vars
  BY <1>1
<1>3. QED
  BY <1>2, AccountsInvAlways, PTL DEF Spec, ChangeStored
-----------------------------------------------------------------------------
(***************************************************************************)
(* Names and emails: a row that no body gave a name has that with which it *)
(* was stored, and so has every entity that will be written to it.         *)
(***************************************************************************)
\* The name or the email that a row is stored with.
First(id, column) ==
    IF id \in Requests THEN call[id][column]
    ELSE IF column = "username" THEN id ELSE None

Kept(id, column) == \A q \in Requests : ~Gives(q, id, column)

\* An entity on its way to the row id has the column.
Brings(q, id, column) ==
    /\ pc[q] \in {"load", "write"} /\ call[q].target = id
    /\ column \in DOMAIN frame[q].rows[id]

Identity == {"username", "email"}

OriginInv ==
    \A id \in Ids, column \in Identity : Kept(id, column) =>
        /\ id \in DOMAIN table => table[id][column] = First(id, column)
        /\ \A q \in Requests : Brings(q, id, column) =>
             frame[q].rows[id][column] = First(id, column)

\* A body that gives a row a column is a body that gave it.
LEMMA GivesLasts ==
    ASSUME AccountsInv, NEW r \in Requests, Step(r), NEW q \in Requests, NEW id, NEW column,
           pc[q] # "idle"
    PROVE  /\ Replaces(q, id)' <=> Replaces(q, id)
           /\ Gives(q, id, column)' <=> Gives(q, id, column)
BY CallKept DEF Gives, Replaces

LEMMA KeptBefore ==
    ASSUME AccountsInv, NEW r \in Requests, Step(r), NEW id, NEW column, Kept(id, column)'
    PROVE  Kept(id, column)
<1> SUFFICES ASSUME NEW q \in Requests, Gives(q, id, column) PROVE FALSE
  BY DEF Kept
<1>1. pc[q] # "idle"
  BY NoCallIsCall DEF AccountsInv, Asks, Gives, Replaces
<1>2. QED
  BY <1>1, GivesLasts DEF Kept

\* An id that a request can name: of a row, of a row that went, or its own.
LEMMA FirstLasts ==
    ASSUME AccountsInv, NEW r \in Requests, Step(r), NEW id, NEW column \in Identity,
           id \in Requests => pc[id] # "idle"
    PROVE  First(id, column)' = First(id, column)
<1>1. CASE id \notin Requests
  BY <1>1 DEF First
<1>2. CASE id \in Requests
  <2>1. call'[id]["username"] = call[id]["username"] /\ call'[id]["email"] = call[id]["email"]
    BY <1>2, CallKept
  <2>2. QED
    BY <1>2, <2>1 DEF First, Identity
<1>3. QED
  BY <1>1, <1>2

LEMMA TargetsBegan ==
    ASSUME AccountsInv
    PROVE  /\ \A id \in DOMAIN table : id \in Requests => pc[id] # "idle"
           /\ \A q \in Requests :
                pc[q] \in {"load", "write"} /\ call[q].target \in Requests =>
                    pc[call[q].target] # "idle"
<1>1. \A id \in DOMAIN table : id \in Requests => pc[id] # "idle"
  BY DEF AccountsInv, Asks, Running
<1>2. ASSUME NEW q \in Requests, pc[q] \in {"load", "write"}
      PROVE  call[q].target \in DOMAIN table \cup Dropped \cup {q}
  BY <1>2 DEF AccountsInv, Asks
<1>3. QED
  BY <1>1, <1>2, EarlyAndRequests

LEMMA OriginInit == Init => OriginInv
<1> SUFFICES ASSUME Init PROVE OriginInv
  OBVIOUS
<1>1. \A id \in DOMAIN table : /\ id \in Early /\ id \notin Requests
                               /\ table[id]["username"] = id /\ table[id]["email"] = None
  BY EarlyAndRequests DEF Init
<1>2. \A q \in Requests : pc[q] = "idle"
  BY DEF Init
<1>3. QED
  BY <1>1, <1>2 DEF OriginInv, Brings, First, Identity

\* What a request carries to the row of its target after a step of its own.
LEMMA OriginCarried ==
    ASSUME AccountsInv, OriginInv, NEW r \in Requests, Step(r), NEW column \in Identity,
           pc'[r] \in {"load", "write"}, Kept(call[r].target, column),
           column \in DOMAIN frame'[r].rows[call[r].target]
    PROVE  frame'[r].rows[call[r].target][column] = First(call[r].target, column)
<1> DEFINE target == call[r].target
           entity == frame'[r].rows[target]
<1>1. Saved(r, entity) /\ target \in Ids
  BY Saves
<1>2. ~Gives(r, target, column) /\ column \in Columns /\ column # "password"
  BY DEF Kept, Identity, Columns
<1>3. IsCall(call[r])
  BY DEF AccountsInv, Asks
<1> HIDE DEF entity
<1>4. CASE pc[r] = "load"
  <2>1. /\ column \in DOMAIN frame[r].rows[target]
        /\ entity[column] = frame[r].rows[target][column]
    BY <1>1, <1>4 DEF Saved, entity
  <2>2. QED
    BY <1>1, <1>4, <2>1 DEF OriginInv, Brings, entity
<1>5. CASE pc[r] = "hash"
  <2>1. Creating(call[r]) /\ entity = NewUser(r)
    BY <1>1, <1>5 DEF Saved
  <2>2. target = r
    BY <1>2, <2>1 DEF Gives, Replaces, Creating, AccountsInv, Asks
  <2>3. NewUser(r)["username"] = call[r]["username"] /\ NewUser(r)["email"] = call[r]["email"]
    BY DEF NewUser
  <2>4. QED
    BY <2>1, <2>2, <2>3 DEF First, Identity, entity
<1>6. CASE pc[r] = "updateFind"
  <2>1. /\ Updating(call[r]) /\ call[r].id \in DOMAIN table
        /\ entity[column] = IF column \in DOMAIN Partial(r) THEN Partial(r)[column]
                            ELSE table[call[r].id][column]
    BY <1>1, <1>2, <1>6 DEF Saved
  <2>2. column \notin DOMAIN Partial(r) /\ call[r].id = target
    BY <1>2, <1>3, <2>1 DEF Gives, Replaces, Updating, Partial, IsCall
  <2>3. QED
    BY <1>1, <2>1, <2>2 DEF OriginInv, entity
<1>7. QED
  BY <1>1, <1>4, <1>5, <1>6 DEF Saved

LEMMA OriginStep ==
    ASSUME AccountsInv, OriginInv, NEW r \in Requests, Step(r)
    PROVE  OriginInv'
<1> SUFFICES ASSUME NEW id \in Ids, NEW column \in Identity, Kept(id, column)'
             PROVE  /\ id \in DOMAIN table' => table'[id][column] = First(id, column)'
                    /\ \A q \in Requests : Brings(q, id, column)' =>
                         frame'[q].rows[id][column] = First(id, column)'
  BY DEF OriginInv
<1>1. /\ Kept(id, column) /\ column \in Columns
      /\ id \in DOMAIN table => table[id][column] = First(id, column)
      /\ \A q \in Requests : Brings(q, id, column) =>
           frame[q].rows[id][column] = First(id, column)
  BY KeptBefore DEF OriginInv, Identity, Columns
<1>2. ASSUME id \in DOMAIN table'
      PROVE  table'[id][column] = First(id, column)'
  <2>1. CASE table' = table
    <3>1. First(id, column)' = First(id, column)
      BY <1>2, <2>1, FirstLasts, TargetsBegan
    <3>2. QED
      BY <1>1, <1>2, <2>1, <3>1
  <2>2. CASE Write(r)
    <3> DEFINE target == call[r].target
               entity == frame[r].rows[target]
    <3>1. /\ pc[r] = "write" /\ DOMAIN table' = DOMAIN table \cup frame[r].absent
          /\ frame[r].absent \subseteq {target} \ DOMAIN table
          /\ id \in DOMAIN table /\ id # target => table'[id] = table[id]
          /\ target \in frame[r].absent => table'[target] = entity /\ entity \in Row
          /\ target \in DOMAIN table =>
               table'[target][column] = IF column \in DOMAIN entity THEN entity[column]
                                        ELSE table[target][column]
      BY <1>1, <2>2, Writes
    <3>2. id \in Requests => pc[id] # "idle"
      BY <1>2, <3>1, TargetsBegan
    <3>3. First(id, column)' = First(id, column)
      BY <3>2, FirstLasts
    <3>4. id = target /\ column \in DOMAIN entity => entity[column] = First(id, column)
      BY <1>1, <3>1 DEF Brings
    <3> HIDE DEF entity
    <3>5. QED
      BY <1>1, <1>2, <3>1, <3>3, <3>4, RowIsPartial
  <2>3. QED
    BY <2>1, <2>2, StepOfOne
<1>3. ASSUME NEW q \in Requests, Brings(q, id, column)'
      PROVE  frame'[q].rows[id][column] = First(id, column)'
  <2>1. CASE q # r
    <3>1. pc'[q] = pc[q] /\ call'[q] = call[q] /\ frame'[q] = frame[q]
      BY <2>1, StepOfOne
    <3>2. Brings(q, id, column)
      BY <1>3, <3>1 DEF Brings
    <3>3. First(id, column)' = First(id, column)
      BY <3>2, FirstLasts, TargetsBegan DEF Brings
    <3>4. QED
      BY <1>1, <3>1, <3>2, <3>3
  <2>2. CASE q = r
    <3>1. /\ pc'[r] \in {"load", "write"} /\ call'[r].target = id
          /\ column \in DOMAIN frame'[r].rows[id]
      BY <1>3, <2>2 DEF Brings
    <3>2. call' = call /\ table' = table /\ Saved(r, frame'[r].rows[call[r].target])
      BY <3>1, Saves
    <3>3. frame'[r].rows[id][column] = First(id, column)
      BY <1>1, <3>1, <3>2, OriginCarried
    <3>4. First(id, column)' = First(id, column)
      BY <3>2 DEF First
    <3>5. QED
      BY <2>2, <3>3, <3>4
  <2>3. QED
    BY <2>1, <2>2
<1>4. QED
  BY <1>2, <1>3

\* What a registration found when it looked for its name and its email.
SeenInv ==
    /\ DOMAIN seen = Requests
    /\ \A i \in Requests, j \in Ids : j \in seen[i] =>
         /\ call[i].kind = "register" /\ j \in DOMAIN table
         /\ \A column \in Identity : Kept(j, column) /\ call[i][column] # None =>
              First(j, column) # call[i][column]

LEMMA SeenStep ==
    ASSUME AccountsInv, OriginInv, SeenInv, NEW r \in Requests, Step(r), Observe
    PROVE  SeenInv'
<1>1. /\ DOMAIN seen' = Requests
      /\ \A i \in Requests :
           seen'[i] = IF pc[i] = "registerFind" /\ pc'[i] = "hash" THEN DOMAIN table
                      ELSE seen[i]
  BY DEF Observe
<1> SUFFICES ASSUME NEW i \in Requests, NEW j \in Ids, j \in seen'[i]
             PROVE  /\ call'[i].kind = "register" /\ j \in DOMAIN table'
                    /\ \A column \in Identity :
                         Kept(j, column)' /\ call'[i][column] # None =>
                            First(j, column)' # call'[i][column]
  BY <1>1 DEF SeenInv
<1>2. ASSUME pc[i] = "registerFind", pc'[i] = "hash"
      PROVE  /\ call[i].kind = "register" /\ j \in DOMAIN table
             /\ \A column \in Identity :
                  Kept(j, column) /\ call[i][column] # None =>
                     First(j, column) # call[i][column]
  <2>1. i = r /\ j \in DOMAIN table /\ call[i].kind = "register"
    BY <1>1, <1>2, StepOfOne DEF AccountsInv, Asks
  <2>2. ~Taken(call[i].username, call[i].email)
    <3>1. ~Start(r)
      BY <1>2, <2>1, Begins
    <3>2. RegisterFind(r)
      BY <1>2, <2>1, <3>1, LabelsAre DEF Step, Continue, Abort, RegisterFind, HashAndSave,
         LoginFind, LoginCompare, ChangeFind, ChangeCompare, ChangeHash, UpdateFind,
         UpdateMissing, Load, Write, WriteConflict, Answer, Answers, GoTo, AccountsInv
    <3>3. QED
      BY <1>2, <2>1, <3>2 DEF RegisterFind, Answer, GoTo, AccountsInv
  <2>3. /\ table[j]["username"] # call[i]["username"]
        /\ call[i]["email"] # None => table[j]["email"] # call[i]["email"]
    BY <2>1, <2>2, RowIsPartial DEF Taken, AccountsInv
  <2>4. QED
    BY <2>1, <2>3 DEF OriginInv, Identity
<1>3. /\ call[i].kind = "register" /\ j \in DOMAIN table
      /\ \A column \in Identity : Kept(j, column) /\ call[i][column] # None =>
              First(j, column) # call[i][column]
  BY <1>1, <1>2 DEF SeenInv
<1>4. pc[i] # "idle"
  BY <1>3, NoCallIsCall DEF AccountsInv, Asks
<1>5. call'[i] = call[i] /\ j \in DOMAIN table'
  BY <1>3, <1>4, CallKept, TableGrows
<1>6. ASSUME NEW column \in Identity, Kept(j, column)'
      PROVE  Kept(j, column) /\ First(j, column)' = First(j, column)
  BY <1>3, <1>6, KeptBefore, FirstLasts, TargetsBegan
<1>7. QED
  BY <1>3, <1>5, <1>6
-----------------------------------------------------------------------------
(***************************************************************************)
(* Passwords: where that of a row, and that of an entity on its way to a   *)
(* row, comes from.                                                        *)
(***************************************************************************)
\* A change that has compared the old password.
Compared(q) ==
    /\ Compare(call[q].old, checked[q])
    /\ checked[q] \in held[call[q].id]
    /\ pc[q] \in {"changeHash"} \cup SavingSteps \cup Answers

\* The secret is the password that q put into the row id.
EarnedBy(q, secret, id) ==
    /\ call[q].target = id
    /\ \/ call[q].kind \in {"register", "seed"} /\ secret = Hash(call[q].password, q)
       \/ /\ call[q].kind = "change" /\ secret = Hash(call[q].password, q)
          /\ Compared(q)
       \/ /\ call[q].kind = "profile"
          /\ \/ "password" \in DOMAIN call[q].columns /\ secret = Text(q)
             \/ Replaces(q, id) /\ secret \in held[call[q].id]

Earned(secret, id) ==
    \/ id \in Early \ Dropped /\ secret = Hash(FirstPassword, id)
    \/ \E q \in Requests : EarnedBy(q, secret, id)

EarnedInv ==
    /\ DOMAIN held = Ids /\ DOMAIN checked = Requests
    /\ \A id \in DOMAIN table :
         table[id]["password"] \in held[id] /\ Earned(table[id]["password"], id)
    /\ \A q \in Requests :
         /\ pc[q] = "changeCompare" =>
              frame[q].rows[call[q].id]["password"] \in held[call[q].id]
         /\ call[q].kind = "change" /\ pc[q] \in {"changeHash"} \cup SavingSteps => Compared(q)
         /\ Brings(q, call[q].target, "password") =>
              Earned(frame[q].rows[call[q].target]["password"], call[q].target)

LEMMA EarnedInit ==
    ASSUME HInit
    PROVE  EarnedInv
<1>1. /\ \A q \in Requests : pc[q] = "idle"
      /\ DOMAIN held = Ids /\ DOMAIN checked = Requests /\ DOMAIN table = Early \ Dropped
      /\ \A id \in DOMAIN table : /\ id \in Ids
                                  /\ table[id]["password"] = Hash(FirstPassword, id)
                                  /\ table[id].password = Hash(FirstPassword, id)
  BY EarlyAndRequests DEF HInit, Init
<1>2. \A id \in DOMAIN table : table[id]["password"] \in held[id]
  BY <1>1 DEF HInit
<1>3. QED
  BY <1>1, <1>2 DEF EarnedInv, Earned, Brings, SavingSteps

\* What the history keeps of a row's passwords.
LEMMA HeldStep ==
    ASSUME AccountsInv, EarnedInv, NEW r \in Requests, Step(r), Observe
    PROVE  /\ DOMAIN held' = Ids /\ DOMAIN checked' = Requests
           /\ \A id \in Ids : held[id] \subseteq held'[id]
           /\ \A id \in DOMAIN table' : table'[id]["password"] \in held'[id]
           /\ \A q \in Requests : pc[q] # "changeCompare" => checked'[q] = checked[q]
<1>1. /\ DOMAIN held' = Ids /\ DOMAIN checked' = Requests
      /\ \A id \in Ids :
           held'[id] = held[id] \cup {table'[i].password : i \in {id} \cap DOMAIN table'}
      /\ \A q \in Requests : pc[q] # "changeCompare" => checked'[q] = checked[q]
  BY DEF Observe
<1>2. \A id \in DOMAIN table' : id \in Ids /\ table'[id].password = table'[id]["password"]
  BY TableStep, RowIsPartial
<1>3. QED
  BY <1>1, <1>2

\* A password that is earned stays so.
LEMMA EarnedStays ==
    ASSUME AccountsInv, EarnedInv, NEW r \in Requests, Step(r), Observe
    PROVE  /\ \A q \in Requests : call[q].kind = "change" /\ Compared(q) => Compared(q)'
           /\ \A id, secret : Earned(secret, id) => Earned(secret, id)'
<1>1. ASSUME NEW q \in Requests, call[q].kind = "change", Compared(q)
      PROVE  Compared(q)'
  <2>1. pc[q] # "idle" /\ pc[q] # "changeCompare" /\ IsCall(call[q])
    BY <1>1, LabelsAre DEF Compared, SavingSteps, AccountsInv, Asks, InFlight
  <2>2. /\ call'[q] = call[q] /\ checked'[q] = checked[q] /\ call[q].id \in Ids
        /\ held[call[q].id] \subseteq held'[call[q].id]
    BY <1>1, <2>1, CallKept, HeldStep DEF IsCall, Updating
  <2>3. pc'[q] \in {"changeHash"} \cup SavingSteps \cup Answers
    <3>1. CASE q # r
      BY <1>1, <3>1, StepOfOne DEF Compared
    <3>2. CASE q = r
      <4>1. ~Start(r)
        BY <2>1, <3>2, Begins
      <4>2. QED
        BY <1>1, <2>1, <3>2, <4>1, LabelsAre DEF Compared, Step, Continue, Abort,
           RegisterFind, HashAndSave, LoginFind, LoginCompare, ChangeFind, ChangeCompare,
           ChangeHash, UpdateFind, UpdateMissing, Load, Write, WriteConflict, BeginUpdate,
           Save, Answer, Answers, GoTo, AccountsInv, SavingSteps
    <3>3. QED
      BY <3>1, <3>2
  <2>4. QED
    BY <1>1, <2>2, <2>3 DEF Compared
<1>2. ASSUME NEW q \in Requests, NEW id, NEW secret, EarnedBy(q, secret, id)
      PROVE  EarnedBy(q, secret, id)'
  <2>1. pc[q] # "idle" /\ call[q].kind # "login" /\ IsCall(call[q])
    BY <1>2, NoCallIsCall DEF EarnedBy, AccountsInv, Asks
  <2>2. /\ call'[q] = call[q] /\ (Replaces(q, id)' <=> Replaces(q, id))
        /\ call[q].kind = "profile" => held[call[q].id] \subseteq held'[call[q].id]
    BY <2>1, CallKept, GivesLasts, HeldStep DEF IsCall, Updating
  <2>3. QED
    BY <1>1, <1>2, <2>2 DEF EarnedBy
<1>3. ASSUME NEW id, NEW secret, Earned(secret, id) PROVE Earned(secret, id)'
  <2>1. CASE id \in Early \ Dropped /\ secret = Hash(FirstPassword, id)
    BY <2>1 DEF Earned
  <2>2. CASE \E q \in Requests : EarnedBy(q, secret, id)
    BY <1>2, <2>2 DEF Earned
  <2>3. QED
    BY <1>3, <2>1, <2>2 DEF Earned
<1>4. QED
  BY <1>1, <1>3

\* What a request carries to the row of its target after a step of its own.
LEMMA EarnedCarried ==
    ASSUME AccountsInv, EarnedInv, NEW r \in Requests, Step(r),
           Brings(r, call[r].target, "password")'
    PROVE  Earned(frame'[r].rows[call[r].target]["password"], call[r].target)
<1> DEFINE target == call[r].target
           entity == frame'[r].rows[target]
<1>0. pc'[r] \in {"load", "write"}
  BY DEF Brings
<1>1. Saved(r, entity) /\ target \in Ids /\ call' = call /\ IsCall(call[r]) /\ Asks(r)
  BY <1>0, Saves DEF AccountsInv, Asks
<1>2. "password" \in DOMAIN entity /\ "password" \in Columns
  BY <1>1 DEF Brings, Columns
<1> HIDE DEF entity
<1>3. CASE pc[r] = "load"
  <2>1. /\ "password" \in DOMAIN frame[r].rows[target]
        /\ entity["password"] = frame[r].rows[target]["password"]
    BY <1>1, <1>2, <1>3 DEF Saved
  <2>2. QED
    BY <1>1, <1>3, <2>1 DEF EarnedInv, Brings, entity
<1>4. CASE pc[r] = "hash"
  <2>1. Creating(call[r]) /\ entity["password"] = Hash(call[r].password, r)
    BY <1>1, <1>4 DEF Saved, NewUser
  <2>2. EarnedBy(r, entity["password"], target)
    BY <2>1 DEF EarnedBy, Creating
  <2>3. QED
    BY <2>2 DEF Earned, entity
<1>5. CASE pc[r] = "updateFind"
  <2>1. /\ Updating(call[r]) /\ call[r].id \in DOMAIN table
        /\ entity["password"] = IF "password" \in DOMAIN Partial(r) THEN Partial(r)["password"]
                                ELSE table[call[r].id]["password"]
    BY <1>1, <1>2, <1>5 DEF Saved
  <2>2. CASE call[r].kind = "change"
    <3>1. Compared(r) /\ entity["password"] = Hash(call[r].password, r)
      BY <1>5, <2>1, <2>2 DEF EarnedInv, SavingSteps, Partial
    <3>2. EarnedBy(r, entity["password"], target)
      BY <2>2, <3>1 DEF EarnedBy
    <3>3. QED
      BY <3>2 DEF Earned, entity
  <2>3. CASE call[r].kind = "profile"
    <3>1. CASE "password" \in DOMAIN call[r].columns
      <4>1. EarnedBy(r, entity["password"], target)
        BY <1>1, <2>1, <2>3, <3>1 DEF EarnedBy, Partial, Asks
      <4>2. QED
        BY <4>1 DEF Earned, entity
    <3>2. CASE "password" \notin DOMAIN call[r].columns
      <4>1. entity["password"] = table[call[r].id]["password"]
        BY <2>1, <2>3, <3>2 DEF Partial
      <4>2. CASE call[r].id = target
        BY <2>1, <4>1, <4>2 DEF EarnedInv, entity
      <4>3. CASE call[r].id # target
        <5>1. EarnedBy(r, entity["password"], target)
          BY <2>1, <2>3, <4>1, <4>3 DEF EarnedBy, Replaces, EarnedInv
        <5>2. QED
          BY <5>1 DEF Earned, entity
      <4>4. QED
        BY <4>2, <4>3
    <3>3. QED
      BY <3>1, <3>2
  <2>4. QED
    BY <2>1, <2>2, <2>3 DEF Updating
<1>6. QED
  BY <1>1, <1>3, <1>4, <1>5 DEF Saved

LEMMA EarnedStep ==
    ASSUME AccountsInv, EarnedInv, NEW r \in Requests, Step(r), Observe
    PROVE  EarnedInv'
<1>0. /\ \A q \in Requests : call[q].kind = "change" /\ Compared(q) => Compared(q)'
      /\ \A id, secret : Earned(secret, id) => Earned(secret, id)'
  BY EarnedStays
<1>1. ASSUME NEW id \in DOMAIN table'
      PROVE  Earned(table[id]["password"], id)'
  <2>1. CASE table' = table
    <3>1. Earned(table[id]["password"], id)
      BY <1>1, <2>1 DEF EarnedInv
    <3>2. PICK secret : secret = table[id]["password"] /\ Earned(secret, id)
      BY <3>1
    <3>3. Earned(secret, id)' /\ table'[id]["password"] = secret
      BY <1>0, <2>1, <3>2
    <3>4. QED
      BY <3>3 DEF Earned, EarnedBy
  <2>2. CASE Write(r)
    <3> DEFINE target == call[r].target
               entity == frame[r].rows[target]
    <3>1. /\ pc[r] = "write" /\ DOMAIN table' = DOMAIN table \cup frame[r].absent
          /\ frame[r].absent \subseteq {target} \ DOMAIN table
          /\ id \in DOMAIN table /\ id # target => table'[id] = table[id]
          /\ target \in frame[r].absent => table'[target] = entity /\ entity \in Row
          /\ target \in DOMAIN table =>
               table'[target]["password"] =
                  IF "password" \in DOMAIN entity THEN entity["password"]
                  ELSE table[target]["password"]
      BY <2>2, Writes DEF Columns
    <3>2. "password" \in DOMAIN entity => Earned(entity["password"], target)
      BY <3>1 DEF EarnedInv, Brings
    <3> HIDE DEF entity
    <3>3. PICK secret : secret = table'[id]["password"] /\ Earned(secret, id)
      BY <1>1, <3>1, <3>2, RowIsPartial DEF EarnedInv, Columns
    <3>4. Earned(secret, id)'
      BY <1>0, <3>3
    <3>5. QED
      BY <3>3, <3>4 DEF Earned, EarnedBy
  <2>3. QED
    BY <2>1, <2>2, StepOfOne
<1>2. ASSUME NEW q \in Requests, pc'[q] = "changeCompare"
      PROVE  frame'[q].rows[call'[q].id]["password"] \in held'[call'[q].id]
  <2>1. CASE q # r
    <3>1. /\ pc[q] = "changeCompare" /\ call'[q] = call[q] /\ frame'[q] = frame[q]
          /\ call[q].id \in Ids
      BY <1>2, <2>1, StepOfOne DEF AccountsInv, Asks, IsCall, Updating
    <3>2. QED
      BY <3>1, HeldStep DEF EarnedInv
  <2>2. CASE q = r
    <3>1. ~Start(r)
      <4>1. SUFFICES ASSUME Start(r) PROVE FALSE
        OBVIOUS
      <4>2. PICK args : Begun(r, args)
        BY <4>1, Begins
      <4>3. QED
        BY <1>2, <2>2, <4>2 DEF Begun, BeginUpdate, GoTo, AccountsInv
    <3>2. ChangeFind(r)
      BY <1>2, <2>2, <3>1 DEF Step, Continue, Abort, RegisterFind, HashAndSave, LoginFind,
         LoginCompare, ChangeCompare, ChangeHash, UpdateFind, UpdateMissing, Load, Write,
         WriteConflict, BeginUpdate, Save, Answer, GoTo, AccountsInv
    <3>3. /\ call[r].id \in DOMAIN table /\ call' = call /\ table' = table
          /\ GoTo(r, "changeCompare",
                  [rows |-> [i \in {call[r].id} |-> table[call[r].id]], absent |-> {}])
      BY <1>2, <2>2, <3>2 DEF ChangeFind, Answer, GoTo, AccountsInv
    <3>4. frame'[r].rows[call[r].id] = table'[call[r].id]
      BY <3>3 DEF GoTo, AccountsInv
    <3>5. QED
      BY <2>2, <3>3, <3>4, HeldStep
  <2>3. QED
    BY <2>1, <2>2
<1>3. ASSUME NEW q \in Requests, call'[q].kind = "change",
             pc'[q] \in {"changeHash"} \cup SavingSteps
      PROVE  Compared(q)'
  <2>1. CASE pc[q] \in {"changeHash"} \cup SavingSteps
    <3>1. call[q].kind = "change"
      BY <1>3, <2>1, CallKept DEF SavingSteps
    <3>2. QED
      BY <1>0, <2>1, <3>1 DEF EarnedInv
  <2>2. CASE pc[q] \notin {"changeHash"} \cup SavingSteps
    <3>1. q = r
      BY <1>3, <2>2, StepOfOne
    <3>2. ~Start(r)
      <4>1. SUFFICES ASSUME Start(r) PROVE FALSE
        OBVIOUS
      <4>2. PICK args : Begun(r, args) /\ call' = [call EXCEPT ![r] = args]
        BY <4>1, Begins
      <4>3. args.kind = "change"
        BY <1>3, <3>1, <4>2 DEF AccountsInv
      <4>4. QED
        BY <1>3, <3>1, <4>2, <4>3 DEF Begun, GoTo, AccountsInv, SavingSteps
    <3>3. call[r].kind = "change" /\ pc[r] # "idle"
      BY <1>3, <3>1, <3>2, LabelsAre, CallKept DEF Step, Continue, Abort, RegisterFind,
         HashAndSave, LoginFind, LoginCompare, ChangeFind, ChangeCompare, ChangeHash,
         UpdateFind, UpdateMissing, Load, Write, WriteConflict
    <3>4. pc[r] \notin {"registerFind", "hash", "loginFind", "loginCompare"}
      BY <3>3 DEF AccountsInv, Asks, Creating
    <3>5. ChangeCompare(r) /\ pc'[r] = "changeHash"
      BY <1>3, <2>2, <3>1, <3>2, <3>4, LabelsAre DEF Step, Continue, Abort, RegisterFind,
         HashAndSave, LoginFind, LoginCompare, ChangeFind, ChangeCompare, ChangeHash,
         UpdateFind, UpdateMissing, Load, Write, WriteConflict, Answer, Answers, GoTo,
         AccountsInv, SavingSteps
    <3>6. /\ pc[r] = "changeCompare" /\ call' = call /\ Compare(call[r].old, Mine(r).password)
      BY <3>5 DEF ChangeCompare, Answer, GoTo, AccountsInv
    <3>7. /\ frame[r].rows[call[r].id] \in Row /\ call[r].id \in Ids
          /\ frame[r].rows[call[r].id]["password"] \in held[call[r].id]
      BY <3>3, <3>6 DEF AccountsInv, Asks, Carries, EarnedInv, IsCall, Updating
    <3>8. checked'[r] = Mine(r).password
      BY <3>5, <3>6 DEF Observe
    <3>9. checked'[r] \in held'[call[r].id] /\ Compare(call[r].old, checked'[r])
      BY <3>6, <3>7, <3>8, RowIsPartial, HeldStep DEF Mine
    <3>10. QED
      BY <3>1, <3>5, <3>6, <3>9 DEF Compared
  <2>3. QED
    BY <2>1, <2>2
<1>4. ASSUME NEW q \in Requests, Brings(q, call[q].target, "password")'
      PROVE  Earned(frame[q].rows[call[q].target]["password"], call[q].target)'
  <2>1. CASE q # r
    <3>1. pc'[q] = pc[q] /\ call'[q] = call[q] /\ frame'[q] = frame[q]
      BY <2>1, StepOfOne
    <3>2. Brings(q, call[q].target, "password")
      BY <1>4, <3>1 DEF Brings
    <3>3. PICK secret, id : /\ id = call[q].target
                            /\ secret = frame[q].rows[id]["password"] /\ Earned(secret, id)
      BY <3>2 DEF EarnedInv
    <3>4. Earned(secret, id)'
      BY <1>0, <3>3
    <3>5. QED
      BY <3>1, <3>3, <3>4 DEF Earned, EarnedBy
  <2>2. CASE q = r
    <3>1. call' = call
      BY <1>4, <2>2, Saves DEF Brings
    <3>2. PICK secret, id : /\ id = call[r].target
                            /\ secret = frame'[r].rows[id]["password"] /\ Earned(secret, id)
      BY <1>4, <2>2, EarnedCarried
    <3>3. Earned(secret, id)'
      BY <1>0, <3>2
    <3>4. QED
      BY <2>2, <3>1, <3>2, <3>3 DEF Earned, EarnedBy
  <2>3. QED
    BY <2>1, <2>2
<1>5. QED
  BY <1>1, <1>2, <1>3, <1>4, HeldStep DEF EarnedInv
-----------------------------------------------------------------------------
(***************************************************************************)
(* Settled passwords: until a change or a body gives the row another, no   *)
(* entity that will be written to it has an older one.                     *)
(***************************************************************************)
\* What s stored in the row id, and what an entity on its way to it may have.
Settles(s, id) ==
    /\ s \in Requests /\ call[s].kind = "change" /\ call[s].id = id /\ pc[s] = "ok"
    /\ id \in DOMAIN table
    /\ table[id]["password"] = Hash(call[s].password, s)
    /\ \A q \in Requests : Saving(q, id) =>
         /\ call[q].kind # "change" /\ ~Gives(q, id, "password")
         /\ Brings(q, id, "password") =>
              frame[q].rows[id]["password"] = Hash(call[s].password, s)

SettledInv ==
    /\ DOMAIN settled = Ids /\ DOMAIN alone = Requests
    /\ \A r \in Requests, q \in Requests, id \in Ids :
         alone[r] /\ q # r /\ Saving(r, id) => ~Saving(q, id)
    /\ \A id \in Ids : settled[id] # None => Settles(settled[id], id)

\* The change that ran alone: nobody else is saving its row when it ends.
LEMMA NewlySettled ==
    ASSUME AccountsInv, SettledInv, NEW r \in Requests, Step(r), NEW s \in Requests,
           NEW id \in Ids, alone[s], pc[s] # "ok", pc'[s] = "ok",
           call'[s].kind = "change", call'[s].id = id
    PROVE  Settles(s, id)'
<1>1. s = r
  BY StepOfOne
<1>2. /\ Write(r) /\ call' = call /\ call[r].kind = "change" /\ call[r].id = id
      /\ id \in DOMAIN table /\ call[r].target = id
      /\ table'[id].password = Hash(call[r].password, r)
  BY <1>1, ChangeWrites
<1>3. id \in DOMAIN table' /\ table'[id].password = table'[id]["password"]
  BY <1>2, TableGrows, TableStep, RowIsPartial
<1>4. Saving(r, id)
  BY <1>2, LabelsAre DEF Saving, Write
<1>5. ASSUME NEW q \in Requests PROVE ~Saving(q, id)'
  <2>1. CASE q = r
    BY <1>1, <2>1, LabelsAre DEF Saving, Answers
  <2>2. CASE q # r
    BY <1>1, <1>4, <2>2, StepOfOne DEF Saving, SettledInv
  <2>3. QED
    BY <2>1, <2>2
<1>6. QED
  BY <1>1, <1>2, <1>3, <1>5 DEF Settles

\* The step of a request that saves the row with a settled password, and that
\* neither is a change nor gives the row a password.
LEMMA SettledCarried ==
    ASSUME AccountsInv, NEW r \in Requests, Step(r), NEW s, NEW id \in Ids,
           Settles(s, id), Saving(r, id), pc'[r] \in {"load", "write"},
           "password" \in DOMAIN frame'[r].rows[id]
    PROVE  frame'[r].rows[id]["password"] = Hash(call[s].password, s)
<1> DEFINE entity == frame'[r].rows[id]
<1>1. /\ Saved(r, entity) /\ call[r].target = id /\ "password" \in Columns
      /\ call[r].kind # "change" /\ ~Gives(r, id, "password")
      /\ id \in DOMAIN table /\ table[id]["password"] = Hash(call[s].password, s)
      /\ Brings(r, id, "password") =>
           frame[r].rows[id]["password"] = Hash(call[s].password, s)
      /\ IsCall(call[r]) /\ Asks(r) /\ Running(r)
  BY Saves, StepOfOne DEF Saving, Settles, AccountsInv, Asks, Columns
<1> HIDE DEF entity
<1>2. CASE pc[r] = "load"
  <2>1. /\ "password" \in DOMAIN frame[r].rows[id]
        /\ entity["password"] = frame[r].rows[id]["password"]
    BY <1>1, <1>2 DEF Saved, entity
  <2>2. QED
    BY <1>1, <1>2, <2>1 DEF Brings, entity
<1>3. CASE pc[r] = "hash"
  <2>1. Creating(call[r])
    BY <1>1, <1>3 DEF Saved
  <2>2. id = r
    BY <1>1, <2>1 DEF Gives, Replaces, Creating, Asks
  <2>3. QED
    BY <1>1, <2>2 DEF Asks
<1>4. CASE pc[r] = "updateFind"
  <2>1. /\ Updating(call[r])
        /\ entity["password"] = IF "password" \in DOMAIN Partial(r) THEN Partial(r)["password"]
                                ELSE table[call[r].id]["password"]
    BY <1>1, <1>4 DEF Saved
  <2>2. call[r].kind = "profile" /\ call[r].id = id /\ "password" \notin DOMAIN Partial(r)
    BY <1>1, <2>1 DEF Updating, Gives, Replaces, Partial
  <2>3. QED
    BY <1>1, <2>1, <2>2 DEF entity
<1>5. QED
  BY <1>1, <1>2, <1>3, <1>4 DEF Saved

LEMMA IdleStarts ==
    ASSUME NEW r \in Requests, Step(r), pc[r] = "idle"
    PROVE  Start(r)
BY LabelsAre DEF Step, Continue, Abort, RegisterFind, HashAndSave, LoginFind, LoginCompare,
   ChangeFind, ChangeCompare, ChangeHash, UpdateFind, UpdateMissing, Load, Write,
   WriteConflict

LEMMA StillSettled ==
    ASSUME AccountsInv, NEW r \in Requests, Step(r), NEW s, NEW id \in Ids, Settles(s, id),
           pc[r] = "idle" => ~(call'[r].kind = "change" /\ call'[r].id = id)
                               /\ ~Gives(r, id, "password")'
    PROVE  Settles(s, id)'
<1>0. /\ s \in Requests /\ call[s].kind = "change" /\ call[s].id = id /\ pc[s] = "ok"
      /\ id \in DOMAIN table /\ table[id]["password"] = Hash(call[s].password, s)
      /\ \A q \in Requests : Saving(q, id) =>
           /\ call[q].kind # "change" /\ ~Gives(q, id, "password")
           /\ Brings(q, id, "password") =>
                frame[q].rows[id]["password"] = Hash(call[s].password, s)
  BY DEF Settles
<1>1. s # r /\ pc'[s] = "ok" /\ call'[s] = call[s]
  <2>1. s # r
    BY <1>0, StepOfOne, LabelsAre DEF Running, Answers
  <2>2. QED
    BY <1>0, <2>1, StepOfOne
<1>2. id \in DOMAIN table' /\ table'[id]["password"] = Hash(call[s].password, s)
  <2>1. CASE table' = table
    BY <1>0, <2>1
  <2>2. CASE Write(r)
    <3> DEFINE target == call[r].target
               entity == frame[r].rows[target]
    <3>1. /\ pc[r] = "write" /\ DOMAIN table' = DOMAIN table \cup frame[r].absent
          /\ id # target => table'[id] = table[id]
          /\ target \in DOMAIN table =>
               table'[target]["password"] =
                  IF "password" \in DOMAIN entity THEN entity["password"]
                  ELSE table[target]["password"]
      BY <1>0, <2>2, Writes DEF Columns
    <3>2. id = target /\ "password" \in DOMAIN entity =>
             entity["password"] = Hash(call[s].password, s)
      BY <1>0, <3>1, LabelsAre DEF Saving, Brings
    <3> HIDE DEF entity
    <3>3. QED
      BY <1>0, <3>1, <3>2
  <2>3. QED
    BY <2>1, <2>2, StepOfOne
<1>3. ASSUME NEW q \in Requests, Saving(q, id)'
      PROVE  /\ call'[q].kind # "change" /\ ~Gives(q, id, "password")'
             /\ Brings(q, id, "password")' =>
                  frame'[q].rows[id]["password"] = Hash(call[s].password, s)
  <2>1. CASE q # r
    <3>1. pc'[q] = pc[q] /\ call'[q] = call[q] /\ frame'[q] = frame[q]
      BY <2>1, StepOfOne
    <3>2. Saving(q, id) /\ (Brings(q, id, "password")' <=> Brings(q, id, "password"))
          /\ (Gives(q, id, "password")' <=> Gives(q, id, "password"))
      BY <1>3, <3>1 DEF Saving, Brings, Gives, Replaces
    <3>3. QED
      BY <1>0, <3>1, <3>2
  <2>2. CASE q = r /\ pc[r] = "idle"
    <3>1. PICK args : Begun(r, args) /\ call' = [call EXCEPT ![r] = args]
      BY <2>2, IdleStarts, Begins
    <3>2. call'[r] = args /\ pc'[r] \notin {"load", "write"}
      BY <3>1 DEF Begun, BeginUpdate, GoTo, AccountsInv
    <3>3. call'[r].kind # "change"
      BY <1>3, <2>2, <3>1, <3>2 DEF Saving, IsCall, Begun
    <3>4. QED
      BY <2>2, <3>2, <3>3 DEF Brings
  <2>3. CASE q = r /\ pc[r] # "idle"
    <3>1. /\ call'[r].kind = call[r].kind /\ call'[r].target = call[r].target
          /\ (Gives(r, id, "password")' <=> Gives(r, id, "password"))
      BY <2>3, CallKept, GivesLasts
    <3>2. Saving(r, id)
      BY <1>3, <2>3, <3>1, StepOfOne DEF Saving, Running
    <3>3. Brings(r, id, "password")' =>
             frame'[r].rows[id]["password"] = Hash(call[s].password, s)
      BY <3>2, SettledCarried DEF Brings
    <3>4. QED
      BY <1>0, <2>3, <3>1, <3>2, <3>3
  <2>4. QED
    BY <2>1, <2>2, <2>3
<1>4. QED
  BY <1>0, <1>1, <1>2, <1>3 DEF Settles

LEMMA SettledStep ==
    ASSUME AccountsInv, SettledInv, NEW r \in Requests, Step(r), Observe
    PROVE  SettledInv'
<1>1. /\ DOMAIN settled' = Ids /\ DOMAIN alone' = Requests
      /\ \A s \in Requests : alone'[s] =>
           \A id \in Ids, q \in Requests \ {s} : ~(Saving(s, id)' /\ Saving(q, id)')
  BY DEF Observe
<1>2. ASSUME NEW id \in Ids, settled'[id] # None
      PROVE  Settles(settled[id], id)'
  <2> DEFINE changes == {s \in Requests : call'[s].kind = "change" /\ call'[s].id = id}
             done == {s \in changes : alone[s] /\ pc[s] # "ok" /\ pc'[s] = "ok"}
             new == changes \cup {s \in Requests : Gives(s, id, "password")'}
  <2>1. settled'[id] = IF \E s \in new : pc[s] = "idle" THEN None
                       ELSE IF done # {} THEN CHOOSE s \in done : TRUE
                       ELSE settled[id]
    BY DEF Observe
  <2>2. /\ ~\E s \in new : pc[s] = "idle"
        /\ settled'[id] = IF done # {} THEN CHOOSE s \in done : TRUE ELSE settled[id]
    BY <1>2, <2>1
  <2>3. CASE done # {}
    <3>1. PICK s \in done : s = settled'[id]
      BY <2>2, <2>3
    <3>2. Settles(s, id)'
      BY <3>1, NewlySettled
    <3>3. QED
      BY <3>1, <3>2 DEF Settles
  <2>4. CASE done = {}
    <3>1. PICK s : s = settled[id] /\ s = settled'[id] /\ Settles(s, id)
      BY <1>2, <2>2, <2>4 DEF SettledInv
    <3>2. pc[r] = "idle" => ~(call'[r].kind = "change" /\ call'[r].id = id)
                              /\ ~Gives(r, id, "password")'
      BY <2>2
    <3>3. Settles(s, id)'
      BY <3>1, <3>2, StillSettled
    <3>4. QED
      BY <3>1, <3>3 DEF Settles
  <2>5. QED
    BY <2>3, <2>4
<1>3. (\A s, q \in Requests, id \in Ids :
         alone[s] /\ q # s /\ Saving(s, id) => ~Saving(q, id))'
  BY <1>1
<1>4. QED
  BY <1>1, <1>2, <1>3 DEF SettledInv
-----------------------------------------------------------------------------
(***************************************************************************)
(* The invariant of the history, and its theorems.                         *)
(***************************************************************************)
HistoryInv == AccountsInv /\ OriginInv /\ SeenInv /\ EarnedInv /\ SettledInv

LEMMA HistoryInit == HInit => HistoryInv
<1> SUFFICES ASSUME HInit PROVE HistoryInv
  OBVIOUS
<1>1. AccountsInv /\ OriginInv /\ EarnedInv
  BY AccountsInvInit, OriginInit, EarnedInit DEF HInit
<1>2. SeenInv
  BY DEF HInit, SeenInv
<1>3. SettledInv
  <2>1. \A r \in Requests, id \in Ids : ~Saving(r, id)
    BY LabelsAre DEF HInit, Init, Saving
  <2>2. QED
    BY <2>1 DEF HInit, SettledInv
<1>4. QED
  BY <1>1, <1>2, <1>3 DEF HistoryInv

LEMMA HistoryStep == HistoryInv /\ [HNext]_hvars => HistoryInv'
<1> SUFFICES ASSUME HistoryInv, [HNext]_hvars PROVE HistoryInv'
  OBVIOUS
<1>1. CASE HNext
  <2>1. Observe /\ [Next]_vars
    BY <1>1 DEF HNext
  <2>2. PICK r \in Requests : Step(r)
    BY <1>1 DEF HNext, Next, Step
  <2>3. QED
    BY <2>1, <2>2, AccountsInvStep, OriginStep, SeenStep, EarnedStep, SettledStep
    DEF HistoryInv
<1>2. CASE UNCHANGED hvars
  <2>1. /\ UNCHANGED vars /\ UNCHANGED <<table, pc, call, frame>>
        /\ UNCHANGED <<seen, held, checked, alone, settled>>
    BY <1>2 DEF hvars, vars
  <2>2. AccountsInv'
    BY <2>1, AccountsInvStep DEF HistoryInv
  <2>3. OriginInv' /\ SeenInv'
    BY <2>1 DEF HistoryInv, OriginInv, SeenInv, Kept, Gives, Replaces, First, Brings
  <2>4. EarnedInv'
    BY <2>1 DEF HistoryInv, EarnedInv, Earned, EarnedBy, Compared, Replaces, Brings
  <2>5. SettledInv'
    BY <2>1 DEF HistoryInv, SettledInv, Settles, Saving, Gives, Replaces, Brings
  <2>6. QED
    BY <2>2, <2>3, <2>4, <2>5 DEF HistoryInv
<1>3. QED
  BY <1>1, <1>2

LEMMA HistoryAlways == HSpec => []HistoryInv
<1>1. QED
  BY HistoryInit, HistoryStep, PTL DEF HSpec

\* Two users share a name or an email only when the later of them looked before
\* the other was stored, or a body gave one of them its name or email: a row
\* that no body gave a name has the one it was stored with, and so has every
\* entity on its way to the row, which writes back what it read.
THEOREM DuplicatesNeedOverlap == HSpec => []DuplicatesOverlap
<1>1. HistoryInv => DuplicatesOverlap
  <2> SUFFICES ASSUME HistoryInv, NEW i \in DOMAIN table, NEW j \in DOMAIN table,
                      i # j, i \in Requests, NEW column \in Identity,
                      table[i][column] = table[j][column], table[i][column] # None,
                      ~\E q \in Requests : Gives(q, i, column) \/ Gives(q, j, column),
                      j \in seen[i]
               PROVE  FALSE
    BY DEF DuplicatesOverlap, Identity
  <2>1. Kept(i, column) /\ Kept(j, column) /\ i \in Ids /\ j \in Ids
    BY DEF Kept, HistoryInv, AccountsInv
  <2>2. First(i, column) = First(j, column) /\ First(i, column) # None
    BY <2>1 DEF HistoryInv, OriginInv
  <2>3. First(i, column) = call[i][column]
    BY DEF First
  <2>4. QED
    BY <2>1, <2>2, <2>3 DEF HistoryInv, SeenInv
<1>2. QED
  BY <1>1, HistoryAlways, PTL

\* The password of a row is the one it was stored with, or that of a change of
\* this row whose old password the row once had, or one that a body gave it:
\* the hash of a change travels only in the columns of its own update and in
\* entities read from the row after it.
THEOREM PasswordsAreEarned == HSpec => []PasswordsEarned
<1>1. HistoryInv => PasswordsEarned
  <2> DEFINE Comes(q, secret, id) ==
                 /\ call[q].target = id
                 /\ \/ /\ call[q].kind \in {"register", "seed"}
                       /\ secret = Hash(call[q].password, q)
                    \/ /\ call[q].kind = "change"
                       /\ secret = Hash(call[q].password, q)
                       /\ Compare(call[q].old, checked[q]) /\ checked[q] \in held[id]
                    \/ /\ call[q].kind = "profile"
                       /\ \/ "password" \in DOMAIN call[q].columns /\ secret = Text(q)
                          \/ Replaces(q, id) /\ secret \in held[call[q].id]
  <2> SUFFICES ASSUME HistoryInv, NEW id \in DOMAIN table
               PROVE  \/ id \in Early \ Dropped
                           /\ table[id].password = Hash(FirstPassword, id)
                      \/ \E q \in Requests : Comes(q, table[id].password, id)
    BY DEF PasswordsEarned
  <2>1. table[id]["password"] = table[id].password
    BY RowIsPartial DEF HistoryInv, AccountsInv
  <2>2. Earned(table[id].password, id)
    BY <2>1 DEF HistoryInv, EarnedInv
  <2>3. ASSUME NEW q \in Requests, EarnedBy(q, table[id].password, id)
        PROVE  Comes(q, table[id].password, id)
    <3>1. call[q].kind = "change" => call[q].target = call[q].id
      BY DEF HistoryInv, AccountsInv, Asks, IsCall
    <3>2. QED
      BY <2>3, <3>1 DEF EarnedBy, Compared
  <2>4. QED
    BY <2>2, <2>3 DEF Earned
<1>2. QED
  BY <1>1, HistoryAlways, PTL

\* A change that ran alone and was answered stays, until another change or a
\* body gives the row a password: no entity that will be written to the row was
\* read before the change was stored.
THEOREM SettledPasswordsStay == HSpec => []SettledPassword
<1>1. HistoryInv => SettledPassword
  BY RowIsPartial DEF HistoryInv, AccountsInv, SettledInv, Settles, SettledPassword
<1>2. QED
  BY <1>1, HistoryAlways, PTL
=============================================================================
