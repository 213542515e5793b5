----------------------------- MODULE CrudProofs -----------------------------
(***************************************************************************)
(* Theorems about Crud and its history, for every set of users, texts and  *)
(* requests: nothing is assumed of how many there are.                     *)
(***************************************************************************)
EXTENDS CrudHistory, FiniteSetTheorems, TLAPS

Kinds == {"none", "create", "update", "updateMany", "delete", "deleteMany"}

Calls == [kind : Kinds, user : Users \cup {None}, ids : SUBSET Ids,
          owner : Users \cup {None}, target : Ids \cup {None}, removed : SUBSET Ids]

Labels == {"idle"} \cup InFlight \cup Answers

\* A partial update: some of the columns, each with a value of its type.
IsPartial(f) ==
    /\ DOMAIN f \subseteq {"displayName", "userId"}
    /\ "displayName" \in DOMAIN f => f["displayName"] \in Texts
    /\ "userId" \in DOMAIN f => f["userId"] \in Users

\* The rows that r saves: those of its batch, or the one that its body names.
Aims(r) ==
    LET rows == frame[r].rows
    IN  \/ call[r].kind = "updateMany" /\ DOMAIN rows \subseteq call[r].ids
        \/ call[r].kind \in {"create", "update"} /\ DOMAIN rows = {call[r].target}

\* updateById: a row to find, and the one to save it to.
IsSingle(args) == args.target \in Ids /\ \E id : args.ids = {id}

\* What is true of a request and of the entities that it carries.
Carries(r) ==
    LET rows == frame[r].rows
    IN  /\ DOMAIN rows \subseteq Ids /\ frame[r].absent \subseteq DOMAIN rows
        /\ \A id \in DOMAIN rows : IsPartial(rows[id])
        /\ \A id \in DOMAIN rows : pc[r] = "load" \/ id \in frame[r].absent => rows[id] \in Row
        /\ pc[r] = "idle" => call[r] = NoCall
        /\ pc[r] \notin SavingSteps => frame[r] = NoFrame
        /\ pc[r] = "updateFind" =>
             call[r].kind \in {"update", "updateMany"} /\ DOMAIN rows = call[r].ids
        /\ pc[r] \in {"load", "write"} => Aims(r)
        /\ call[r].kind = "update" => IsSingle(call[r])
        /\ call[r].removed # {} => pc[r] \in {"ok", "aborted"}

CrudInv ==
    /\ pc \in [Requests -> Labels]
    /\ call \in [Requests -> Calls]
    /\ DOMAIN frame = Requests
    /\ DOMAIN table \subseteq Ids
    /\ \A id \in DOMAIN table : table[id] \in Row
    /\ \A r \in Requests : Carries(r)

Step(r) == Start(r) \/ Continue(r) \/ Abort(r)
-----------------------------------------------------------------------------
(***************************************************************************)
(* Lemmas about the data operations.                                       *)
(***************************************************************************)
\* Spreading a partial update over a row gives a row.
LEMMA SpreadRow ==
    ASSUME NEW row \in Row, NEW f, IsPartial(f)
    PROVE  /\ Spread(row, f) \in Row
           /\ Spread(row, f).userId = IF "userId" \in DOMAIN f THEN f["userId"]
                                      ELSE row.userId
BY DEF Spread, Row, IsPartial

LEMMA RowIsPartial ==
    ASSUME NEW row \in Row
    PROVE  IsPartial(row) /\ "userId" \in DOMAIN row /\ row.userId \in Users
BY DEF Row, IsPartial

\* The difference that save computes is a partial update with values of the
\* entity.
LEMMA PatchIsPartial ==
    ASSUME NEW entity, IsPartial(entity), NEW row
    PROVE  /\ IsPartial(Patch(entity, row))
           /\ "userId" \in DOMAIN Patch(entity, row) =>
                /\ "userId" \in DOMAIN entity
                /\ Patch(entity, row)["userId"] = entity["userId"]
BY DEF Patch, IsPartial

\* A body's columns: the text, and the owner if it names one.
LEMMA GivenIsPartial ==
    ASSUME NEW text \in Texts, NEW owner \in Users \cup {None}
    PROVE  LET f == Given([displayName |-> text, userId |-> owner])
           IN  IsPartial(f) /\ ("userId" \in DOMAIN f => f["userId"] = owner /\ owner # None)
<1> DEFINE columns == [displayName |-> text, userId |-> owner]
<1>1. /\ DOMAIN columns = {"displayName", "userId"}
      /\ columns["displayName"] = text /\ columns["userId"] = owner
  OBVIOUS
<1> HIDE DEF columns
<1>2. LET f == Given(columns)
      IN  IsPartial(f) /\ ("userId" \in DOMAIN f => f["userId"] = owner /\ owner # None)
  BY <1>1 DEF Given, IsPartial
<1>3. QED
  BY <1>2 DEF columns

LEMMA TextIsPartial ==
    ASSUME NEW text \in Texts
    PROVE  IsPartial([displayName |-> text]) /\ "userId" \notin DOMAIN [displayName |-> text]
BY DEF IsPartial

LEMMA NamedOwnerIsUser ==
    ASSUME NEW user \in Users, NEW owner \in Users \cup {None}
    PROVE  NamedOwner("create", user, owner) \in Users
BY DEF NamedOwner

\* A request that carries nothing.
LEMMA NoFrameIsEmpty == NoFrame.absent = {} /\ DOMAIN NoFrame.rows = {}
BY DEF NoFrame, NoColumns

LEMMA KnownIds == Known \subseteq Ids
BY DEF Known, Ids
-----------------------------------------------------------------------------
(***************************************************************************)
(* Types and the entities in flight.                                       *)
(***************************************************************************)
LEMMA CrudInvInit == Init => CrudInv
<1> SUFFICES ASSUME Init PROVE CrudInv
  OBVIOUS
<1>1. \A id \in DOMAIN table : table[id] \in Row
  BY FirstOwnerAssumption DEF Init, Row
<1>2. NoCall \in Calls
  BY DEF NoCall, Calls, Kinds
<1>3. \A r \in Requests : Carries(r)
  BY NoFrameIsEmpty DEF Init, Carries, NoCall, SavingSteps
<1>4. DOMAIN table \subseteq Ids
  BY DEF Init, Ids
<1>5. QED
  BY <1>1, <1>2, <1>3, <1>4 DEF Init, CrudInv, Labels

\* A call that begins.
LEMMA BeginsCall ==
    ASSUME CrudInv, NEW r \in Requests, NEW args, Begin(r, args)
    PROVE  /\ pc[r] = "idle" /\ call[r] = NoCall /\ UNCHANGED table
           /\ call' = [call EXCEPT ![r] = args] /\ call'[r] = args
BY DEF Begin, CrudInv, Carries

\* The forms of the calls that begin, and where they go.
Begins(r) ==
    \E args \in Calls :
        /\ Begin(r, args) /\ args.kind # "none" /\ args.removed = {}
        /\ args.kind = "update" => IsSingle(args)
        /\ \/ \E user \in Users, text \in Texts, owner \in Users \cup {None}, target \in Ids :
                /\ args = [NoCall EXCEPT !.kind = "create", !.user = user, !.owner = owner,
                                         !.target = target]
                /\ Save(r, target, [displayName |-> text,
                                    userId |-> NamedOwner("create", user, owner)])
           \/ \E f : /\ args.kind \in {"update", "updateMany"} /\ IsPartial(f)
                     /\ "userId" \in DOMAIN f =>
                          /\ args.kind = "update"
                          /\ f["userId"] = NamedOwner("update", args.user, args.owner)
                     /\ BeginUpdate(r, args.ids, f)
           \/ \E label \in {"deleteFind", "delete"} : GoTo(r, label, NoFrame)

LEMMA StartBegins ==
    ASSUME CrudInv, NEW r \in Requests, Start(r)
    PROVE  Begins(r)
<1>0. Known \subseteq Ids /\ r \in Ids
  BY KnownIds DEF Ids
<1>1. ASSUME NEW user \in Users, NEW text \in Texts, NEW owner \in Users \cup {None},
             NEW target \in Known \cup {r}, StartCreate(r, user, text, owner, target)
      PROVE  Begins(r)
  <2> DEFINE args == [NoCall EXCEPT !.kind = "create", !.user = user, !.owner = owner,
                                    !.target = target]
  <2>1. args \in Calls /\ args.kind = "create" /\ args.removed = {}
    BY <1>0 DEF NoCall, Calls, Kinds
  <2>2. Begin(r, args) /\ Save(r, target, [displayName |-> text,
                                            userId |-> NamedOwner("create", user, owner)])
    BY <1>1 DEF StartCreate
  <2>3. target \in Ids
    BY <1>0
  <2>4. QED
    BY <2>1, <2>2, <2>3 DEF Begins
<1>2. ASSUME NEW id \in Known, NEW text \in Texts, NEW owner \in Users \cup {None},
             NEW target \in Known, StartUpdate(r, id, text, owner, target)
      PROVE  Begins(r)
  <2> DEFINE args == [NoCall EXCEPT !.kind = "update", !.ids = {id}, !.owner = owner,
                                    !.target = target]
             f == Given([displayName |-> text, userId |-> owner])
  <2>1. /\ args \in Calls /\ args.kind = "update" /\ args.removed = {}
        /\ args.ids = {id} /\ args.owner = owner /\ IsSingle(args)
    BY <1>0 DEF NoCall, Calls, Kinds, IsSingle
  <2>2. Begin(r, args) /\ BeginUpdate(r, args.ids, f)
    BY <1>2, <2>1 DEF StartUpdate
  <2>3. IsPartial(f) /\ ("userId" \in DOMAIN f =>
                           f["userId"] = NamedOwner("update", args.user, args.owner))
    BY <2>1, GivenIsPartial DEF NamedOwner
  <2> HIDE DEF args, f
  <2>4. QED
    BY <2>1, <2>2, <2>3 DEF Begins
<1>3. ASSUME NEW ids \in SUBSET Known, NEW text \in Texts, StartUpdateMany(r, ids, text)
      PROVE  Begins(r)
  <2> DEFINE args == [NoCall EXCEPT !.kind = "updateMany", !.ids = ids]
             f == [displayName |-> text]
  <2>1. args \in Calls /\ args.kind = "updateMany" /\ args.removed = {} /\ args.ids = ids
    BY <1>0 DEF NoCall, Calls, Kinds
  <2>2. Begin(r, args) /\ BeginUpdate(r, args.ids, f)
    BY <1>3, <2>1 DEF StartUpdateMany
  <2>3. IsPartial(f) /\ "userId" \notin DOMAIN f
    BY TextIsPartial
  <2> HIDE DEF args, f
  <2>4. QED
    BY <2>1, <2>2, <2>3 DEF Begins
<1>4. ASSUME NEW ids \in SUBSET Known, NEW kind \in {"delete", "deleteMany"},
             Begin(r, [NoCall EXCEPT !.kind = kind, !.ids = ids]),
             GoTo(r, "deleteFind", NoFrame) \/ GoTo(r, "delete", NoFrame)
      PROVE  Begins(r)
  <2> DEFINE args == [NoCall EXCEPT !.kind = kind, !.ids = ids]
  <2>1. args \in Calls /\ args.kind = kind /\ args.removed = {}
    BY <1>0 DEF NoCall, Calls, Kinds
  <2> HIDE DEF args
  <2>2. Begin(r, args)
    BY <1>4 DEF args
  <2>3. QED
    BY <1>4, <2>1, <2>2 DEF Begins
<1>5. ASSUME NEW id \in Known, StartDelete(r, id) PROVE Begins(r)
  BY <1>4, <1>5 DEF StartDelete
<1>6. ASSUME NEW ids \in SUBSET Known, StartDeleteMany(r, ids) PROVE Begins(r)
  BY <1>4, <1>6 DEF StartDeleteMany
<1>7. QED
  BY <1>1, <1>2, <1>3, <1>5, <1>6 DEF Start

\* Where a request goes with what it saves.
LEMMA SaveGoes ==
    ASSUME CrudInv, NEW r \in Requests, NEW target, NEW entity, Save(r, target, entity)
    PROVE  /\ pc'[r] \in {"load", "write"}
           /\ pc' \in [Requests -> Labels] /\ DOMAIN frame' = Requests
           /\ \A q \in Requests \ {r} : pc'[q] = pc[q] /\ frame'[q] = frame[q]
           /\ DOMAIN frame'[r].rows = {target} /\ frame'[r].rows[target] = entity
           /\ frame'[r].absent \subseteq {target}
BY DEF Save, GoTo, CrudInv, Labels, InFlight, SavingSteps

LEMMA GoesTo ==
    ASSUME CrudInv, NEW r \in Requests, NEW label \in Labels, NEW object,
           GoTo(r, label, object)
    PROVE  /\ pc' \in [Requests -> Labels] /\ DOMAIN frame' = Requests
           /\ pc'[r] = label /\ frame'[r] = object
           /\ \A q \in Requests \ {r} : pc'[q] = pc[q] /\ frame'[q] = frame[q]
BY DEF GoTo, CrudInv

\* A request takes its steps alone, and keeps what it is about.
LEMMA StepOfOne ==
    ASSUME CrudInv, NEW r \in Requests, Step(r)
    PROVE  /\ pc[r] \in {"idle"} \cup InFlight /\ call[r].removed = {}
           /\ pc' \in [Requests -> Labels] /\ DOMAIN frame' = Requests
           /\ call' \in [Requests -> Calls]
           /\ \A q \in Requests \ {r} :
                pc'[q] = pc[q] /\ call'[q] = call[q] /\ frame'[q] = frame[q]
           /\ pc[r] # "idle" => \E ids \in SUBSET Ids : call' = [call EXCEPT ![r].removed = ids]
           /\ pc[r] = "idle" => Begins(r)
<1>0. /\ pc \in [Requests -> Labels] /\ call \in [Requests -> Calls]
      /\ DOMAIN frame = Requests /\ DOMAIN table \subseteq Ids /\ Carries(r)
  BY DEF CrudInv
<1>1. CASE Start(r)
  <2>1. Begins(r)
    BY <1>1, StartBegins
  <2>2. PICK args \in Calls : Begin(r, args)
    BY <2>1 DEF Begins
  <2>3. /\ pc[r] = "idle" /\ call[r].removed = {}
        /\ call' \in [Requests -> Calls]
        /\ \A q \in Requests \ {r} : call'[q] = call[q]
    BY <1>0, <2>2, BeginsCall DEF NoCall
  <2>4. /\ pc' \in [Requests -> Labels] /\ DOMAIN frame' = Requests
        /\ \A q \in Requests \ {r} : pc'[q] = pc[q] /\ frame'[q] = frame[q]
    <3>1. ASSUME NEW target, NEW entity, Save(r, target, entity) PROVE <2>4
      BY <3>1, SaveGoes
    <3>2. ASSUME NEW label \in Labels, NEW object, GoTo(r, label, object) PROVE <2>4
      BY <3>2, GoesTo
    <3>3. {"updateFind", "deleteFind", "delete"} \subseteq Labels
      BY DEF Labels, InFlight, SavingSteps
    <3>4. QED
      BY <2>1, <3>1, <3>2, <3>3 DEF Begins, BeginUpdate
  <2>5. QED
    BY <2>1, <2>3, <2>4
<1>2. CASE Continue(r) \/ Abort(r)
  <2>1. /\ pc[r] \in InFlight
        /\ \E label \in Labels : pc' = [pc EXCEPT ![r] = label]
        /\ \E object : frame' = [frame EXCEPT ![r] = object]
    BY <1>2 DEF Continue, Abort, UpdateFind, UpdateManyFind, UpdateMissing, Load, Write,
       WriteConflict, DeleteFind, Delete, Save, GoTo, Answer, Labels, InFlight, Answers,
       SavingSteps
  <2>2. call[r].removed = {}
    BY <1>0, <2>1 DEF Carries, InFlight, SavingSteps
  <2>3. \/ call' = call
        \/ call' = [call EXCEPT ![r].removed = Found(call[r].ids)]
    BY <1>2 DEF Continue, Abort, UpdateFind, UpdateManyFind, UpdateMissing, Load, Write,
       WriteConflict, DeleteFind, Delete
  <2>4. call' = call => call' = [call EXCEPT ![r].removed = {}]
    BY <1>0, <2>2 DEF Calls
  <2>5. \E ids \in SUBSET Ids : call' = [call EXCEPT ![r].removed = ids]
    BY <1>0, <2>3, <2>4 DEF Found
  <2>6. call' \in [Requests -> Calls] /\ \A q \in Requests \ {r} : call'[q] = call[q]
    BY <1>0, <2>5 DEF Calls
  <2>7. pc[r] # "idle"
    BY <2>1 DEF InFlight, SavingSteps
  <2>8. QED
    BY <1>0, <2>1, <2>2, <2>5, <2>6, <2>7
<1>3. QED
  BY <1>1, <1>2 DEF Step

\* The entities of other requests are not touched.
LEMMA OthersCarry ==
    ASSUME CrudInv, NEW r \in Requests, Step(r), NEW q \in Requests \ {r}
    PROVE  Carries(q)'
<1>1. Carries(q) /\ pc'[q] = pc[q] /\ call'[q] = call[q] /\ frame'[q] = frame[q]
  BY StepOfOne DEF CrudInv
<1>2. QED
  BY <1>1 DEF Carries, Aims

\* What a request keeps of its call after it has begun.
LEMMA CallKept ==
    ASSUME CrudInv, NEW r \in Requests, Step(r), pc[r] # "idle"
    PROVE  /\ call'[r].kind = call[r].kind /\ call'[r].user = call[r].user
           /\ call'[r].ids = call[r].ids /\ call'[r].owner = call[r].owner
           /\ call'[r].target = call[r].target
BY StepOfOne DEF CrudInv, Calls

\* A request that saves one entity, a whole row, for its target.
LEMMA SaveCarries ==
    ASSUME CrudInv, NEW r \in Requests, NEW target \in Ids, NEW entity \in Row,
           Save(r, target, entity), call'[r].kind \in {"create", "update"},
           call'[r].target = target, call'[r].removed = {},
           call'[r].kind = "update" => IsSingle(call'[r])
    PROVE  Carries(r)'
<1>1. /\ pc'[r] \in {"load", "write"} /\ DOMAIN frame'[r].rows = {target}
      /\ frame'[r].rows[target] = entity /\ frame'[r].absent \subseteq {target}
  BY SaveGoes
<1>2. IsPartial(entity)
  BY RowIsPartial
<1>3. QED
  BY <1>1, <1>2 DEF Carries, Aims, SavingSteps

LEMMA StartCarries ==
    ASSUME CrudInv, NEW r \in Requests, Start(r)
    PROVE  Carries(r)' /\ UNCHANGED table
<1>1. Begins(r)
  BY StartBegins
<1>2. PICK args \in Calls :
        /\ Begin(r, args) /\ args.kind # "none" /\ args.removed = {}
        /\ args.kind = "update" => IsSingle(args)
        /\ \/ \E user \in Users, text \in Texts, owner \in Users \cup {None}, target \in Ids :
                /\ args = [NoCall EXCEPT !.kind = "create", !.user = user, !.owner = owner,
                                         !.target = target]
                /\ Save(r, target, [displayName |-> text,
                                    userId |-> NamedOwner("create", user, owner)])
           \/ \E f : /\ args.kind \in {"update", "updateMany"} /\ IsPartial(f)
                     /\ BeginUpdate(r, args.ids, f)
           \/ \E label \in {"deleteFind", "delete"} : GoTo(r, label, NoFrame)
  BY <1>1 DEF Begins
<1>3. call'[r] = args /\ UNCHANGED table
  BY <1>2, BeginsCall
<1>4. ASSUME NEW user \in Users, NEW text \in Texts, NEW owner \in Users \cup {None},
             NEW target \in Ids,
             args = [NoCall EXCEPT !.kind = "create", !.user = user, !.owner = owner,
                                   !.target = target],
             Save(r, target, [displayName |-> text,
                              userId |-> NamedOwner("create", user, owner)])
      PROVE  Carries(r)'
  <2>1. args.kind = "create" /\ args.target = target
    BY <1>4 DEF NoCall
  <2>2. [displayName |-> text, userId |-> NamedOwner("create", user, owner)] \in Row
    BY NamedOwnerIsUser DEF Row
  <2>3. QED
    BY <1>2, <1>3, <1>4, <2>1, <2>2, SaveCarries
<1>5. ASSUME NEW f, args.kind \in {"update", "updateMany"}, IsPartial(f),
             BeginUpdate(r, args.ids, f)
      PROVE  Carries(r)'
  <2>1. /\ pc'[r] = "updateFind" /\ frame'[r].absent = {}
        /\ frame'[r].rows = [id \in args.ids |-> f]
    BY <1>5, GoesTo DEF BeginUpdate, Labels, InFlight, SavingSteps
  <2>2. args.ids \subseteq Ids
    BY DEF Calls
  <2>3. QED
    BY <1>2, <1>3, <1>5, <2>1, <2>2 DEF Carries, SavingSteps
<1>6. ASSUME NEW label \in {"deleteFind", "delete"}, GoTo(r, label, NoFrame)
      PROVE  Carries(r)'
  <2>1. pc'[r] \in {"deleteFind", "delete"} /\ frame'[r] = NoFrame
    BY <1>6, GoesTo DEF Labels, InFlight
  <2>2. QED
    BY <1>2, <1>3, <2>1, NoFrameIsEmpty DEF Carries, SavingSteps
<1>7. Carries(r)'
  <2>1. CASE \E user \in Users, text \in Texts, owner \in Users \cup {None}, target \in Ids :
               /\ args = [NoCall EXCEPT !.kind = "create", !.user = user, !.owner = owner,
                                        !.target = target]
               /\ Save(r, target, [displayName |-> text,
                                   userId |-> NamedOwner("create", user, owner)])
    BY <1>4, <2>1
  <2>2. CASE \E f : /\ args.kind \in {"update", "updateMany"} /\ IsPartial(f)
                    /\ BeginUpdate(r, args.ids, f)
    BY <1>5, <2>2
  <2>3. CASE \E label \in {"deleteFind", "delete"} : GoTo(r, label, NoFrame)
    BY <1>6, <2>3
  <2>4. QED
    BY <1>2, <2>1, <2>2, <2>3
<1>8. QED
  BY <1>3, <1>7

\* A request that has ended carries nothing.
LEMMA AnswerCarries ==
    ASSUME CrudInv, NEW r \in Requests, NEW status \in Answers, Answer(r, status),
           call'[r].kind = "update" => IsSingle(call'[r]),
           call'[r].removed # {} => status \in {"ok", "aborted"}
    PROVE  Carries(r)'
<1>1. pc'[r] = status /\ frame'[r] = NoFrame
  BY GoesTo DEF Answer, Labels
<1>2. QED
  BY <1>1, NoFrameIsEmpty DEF Carries, Answers, SavingSteps

\* The entity found for a single update, with the partial update spread over it.
LEMMA FoundEntity ==
    ASSUME CrudInv, NEW r \in Requests, UpdateFind(r)
    PROVE  \E id \in call[r].ids \cap DOMAIN table :
             /\ call[r].kind = "update" /\ call[r].target \in Ids /\ pc[r] = "updateFind"
             /\ call[r].ids = {id}
             /\ id \in DOMAIN frame[r].rows /\ IsPartial(frame[r].rows[id])
             /\ table[id] \in Row
             /\ Spread(table[id], frame[r].rows[id]) \in Row
             /\ Save(r, call[r].target, Spread(table[id], frame[r].rows[id]))
<1>1. PICK id \in Found(DOMAIN frame[r].rows) :
        Save(r, call[r].target, Spread(table[id], frame[r].rows[id]))
  BY DEF UpdateFind
<1>2. /\ id \in DOMAIN table /\ table[id] \in Row /\ id \in DOMAIN frame[r].rows
      /\ Carries(r) /\ pc[r] = "updateFind" /\ call[r].kind # "updateMany"
  BY DEF CrudInv, UpdateFind, Found
<1>3. /\ call[r].kind = "update" /\ call[r].target \in Ids /\ call[r].ids = {id}
      /\ IsPartial(frame[r].rows[id])
  BY <1>2 DEF Carries, IsSingle
<1>4. QED
  BY <1>1, <1>2, <1>3, SpreadRow

\* The entities found for a batch.
LEMMA FoundEntities ==
    ASSUME CrudInv, NEW r \in Requests, UpdateManyFind(r)
    PROVE  LET rows == frame[r].rows
               new  == frame'[r].rows
           IN  /\ call[r].kind = "updateMany" /\ pc[r] = "updateFind" /\ pc'[r] = "load"
               /\ frame'[r].absent = {} /\ DOMAIN new \subseteq call[r].ids \cap DOMAIN table
               /\ DOMAIN new \subseteq DOMAIN rows
               /\ \A id \in DOMAIN new :
                    /\ IsPartial(rows[id]) /\ table[id] \in Row
                    /\ new[id] = Spread(table[id], rows[id]) /\ new[id] \in Row
<1> DEFINE rows == frame[r].rows
           found == Found(DOMAIN rows)
           new == [id \in found |-> Spread(table[id], rows[id])]
<1>1. /\ pc[r] = "updateFind" /\ call[r].kind = "updateMany"
      /\ GoTo(r, "load", [rows |-> new, absent |-> {}])
  BY DEF UpdateManyFind
<1>2. pc'[r] = "load" /\ frame'[r] = [rows |-> new, absent |-> {}]
  BY <1>1, GoesTo DEF Labels, InFlight, SavingSteps
<1>3. Carries(r) /\ \A id \in DOMAIN table : table[id] \in Row
  BY DEF CrudInv
<1>4. /\ found \subseteq call[r].ids \cap DOMAIN table /\ found \subseteq DOMAIN rows
      /\ \A id \in found : IsPartial(rows[id]) /\ table[id] \in Row
  BY <1>1, <1>3 DEF Carries, Found
<1>5. \A id \in found : new[id] = Spread(table[id], rows[id]) /\ new[id] \in Row
  BY <1>4, SpreadRow
<1>6. DOMAIN new = found
  OBVIOUS
<1> HIDE DEF new, found
<1>7. QED
  BY <1>1, <1>2, <1>4, <1>5, <1>6

\* The difference of every entity whose row is there, the others whole.
LEMMA LoadedRows ==
    ASSUME CrudInv, NEW r \in Requests, Load(r)
    PROVE  LET rows == frame[r].rows
               new  == frame'[r].rows
           IN  /\ pc[r] = "load" /\ pc'[r] = "write" /\ DOMAIN new = DOMAIN rows
               /\ frame'[r].absent = DOMAIN rows \ DOMAIN table
               /\ \A id \in DOMAIN rows :
                    /\ IsPartial(new[id]) /\ rows[id] \in Row
                    /\ "userId" \in DOMAIN new[id] => new[id]["userId"] = rows[id].userId
                    /\ id \notin DOMAIN table => new[id] = rows[id]
<1> DEFINE rows == frame[r].rows
           new == [id \in DOMAIN rows |-> IF id \in DOMAIN table
                                            THEN Patch(rows[id], table[id]) ELSE rows[id]]
           absent == DOMAIN rows \ DOMAIN table
<1>1. pc[r] = "load" /\ GoTo(r, "write", [rows |-> new, absent |-> absent])
  BY DEF Load
<1>2. pc'[r] = "write" /\ frame'[r] = [rows |-> new, absent |-> absent]
  BY <1>1, GoesTo DEF Labels, InFlight, SavingSteps
<1>3. \A id \in DOMAIN rows : IsPartial(rows[id]) /\ rows[id] \in Row
  BY <1>1 DEF CrudInv, Carries
<1>4. ASSUME NEW id \in DOMAIN rows
      PROVE  /\ IsPartial(new[id]) /\ rows[id] \in Row
             /\ "userId" \in DOMAIN new[id] => new[id]["userId"] = rows[id].userId
             /\ id \notin DOMAIN table => new[id] = rows[id]
  <2>1. CASE id \in DOMAIN table
    <3>1. new[id] = Patch(rows[id], table[id])
      BY <2>1
    <3> HIDE DEF new
    <3>2. QED
      BY <1>3, <2>1, <3>1, PatchIsPartial
  <2>2. CASE id \notin DOMAIN table
    BY <1>3, <2>2
  <2>3. QED
    BY <2>1, <2>2
<1>5. DOMAIN new = DOMAIN rows
  OBVIOUS
<1> HIDE DEF new, absent
<1>6. QED
  BY <1>1, <1>2, <1>4, <1>5 DEF absent

LEMMA ContinueCarries ==
    ASSUME CrudInv, NEW r \in Requests, Continue(r) \/ Abort(r)
    PROVE  Carries(r)'
<1>0. /\ Carries(r) /\ call[r].removed = {} /\ call' \in [Requests -> Calls]
      /\ call'[r].kind = call[r].kind /\ call'[r].target = call[r].target
      /\ call'[r].ids = call[r].ids
  <2>1. Step(r) /\ pc[r] # "idle"
    BY DEF Step, Continue, Abort, UpdateFind, UpdateManyFind, UpdateMissing, Load, Write,
       WriteConflict, DeleteFind, Delete, InFlight, SavingSteps
  <2>2. QED
    BY <2>1, StepOfOne, CallKept DEF CrudInv
<1>1. CASE UpdateFind(r)
  <2>1. PICK id \in call[r].ids \cap DOMAIN table :
          /\ call[r].kind = "update" /\ call[r].target \in Ids
          /\ Spread(table[id], frame[r].rows[id]) \in Row
          /\ Save(r, call[r].target, Spread(table[id], frame[r].rows[id]))
    BY <1>1, FoundEntity
  <2>2. call' = call
    BY <1>1 DEF UpdateFind
  <2>3. QED
    BY <1>0, <2>1, <2>2, SaveCarries DEF Carries
<1>2. CASE UpdateManyFind(r)
  <2>1. call' = call /\ call[r].ids \subseteq Ids
    BY <1>2 DEF UpdateManyFind, CrudInv, Calls
  <2>2. QED
    BY <1>0, <1>2, <2>1, FoundEntities, RowIsPartial DEF Carries, Aims, SavingSteps
<1>3. CASE Load(r)
  <2>1. call' = call
    BY <1>3 DEF Load
  <2>2. QED
    BY <1>0, <1>3, <2>1, LoadedRows DEF Carries, Aims, SavingSteps
<1>4. CASE UpdateMissing(r) \/ WriteConflict(r) \/ Write(r) \/ Abort(r)
  <2>1. call' = call /\ \E status \in Answers : Answer(r, status)
    BY <1>4 DEF UpdateMissing, WriteConflict, Write, Abort, Answers
  <2>2. QED
    BY <1>0, <2>1, AnswerCarries DEF Carries
<1>5. CASE DeleteFind(r)
  <2>1. /\ pc[r] = "deleteFind" /\ call' = call
        /\ Answer(r, "ok") \/ GoTo(r, "delete", NoFrame)
    BY <1>5 DEF DeleteFind
  <2>2. CASE Answer(r, "ok")
    BY <1>0, <2>1, <2>2, AnswerCarries DEF Answers, Carries
  <2>3. CASE GoTo(r, "delete", NoFrame)
    <3>1. pc'[r] = "delete" /\ frame'[r] = NoFrame
      BY <2>3, GoesTo DEF Labels, InFlight
    <3>2. QED
      BY <1>0, <2>1, <3>1, NoFrameIsEmpty DEF Carries, SavingSteps
  <2>4. QED
    BY <2>1, <2>2, <2>3
<1>6. CASE Delete(r)
  <2>1. \E status \in {"ok", "aborted"} : Answer(r, status)
    BY <1>6 DEF Delete
  <2>2. QED
    BY <1>0, <2>1, AnswerCarries DEF Answers, Carries, IsSingle
<1>7. QED
  BY <1>1, <1>2, <1>3, <1>4, <1>5, <1>6 DEF Continue

\* The steps that change the table.
LEMMA TableChanges ==
    ASSUME CrudInv, NEW r \in Requests, Step(r)
    PROVE  table' = table \/ Delete(r) \/ Write(r)
BY StartCarries DEF Step, Continue, Abort, UpdateFind, UpdateManyFind, UpdateMissing, Load,
   WriteConflict, DeleteFind

\* What a save leaves in the table: its insertions, its patches, the rest.
LEMMA WrittenRows ==
    ASSUME CrudInv, NEW r \in Requests, Write(r)
    PROVE  LET rows   == frame[r].rows
               absent == frame[r].absent
           IN  /\ pc[r] = "write" /\ pc'[r] \in {"ok", "aborted"} /\ call' = call
               /\ absent \cap DOMAIN table = {} /\ absent \subseteq DOMAIN rows
               /\ DOMAIN rows \subseteq Ids /\ DOMAIN table' = DOMAIN table \cup absent
               /\ \A id \in DOMAIN table' : table'[id] \in Row
               /\ \A id \in absent : table'[id] = rows[id] /\ rows[id] \in Row
               /\ \A id \in DOMAIN table \cap DOMAIN rows :
                    table'[id].userId = IF "userId" \in DOMAIN rows[id]
                                          THEN rows[id]["userId"] ELSE table[id].userId
               /\ \A id \in DOMAIN table \ DOMAIN rows : table'[id] = table[id]
<1> DEFINE rows == frame[r].rows
           absent == frame[r].absent
<1>1. /\ pc[r] = "write" /\ call' = call /\ table' = Written(r)
      /\ absent \cap DOMAIN table = {}
      /\ \E status \in {"ok", "aborted"} : Answer(r, status)
  BY DEF Write
<1>2. pc'[r] \in {"ok", "aborted"}
  BY <1>1, GoesTo DEF Answer, Labels, Answers
<1>3. /\ absent \subseteq DOMAIN rows /\ DOMAIN rows \subseteq Ids
      /\ \A id \in absent : rows[id] \in Row
      /\ \A id \in DOMAIN rows : IsPartial(rows[id])
      /\ \A id \in DOMAIN table : table[id] \in Row
  BY DEF CrudInv, Carries
<1>4. /\ DOMAIN table' = DOMAIN table \cup absent
      /\ \A id \in absent : table'[id] = rows[id]
      /\ \A id \in DOMAIN table \cap DOMAIN rows : table'[id] = Spread(table[id], rows[id])
      /\ \A id \in DOMAIN table \ DOMAIN rows : table'[id] = table[id]
  BY <1>1, <1>3 DEF Written
<1>5. \A id \in DOMAIN table \cap DOMAIN rows :
        /\ table'[id] \in Row
        /\ table'[id].userId = IF "userId" \in DOMAIN rows[id]
                                 THEN rows[id]["userId"] ELSE table[id].userId
  BY <1>3, <1>4, SpreadRow
<1>6. QED
  BY <1>1, <1>2, <1>3, <1>4, <1>5

LEMMA TableTyped ==
    ASSUME CrudInv, NEW r \in Requests, Step(r)
    PROVE  DOMAIN table' \subseteq Ids /\ \A id \in DOMAIN table' : table'[id] \in Row
<1>0. DOMAIN table \subseteq Ids /\ \A id \in DOMAIN table : table[id] \in Row
  BY DEF CrudInv
<1>1. CASE table' = table
  BY <1>0, <1>1
<1>2. CASE Delete(r)
  BY <1>0, <1>2 DEF Delete
<1>3. CASE Write(r)
  BY <1>0, <1>3, WrittenRows
<1>4. QED
  BY <1>1, <1>2, <1>3, TableChanges

LEMMA CrudInvStep == CrudInv /\ [Next]_vars => CrudInv'
<1> SUFFICES ASSUME CrudInv, [Next]_vars PROVE CrudInv'
  OBVIOUS
<1>1. CASE UNCHANGED vars
  BY <1>1 DEF vars, CrudInv, Carries, Aims
<1>2. ASSUME NEW r \in Requests, Step(r) PROVE CrudInv'
  <2>1. Carries(r)'
    BY <1>2, StartCarries, ContinueCarries DEF Step
  <2>2. \A q \in Requests \ {r} : Carries(q)'
    BY <1>2, OthersCarry
  <2>3. QED
    BY <1>2, <2>1, <2>2, StepOfOne, TableTyped DEF CrudInv
<1>3. QED
  BY <1>1, <1>2 DEF Next, Step

LEMMA CrudInvTypes == CrudInv => TypeOK
BY DEF CrudInv, TypeOK, Carries, Labels

LEMMA CrudInvAlways == Spec => []CrudInv
<1>1. QED
  BY CrudInvInit, CrudInvStep, PTL DEF Spec

\* Every state of the table and of the requests is well typed, whatever columns
\* the bodies name: what an update inserts for a row that has gone, or under an
\* id of the body, is a whole row.
THEOREM CrudTypeCorrect == Spec => []TypeOK
<1>1. QED
  BY CrudInvAlways, CrudInvTypes, PTL
-----------------------------------------------------------------------------
(***************************************************************************)
(* The history: what each request has inserted.                            *)
(***************************************************************************)
\* Only a request that has ended has inserted anything.
InsertedInv ==
    /\ DOMAIN inserted = Requests
    /\ \A r \in Requests : inserted[r] # {} => pc[r] \in {"ok", "aborted"}

LEMMA InsertedStep ==
    ASSUME CrudInv, InsertedInv, NEW r \in Requests, Step(r), Observe
    PROVE  /\ InsertedInv'
           /\ \A q \in Requests \ {r} : inserted'[q] = inserted[q]
           /\ inserted[r] = {}
           /\ inserted'[r] = IF Write(r) THEN frame[r].absent ELSE {}
<1>1. /\ \A q \in Requests \ {r} : pc'[q] = pc[q]
      /\ pc[r] \notin {"ok", "aborted"}
  BY StepOfOne DEF InFlight, SavingSteps
<1>2. /\ DOMAIN inserted' = Requests
      /\ \A q \in Requests :
           inserted'[q] = IF pc[q] = "write" /\ table' # table /\ pc'[q] # pc[q]
                            THEN frame[q].absent ELSE inserted[q]
  BY DEF Observe
<1>3. inserted[r] = {} /\ \A q \in Requests \ {r} : inserted'[q] = inserted[q]
  BY <1>1, <1>2 DEF InsertedInv
<1>4. CASE Write(r)
  <2>1. /\ pc[r] = "write" /\ pc'[r] \in {"ok", "aborted"}
        /\ frame[r].absent \cap DOMAIN table = {}
        /\ DOMAIN table' = DOMAIN table \cup frame[r].absent
    BY <1>4, WrittenRows
  <2>2. frame[r].absent # {} => table' # table
    BY <2>1
  <2>3. inserted'[r] = frame[r].absent
    BY <1>2, <1>3, <2>1, <2>2
  <2>4. QED
    BY <1>1, <1>2, <1>3, <1>4, <2>1, <2>3 DEF InsertedInv
<1>5. CASE ~Write(r)
  <2>1. table' = table \/ pc[r] = "delete"
    BY <1>5, TableChanges DEF Delete
  <2>2. inserted'[r] = {}
    BY <1>2, <1>3, <2>1
  <2>3. QED
    BY <1>1, <1>2, <1>3, <1>5, <2>2 DEF InsertedInv
<1>6. QED
  BY <1>4, <1>5
-----------------------------------------------------------------------------
(***************************************************************************)
(* Owners that were given.                                                 *)
(***************************************************************************)
\* Some request gave the row id this owner, or it has had it from the start.
GivenTo(id, owner) ==
    \/ id \in Early \ Unused /\ owner = FirstOwner
    \/ \E q \in Requests :
         /\ call[q].target = id
         /\ \/ owner = NamedOwner(call[q].kind, call[q].user, call[q].owner)
            \/ \E found \in call[q].ids \ {id} : owner \in owners[found]

\* A partial update has the owner of its body; an entity about to be saved has
\* one that was given to the row that it is saved to.
CarriesGiven(r) ==
    LET rows == frame[r].rows
    IN  \A id \in DOMAIN rows :
          "userId" \in DOMAIN rows[id] =>
            /\ pc[r] = "updateFind" =>
                 /\ call[r].kind = "update"
                 /\ rows[id]["userId"] = NamedOwner("update", call[r].user, call[r].owner)
            /\ pc[r] \in {"load", "write"} => GivenTo(id, rows[id]["userId"])

OwnersInv ==
    /\ DOMAIN owners = Ids
    /\ \A id \in DOMAIN table : /\ table[id].userId \in owners[id]
                                /\ GivenTo(id, table[id].userId)
    /\ \A r \in Requests : CarriesGiven(r)

\* What was given stays given, and the owners that a row has had are not
\* forgotten.
LEMMA GivenStays ==
    ASSUME CrudInv, DOMAIN owners = Ids, NEW r \in Requests, Step(r), Observe,
           NEW id, NEW owner \in Users, GivenTo(id, owner)
    PROVE  GivenTo(id, owner)'
<1>1. CASE id \in Early \ Unused /\ owner = FirstOwner
  BY <1>1 DEF GivenTo
<1>2. CASE ~(id \in Early \ Unused /\ owner = FirstOwner)
  <2>1. PICK q \in Requests :
          /\ call[q].target = id
          /\ \/ owner = NamedOwner(call[q].kind, call[q].user, call[q].owner)
             \/ \E found \in call[q].ids \ {id} : owner \in owners[found]
    BY <1>2 DEF GivenTo
  <2>2. ~(q = r /\ pc[r] = "idle")
    <3> SUFFICES ASSUME q = r, pc[r] = "idle" PROVE FALSE
      OBVIOUS
    <3>1. call[q] = NoCall
      BY DEF CrudInv, Carries
    <3>2. owner = None
      BY <2>1, <3>1 DEF NoCall, NamedOwner
    <3>3. QED
      BY <3>2, NoneAssumption
  <2>3. /\ call'[q].kind = call[q].kind /\ call'[q].user = call[q].user
        /\ call'[q].ids = call[q].ids /\ call'[q].owner = call[q].owner
        /\ call'[q].target = call[q].target
    BY <2>2, StepOfOne, CallKept
  <2>4. \A found \in Ids : owners[found] \subseteq owners'[found]
    BY DEF Observe
  <2>5. call[q].ids \subseteq Ids
    BY DEF CrudInv, Calls
  <2>6. QED
    BY <2>1, <2>3, <2>4, <2>5 DEF GivenTo
<1>3. QED
  BY <1>1, <1>2

\* The entities of a request that saves one entity for its target.
LEMMA SaveGives ==
    ASSUME CrudInv, NEW r \in Requests, NEW target, NEW entity, NEW owner,
           Save(r, target, entity), owner = entity["userId"], GivenTo(target, owner)'
    PROVE  CarriesGiven(r)'
<1>1. /\ pc'[r] \in {"load", "write"} /\ DOMAIN frame'[r].rows = {target}
      /\ frame'[r].rows[target] = entity
  BY SaveGoes
<1>2. QED
  BY <1>1 DEF CarriesGiven

LEMMA StartGives ==
    ASSUME CrudInv, OwnersInv, NEW r \in Requests, Start(r), Observe
    PROVE  CarriesGiven(r)'
<1>1. Begins(r)
  BY StartBegins
<1>2. PICK args \in Calls :
        /\ Begin(r, args)
        /\ \/ \E user \in Users, text \in Texts, owner \in Users \cup {None}, target \in Ids :
                /\ args = [NoCall EXCEPT !.kind = "create", !.user = user, !.owner = owner,
                                         !.target = target]
                /\ Save(r, target, [displayName |-> text,
                                    userId |-> NamedOwner("create", user, owner)])
           \/ \E f : /\ "userId" \in DOMAIN f =>
                          /\ args.kind = "update"
                          /\ f["userId"] = NamedOwner("update", args.user, args.owner)
                     /\ BeginUpdate(r, args.ids, f)
           \/ \E label \in {"deleteFind", "delete"} : GoTo(r, label, NoFrame)
  BY <1>1 DEF Begins
<1>3. call'[r] = args
  BY <1>2, BeginsCall
<1>4. CASE \E user \in Users, text \in Texts, owner \in Users \cup {None}, target \in Ids :
              /\ args = [NoCall EXCEPT !.kind = "create", !.user = user, !.owner = owner,
                                       !.target = target]
              /\ Save(r, target, [displayName |-> text,
                                  userId |-> NamedOwner("create", user, owner)])
  <2>1. PICK user \in Users, text \in Texts, owner \in Users \cup {None}, target \in Ids :
              /\ args = [NoCall EXCEPT !.kind = "create", !.user = user, !.owner = owner,
                                       !.target = target]
              /\ Save(r, target, [displayName |-> text,
                                  userId |-> NamedOwner("create", user, owner)])
    BY <1>4
  <2> DEFINE entity == [displayName |-> text, userId |-> NamedOwner("create", user, owner)]
  <2>2. /\ call'[r].kind = "create" /\ call'[r].user = user /\ call'[r].owner = owner
        /\ call'[r].target = target
    BY <1>3, <2>1 DEF NoCall
  <2>3. PICK named : named = NamedOwner("create", user, owner)
    OBVIOUS
  <2>4. GivenTo(target, named)'
    BY <2>2, <2>3 DEF GivenTo
  <2>5. entity["userId"] = named /\ Save(r, target, entity)
    BY <2>1, <2>3
  <2> HIDE DEF entity
  <2>6. QED
    BY <2>4, <2>5, SaveGives
<1>5. CASE \E f : /\ "userId" \in DOMAIN f =>
                       /\ args.kind = "update"
                       /\ f["userId"] = NamedOwner("update", args.user, args.owner)
                  /\ BeginUpdate(r, args.ids, f)
  <2>1. PICK f : /\ "userId" \in DOMAIN f =>
                      /\ args.kind = "update"
                      /\ f["userId"] = NamedOwner("update", args.user, args.owner)
                 /\ BeginUpdate(r, args.ids, f)
    BY <1>5
  <2> DEFINE object == [rows |-> [id \in args.ids |-> f], absent |-> {}]
  <2>2. GoTo(r, "updateFind", object)
    BY <2>1 DEF BeginUpdate
  <2>3. "updateFind" \in Labels
    BY DEF Labels, InFlight, SavingSteps
  <2>4. object.rows = [id \in args.ids |-> f]
    OBVIOUS
  <2> HIDE DEF object
  <2>5. pc'[r] = "updateFind" /\ frame'[r] = object
    BY <2>2, <2>3, GoesTo
  <2>6. QED
    BY <1>3, <2>1, <2>4, <2>5 DEF CarriesGiven
<1>6. CASE \E label \in {"deleteFind", "delete"} : GoTo(r, label, NoFrame)
  BY <1>6, GoesTo, NoFrameIsEmpty DEF CarriesGiven, Labels, InFlight
<1>7. QED
  BY <1>2, <1>4, <1>5, <1>6

LEMMA ContinueGives ==
    ASSUME CrudInv, OwnersInv, NEW r \in Requests, Continue(r) \/ Abort(r), Observe
    PROVE  CarriesGiven(r)'
<1>0. /\ Step(r) /\ DOMAIN owners = Ids /\ CarriesGiven(r) /\ DOMAIN table \subseteq Ids
      /\ \A id \in DOMAIN table : /\ table[id] \in Row /\ table[id].userId \in Users
                                  /\ table[id].userId \in owners[id]
                                  /\ GivenTo(id, table[id].userId)
  BY RowIsPartial DEF Step, OwnersInv, CrudInv
<1>1. CASE UpdateFind(r)
  <2>1. PICK id \in call[r].ids \cap DOMAIN table :
             /\ call[r].kind = "update" /\ pc[r] = "updateFind"
             /\ id \in DOMAIN frame[r].rows /\ IsPartial(frame[r].rows[id])
             /\ table[id] \in Row
             /\ Spread(table[id], frame[r].rows[id]) \in Row
             /\ Save(r, call[r].target, Spread(table[id], frame[r].rows[id]))
    BY <1>1, FoundEntity
  <2>2. PICK target, entity, owner :
          /\ target = call[r].target /\ owner = entity["userId"]
          /\ entity = Spread(table[id], frame[r].rows[id])
    OBVIOUS
  <2>3. /\ owner \in Users
        /\ owner = IF "userId" \in DOMAIN frame[r].rows[id]
                     THEN frame[r].rows[id]["userId"] ELSE table[id].userId
    BY <2>1, <2>2, SpreadRow, RowIsPartial
  <2>4. GivenTo(target, owner)
    <3>1. CASE "userId" \in DOMAIN frame[r].rows[id]
      <4>1. owner = NamedOwner(call[r].kind, call[r].user, call[r].owner)
        BY <1>0, <2>1, <2>3, <3>1 DEF CarriesGiven
      <4>2. QED
        BY <2>2, <4>1 DEF GivenTo
    <3>2. CASE "userId" \notin DOMAIN frame[r].rows[id]
      <4>1. owner = table[id].userId
        BY <2>3, <3>2
      <4>2. CASE id = target
        BY <1>0, <2>1, <4>1, <4>2
      <4>3. CASE id # target
        BY <1>0, <2>1, <2>2, <4>1, <4>3 DEF GivenTo
      <4>4. QED
        BY <4>2, <4>3
    <3>3. QED
      BY <3>1, <3>2
  <2>5. GivenTo(target, owner)'
    BY <1>0, <2>3, <2>4, GivenStays
  <2>6. QED
    BY <2>1, <2>2, <2>5, SaveGives
<1>2. CASE UpdateManyFind(r)
  <2>1. /\ call[r].kind = "updateMany" /\ pc[r] = "updateFind" /\ pc'[r] = "load"
        /\ \A id \in DOMAIN frame'[r].rows :
             /\ id \in DOMAIN table /\ id \in DOMAIN frame[r].rows
             /\ IsPartial(frame[r].rows[id])
             /\ frame'[r].rows[id] = Spread(table[id], frame[r].rows[id])
    BY <1>2, FoundEntities
  <2>2. ASSUME NEW id \in DOMAIN frame'[r].rows
        PROVE  \E owner : owner = frame'[r].rows[id]["userId"] /\ GivenTo(id, owner)'
    <3>1. "userId" \notin DOMAIN frame[r].rows[id]
      BY <1>0, <2>1, <2>2 DEF CarriesGiven
    <3>2. PICK owner \in Users : owner = table[id].userId
      BY <1>0, <2>1, <2>2
    <3>3. owner = frame'[r].rows[id]["userId"]
      BY <1>0, <2>1, <2>2, <3>1, <3>2, SpreadRow
    <3>4. GivenTo(id, owner)
      BY <1>0, <2>1, <2>2, <3>2
    <3>5. GivenTo(id, owner)'
      BY <1>0, <3>4, GivenStays
    <3>6. QED
      BY <3>3, <3>5
  <2>3. QED
    BY <2>1, <2>2 DEF CarriesGiven
<1>3. CASE Load(r)
  <2>1. /\ pc[r] = "load" /\ pc'[r] = "write"
        /\ DOMAIN frame'[r].rows = DOMAIN frame[r].rows
        /\ \A id \in DOMAIN frame[r].rows :
             /\ frame[r].rows[id] \in Row
             /\ "userId" \in DOMAIN frame'[r].rows[id] =>
                  frame'[r].rows[id]["userId"] = frame[r].rows[id].userId
    BY <1>3, LoadedRows
  <2>2. ASSUME NEW id \in DOMAIN frame[r].rows
        PROVE  \E owner : owner = frame[r].rows[id].userId /\ GivenTo(id, owner)'
    <3>1. PICK owner \in Users : owner = frame[r].rows[id].userId
      BY <2>1, <2>2, RowIsPartial
    <3>2. "userId" \in DOMAIN frame[r].rows[id]
      BY <2>1, <2>2, RowIsPartial
    <3>3. GivenTo(id, owner)
      BY <1>0, <2>1, <2>2, <3>1, <3>2 DEF CarriesGiven
    <3>4. GivenTo(id, owner)'
      BY <1>0, <3>3, GivenStays
    <3>5. QED
      BY <3>1, <3>4
  <2>3. QED
    BY <2>1, <2>2 DEF CarriesGiven
<1>4. CASE \/ UpdateMissing(r) \/ WriteConflict(r) \/ Write(r) \/ Abort(r) \/ DeleteFind(r)
           \/ Delete(r)
  <2>1. frame'[r] = NoFrame
    BY <1>4 DEF UpdateMissing, WriteConflict, Write, Abort, DeleteFind, Delete, Answer, GoTo,
       CrudInv
  <2>2. QED
    BY <2>1, NoFrameIsEmpty DEF CarriesGiven
<1>5. QED
  BY <1>1, <1>2, <1>3, <1>4 DEF Continue

LEMMA OwnersInvInit == HInit => OwnersInv
<1> SUFFICES ASSUME HInit PROVE OwnersInv
  OBVIOUS
<1>1. \A r \in Requests : CarriesGiven(r)
  BY NoFrameIsEmpty DEF HInit, Init, CarriesGiven
<1>2. \A id \in DOMAIN table : id \in Early \ Unused /\ table[id].userId = FirstOwner
  BY DEF HInit, Init
<1>3. DOMAIN owners = Ids /\ \A id \in DOMAIN table : FirstOwner \in owners[id]
  BY <1>2 DEF HInit, Ids
<1>4. QED
  BY <1>1, <1>2, <1>3 DEF OwnersInv, GivenTo

LEMMA OwnersInvStep ==
    ASSUME CrudInv, OwnersInv, NEW r \in Requests, Step(r), Observe
    PROVE  OwnersInv'
<1>0. /\ DOMAIN owners = Ids /\ DOMAIN table \subseteq Ids /\ CarriesGiven(r) /\ Carries(r)
      /\ \A id \in DOMAIN table : table[id].userId \in Users /\ GivenTo(id, table[id].userId)
      /\ DOMAIN table' \subseteq Ids /\ \A id \in DOMAIN table' : table'[id].userId \in Users
  BY RowIsPartial, TableTyped DEF OwnersInv, CrudInv
<1>1. CarriesGiven(r)'
  BY StartGives, ContinueGives DEF Step
<1>2. ASSUME NEW q \in Requests \ {r} PROVE CarriesGiven(q)'
  <2>1. /\ CarriesGiven(q) /\ Carries(q)
        /\ pc'[q] = pc[q] /\ call'[q] = call[q] /\ frame'[q] = frame[q]
    BY StepOfOne DEF OwnersInv, CrudInv
  <2>2. ASSUME NEW id \in DOMAIN frame[q].rows, "userId" \in DOMAIN frame[q].rows[id],
               pc[q] \in {"load", "write"}
        PROVE  \E owner : owner = frame[q].rows[id]["userId"] /\ GivenTo(id, owner)'
    <3>1. PICK owner \in Users : owner = frame[q].rows[id]["userId"]
      BY <2>1, <2>2 DEF Carries, IsPartial
    <3>2. GivenTo(id, owner)
      BY <2>1, <2>2, <3>1 DEF CarriesGiven
    <3>3. QED
      BY <1>0, <3>1, <3>2, GivenStays
  <2>3. QED
    BY <2>1, <2>2 DEF CarriesGiven
<1>3. DOMAIN owners' = Ids /\ \A id \in DOMAIN table' : table'[id].userId \in owners'[id]
  BY <1>0 DEF Observe
<1>4. ASSUME NEW id \in DOMAIN table'
      PROVE  \E owner \in Users : owner = table'[id].userId /\ GivenTo(id, owner)
  <2>1. CASE id \in DOMAIN table /\ table'[id].userId = table[id].userId
    BY <1>0, <2>1
  <2>2. CASE ~(id \in DOMAIN table /\ table'[id].userId = table[id].userId)
    <3>1. Write(r)
      BY <1>4, <2>2, TableChanges DEF Delete
    <3>2. /\ pc[r] = "write" /\ id \in DOMAIN frame[r].rows
          /\ "userId" \in DOMAIN frame[r].rows[id]
          /\ table'[id].userId = frame[r].rows[id]["userId"]
      <4>1. /\ pc[r] = "write" /\ frame[r].absent \subseteq DOMAIN frame[r].rows
            /\ DOMAIN table' = DOMAIN table \cup frame[r].absent
            /\ \A i \in frame[r].absent :
                 table'[i] = frame[r].rows[i] /\ frame[r].rows[i] \in Row
            /\ \A i \in DOMAIN table \cap DOMAIN frame[r].rows :
                 table'[i].userId = IF "userId" \in DOMAIN frame[r].rows[i]
                                      THEN frame[r].rows[i]["userId"] ELSE table[i].userId
            /\ \A i \in DOMAIN table \ DOMAIN frame[r].rows : table'[i] = table[i]
        BY <3>1, WrittenRows
      <4>2. CASE id \in frame[r].absent
        BY <4>1, <4>2, RowIsPartial
      <4>3. CASE id \notin frame[r].absent
        BY <1>4, <2>2, <4>1, <4>3
      <4>4. QED
        BY <4>2, <4>3
    <3>3. PICK owner \in Users : owner = table'[id].userId
      BY <1>0, <1>4
    <3>4. GivenTo(id, owner)
      BY <1>0, <3>2, <3>3 DEF CarriesGiven
    <3>5. QED
      BY <3>3, <3>4
  <2>3. QED
    BY <2>1, <2>2
<1>5. ASSUME NEW id \in DOMAIN table'
      PROVE  \E owner : owner = table'[id].userId /\ GivenTo(id, owner)'
  <2>1. PICK owner \in Users : owner = table'[id].userId /\ GivenTo(id, owner)
    BY <1>4, <1>5
  <2>2. GivenTo(id, owner)'
    BY <1>0, <2>1, GivenStays
  <2>3. QED
    BY <2>1, <2>2
<1>6. QED
  BY <1>1, <1>2, <1>3, <1>5 DEF OwnersInv
-----------------------------------------------------------------------------
(***************************************************************************)
(* Deletions that are final.                                               *)
(***************************************************************************)
\* A body of q names the row id, which q has not found itself.
Names(q, id) ==
    call[q].target = id /\ (call[q].kind = "create" \/ id \notin call[q].ids)

Returned(id) == \E q \in Requests : id \in inserted[q] /\ Names(q, id)

\* A row that is gone comes back, or is about to, only by its name.
GoneInv ==
    \A id \in gone :
        /\ id \in DOMAIN table => Returned(id)
        /\ \A r \in Requests : Holds(r, id) => Names(r, id) \/ Returned(id)

\* A request comes to hold a row by finding it, or by its name in a body.
LEMMA HoldersFound ==
    ASSUME CrudInv, NEW r \in Requests, Step(r), NEW id, Holds(r, id)'
    PROVE  Holds(r, id) \/ id \in DOMAIN table \/ Names(r, id)'
<1>1. CASE Start(r)
  <2>1. Begins(r)
    BY <1>1, StartBegins
  <2>2. PICK args \in Calls :
          /\ Begin(r, args)
          /\ \/ \E user \in Users, text \in Texts, owner \in Users \cup {None}, target \in Ids :
                  /\ args = [NoCall EXCEPT !.kind = "create", !.user = user,
                                           !.owner = owner, !.target = target]
                  /\ Save(r, target, [displayName |-> text,
                                      userId |-> NamedOwner("create", user, owner)])
             \/ \E f : BeginUpdate(r, args.ids, f)
             \/ \E label \in {"deleteFind", "delete"} : GoTo(r, label, NoFrame)
    BY <2>1 DEF Begins
  <2>3. call'[r] = args
    BY <2>2, BeginsCall
  <2>4. ASSUME NEW user, NEW text, NEW owner, NEW target,
               args = [NoCall EXCEPT !.kind = "create", !.user = user,
                                     !.owner = owner, !.target = target],
               Save(r, target, [displayName |-> text,
                                userId |-> NamedOwner("create", user, owner)])
        PROVE  Names(r, id)'
    <3>1. args.kind = "create" /\ args.target = target
      BY <2>4 DEF NoCall
    <3>2. id = target
      BY <2>4, SaveGoes DEF Holds
    <3>3. QED
      BY <2>3, <3>1, <3>2 DEF Names
  <2>5. ~(\E f : BeginUpdate(r, args.ids, f))
    BY GoesTo DEF BeginUpdate, Holds, Labels, InFlight, SavingSteps
  <2>6. ~(\E label \in {"deleteFind", "delete"} : GoTo(r, label, NoFrame))
    BY GoesTo DEF Holds, Labels, InFlight, SavingSteps
  <2>7. QED
    BY <2>2, <2>4, <2>5, <2>6
<1>2. CASE UpdateFind(r)
  <2>1. PICK found \in call[r].ids \cap DOMAIN table :
          /\ call[r].ids = {found}
          /\ found \in DOMAIN frame[r].rows
          /\ Save(r, call[r].target, Spread(table[found], frame[r].rows[found]))
    BY <1>2, FoundEntity
  <2>2. id = call[r].target /\ call' = call
    BY <1>2, <2>1, SaveGoes DEF Holds, UpdateFind
  <2>3. id \notin call[r].ids \/ id \in DOMAIN table
    BY <2>1
  <2>4. QED
    BY <2>1, <2>2, <2>3 DEF Names
<1>3. CASE UpdateManyFind(r)
  BY <1>3, FoundEntities DEF Holds
<1>4. CASE Load(r)
  BY <1>4, LoadedRows DEF Holds
<1>5. CASE \/ UpdateMissing(r) \/ WriteConflict(r) \/ Write(r) \/ Abort(r) \/ DeleteFind(r)
           \/ Delete(r)
  <2>1. frame'[r] = NoFrame
    BY <1>5 DEF UpdateMissing, WriteConflict, Write, Abort, DeleteFind, Delete, Answer, GoTo,
       CrudInv
  <2>2. QED
    BY <2>1, NoFrameIsEmpty DEF Holds
<1>6. QED
  BY <1>1, <1>2, <1>3, <1>4, <1>5 DEF Step, Continue

LEMMA NamesStays ==
    ASSUME CrudInv, NEW r \in Requests, Step(r), NEW q \in Requests, pc[q] # "idle", NEW id,
           Names(q, id)
    PROVE  Names(q, id)'
BY StepOfOne, CallKept DEF Names

LEMMA ReturnedStays ==
    ASSUME CrudInv, InsertedInv, NEW r \in Requests, Step(r), Observe, NEW id, Returned(id)
    PROVE  Returned(id)'
<1>1. PICK q \in Requests : id \in inserted[q] /\ Names(q, id)
  BY DEF Returned
<1>2. pc[q] # "idle" /\ q # r
  BY <1>1, InsertedStep DEF InsertedInv
<1>3. id \in inserted'[q] /\ Names(q, id)'
  BY <1>1, <1>2, InsertedStep, NamesStays
<1>4. QED
  BY <1>3 DEF Returned

LEMMA GoneInvStep ==
    ASSUME CrudInv, InsertedInv, GoneInv, NEW r \in Requests, Step(r), Observe
    PROVE  GoneInv'
<1>1. ASSUME NEW id \in gone, id \in DOMAIN table' PROVE Returned(id)'
  <2>1. CASE id \in DOMAIN table
    BY <1>1, <2>1, ReturnedStays DEF GoneInv
  <2>2. CASE id \notin DOMAIN table
    <3>1. Write(r)
      BY <1>1, <2>2, TableChanges DEF Delete
    <3>2. /\ pc[r] = "write" /\ id \in frame[r].absent /\ id \in DOMAIN frame[r].rows
          /\ call' = call
      BY <1>1, <2>2, <3>1, WrittenRows
    <3>3. Names(r, id) \/ Returned(id)
      BY <3>2 DEF GoneInv, Holds
    <3>4. Names(r, id) => Names(r, id)' /\ id \in inserted'[r]
      BY <3>1, <3>2, NamesStays, InsertedStep
    <3>5. QED
      BY <3>3, <3>4, ReturnedStays DEF Returned
  <2>3. QED
    BY <2>1, <2>2
<1>2. ASSUME NEW id \in gone, NEW q \in Requests, Holds(q, id)'
      PROVE  Names(q, id)' \/ Returned(id)'
  <2>1. Holds(q, id) => pc[q] # "idle" /\ (Names(q, id) \/ Returned(id))
    BY DEF GoneInv, Holds
  <2>2. Holds(q, id) => Names(q, id)' \/ Returned(id)'
    BY <2>1, NamesStays, ReturnedStays
  <2>3. CASE q # r
    BY <1>2, <2>2, <2>3, StepOfOne DEF Holds
  <2>4. CASE q = r
    <3>1. Holds(q, id) \/ id \in DOMAIN table \/ Names(q, id)'
      BY <1>2, <2>4, HoldersFound
    <3>2. id \in DOMAIN table => Returned(id)'
      BY ReturnedStays DEF GoneInv
    <3>3. QED
      BY <2>2, <3>1, <3>2
  <2>5. QED
    BY <2>3, <2>4
<1>3. ASSUME NEW id \in gone' \ gone
      PROVE  id \notin DOMAIN table' /\ \A q \in Requests : ~Holds(q, id)'
  <2>1. id \in DOMAIN table \ DOMAIN table' /\ \A q \in Requests : ~Holds(q, id)
    BY <1>3 DEF Observe
  <2>2. Delete(r)
    BY <2>1, TableChanges, WrittenRows
  <2>3. frame'[r] = NoFrame
    BY <2>2 DEF Delete, Answer, GoTo, CrudInv
  <2>4. ~Holds(r, id)'
    BY <2>3, NoFrameIsEmpty DEF Holds
  <2>5. QED
    BY <2>1, <2>4, StepOfOne DEF Holds
<1>4. QED
  BY <1>1, <1>2, <1>3 DEF GoneInv
-----------------------------------------------------------------------------
(***************************************************************************)
(* The answers of concurrent deletes.                                      *)
(***************************************************************************)
Deletes(id) == {r \in Requests : id \in call[r].removed}
Inserts(id) == {r \in Requests : id \in inserted[r]}
Stored(id)  == IF id \in Early \ Unused THEN 1 ELSE 0
Left(id)    == IF id \in DOMAIN table THEN 1 ELSE 0

Counted(id) ==
    /\ IsFiniteSet(Deletes(id)) /\ IsFiniteSet(Inserts(id))
    /\ Cardinality(Inserts(id)) + Stored(id) = Cardinality(Deletes(id)) + Left(id)

CountInv == \A id \in Ids : Counted(id)

\* One more request in a set of requests.
LEMMA OneMore ==
    ASSUME NEW S, IsFiniteSet(S), NEW r, r \notin S
    PROVE  /\ IsFiniteSet(S \cup {r}) /\ Cardinality(S \cup {r}) = Cardinality(S) + 1
           /\ Cardinality(S) \in Nat
BY FS_AddElement, FS_CardinalityType

\* Steps that neither insert nor remove a row.
LEMMA CountKept ==
    ASSUME CrudInv, InsertedInv, NEW r \in Requests, Step(r), Observe, ~Delete(r), ~Write(r),
           NEW id, Counted(id)
    PROVE  Counted(id)'
<1>1. table' = table
  BY TableChanges
<1>2. call'[r].removed = call[r].removed
  <2>1. CASE Start(r)
    <3>1. call'[r].removed = {}
      BY <2>1, StartBegins, BeginsCall DEF Begins
    <3>2. QED
      BY <3>1, StepOfOne
  <2>2. CASE ~Start(r)
    BY <2>2 DEF Step, Continue, Abort, UpdateFind, UpdateManyFind, UpdateMissing, Load,
       WriteConflict, DeleteFind
  <2>3. QED
    BY <2>1, <2>2
<1>3. \A q \in Requests : call'[q].removed = call[q].removed /\ inserted'[q] = inserted[q]
  BY <1>2, StepOfOne, InsertedStep
<1>4. Deletes(id)' = Deletes(id) /\ Inserts(id)' = Inserts(id)
  BY <1>3 DEF Deletes, Inserts
<1>5. QED
  BY <1>1, <1>4 DEF Counted, Stored, Left

\* A DELETE counts one deletion more of the rows that it removes, and of no
\* other.
LEMMA CountDelete ==
    ASSUME CrudInv, InsertedInv, NEW r \in Requests, Delete(r), Observe, NEW id, Counted(id)
    PROVE  Counted(id)'
<1>0. Step(r) /\ ~Write(r)
  BY DEF Step, Continue, Delete, Write
<1>1. /\ DOMAIN table' = DOMAIN table \ call[r].ids
      /\ call'[r].removed = call[r].ids \cap DOMAIN table
      /\ \A q \in Requests \ {r} : call'[q].removed = call[q].removed
      /\ call[r].removed = {}
  BY <1>0, StepOfOne DEF Delete, CrudInv, Calls, Found
<1>2. Inserts(id)' = Inserts(id)
  BY <1>0, InsertedStep DEF Inserts
<1>3. CASE id \in call[r].ids \cap DOMAIN table
  <2>1. Deletes(id)' = Deletes(id) \cup {r} /\ r \notin Deletes(id)
    BY <1>1, <1>3 DEF Deletes
  <2>2. Left(id) = 1 /\ Left(id)' = 0 /\ Stored(id)' = Stored(id)
    BY <1>1, <1>3 DEF Left, Stored
  <2>3. QED
    BY <1>2, <2>1, <2>2, OneMore, FS_CardinalityType DEF Counted, Stored
<1>4. CASE id \notin call[r].ids \cap DOMAIN table
  <2>1. Deletes(id)' = Deletes(id)
    BY <1>1, <1>4 DEF Deletes
  <2>2. Left(id)' = Left(id) /\ Stored(id)' = Stored(id)
    BY <1>1, <1>4 DEF Left, Stored
  <2>3. QED
    BY <1>2, <2>1, <2>2 DEF Counted
<1>5. QED
  BY <1>3, <1>4

\* A save counts one insertion more of the rows that it inserts.
LEMMA CountWrite ==
    ASSUME CrudInv, InsertedInv, NEW r \in Requests, Write(r), Observe, NEW id, Counted(id)
    PROVE  Counted(id)'
<1> DEFINE absent == frame[r].absent
<1>0. Step(r)
  BY DEF Step, Continue
<1>1. /\ DOMAIN table' = DOMAIN table \cup absent /\ absent \cap DOMAIN table = {}
      /\ call' = call
  BY WrittenRows
<1>2. Deletes(id)' = Deletes(id)
  BY <1>1 DEF Deletes
<1>3. /\ \A q \in Requests \ {r} : inserted'[q] = inserted[q]
      /\ inserted[r] = {} /\ inserted'[r] = absent
  BY <1>0, InsertedStep
<1>4. CASE id \in absent
  <2>1. Inserts(id)' = Inserts(id) \cup {r} /\ r \notin Inserts(id)
    BY <1>3, <1>4 DEF Inserts
  <2>2. Left(id) = 0 /\ Left(id)' = 1 /\ Stored(id)' = Stored(id)
    BY <1>1, <1>4 DEF Left, Stored
  <2>3. /\ IsFiniteSet(Inserts(id)') /\ Cardinality(Inserts(id)') = Cardinality(Inserts(id)) + 1
        /\ Cardinality(Inserts(id)) \in Nat /\ Cardinality(Deletes(id)) \in Nat
    BY <2>1, OneMore, FS_CardinalityType DEF Counted
  <2>4. QED
    BY <1>2, <2>2, <2>3 DEF Counted, Stored
<1>5. CASE id \notin absent
  <2>1. Inserts(id)' = Inserts(id)
    BY <1>3, <1>5 DEF Inserts
  <2>2. Left(id)' = Left(id) /\ Stored(id)' = Stored(id)
    BY <1>1, <1>5 DEF Left, Stored
  <2>3. QED
    BY <1>2, <2>1, <2>2 DEF Counted
<1>6. QED
  BY <1>4, <1>5
-----------------------------------------------------------------------------
(***************************************************************************)
(* The invariant of the history, and the theorems.                         *)
(***************************************************************************)
HistoryInv == CrudInv /\ InsertedInv /\ OwnersInv /\ GoneInv /\ CountInv

LEMMA HistoryInit == HInit => HistoryInv
<1> SUFFICES ASSUME HInit PROVE HistoryInv
  OBVIOUS
<1>1. CrudInv /\ OwnersInv
  BY CrudInvInit, OwnersInvInit DEF HInit
<1>2. InsertedInv /\ GoneInv
  BY DEF HInit, InsertedInv, GoneInv
<1>3. ASSUME NEW id \in Ids PROVE Counted(id)
  <2>1. Deletes(id) = {} /\ Inserts(id) = {}
    BY DEF HInit, Init, NoCall, Deletes, Inserts
  <2>2. Stored(id) = Left(id) /\ Left(id) \in Nat
    BY DEF HInit, Init, Stored, Left
  <2>3. QED
    BY <2>1, <2>2, FS_EmptySet DEF Counted
<1>4. QED
  BY <1>1, <1>2, <1>3 DEF HistoryInv, CountInv

LEMMA HistoryStep == HistoryInv /\ [HNext]_hvars => HistoryInv'
<1> SUFFICES ASSUME HistoryInv, [HNext]_hvars PROVE HistoryInv'
  OBVIOUS
<1>1. CASE UNCHANGED hvars
  <2>1. UNCHANGED <<table, pc, call, frame, owners, gone, inserted>>
    BY <1>1 DEF hvars, vars
  <2>2. CrudInv'
    BY <2>1, CrudInvStep DEF HistoryInv, vars
  <2>3. InsertedInv' /\ CountInv'
    BY <2>1 DEF HistoryInv, InsertedInv, CountInv, Counted, Deletes, Inserts, Stored, Left
  <2>4. GoneInv'
    BY <2>1 DEF HistoryInv, GoneInv, Returned, Names, Holds
  <2>5. OwnersInv'
    BY <2>1 DEF HistoryInv, OwnersInv, CarriesGiven, GivenTo
  <2>6. QED
    BY <2>2, <2>3, <2>4, <2>5 DEF HistoryInv
<1>2. ASSUME NEW r \in Requests, Step(r), Observe PROVE HistoryInv'
  <2>1. CrudInv'
    BY <1>2, CrudInvStep DEF HistoryInv, Next, Step
  <2>2. InsertedInv' /\ OwnersInv' /\ GoneInv'
    BY <1>2, InsertedStep, OwnersInvStep, GoneInvStep DEF HistoryInv
  <2>3. CountInv'
    BY <1>2, CountKept, CountDelete, CountWrite DEF HistoryInv, CountInv, Ids
  <2>4. QED
    BY <2>1, <2>2, <2>3 DEF HistoryInv
<1>3. QED
  BY <1>1, <1>2 DEF HNext, Next, Step

LEMMA HistoryAlways == HSpec => []HistoryInv
<1>1. QED
  BY HistoryInit, HistoryStep, PTL DEF HSpec

\* A row's owner is one that was given to that row by a request that created
\* it, named an owner for it, or wrote another row's columns to it, through
\* every interleaving of updates by any user, deletes, and the insertions of
\* updates that lost a race against a delete.
THEOREM OwnersAreGiven == HSpec => []OwnerGiven
<1>1. HistoryInv => OwnerGiven
  BY DEF HistoryInv, OwnersInv, OwnerGiven, GivenTo
<1>2. QED
  BY <1>1, HistoryAlways, PTL

\* A deletion is final unless a request that had found the row before inserts
\* it again, or a body names its id.
THEOREM DeletionsAreFinal == HSpec => []DeletedStays
<1>1. HistoryInv => DeletedStays
  BY DEF HistoryInv, GoneInv, Returned, Names, DeletedStays
<1>2. QED
  BY <1>1, HistoryAlways, PTL

\* However many requests delete, update and insert a row at once, their answers
\* add up: every insertion, and the row stored at first, was counted by exactly
\* one DELETE, or is still there.
THEOREM DeletionsAddUp == HSpec => []DeletionsCounted
<1>1. HistoryInv => DeletionsCounted
  BY DEF HistoryInv, CountInv, Counted, Deletes, Inserts, Stored, Left, DeletionsCounted
<1>2. QED
  BY <1>1, HistoryAlways, PTL
=============================================================================
