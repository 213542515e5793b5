-------------------------------- MODULE Crud --------------------------------
(***************************************************************************)
(* Table "crud": rows that belong to a user, created, updated and deleted  *)
(* by concurrent requests (CrudController, CrudService), with the batch    *)
(* operations that BaseService offers to every entity service.             *)
(*                                                                         *)
(* What save does when the row it updates has gone is the matter here:     *)
(* gone before its load, the row is inserted again, with its id; gone      *)
(* after it, the UPDATE changes nothing; and either is answered "ok".      *)
(* The requests that only read are left out.                               *)
(***************************************************************************)
EXTENDS Repository, FiniteSets

CONSTANTS
    Users,          \* ids of users, who own rows
    Texts,          \* display names
    FirstOwner,     \* the owner of the early rows
    Unused          \* early ids without a row

ASSUME FirstOwnerAssumption == FirstOwner \in Users
ASSUME UnusedAssumption == Unused \subseteq Early
ASSUME NoneAssumption == None \notin Users

vars == <<table, pc, call, frame>>

InFlight == {"deleteFind", "delete"} \cup SavingSteps
Answers  == {"ok", "notFound", "conflict", "aborted"}

\* ids: the rows a request is about; owner: the one that its body names;
\* target: the row that it saves; removed: the rows its DELETE removed.
NoCall == [kind |-> "none", user |-> None, ids |-> {}, owner |-> None,
           target |-> None, removed |-> {}]

Init ==
    /\ \E text \in Texts :
         table = [e \in Early \ Unused |-> [displayName |-> text, userId |-> FirstOwner]]
    /\ pc = [r \in Requests |-> "idle"]
    /\ call = [r \in Requests |-> NoCall]
    /\ frame = [r \in Requests |-> NoFrame]

Begin(r, args) ==
    /\ pc[r] = "idle"
    /\ call' = [call EXCEPT ![r] = args]
    /\ UNCHANGED table

\* The owner that the entity saved by r names, if it names one.  In a create
\* the caller replaces a userId of the body; but the body may have the relation
\* user itself, and save takes the column userId from there.
NamedOwner(kind, user, owner) ==
    IF owner # None THEN owner ELSE IF kind = "create" THEN user ELSE None

\* POST /crud: save({ ...createDto, userId }).  The body may name the target.
StartCreate(r, user, text, owner, target) ==
    /\ Begin(r, [NoCall EXCEPT !.kind = "create", !.user = user, !.owner = owner,
                               !.target = target])
    /\ Save(r, target, [displayName |-> text, userId |-> NamedOwner("create", user, owner)])

\* PUT /crud/:id: updateById(id, updateDto), by any user.  The body may name an
\* owner, and another target than the row that is found.
StartUpdate(r, id, text, owner, target) ==
    /\ Begin(r, [NoCall EXCEPT !.kind = "update", !.ids = {id}, !.owner = owner,
                               !.target = target])
    /\ BeginUpdate(r, {id}, Given([displayName |-> text, userId |-> owner]))

\* updateMany, which no controller calls yet.
StartUpdateMany(r, ids, text) ==
    /\ Begin(r, [NoCall EXCEPT !.kind = "updateMany", !.ids = ids])
    /\ BeginUpdate(r, ids, [displayName |-> text])

\* DELETE /crud/:id: deleteById, by any user, finds the entity.
StartDelete(r, id) ==
    /\ Begin(r, [NoCall EXCEPT !.kind = "delete", !.ids = {id}])
    /\ GoTo(r, "deleteFind", NoFrame)

\* deleteMany, which no controller calls yet, does not.
StartDeleteMany(r, ids) ==
    /\ Begin(r, [NoCall EXCEPT !.kind = "deleteMany", !.ids = ids])
    /\ GoTo(r, "delete", NoFrame)

\* Without the entity the answer is { affected: 0 }.
DeleteFind(r) ==
    /\ pc[r] = "deleteFind"
    /\ IF Found(call[r].ids) = {} THEN Answer(r, "ok") ELSE GoTo(r, "delete", NoFrame)
    /\ UNCHANGED <<table, call>>

\* Fault: affected counts the rows found, not those that the DELETE removed.
Delete_ReportsFound(r) ==
    /\ pc[r] = "delete"
    /\ table' = [id \in DOMAIN table \ call[r].ids |-> table[id]]
    /\ call' = [call EXCEPT ![r].removed = call[r].ids]
    /\ Answer(r, "ok")

\* The DELETE, whose answer counts the rows it removed, or is lost.
Delete(r) ==
    /\ pc[r] = "delete"
    /\ table' = [id \in DOMAIN table \ call[r].ids |-> table[id]]
    /\ call' = [call EXCEPT ![r].removed = Found(call[r].ids)]
    /\ \E status \in {"ok", "aborted"} : Answer(r, status)

\* A statement fails, or the process stops.
Abort(r) ==
    /\ pc[r] \in InFlight
    /\ Answer(r, "aborted")
    /\ UNCHANGED <<table, call>>
-----------------------------------------------------------------------------
\* The ids that clients can name: those of rows that they were shown, and those
\* that they make up.
Known == Early \cup {r \in Requests : call[r].target = r /\ pc[r] \in {"ok", "aborted"}}

Start(r) ==
    \/ \E text \in Texts, owner \in Users \cup {None} :
         \/ \E user \in Users, target \in Known \cup {r} :
                StartCreate(r, user, text, owner, target)
         \/ \E id, target \in Known : StartUpdate(r, id, text, owner, target)
    \/ \E id \in Known : StartDelete(r, id)
    \/ \E ids \in SUBSET Known \ {{}} :
         \/ \E text \in Texts : StartUpdateMany(r, ids, text)
         \/ StartDeleteMany(r, ids)

Continue(r) ==
    \/ UpdateFind(r) \/ UpdateManyFind(r) \/ UpdateMissing(r) \/ Load(r)
    \/ Write(r) \/ WriteConflict(r) \/ DeleteFind(r) \/ Delete(r)

Next == \E r \in Requests : Start(r) \/ Continue(r) \/ Abort(r)

Spec == Init /\ [][Next]_vars
-----------------------------------------------------------------------------
(***************************************************************************)
(* Properties                                                              *)
(***************************************************************************)
Row == [displayName : Texts, userId : Users]

\* Types.  Whatever an update inserts for a row that has gone is a whole row.
TypeOK ==
    /\ DOMAIN table \subseteq Ids
    /\ \A id \in DOMAIN table : table[id] \in Row
    /\ pc \in [Requests -> {"idle"} \cup InFlight \cup Answers]
    /\ \A r \in Requests :
         /\ frame[r].absent \subseteq DOMAIN frame[r].rows
         /\ \A id \in DOMAIN frame[r].rows :
              pc[r] = "load" \/ id \in frame[r].absent => frame[r].rows[id] \in Row
=============================================================================
