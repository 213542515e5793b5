----------------------------- MODULE Repository -----------------------------
(***************************************************************************)
(* Requests that save entities to one table through BaseService and the    *)
(* repository of TypeORM, one action per database round trip, as far as    *)
(* every entity service shares them.  Accounts (table "user") and Crud     *)
(* (table "crud") extend this module with their own requests.              *)
(*                                                                         *)
(* save takes one entity or many.  An entity without an id is an INSERT.   *)
(* For entities with an id save first loads their rows: a row that is not  *)
(* there is an INSERT of the whole entity, a row that is there an UPDATE   *)
(* of the columns that differ.  The statements of one save are one         *)
(* transaction; the loads, and the find before them, are outside it.       *)
(*                                                                         *)
(* The pipe that validates bodies lets properties pass that the DTO does   *)
(* not declare (no whitelist in app.module.ts), and the services spread    *)
(* them over the entity: a body may have any column of the table, the id   *)
(* included.  The row that a save is about is the target of its request.   *)
(*                                                                         *)
(* A row's id is the request that created it, or one of Early: an id that  *)
(* is in use when the model starts, or that only a body will name.  The    *)
(* columns createdAt and updatedAt are left out.                           *)
(***************************************************************************)
EXTENDS BaseService

CONSTANTS
    Requests,       \* the HTTP requests and script runs
    Early,          \* the ids that no request of the model generates
    None            \* no value

ASSUME EarlyAssumption == Early \cap Requests = {}

VARIABLES
    table,          \* a function from some ids to rows
    pc,             \* what a request waits for, or its answer
    call,           \* the arguments of a request
    frame           \* the entities or columns it takes to its next step

Ids == Early \cup Requests

\* rows: columns by id; absent: the ids that save found no row for.
NoFrame == [rows |-> NoColumns, absent |-> {}]

GoTo(r, label, object) ==
    /\ pc' = [pc EXCEPT ![r] = label]
    /\ frame' = [frame EXCEPT ![r] = object]

Answer(r, status) == GoTo(r, status, NoFrame)

\* findByIds, findById and the finders with a where clause.  A clause is
\* represented by the ids it selects.
Found(ids) == ids \cap DOMAIN table

\* The columns that a request gives: a value None stands for no such column.
Given(columns) == [c \in {k \in DOMAIN columns : columns[k] # None} |-> columns[c]]

\* save of one entity: without an id, which the target r stands for, there is
\* nothing to load, and the new row gets the id r.
Save(r, target, entity) ==
    GoTo(r, IF target = r THEN "write" ELSE "load",
         [rows |-> [id \in {target} |-> entity],
          absent |-> IF target = r THEN {r} ELSE {}])

\* updateById, updateOne or updateMany of the rows ids begins to find them.
BeginUpdate(r, ids, partial) ==
    GoTo(r, "updateFind", [rows |-> [id \in ids |-> partial], absent |-> {}])

\* Fault: findOne without its where clause finds any row.
UpdateFind_Unfiltered(r) ==
    /\ pc[r] = "updateFind"
    /\ call[r].kind # "updateMany"
    /\ \E id \in DOMAIN table, found \in DOMAIN frame[r].rows :
          Save(r, call[r].target, Spread(table[id], frame[r].rows[found]))
    /\ UNCHANGED <<table, call>>

\* updateById, updateOne: the entity found, with the partial update spread over
\* it, the id included: save takes the entity for the row that it then names.
UpdateFind(r) ==
    /\ pc[r] = "updateFind"
    /\ call[r].kind # "updateMany"
    /\ \E id \in Found(DOMAIN frame[r].rows) :
          Save(r, call[r].target, Spread(table[id], frame[r].rows[id]))
    /\ UNCHANGED <<table, call>>

\* updateMany: all entities found, and a partial update that names no id.
UpdateManyFind(r) ==
    /\ pc[r] = "updateFind"
    /\ call[r].kind = "updateMany"
    /\ LET found == Found(DOMAIN frame[r].rows)
       IN  /\ found # {}
           /\ GoTo(r, "load",
                   [rows |-> [id \in found |-> Spread(table[id], frame[r].rows[id])],
                    absent |-> {}])
    /\ UNCHANGED <<table, call>>

\* Fault: no test of the entity; the partial update is saved by itself.
UpdateMissing_Upserts(r) ==
    /\ pc[r] = "updateFind"
    /\ Found(DOMAIN frame[r].rows) = {}
    /\ GoTo(r, "load", frame[r])
    /\ UNCHANGED <<table, call>>

\* entityNotFound; updateMany returns the empty list instead.
UpdateMissing(r) ==
    /\ pc[r] = "updateFind"
    /\ Found(DOMAIN frame[r].rows) = {}
    /\ Answer(r, IF call[r].kind = "updateMany" THEN "ok" ELSE "notFound")
    /\ UNCHANGED <<table, call>>

\* save loads the rows again: the differences, and the ids without a row.
Load(r) ==
    /\ pc[r] = "load"
    /\ LET rows == frame[r].rows
       IN  GoTo(r, "write",
                [rows |-> [id \in DOMAIN rows |->
                             IF id \in DOMAIN table THEN Patch(rows[id], table[id])
                             ELSE rows[id]],
                 absent |-> DOMAIN rows \ DOMAIN table])
    /\ UNCHANGED <<table, call>>

\* The table after the INSERTs and UPDATEs of r.  The UPDATE of a row that
\* has been deleted since the load changes nothing, and is no error.
Written(r) ==
    LET rows == frame[r].rows
    IN  [id \in DOMAIN table \cup frame[r].absent |->
            IF id \in frame[r].absent THEN rows[id]
            ELSE IF id \in DOMAIN rows THEN Spread(table[id], rows[id])
            ELSE table[id]]

\* Fault: ON CONFLICT DO UPDATE instead of a plain INSERT.
Write_Overwrites(r) ==
    /\ pc[r] = "write"
    /\ table' = Written(r)
    /\ Answer(r, "ok")
    /\ UNCHANGED call

\* The transaction commits.  The answer may still be lost.
Write(r) ==
    /\ pc[r] = "write"
    /\ frame[r].absent \cap DOMAIN table = {}
    /\ table' = Written(r)
    /\ \E status \in {"ok", "aborted"} : Answer(r, status)
    /\ UNCHANGED call

\* The primary key refuses an INSERT; the transaction is rolled back.
WriteConflict(r) ==
    /\ pc[r] = "write"
    /\ frame[r].absent \cap DOMAIN table # {}
    /\ Answer(r, "conflict")
    /\ UNCHANGED <<table, call>>

SavingSteps == {"updateFind", "load", "write"}
=============================================================================
