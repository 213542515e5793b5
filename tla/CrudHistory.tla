----------------------------- MODULE CrudHistory -----------------------------
(***************************************************************************)
(* Crud with history variables: which deletions are final, and what the    *)
(* answers of concurrent deletes add up to.                                *)
(***************************************************************************)
EXTENDS Crud, Naturals

VARIABLES
    owners,     \* the owners that a row has had
    gone,       \* rows deleted while no request was about to save them
    inserted    \* the rows that a request has inserted

hvars == <<vars, owners, gone, inserted>>

\* r is past its find, and will save the row id.
Holds(r, id) == pc[r] \in {"load", "write"} /\ id \in DOMAIN frame[r].rows

Observe ==
    /\ owners' = [id \in Ids |->
          owners[id] \cup {table'[i].userId : i \in {id} \cap DOMAIN table'}]
    /\ gone' = gone \cup {id \in DOMAIN table \ DOMAIN table' :
                              ~\E r \in Requests : Holds(r, id)}
    /\ inserted' = [r \in Requests |->
          IF pc[r] = "write" /\ table' # table /\ pc'[r] # pc[r]
            THEN frame[r].absent ELSE inserted[r]]

HInit ==
    /\ Init
    /\ owners = [id \in Ids |-> IF id \in DOMAIN table THEN {FirstOwner} ELSE {}]
    /\ gone = {}
    /\ inserted = [r \in Requests |-> {}]

HNext == Next /\ Observe

HSpec == HInit /\ [][HNext]_hvars
-----------------------------------------------------------------------------
\* A row's owner is one that was given to this very row: by the request that
\* created it, by a body that named an owner, or with the columns of another
\* row when a body named this one in an update of that.  An update that names
\* neither never makes an owner of anyone, although it writes back an entity
\* it read earlier, or inserts again what a delete has removed.
OwnerGiven ==
    \A id \in DOMAIN table :
        LET owner == table[id].userId
        IN  \/ id \in Early \ Unused /\ owner = FirstOwner
            \/ \E q \in Requests :
                 /\ call[q].target = id
                 /\ \/ owner = NamedOwner(call[q].kind, call[q].user, call[q].owner)
                    \/ \E found \in call[q].ids \ {id} : owner \in owners[found]

\* A deleted row comes back only by an update that had found it before it was
\* deleted, or by a body that names its id: else the deletion is final.
DeletedStays ==
    \A id \in gone \cap DOMAIN table :
        \E q \in Requests : /\ id \in inserted[q] /\ call[q].target = id
                            /\ call[q].kind = "create" \/ id \notin call[q].ids

\* The answers of concurrent deletes agree with each other: each insertion of
\* a row is undone by at most one of them, which alone counts it as affected.
DeletionsCounted ==
    \A id \in Ids :
        LET deletes == {r \in Requests : id \in call[r].removed}
            inserts == {r \in Requests : id \in inserted[r]}
            stored  == IF id \in Early \ Unused THEN 1 ELSE 0
            left    == IF id \in DOMAIN table THEN 1 ELSE 0
        IN  Cardinality(inserts) + stored = Cardinality(deletes) + left
=============================================================================
