-------------------------- MODULE AccountsHistory --------------------------
(***************************************************************************)
(* Accounts with history variables, for what holds although registrations  *)
(* and changes of one row may overlap: when two users can come to share a  *)
(* name or an email, whose password a row can hold, and when a change of   *)
(* it is there to stay.                                                    *)
(***************************************************************************)
EXTENDS Accounts

VARIABLES
    seen,       \* the rows a registration found neither name nor email in
    held,       \* what a row has had in its column password
    checked,    \* what a change compared the old password with
    alone,      \* no other request was saving the same row during this one
    settled     \* of a row, the last change that ran alone and was answered

hvars == <<vars, seen, held, checked, alone, settled>>

Saving(r, id) == pc[r] \in InFlight /\ call[r].target = id

\* The save of r takes the columns of the row id from a registration's body, or
\* from another row.
Replaces(r, id) ==
    /\ call[r].target = id
    /\ \/ call[r].kind = "register" /\ id # r
       \/ call[r].kind = "profile" /\ id # call[r].id

Gives(r, id, column) ==
    \/ Replaces(r, id)
    \/ call[r].target = id /\ column \in DOMAIN call[r].columns

Observe ==
    /\ seen' = [r \in Requests |->
          IF pc[r] = "registerFind" /\ pc'[r] = "hash" THEN DOMAIN table ELSE seen[r]]
    /\ held' = [id \in Ids |->
          held[id] \cup {table'[i].password : i \in {id} \cap DOMAIN table'}]
    /\ checked' = [r \in Requests |->
          IF pc[r] = "changeCompare" /\ pc'[r] = "changeHash" THEN Mine(r).password
          ELSE checked[r]]
    /\ alone' = [r \in Requests |->
          /\ alone[r]
          /\ \A id \in Ids, q \in Requests \ {r} : ~(Saving(r, id)' /\ Saving(q, id)')]
    /\ settled' = [id \in Ids |->
          LET changes == {r \in Requests : call'[r].kind = "change" /\ call'[r].id = id}
              done == {r \in changes : alone[r] /\ pc[r] # "ok" /\ pc'[r] = "ok"}
              new == changes \cup {r \in Requests : Gives(r, id, "password")'}
          IN  IF \E r \in new : pc[r] = "idle" THEN None
              ELSE IF done # {} THEN CHOOSE r \in done : TRUE
              ELSE settled[id]]

HInit ==
    /\ Init
    /\ seen = [r \in Requests |-> {}]
    /\ held = [id \in Ids |-> {table[i].password : i \in {id} \cap DOMAIN table}]
    /\ checked = [r \in Requests |-> None]
    /\ alone = [r \in Requests |-> TRUE]
    /\ settled = [id \in Ids |-> None]

HNext == Next /\ Observe

HSpec == HInit /\ [][HNext]_hvars
-----------------------------------------------------------------------------
\* A user is stored by a registration under a name that another user has only
\* when the registration could not see the other, that is when it looked before
\* the other was stored: a seed, or registrations that overlapped.  The same
\* is true of emails.  (Else a profile update gave one of the two its name or
\* email: it looks for no other user.  Or a body named the row of one.)
DuplicatesOverlap ==
    \A i, j \in DOMAIN table :
        /\ i # j /\ i \in Requests /\ call[i].kind = "register"
        /\ \E column \in {"username", "email"} :
             /\ table[i][column] = table[j][column] /\ table[i][column] # None
             /\ ~\E q \in Requests : Gives(q, i, column) \/ Gives(q, j, column)
        => j \notin seen[i]

\* Where the password of a row comes from: the row was stored with it; or it is
\* that of a change of this very row by one who knew a password that the row
\* had held; or a body gave it to this row, by itself or with the columns of
\* another row.  It holds although updates write back whole entities they
\* read earlier.
PasswordsEarned ==
    \A id \in DOMAIN table :
        LET secret == table[id].password
        IN  \/ id \in Early \ Dropped /\ secret = Hash(FirstPassword, id)
            \/ \E q \in Requests :
                 /\ call[q].target = id
                 /\ \/ /\ call[q].kind \in {"register", "seed"}
                       /\ secret = Hash(call[q].password, q)
                    \/ /\ call[q].kind = "change"
                       /\ secret = Hash(call[q].password, q)
                       /\ Compare(call[q].old, checked[q]) /\ checked[q] \in held[id]
                    \/ /\ call[q].kind = "profile"
                       /\ \/ "password" \in DOMAIN call[q].columns /\ secret = Text(q)
                          \/ Replaces(q, id) /\ secret \in held[call[q].id]

\* A change of password that ran alone and was answered stays until its user
\* changes it again, or a body gives the row another: whatever other profile
\* updates come after it.
SettledPassword ==
    \A id \in Ids : settled[id] # None =>
        /\ id \in DOMAIN table
        /\ table[id].password = Hash(call[settled[id]].password, settled[id])
=============================================================================
