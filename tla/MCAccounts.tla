----------------------------- MODULE MCAccounts -----------------------------
(* Accounts, with its history, on a small instance. *)
EXTENDS AccountsHistory, TLC

\* Requests are interchangeable: no action or property tells one from another.
Symmetry == Permutations(Requests)

\* The body of r has a property that its DTO does not declare.
Undeclared(r) ==
    \/ call[r].kind = "register" /\ call[r].target # r
    \/ /\ call[r].kind = "profile"
       /\ call[r].target # call[r].id \/ DOMAIN call[r].columns # {"name", "email"}

\* Bound: of the bodies at most one has undeclared properties.
OneUndeclared ==
    \A r, q \in Requests : Undeclared(r) /\ Undeclared(q) => r = q

BoundedSpec == HInit /\ [][HNext /\ OneUndeclared']_hvars
=============================================================================
