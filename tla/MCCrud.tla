------------------------------- MODULE MCCrud -------------------------------
(* Crud, with its history, on a small instance. *)
EXTENDS CrudHistory, TLC

\* Requests are interchangeable: no action or property tells one from another.
Symmetry == Permutations(Requests)
=============================================================================
