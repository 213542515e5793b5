------------------------------ MODULE MCSession ------------------------------
(* Session on small instances. *)
EXTENDS Session, TLC

\* Requests are interchangeable: no action or safety property tells one from
\* another.
Symmetry == Permutations(Requests)
=============================================================================
