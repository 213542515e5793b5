-------------------------- MODULE MCSessionHistory --------------------------
(* SessionHistory on small instances. *)
EXTENDS SessionHistory, TLC

\* No action or property tells one request from another (the CHOOSE in
\* Observe picks the only request that the step answers).
Symmetry == Permutations(Requests)
=============================================================================
