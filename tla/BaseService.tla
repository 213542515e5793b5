----------------------------- MODULE BaseService -----------------------------
(***************************************************************************)
(* The data operations of BaseService (src/modules/base/base.service.ts),  *)
(* which every entity service extends.  A row, an entity in memory and a   *)
(* partial update are functions from column names to values; the columns   *)
(* of a partial update are a subset of those of a row.                     *)
(*                                                                         *)
(* Writing an existing row takes three database round trips:               *)
(*                                                                         *)
(*    SELECT  updateOne / updateById find the entity                       *)
(*    SELECT  repository.save loads the row again, to compute a difference *)
(*    UPDATE  of the columns that differ, and of no other                  *)
(*                                                                         *)
(* and no transaction or lock spans them.  The components that extend this *)
(* module give each round trip an action of its own.                       *)
(*                                                                         *)
(* A definition named X_Something is a faulty variant of X: mutation tests *)
(* put it in the place of X to see that a property tells them apart.       *)
(***************************************************************************)

\* The empty partial update: a function with no column.
NoColumns == [c \in {} |-> 0]

\* Fault: { ...partial, ...entity }, the stored values win.
Spread_Swapped(entity, partial) == entity

\* { ...entity, ...partial }: the columns of partial override the entity's.
Spread(entity, partial) ==
    [c \in DOMAIN entity |->
        IF c \in DOMAIN partial THEN partial[c] ELSE entity[c]]

\* Fault: the ciphertext column is never updated, as with update: false.
Patch_SkipsText(entity, stored) ==
    [c \in {k \in DOMAIN entity : entity[k] # stored[k] /\ k # "refreshToken"} |->
        entity[c]]

\* The UPDATE that repository.save(entity) sends when the row it has just
\* loaded is stored: the columns of entity whose value differs.
Patch(entity, stored) ==
    [c \in {k \in DOMAIN entity : entity[k] # stored[k]} |-> entity[c]]
=============================================================================
