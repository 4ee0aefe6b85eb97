------------------------------ MODULE MCStores ------------------------------
(***************************************************************************)
(* What the system stores, on small instances.                             *)
(*                                                                         *)
(* The migrations are the eight files of the repository.  001 creates what *)
(* is missing, and fails once 006 has renamed labels; 002 to 005 only add  *)
(* what is missing; 006 renames, 007 adds columns, 008 creates a table.    *)
(* The values of items and kits are distinct powers of two, so that no two *)
(* sums of them are the same.                                              *)
(***************************************************************************)
EXTENDS Stores

RepeatsUntilRepo == <<5, 8, 8, 8, 8, 0, 0, 0>>
KitsInOrder == <<"k1", "k2">>
PowersOfTwo == [x \in {"i1", "i2", "k1", "k2"} |->
                   CASE x = "i1" -> 1 [] x = "i2" -> 2 [] x = "k1" -> 4 [] x = "k2" -> 8]
=============================================================================
