---------------------------- MODULE MCMigrations ----------------------------
(* A small instance of Migrations. *)
EXTENDS Migrations, TLC

Symmetry == Permutations(Users) \cup Permutations(Keys)
=============================================================================
