---------------------------- MODULE MCMigrations ----------------------------
(***************************************************************************)
(* Migrations on a small instance for TLC.                                 *)
(***************************************************************************)
EXTENDS Migrations, TLC

Symm == Permutations(Processes)
=============================================================================
