--------------------------- MODULE MCFileStorage ----------------------------
(***************************************************************************)
(* FileStorage on a small instance for TLC.                                *)
(***************************************************************************)
EXTENDS FileStorage, TLC

Symm == Permutations(Procs) \cup Permutations(Users) \cup Permutations(Ids)
=============================================================================
