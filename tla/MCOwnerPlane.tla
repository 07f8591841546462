---------------------------- MODULE MCOwnerPlane ----------------------------
(***************************************************************************)
(* OwnerPlane on a small instance for TLC.                                 *)
(***************************************************************************)
EXTENDS OwnerPlane, TLC

\* Requests are interchangeable.
Symmetry == Permutations(Procs)
=============================================================================
