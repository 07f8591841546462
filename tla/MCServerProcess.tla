-------------------------- MODULE MCServerProcess ---------------------------
(***************************************************************************)
(* ServerProcess on a small instance for TLC.                              *)
(***************************************************************************)
EXTENDS ServerProcess, TLC

\* Requests are interchangeable, and so are client addresses but for the
\* one an idle attempt holds.
Symmetry == Permutations(Attempts)
=============================================================================
