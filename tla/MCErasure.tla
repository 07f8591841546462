------------------------------ MODULE MCErasure -----------------------------
(***************************************************************************)
(* Erasure on a small instance for TLC.                                    *)
(***************************************************************************)
EXTENDS Erasure, TLC
=============================================================================
