------------------------------- MODULE MCSdk --------------------------------
(***************************************************************************)
(* Sdk on a small instance for TLC.                                        *)
(***************************************************************************)
EXTENDS Sdk, TLC

\* Calls are interchangeable, and so are tabs.
Symmetry == Permutations(Calls) \cup Permutations(Tabs)
=============================================================================
