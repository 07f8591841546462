--------------------------- MODULE MCCollections ----------------------------
(***************************************************************************)
(* Collections on a small instance for TLC.                                *)
(***************************************************************************)
EXTENDS Collections, TLC

RuleSet(r, c, u, d) == [read |-> r, create |-> c, update |-> u, delete |-> d]

\* ACCESS-09 and 11: owners read, anyone updates, nobody deletes.  ACCESS-03
\* and 07: anyone reads, owners update, nobody creates, anyone deletes.
Declared == {RuleSet("owner", "owner", "shared", "denied"),
             RuleSet("shared", "denied", "owner", "shared")}

Symm == Permutations(Procs) \cup Permutations(Subjects)
=============================================================================
