--------------------------- MODULE MCOAuthTokens ---------------------------
(* Small instances of OAuthTokens for TLC. *)
EXTENDS OAuthTokens, TLC

CONSTANTS p1, p2, g1, g2, alice, app

ProcSymmetry == Permutations(Procs)

OneSubject == [g \in Grants |-> alice]
OneClient == [g \in Grants |-> app]
=============================================================================
