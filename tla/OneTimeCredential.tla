------------------------- MODULE OneTimeCredential -------------------------
(***************************************************************************)
(* What a single-use credential promises, whatever it is made of (a        *)
(* refresh token, an authorization code, a password-reset token): it is    *)
(* issued once, at most one redemption of it ever wins, revocation ends it *)
(* for good, and only the winning redemption yields something -- once.     *)
(***************************************************************************)
CONSTANTS Cred,      \* the credentials that may ever be issued
          Outcome    \* what a redemption can yield

VARIABLES issued,    \* credentials handed out so far
          live,      \* issued, not yet spent and not revoked
          spent,     \* credentials some redemption has won
          yield      \* yield[c]: what the redemptions of c produced

credVars == <<issued, live, spent, yield>>

CredTypeOK ==
    /\ issued \subseteq Cred
    /\ live \subseteq issued
    /\ spent \subseteq issued \ live
    /\ yield \in [Cred -> SUBSET Outcome]

CredInit ==
    /\ issued = {}
    /\ live = {}
    /\ spent = {}
    /\ yield = [c \in Cred |-> {}]

Issue(c) ==
    /\ c \notin issued
    /\ issued' = issued \cup {c}
    /\ live' = live \cup {c}
    /\ UNCHANGED <<spent, yield>>

\* The one redemption of c that wins.  It may revoke others with it, and may
\* deliver at once.
Spend(c) ==
    /\ c \in live
    /\ live' \in SUBSET (live \ {c})
    /\ spent' = spent \cup {c}
    /\ \/ UNCHANGED yield
       \/ \E x \in Outcome : yield' = [yield EXCEPT ![c] = {x}]
    /\ UNCHANGED issued

\* The winner delivers what it won; nobody delivers twice.
Yield(c, x) ==
    /\ c \in spent
    /\ yield[c] = {}
    /\ yield' = [yield EXCEPT ![c] = {x}]
    /\ UNCHANGED <<issued, live, spent>>

\* One revocation may end several credentials.
RevokeSome(C) ==
    /\ live' = live \ C
    /\ UNCHANGED <<issued, spent, yield>>

CredNext ==
    \/ \E C \in SUBSET Cred : RevokeSome(C)
    \/ \E c \in Cred : Issue(c) \/ Spend(c)
    \/ \E c \in Cred, x \in Outcome : Yield(c, x)

CredSpec == CredInit /\ [][CredNext]_credVars
=============================================================================
