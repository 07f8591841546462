----------------------------- MODULE MCAccounts -----------------------------
(* One identity, and its placeholder address beside ann's.  The provider   *)
(* reports ann's address in the accounts run, either address where a       *)
(* promise needs a callback that falls back on the placeholder.            *)
EXTENDS Accounts, TLC

CONSTANTS p1, p2, ann, noreply, google

NoReports     == [i \in {} |-> {}]
NoPlaceholder == [i \in {} |-> ann]

GoogleReports     == google :> {ann, noreply}
AnnReports        == google :> {ann}
GooglePlaceholder == google :> noreply

Symm == Permutations({p1, p2})
=============================================================================
