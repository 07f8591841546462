---------------------------- MODULE OAuthTokens ----------------------------
(***************************************************************************)
(* The authorization server's grant tables (internal/oauth/storage.go) and *)
(* the requests that work on them: the authorize endpoint's last steps,    *)
(* both grants of the token endpoint, the revocation endpoint, and the     *)
(* sweeps by subject and by subject and client.                            *)
(*                                                                         *)
(* The database has a single connection (SetMaxOpenConns(1)), so one SQL   *)
(* statement is one atomic step; Storage does not implement fosite's       *)
(* Transactional interface, so the statements of one request interleave    *)
(* with those of every other.  The ORDER of the storage calls inside a     *)
(* token request is fosite's (external); what each call does is this       *)
(* repository's.  A request may stop after any statement: a cancelled      *)
(* request context, an expired or mismatched credential and a failed       *)
(* statement all abandon what is left of it (Abort).                       *)
(*                                                                         *)
(* A request whose first SELECT finds no row is rejected without a trace;  *)
(* it is a stuttering step and has no action.                              *)
(***************************************************************************)
EXTENDS Naturals

CONSTANTS Procs,      \* requests that can be in flight at the same time
          Grants,     \* request ids: one per authorize request
          Subjects,   \* users
          Clients,    \* registered third-party clients
          SubjectOf,  \* SubjectOf[g]: the user the grant acts for
          ClientOf,   \* ClientOf[g]: the client it was issued to
          Offline,    \* grants whose granted scopes include offline_access
          MaxSig      \* bound: token signatures that may be minted

ASSUME GrantAssumption ==
    /\ SubjectOf \in [Grants -> Subjects]
    /\ ClientOf \in [Grants -> Clients]
    /\ Offline \subseteq Grants
    /\ MaxSig \in Nat

Sigs == 1..MaxSig

VARIABLES
    consents,    \* oauth_consents: <<user, client>> pairs with a row
    codes,       \* oauth_authorize_codes, by grant (see CodeStates)
    pkce,        \* oauth_pkce_requests: grants with a row
    access,      \* oauth_access_tokens: [sig, gid]
    refresh,     \* oauth_refresh_tokens: [sig, gid, chain, active]
    nextSig,     \* the next fresh signature
    pc,          \* what each request in flight executes next
    scope,       \* scope[p]: the grants the request works on
    tok,         \* tok[p]: the refresh token presented, 0 for a code
    chain,       \* history: rotation chain p continues, 0 before it has one
    spent,       \* history: refresh tokens whose rotation some request won
    minted,      \* history: access tokens minted, and from what
    quiet,       \* history: sweeps no other request of their scope overlapped
    compromised  \* history: grants whose reuse response has completed

tables == <<consents, codes, pkce, access, refresh>>
locals == <<pc, scope, tok, chain>>
history == <<spent, minted, quiet, compromised>>
vars == <<tables, nextSig, locals, history>>

\* "unborn" and "pending" (request id allocated) have no row yet, "deleted"
\* has none any more; "active" and "used" are the row's active flag.
CodeStates == {"unborn", "pending", "active", "used", "deleted"}

AuthorizeSteps == {"code_insert", "pkce_insert"}
ExchangeSteps  == {"pkce_get", "pkce_delete", "code_get_again", "code_invalidate"}
MintSteps      == {"access_insert", "refresh_insert"}
IssuingSteps   == AuthorizeSteps \cup ExchangeSteps \cup MintSteps \cup {"rotate"}
RevokingSteps  == {"replay_access", "replay_refresh", "reuse_token", "reuse_refresh",
                   "reuse_access", "revoke_refresh", "revoke_access",
                   "sweep_codes", "sweep_access", "sweep_refresh", "sweep_pkce"}
Steps == {"idle"} \cup IssuingSteps \cup RevokingSteps

TypeOK ==
    /\ consents \subseteq (Subjects \X Clients)
    /\ codes \in [Grants -> CodeStates]
    /\ pkce \subseteq Grants
    /\ access \subseteq [sig : Sigs, gid : Grants]
    /\ refresh \subseteq [sig : Sigs, gid : Grants, chain : Sigs, active : BOOLEAN]
    /\ nextSig \in 1..(MaxSig + 1)
    /\ pc \in [Procs -> Steps]
    /\ scope \in [Procs -> SUBSET Grants]
    /\ tok \in [Procs -> Sigs \cup {0}]
    /\ chain \in [Procs -> Sigs \cup {0}]
    /\ spent \subseteq Sigs
    /\ minted \subseteq [sig : Sigs, gid : Grants, from : Sigs \cup {0}]
    /\ quiet \subseteq Procs
    /\ compromised \subseteq Grants

\* Users may have consented to a client in the past, for grants now gone.
Init ==
    /\ consents \in SUBSET (Subjects \X Clients)
    /\ codes = [g \in Grants |-> "unborn"]
    /\ pkce = {}
    /\ access = {}
    /\ refresh = {}
    /\ nextSig = 1
    /\ pc = [p \in Procs |-> "idle"]
    /\ scope = [p \in Procs |-> {}]
    /\ tok = [p \in Procs |-> 0]
    /\ chain = [p \in Procs |-> 0]
    /\ spent = {}
    /\ minted = {}
    /\ quiet = {}
    /\ compromised = {}

-----------------------------------------------------------------------------
(* Control: a request starts, moves to its next statement, ends.           *)

Issuing(g) == \E p \in Procs : g \in scope[p] /\ pc[p] \in IssuingSteps

Start(p, G, t, step) ==
    /\ pc[p] = "idle"
    /\ pc' = [pc EXCEPT ![p] = step]
    /\ scope' = [scope EXCEPT ![p] = G]
    /\ tok' = [tok EXCEPT ![p] = t]
    /\ UNCHANGED chain

\* A sweep is quiet while no request of its scope issues anything during it.
StartIssuing(p, g, t, step) ==
    /\ Start(p, {g}, t, step)
    /\ quiet' = {q \in quiet : g \notin scope[q]}

StartSweep(p, G, step) ==
    /\ Start(p, G, 0, step)
    /\ quiet' = quiet \cup {q \in {p} : \A g \in G : ~Issuing(g)}

GoTo(p, step) ==
    /\ pc' = [pc EXCEPT ![p] = step]
    /\ UNCHANGED <<scope, tok, chain, quiet>>

End(p) ==
    /\ pc' = [pc EXCEPT ![p] = "idle"]
    /\ scope' = [scope EXCEPT ![p] = {}]
    /\ tok' = [tok EXCEPT ![p] = 0]
    /\ chain' = [chain EXCEPT ![p] = 0]
    /\ quiet' = quiet \ {p}

Abort(p) ==
    /\ pc[p] # "idle"
    /\ End(p)
    /\ UNCHANGED <<tables, nextSig, spent, minted, compromised>>

-----------------------------------------------------------------------------
(* The authorize endpoint, from the moment the user is known.              *)

\* continueAuthorize: standing consent skips the consent screen.
AuthorizeConsented(p, g) ==
    /\ codes[g] = "unborn"
    /\ <<SubjectOf[g], ClientOf[g]>> \in consents
    /\ StartIssuing(p, g, 0, "code_insert")
    /\ codes' = [codes EXCEPT ![g] = "pending"]
    /\ UNCHANGED <<consents, pkce, access, refresh, nextSig, spent, minted, compromised>>

\* The consent form, decision "allow": saveConsent is an upsert.
AuthorizeAllowed(p, g) ==
    /\ codes[g] = "unborn"
    /\ StartIssuing(p, g, 0, "code_insert")
    /\ consents' = consents \cup {<<SubjectOf[g], ClientOf[g]>>}
    /\ codes' = [codes EXCEPT ![g] = "pending"]
    /\ UNCHANGED <<pkce, access, refresh, nextSig, spent, minted, compromised>>

CreateAuthorizeCodeSession(p) ==
    /\ pc[p] = "code_insert"
    /\ codes' = [g \in Grants |-> IF g \in scope[p] THEN "active" ELSE codes[g]]
    /\ GoTo(p, "pkce_insert")
    /\ UNCHANGED <<consents, pkce, access, refresh, nextSig, spent, minted, compromised>>

CreatePKCERequestSession(p) ==
    /\ pc[p] = "pkce_insert"
    /\ pkce' = pkce \cup scope[p]
    /\ End(p)
    /\ UNCHANGED <<consents, codes, access, refresh, nextSig, spent, minted, compromised>>

-----------------------------------------------------------------------------
(* The token endpoint, authorization_code grant.                           *)

\* Fault: the active flag is not looked at.
ExchangeAnyCode(p, g) ==
    /\ codes[g] \in {"active", "used"}
    /\ StartIssuing(p, g, 0, "pkce_get")
    /\ UNCHANGED <<tables, nextSig, spent, minted, compromised>>

\* GetAuthorizeCodeSession: an inactive code is a replay.
ExchangeCode(p, g) ==
    /\ \/ codes[g] = "active" /\ StartIssuing(p, g, 0, "pkce_get")
       \/ codes[g] = "used" /\ Start(p, {g}, 0, "replay_access") /\ UNCHANGED quiet
    /\ UNCHANGED <<tables, nextSig, spent, minted, compromised>>

GetPKCERequestSession(p) ==
    /\ pc[p] = "pkce_get"
    /\ IF scope[p] \subseteq pkce THEN GoTo(p, "pkce_delete") ELSE End(p)
    /\ UNCHANGED <<tables, nextSig, spent, minted, compromised>>

\* The PKCE row goes before the verifier is looked at: a wrong one burns it.
DeletePKCERequestSession(p) ==
    /\ pc[p] = "pkce_delete"
    /\ pkce' = pkce \ scope[p]
    /\ \/ GoTo(p, "code_get_again")
       \/ End(p)
    /\ UNCHANGED <<consents, codes, access, refresh, nextSig, spent, minted, compromised>>

\* Building the response looks the code up once more.
GetAuthorizeCodeAgain(p) ==
    /\ pc[p] = "code_get_again"
    /\ IF \A g \in scope[p] : codes[g] = "active"
       THEN GoTo(p, "code_invalidate")
       ELSE End(p)
    /\ UNCHANGED <<tables, nextSig, spent, minted, compromised>>

\* Fault: the UPDATE matches no row, which nobody notices.
InvalidateNothing(p) ==
    /\ pc[p] = "code_invalidate"
    /\ GoTo(p, "access_insert")
    /\ UNCHANGED <<tables, nextSig, spent, minted, compromised>>

\* An unconditional UPDATE whose RowsAffected nobody looks at.
InvalidateAuthorizeCodeSession(p) ==
    /\ pc[p] = "code_invalidate"
    /\ codes' = [g \in Grants |-> IF g \in scope[p] /\ codes[g] = "active"
                                  THEN "used" ELSE codes[g]]
    /\ GoTo(p, "access_insert")
    /\ UNCHANGED <<consents, pkce, access, refresh, nextSig, spent, minted, compromised>>

-----------------------------------------------------------------------------
(* The token endpoint, refresh_token grant.                                *)

\* GetRefreshTokenSession: an inactive token is reuse.
ExchangeRefreshToken(p, r) ==
    /\ \/ r.active /\ StartIssuing(p, r.gid, r.sig, "rotate")
       \/ ~r.active /\ Start(p, {r.gid}, r.sig, "reuse_token") /\ UNCHANGED quiet
    /\ UNCHANGED <<tables, nextSig, spent, minted, compromised>>

\* Fault: the redeemed token is not deactivated.
RotateKeepsOld(p) ==
    /\ pc[p] = "rotate"
    /\ \/ \E r \in refresh :
            /\ r.sig = tok[p] /\ r.gid \in scope[p] /\ r.active
            /\ spent' = spent \cup {r.sig}
            /\ pc' = [pc EXCEPT ![p] = "access_insert"]
            /\ chain' = [chain EXCEPT ![p] = r.chain]
            /\ UNCHANGED <<scope, tok, quiet, refresh>>
       \/ /\ \A r \in refresh : ~(r.sig = tok[p] /\ r.gid \in scope[p] /\ r.active)
          /\ End(p)
          /\ UNCHANGED <<refresh, spent>>
    /\ UNCHANGED <<consents, codes, pkce, access, nextSig, minted, compromised>>

\* Fault: RowsAffected is not checked, the request mints after losing.
RotateIgnoringRowsAffected(p) ==
    /\ pc[p] = "rotate"
    /\ refresh' = {[r EXCEPT !.active = @ /\ r.sig # tok[p]] : r \in refresh}
    /\ spent' = spent \cup {tok[p]}
    /\ GoTo(p, "access_insert")
    /\ UNCHANGED <<consents, codes, pkce, access, nextSig, minted, compromised>>

\* UPDATE ... SET active = 0 WHERE signature, request_id AND active = 1.
RotateRefreshToken(p) ==
    /\ pc[p] = "rotate"
    /\ \/ \E r \in refresh :
            /\ r.sig = tok[p] /\ r.gid \in scope[p] /\ r.active
            /\ refresh' = (refresh \ {r}) \cup {[r EXCEPT !.active = FALSE]}
            /\ spent' = spent \cup {r.sig}
            /\ pc' = [pc EXCEPT ![p] = "access_insert"]
            /\ chain' = [chain EXCEPT ![p] = r.chain]
            /\ UNCHANGED <<scope, tok, quiet>>
       \/ /\ \A r \in refresh : ~(r.sig = tok[p] /\ r.gid \in scope[p] /\ r.active)
          /\ End(p)
          /\ UNCHANGED <<refresh, spent>>
    /\ UNCHANGED <<consents, codes, pkce, access, nextSig, minted, compromised>>

-----------------------------------------------------------------------------
(* Both grants: the new pair.  A refresh token only with offline_access.   *)

CreateAccessTokenSession(p) ==
    /\ pc[p] = "access_insert"
    /\ nextSig <= MaxSig
    /\ \E g \in scope[p] :
         /\ access' = access \cup {[sig |-> nextSig, gid |-> g]}
         /\ minted' = minted \cup {[sig |-> nextSig, gid |-> g, from |-> tok[p]]}
         /\ IF g \in Offline
            THEN /\ pc' = [pc EXCEPT ![p] = "refresh_insert"]
                 /\ chain' = [chain EXCEPT ![p] = IF @ = 0 THEN nextSig ELSE @]
                 /\ UNCHANGED <<scope, tok, quiet>>
            ELSE End(p)
    /\ nextSig' = nextSig + 1
    /\ UNCHANGED <<consents, codes, pkce, refresh, spent, compromised>>

CreateRefreshTokenSession(p) ==
    /\ pc[p] = "refresh_insert"
    /\ nextSig <= MaxSig
    /\ \E g \in scope[p] :
         refresh' = refresh \cup {[sig |-> nextSig, gid |-> g, chain |-> chain[p], active |-> TRUE]}
    /\ nextSig' = nextSig + 1
    /\ End(p)
    /\ UNCHANGED <<consents, codes, pkce, access, spent, minted, compromised>>

-----------------------------------------------------------------------------
(* The three ways a grant's tokens are deleted.  DELETE by request_id, by  *)
(* subject and by subject and client all remove the rows of scope[p].      *)

AccessWithout(G)  == {a \in access : a.gid \notin G}
RefreshWithout(G) == {r \in refresh : r.gid \notin G}
CodesWithout(G)   == [g \in Grants |-> IF g \in G /\ codes[g] \in {"active", "used"}
                                       THEN "deleted" ELSE codes[g]]

DeleteAccessRows(p) ==
    /\ access' = AccessWithout(scope[p])
    /\ UNCHANGED <<consents, codes, pkce, refresh, nextSig, spent, minted>>

DeleteRefreshRows(p) ==
    /\ refresh' = RefreshWithout(scope[p])
    /\ UNCHANGED <<consents, codes, pkce, access, nextSig, spent, minted>>

\* Code replay (TOK-06): access tokens, then refresh tokens.
ReplayAccess(p) ==
    /\ pc[p] = "replay_access"
    /\ DeleteAccessRows(p)
    /\ GoTo(p, "replay_refresh")
    /\ UNCHANGED compromised

ReplayRefresh(p) ==
    /\ pc[p] = "replay_refresh"
    /\ DeleteRefreshRows(p)
    /\ End(p)
    /\ compromised' = compromised \cup scope[p]

\* Refresh-token reuse (TOK-07): the token, then its whole grant.
ReuseToken(p) ==
    /\ pc[p] = "reuse_token"
    /\ refresh' = {r \in refresh : r.sig # tok[p]}
    /\ GoTo(p, "reuse_refresh")
    /\ UNCHANGED <<consents, codes, pkce, access, nextSig, spent, minted, compromised>>

ReuseRefresh(p) ==
    /\ pc[p] = "reuse_refresh"
    /\ DeleteRefreshRows(p)
    /\ GoTo(p, "reuse_access")
    /\ UNCHANGED compromised

ReuseAccess(p) ==
    /\ pc[p] = "reuse_access"
    /\ DeleteAccessRows(p)
    /\ End(p)
    /\ compromised' = compromised \cup scope[p]

\* HandleRevoke (RFC 7009): an active refresh token or an access token finds
\* its grant; a rotated-out refresh token does not.
RevokeToken(p, g) ==
    /\ (\E r \in refresh : r.gid = g /\ r.active) \/ (\E a \in access : a.gid = g)
    /\ Start(p, {g}, 0, "revoke_refresh")
    /\ UNCHANGED <<tables, nextSig, history>>

RevokeRefresh(p) ==
    /\ pc[p] = "revoke_refresh"
    /\ DeleteRefreshRows(p)
    /\ GoTo(p, "revoke_access")
    /\ UNCHANGED compromised

RevokeAccess(p) ==
    /\ pc[p] = "revoke_access"
    /\ DeleteAccessRows(p)
    /\ End(p)
    /\ UNCHANGED compromised

\* RevokeForSubject: password reset and account deletion.
RevokeForSubject(p, s) ==
    /\ StartSweep(p, {g \in Grants : SubjectOf[g] = s}, "sweep_codes")
    /\ UNCHANGED <<tables, nextSig, spent, minted, compromised>>

\* RevokeConsent: the consent row first, then the grants of that client.
RevokeConsent(p, s, c) ==
    /\ StartSweep(p, {g \in Grants : SubjectOf[g] = s /\ ClientOf[g] = c}, "sweep_codes")
    /\ consents' = consents \ {<<s, c>>}
    /\ UNCHANGED <<codes, pkce, access, refresh, nextSig, spent, minted, compromised>>

\* oauthGrantTables, in order: codes, access tokens, refresh tokens, PKCE.
SweepCodes(p) ==
    /\ pc[p] = "sweep_codes"
    /\ codes' = CodesWithout(scope[p])
    /\ GoTo(p, "sweep_access")
    /\ UNCHANGED <<consents, pkce, access, refresh, nextSig, spent, minted, compromised>>

\* Fault: a table missing from oauthGrantTables.
SweepNoAccess(p) ==
    /\ pc[p] = "sweep_access"
    /\ GoTo(p, "sweep_refresh")
    /\ UNCHANGED <<tables, nextSig, spent, minted, compromised>>

SweepAccess(p) ==
    /\ pc[p] = "sweep_access"
    /\ DeleteAccessRows(p)
    /\ GoTo(p, "sweep_refresh")
    /\ UNCHANGED compromised

SweepRefresh(p) ==
    /\ pc[p] = "sweep_refresh"
    /\ DeleteRefreshRows(p)
    /\ GoTo(p, "sweep_pkce")
    /\ UNCHANGED compromised

SweepPKCE(p) ==
    /\ pc[p] = "sweep_pkce"
    /\ pkce' = pkce \ scope[p]
    /\ End(p)
    /\ UNCHANGED <<consents, codes, access, refresh, nextSig, spent, minted, compromised>>

-----------------------------------------------------------------------------
Authorize(p) ==
    \/ \E g \in Grants : AuthorizeConsented(p, g) \/ AuthorizeAllowed(p, g)
    \/ CreateAuthorizeCodeSession(p) \/ CreatePKCERequestSession(p)

Exchange(p) ==
    \/ \E g \in Grants : ExchangeCode(p, g)
    \/ GetPKCERequestSession(p) \/ DeletePKCERequestSession(p)
    \/ GetAuthorizeCodeAgain(p) \/ InvalidateAuthorizeCodeSession(p)
    \/ \E r \in refresh : ExchangeRefreshToken(p, r)
    \/ RotateRefreshToken(p)
    \/ CreateAccessTokenSession(p) \/ CreateRefreshTokenSession(p)

Revoke(p) ==
    \/ ReplayAccess(p) \/ ReplayRefresh(p)
    \/ ReuseToken(p) \/ ReuseRefresh(p) \/ ReuseAccess(p)
    \/ \E g \in Grants : RevokeToken(p, g)
    \/ RevokeRefresh(p) \/ RevokeAccess(p)
    \/ \E s \in Subjects : RevokeForSubject(p, s)
    \/ \E s \in Subjects, c \in Clients : RevokeConsent(p, s, c)
    \/ SweepCodes(p) \/ SweepAccess(p) \/ SweepRefresh(p) \/ SweepPKCE(p)

Next == \E p \in Procs : Authorize(p) \/ Exchange(p) \/ Revoke(p) \/ Abort(p)

Spec == Init /\ [][Next]_vars

-----------------------------------------------------------------------------
(* Properties.                                                             *)

\* A rotation chain never has two refresh tokens that work: however requests
\* and revocations interleave, only the newest token of a chain can be
\* redeemed (RotateRefreshToken, TOK-05 and TOK-08).
OneActivePerChain ==
    \A r, s \in refresh : r.active /\ s.active /\ r.chain = s.chain => r = s

\* What a token came from is spent before the token exists, and stays spent:
\* the code of its grant, and the refresh token it was minted from.  A request
\* abandoned between two statements, a replay or a sweep that runs between them
\* loses tokens, and never leaves them beside a credential that still works
\* (InvalidateAuthorizeCodeSession and RotateRefreshToken, TOK-03 and TOK-05).
TokensSpendTheirSource ==
    \A m \in minted :
        /\ codes[m.gid] \in {"used", "deleted"}
        /\ \A r \in refresh : r.sig = m.from => ~r.active

\* A refresh token is a one-time credential: at most one request wins its
\* rotation, only that request mints from it, at most one access token comes
\* of it, and once it is revoked it never works again.
IssuedSigs == {s \in Sigs : s < nextSig /\ \A m \in minted : m.sig # s}
LiveSigs   == {s \in Sigs : \E r \in refresh : r.sig = s /\ r.active}
MintedFrom == [s \in Sigs |-> {t \in Sigs : \E m \in minted : m.sig = t /\ m.from = s}]

RefreshTokens == INSTANCE OneTimeCredential WITH
    Cred <- Sigs, Outcome <- Sigs,
    issued <- IssuedSigs, live <- LiveSigs, spent <- spent, yield <- MintedFrom

RefreshTokensAreOneTime == RefreshTokens!CredSpec

\* A grant with no active code, no active refresh token and no request in
\* flight on its behalf is dead, and a dead grant issues nothing ever again:
\* what is left after a replay, a reuse or a sweep cannot come back to life.
Dead(g) ==
    /\ codes[g] \in {"used", "deleted"}
    /\ \A r \in refresh : r.gid = g => ~r.active
    /\ ~Issuing(g)

IssuesNothing(g) == Dead(g)' /\ \A a \in access' : a.gid = g => a \in access

DeadGrantsStayDead == [][\A g \in Grants : Dead(g) => IssuesNothing(g)]_vars

\* When RevokeForSubject or RevokeForSubjectAndClient reaches its last table
\* and no request of that scope overlapped it, nothing the scope was ever
\* granted still works.
SweepLeavesNothing(p) ==
    /\ \A g \in scope[p] : codes[g] \notin {"active", "used"}
    /\ \A a \in access : a.gid \notin scope[p]
    /\ \A r \in refresh : r.gid \notin scope[p]

QuietSweepLeavesNothing ==
    \A p \in quiet : pc[p] = "sweep_pkce" => SweepLeavesNothing(p)

\* The same for every sweep, overlapped or not, and only for the grants that
\* existed when it began (their code row is one the sweep deleted): what
\* storage.go says of RevokeForSubject, that "already-issued grants ... stop
\* working immediately".
SweptGrantsHaveNoTokens ==
    \A p \in Procs : pc[p] = "sweep_pkce" =>
        \A g \in scope[p] : codes[g] = "deleted" =>
            /\ \A a \in access : a.gid # g
            /\ \A r \in refresh : r.gid # g

\* TOK-03: a code is redeemed at most once.
CodeRedeemedOnce ==
    \A m, n \in minted : m.from = 0 /\ n.from = 0 /\ m.gid = n.gid => m = n

\* TOK-06 and TOK-07: once the response to a replayed code or a reused refresh
\* token is complete, no token of the grant works.
ReuseKillsGrant ==
    \A g \in compromised :
        /\ \A a \in access : a.gid # g
        /\ \A r \in refresh : r.gid = g => ~r.active
=============================================================================
