---------------------------- MODULE SigningKeys -----------------------------
(***************************************************************************)
(* The HMAC secret and the RSA signing keys of the authorization server    *)
(* (internal/oauth/keys.go), as the processes of a deployment create them  *)
(* on their first start and use them afterwards.  The secret is read once  *)
(* and kept in memory; the key is read from the database whenever a token  *)
(* is signed or introspected.  Processes share the database, so a          *)
(* statement, or the transaction of rotate, is one step.                   *)
(*                                                                         *)
(* A token is signed with the key that is current when it is issued, and   *)
(* names in its header the key that was current when its grant was         *)
(* authorized (finishAuthorize stores it in the session).                  *)
(***************************************************************************)
EXTENDS Naturals

CONSTANTS Servers,   \* processes running "maubase serve" on one database
          Grants,    \* authorized grants
          MaxKey,    \* bound: signing keys ever created
          NoSecret,  \* no row in oauth_hmac_secret
          NoSession  \* of a grant not authorized yet

ASSUME KeysAssumption == MaxKey \in Nat /\ NoSecret \notin Servers

VARIABLES
    secret,   \* oauth_hmac_secret: its row, named after the process that drew it
    keys,     \* oauth_signing_keys: rows 1..keys, numbered as they were inserted
    current,  \* the rows with is_current = 1
    boot,     \* boot[p]: how far process p has started, and its secret in memory
    session,  \* session[g]: the grant's stored session
    tokens,   \* access tokens issued
    raced     \* history: two first starts created a key at the same time

keysVars == <<secret, keys, current, boot, session, tokens, raced>>

Kids == 1..MaxKey

\* A secret that was never inserted is known to nobody else and goes when its
\* process does, so one name per process is enough.
Secrets == Servers \cup {NoSecret}

Down == [at |-> "down", secret |-> NoSecret]

KeysTypeOK ==
    /\ secret \in Secrets
    /\ keys \in 0..MaxKey
    /\ current \subseteq 1..keys
    /\ boot \in [Servers -> [at : {"down", "draw", "key", "rotate", "up"}, secret : Secrets]]
    /\ \A g \in Grants : session[g] = NoSession \/ session[g] \in [kid : Kids, secret : Servers]
    /\ tokens \subseteq [grant : Grants, kid : Kids, key : Kids]
    /\ raced \in BOOLEAN

KeysInit ==
    /\ secret = NoSecret
    /\ keys = 0
    /\ current = {}
    /\ boot = [p \in Servers |-> Down]
    /\ session = [g \in Grants |-> NoSession]
    /\ tokens = {}
    /\ raced = FALSE

-----------------------------------------------------------------------------
(* NewServer.                                                              *)

Move(p, at) == boot' = [boot EXCEPT ![p].at = at]

\* EnsureHMACSecret: SELECT, and a secret of its own if there is no row.
Start(p) ==
    /\ boot[p].at = "down"
    /\ boot' = [boot EXCEPT ![p] =
                  IF secret # NoSecret THEN [at |-> "key", secret |-> secret]
                                       ELSE [at |-> "draw", secret |-> p]]
    /\ UNCHANGED <<secret, keys, current, session, tokens, raced>>

\* Fault: a conflict is taken for success.
InsertSecretOrIgnore(p) ==
    /\ boot[p].at = "draw"
    /\ secret' = IF secret = NoSecret THEN p ELSE secret
    /\ Move(p, "key")
    /\ UNCHANGED <<keys, current, session, tokens, raced>>

\* INSERT ... (1, ?): on a conflict the process gives up and exits.
InsertSecret(p) ==
    /\ boot[p].at = "draw"
    /\ \/ /\ secret = NoSecret
          /\ secret' = p
          /\ Move(p, "key")
       \/ /\ secret # NoSecret
          /\ boot' = [boot EXCEPT ![p] = Down]
          /\ UNCHANGED secret
    /\ UNCHANGED <<keys, current, session, tokens, raced>>

Rotating(p) == boot[p].at = "rotate"

\* Fault: every start rotates.
EnsureKeyRotates(p) ==
    /\ boot[p].at = "key"
    /\ Move(p, "rotate")
    /\ raced' = (raced \/ \E q \in Servers : Rotating(q))
    /\ UNCHANGED <<secret, keys, current, session, tokens>>

\* EnsureKey: currentKey, else rotate.
EnsureKey(p) ==
    /\ boot[p].at = "key"
    /\ \/ /\ current # {}
          /\ Move(p, "up")
          /\ UNCHANGED raced
       \/ /\ current = {}
          /\ Move(p, "rotate")
          /\ raced' = (raced \/ \E q \in Servers : Rotating(q))
    /\ UNCHANGED <<secret, keys, current, session, tokens>>

\* rotate: one transaction demotes every key and inserts the new one.
Rotate(p) ==
    /\ Rotating(p)
    /\ keys < MaxKey
    /\ keys' = keys + 1
    /\ current' = {keys + 1}
    /\ Move(p, "up")
    /\ UNCHANGED <<secret, session, tokens, raced>>

\* A crash, a failed statement, or SIGTERM.
Stop(p) ==
    /\ boot[p].at # "down"
    /\ boot' = [boot EXCEPT ![p] = Down]
    /\ UNCHANGED <<secret, keys, current, session, tokens, raced>>

-----------------------------------------------------------------------------
(* The endpoints that use them.                                            *)

\* finishAuthorize: the session gets the current kid, the code the secret.
FinishAuthorize(p, g) ==
    /\ boot[p].at = "up" /\ session[g] = NoSession
    /\ \E k \in current : session' = [session EXCEPT ![g] = [kid |-> k, secret |-> boot[p].secret]]
    /\ UNCHANGED <<secret, keys, current, boot, tokens, raced>>

\* HandleToken, for the code and for every refresh token after it: their HMAC
\* is checked with this process's secret, the access token signed (KeyGetter)
\* with the current key.  KeyGetter would create one where there is none, which
\* cannot happen once a process is up.
HandleToken(p, g) ==
    /\ boot[p].at = "up" /\ session[g] # NoSession
    /\ session[g].secret = boot[p].secret
    /\ \E k \in current : tokens' = tokens \cup {[grant |-> g, kid |-> session[g].kid, key |-> k]}
    /\ UNCHANGED <<secret, keys, current, boot, session, raced>>

KeysNext ==
    \E p \in Servers :
       \/ Start(p) \/ InsertSecret(p) \/ EnsureKey(p) \/ Rotate(p) \/ Stop(p)
       \/ \E g \in Grants : FinishAuthorize(p, g) \/ HandleToken(p, g)

KeysSpec == KeysInit /\ [][KeysNext]_keysVars

-----------------------------------------------------------------------------
(* Properties.                                                             *)

\* However first starts interleave, every process that got past its start
\* keeps the secret of the database: a code or refresh token one process
\* issued is one that every other process, and it after a restart, accepts.
OneSecret ==
    /\ \A p \in Servers : boot[p].at \in {"key", "rotate", "up"} => boot[p].secret = secret
    /\ \A g \in Grants : session[g] # NoSession => session[g].secret = secret

\* JWKS publishes every key: a resource server verifies t with the key its
\* header names.  Authenticate's introspection verifies with the current one.
VerifiesOutside(t) == t.kid = t.key
VerifiesHere(t)    == t.key \in current

\* Unless two first starts created a key each, every access token ever issued
\* verifies, at a resource server and here, across any number of restarts.
TokensVerify == ~raced => \A t \in tokens : VerifiesOutside(t) /\ VerifiesHere(t)

\* What session.go says without that exception: "an external resource server
\* ... can and should pick the right key by kid, so a token stays verifiable
\* there across a key rotation".
TokensNameTheirKey == \A t \in tokens : VerifiesOutside(t)
=============================================================================
