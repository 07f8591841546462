------------------------------ MODULE Accounts ------------------------------
(***************************************************************************)
(* The identity layer (internal/auth/service.go) and the handlers on it:   *)
(* sign-up, login, password reset, social sign-in, logout, account         *)
(* deletion and the janitor, over the tables users, sessions,              *)
(* password_reset_tokens and social_identities.                            *)
(*                                                                         *)
(* One SQL statement is one step (SetMaxOpenConns(1)); ResetPassword is    *)
(* one transaction, hence one step.  Every other multi-statement request   *)
(* holds what it read in req[p] while other requests run.                  *)
(*                                                                         *)
(* A password is abstracted to its version: 0 is the random password of an *)
(* account made by social sign-in, which nobody can type; sign-up sets 1   *)
(* and every reset the next one.  A request that is refused without        *)
(* touching a table (unknown email, wrong password, bad token) has no      *)
(* action.                                                                 *)
(***************************************************************************)
EXTENDS Naturals

CONSTANTS Procs,        \* requests that can be in flight at the same time
          Emails,       \* normalized addresses
          Idents,       \* (provider, provider_user_id) pairs
          Reports,      \* Reports[i]: the addresses i's provider may report
          Placeholder,  \* Placeholder[i]: the synthetic address of i
          MaxUser,      \* bound: accounts ever created
          MaxSession,   \* bound: sessions ever created
          MaxTok        \* bound: reset tokens ever issued

ASSUME AccountsAssumption ==
    /\ Reports \in [Idents -> SUBSET Emails]
    /\ Placeholder \in [Idents -> Emails]
    /\ MaxUser \in Nat /\ MaxSession \in Nat /\ MaxTok \in Nat

Ids  == 1..MaxUser
Sids == 1..MaxSession
Toks == 1..MaxTok

VARIABLES
    users,     \* users: [id, email, ver]
    sessions,  \* sessions: [sid, user, expired]; history: how it was opened
    resets,    \* password_reset_tokens: [tok, user, used, expired]; history: born
    links,     \* social_identities: links[i], the account of i or 0
    nextId, nextSid, nextTok,   \* fresh identifiers
    req,       \* req[p]: the request in flight and what it has read
    redeemed   \* history: redeemed[t], the versions set by redeeming token t

tables == <<users, sessions, resets, links>>
fresh  == <<nextId, nextSid, nextTok>>
vars   == <<tables, fresh, req, redeemed>>

Steps == {"idle", "signup_get", "signup_login", "session_insert", "reset_insert",
          "erase", "social_lookup", "email_lookup", "user_insert", "user_relookup",
          "link_insert"}

\* at: the next statement; uid and ver: the account read and its password at
\* the time; email, ident, cur: the callback's profile and the account it is
\* signed in to; new: the newAccount result; made: it inserted the account.
Requests ==
    [at : Steps, uid : Ids \cup {0}, ver : Nat, email : Emails \cup {""},
     ident : Idents \cup {""}, cur : Ids \cup {0}, new : BOOLEAN, made : BOOLEAN]

NoRequest == [at |-> "idle", uid |-> 0, ver |-> 0, email |-> "", ident |-> "",
              cur |-> 0, new |-> FALSE, made |-> FALSE]

TypeOK ==
    /\ users \subseteq [id : Ids, email : Emails, ver : Nat]
    /\ sessions \subseteq [sid : Sids, user : Ids, expired : BOOLEAN,
                           how : {"password", "social"}, read : Nat, born : Nat]
    /\ resets \subseteq [tok : Toks, user : Ids, used : BOOLEAN, expired : BOOLEAN, born : Nat]
    /\ links \in [Idents -> Ids \cup {0}]
    /\ nextId \in 1..(MaxUser + 1)
    /\ nextSid \in 1..(MaxSession + 1)
    /\ nextTok \in 1..(MaxTok + 1)
    /\ req \in [Procs -> Requests]
    /\ redeemed \in [Toks -> SUBSET Nat]

Init ==
    /\ users = {} /\ sessions = {} /\ resets = {}
    /\ links = [i \in Idents |-> 0]
    /\ nextId = 1 /\ nextSid = 1 /\ nextTok = 1
    /\ req = [p \in Procs |-> NoRequest]
    /\ redeemed = [t \in Toks |-> {}]

-----------------------------------------------------------------------------
(* Requests and rows.                                                      *)

Begin(p, r) == req[p] = NoRequest /\ req' = [req EXCEPT ![p] = r]
GoOn(p, r)  == req' = [req EXCEPT ![p] = r]
End(p)      == req' = [req EXCEPT ![p] = NoRequest]

\* A cancelled request context: what is left of the request is not done.
Abort(p) ==
    /\ req[p] # NoRequest
    /\ End(p)
    /\ UNCHANGED <<tables, fresh, redeemed>>

UserIds == {u.id : u \in users}
Taken(m) == \E u \in users : u.email = m

\* ValidateSession: a row that has not expired, joined with its account.
SignedIn == {s.user : s \in {t \in sessions : ~t.expired}} \cap UserIds

\* INSERT INTO users; the caller has checked the unique index.
AddUser(m, v) ==
    /\ nextId <= MaxUser
    /\ users' = users \cup {[id |-> nextId, email |-> m, ver |-> v]}
    /\ nextId' = nextId + 1

-----------------------------------------------------------------------------
(* Sign-up and login.                                                      *)

\* SignUp's INSERT; a taken address answers 409 and changes nothing.
SignUp(p, m) ==
    /\ ~Taken(m)
    /\ AddUser(m, 1)
    /\ Begin(p, [NoRequest EXCEPT !.at = "signup_get", !.uid = nextId, !.ver = 1])
    /\ UNCHANGED <<sessions, resets, links, nextSid, nextTok, redeemed>>

\* getUserByID, then the handler's own login.
SignUpGet(p) ==
    /\ req[p].at = "signup_get"
    /\ IF req[p].uid \in UserIds THEN GoOn(p, [req[p] EXCEPT !.at = "signup_login"]) ELSE End(p)
    /\ UNCHANGED <<tables, fresh, redeemed>>

\* Login with what was just signed up: the row may be gone or changed.
SignUpLogin(p) ==
    /\ req[p].at = "signup_login"
    /\ IF \E u \in users : u.id = req[p].uid /\ u.ver = req[p].ver
       THEN GoOn(p, [req[p] EXCEPT !.at = "session_insert"])
       ELSE End(p)
    /\ UNCHANGED <<tables, fresh, redeemed>>

\* Login's SELECT and password check, with the right password.
Login(p, u) ==
    /\ u.ver > 0
    /\ Begin(p, [NoRequest EXCEPT !.at = "session_insert", !.uid = u.id, !.ver = u.ver])
    /\ UNCHANGED <<tables, fresh, redeemed>>

\* createSession: the foreign key refuses an account that is gone.
InsertSession(p) ==
    /\ req[p].at = "session_insert"
    /\ \/ /\ nextSid <= MaxSession
          /\ \E u \in users :
               /\ u.id = req[p].uid
               /\ sessions' = sessions \cup
                    {[sid |-> nextSid, user |-> u.id, expired |-> FALSE,
                      how |-> IF req[p].ident = "" THEN "password" ELSE "social",
                      read |-> req[p].ver, born |-> u.ver]}
          /\ nextSid' = nextSid + 1
       \/ req[p].uid \notin UserIds /\ UNCHANGED <<sessions, nextSid>>
    /\ End(p)
    /\ UNCHANGED <<users, resets, links, nextId, nextTok, redeemed>>

Logout(s) ==
    /\ sessions' = sessions \ {s}
    /\ UNCHANGED <<users, resets, links, fresh, req, redeemed>>

\* The admin UI's "sign out everywhere".
RevokeAllSessions(i) ==
    /\ sessions' = {s \in sessions : s.user # i}
    /\ UNCHANGED <<users, resets, links, fresh, req, redeemed>>

-----------------------------------------------------------------------------
(* Password reset.                                                         *)

\* CreateResetToken's lookup by address.
ForgotPassword(p, u) ==
    /\ Begin(p, [NoRequest EXCEPT !.at = "reset_insert", !.uid = u.id])
    /\ UNCHANGED <<tables, fresh, redeemed>>

InsertResetToken(p) ==
    /\ req[p].at = "reset_insert"
    /\ \/ /\ nextTok <= MaxTok
          /\ \E u \in users :
               /\ u.id = req[p].uid
               /\ resets' = resets \cup {[tok |-> nextTok, user |-> u.id, used |-> FALSE,
                                          expired |-> FALSE, born |-> u.ver]}
          /\ nextTok' = nextTok + 1
       \/ req[p].uid \notin UserIds /\ UNCHANGED <<resets, nextTok>>
    /\ End(p)
    /\ UNCHANGED <<users, sessions, links, nextId, nextSid, redeemed>>

\* The writes of ResetPassword's transaction on the account of token r.
NewPassword(r, spentToks, endedSessions) ==
    /\ \E u \in users :
         /\ u.id = r.user
         /\ users' = (users \ {u}) \cup {[u EXCEPT !.ver = @ + 1]}
         /\ redeemed' = [redeemed EXCEPT ![r.tok] = @ \cup {u.ver + 1}]
    /\ resets' = {[x EXCEPT !.used = @ \/ x \in spentToks] : x \in resets}
    /\ sessions' = sessions \ endedSessions
    /\ UNCHANGED <<links, fresh, req>>

ResetsOf(i)   == {x \in resets : x.user = i}
SessionsOf(i) == {s \in sessions : s.user = i}

\* Fault: used_at is not looked at.
ResetAgain(r) ==
    /\ ~r.expired
    /\ NewPassword(r, ResetsOf(r.user), SessionsOf(r.user))

\* Fault: the account's other tokens stay good.
ResetSpendsOne(r) ==
    /\ ~r.used /\ ~r.expired
    /\ NewPassword(r, {r}, SessionsOf(r.user))

\* One transaction: check, password, every token of the account, sessions.
ResetPassword(r) ==
    /\ ~r.used /\ ~r.expired
    /\ NewPassword(r, ResetsOf(r.user), SessionsOf(r.user))

-----------------------------------------------------------------------------
(* Time and the janitor.                                                   *)

ExpireSession(s) ==
    /\ ~s.expired
    /\ sessions' = (sessions \ {s}) \cup {[s EXCEPT !.expired = TRUE]}
    /\ UNCHANGED <<users, resets, links, fresh, req, redeemed>>

ExpireResetToken(r) ==
    /\ ~r.expired
    /\ resets' = (resets \ {r}) \cup {[r EXCEPT !.expired = TRUE]}
    /\ UNCHANGED <<users, sessions, links, fresh, req, redeemed>>

PurgeExpiredSessions ==
    /\ sessions' = {s \in sessions : ~s.expired}
    /\ UNCHANGED <<users, resets, links, fresh, req, redeemed>>

PurgeExpiredResetTokens ==
    /\ resets' = {r \in resets : ~r.expired /\ ~r.used}
    /\ UNCHANGED <<users, sessions, links, fresh, req, redeemed>>

-----------------------------------------------------------------------------
(* Account deletion: the session (or the operator) names the account, its  *)
(* data goes, and at the end the row with everything that refers to it.    *)

DeleteAccount(p, i) ==
    /\ i \in SignedIn
    /\ Begin(p, [NoRequest EXCEPT !.at = "erase", !.uid = i])
    /\ UNCHANGED <<tables, fresh, redeemed>>

\* The admin UI's handleDeleteUser names any account.
AdminDeleteUser(p, i) ==
    /\ i \in UserIds
    /\ Begin(p, [NoRequest EXCEPT !.at = "erase", !.uid = i])
    /\ UNCHANGED <<tables, fresh, redeemed>>

\* ON DELETE CASCADE from the three tables that refer to users.
DeleteUser(p) ==
    /\ req[p].at = "erase"
    /\ users' = {u \in users : u.id # req[p].uid}
    /\ sessions' = sessions \ SessionsOf(req[p].uid)
    /\ resets' = resets \ ResetsOf(req[p].uid)
    /\ links' = [i \in Idents |-> IF links[i] = req[p].uid THEN 0 ELSE links[i]]
    /\ End(p)
    /\ UNCHANGED <<fresh, redeemed>>

-----------------------------------------------------------------------------
(* Social sign-in: LoginOrCreateViaSocial, from the callback's profile.    *)

\* The callback's own session, if any, is read first; cur = 0 is anonymous.
SocialCallback(p, i, m, cur) ==
    /\ cur \in SignedIn \cup {0}
    /\ Begin(p, [NoRequest EXCEPT !.at = "social_lookup", !.ident = i, !.email = m, !.cur = cur])
    /\ UNCHANGED <<tables, fresh, redeemed>>

\* Fault: an identity linked elsewhere signs its own account in.
SocialLookupSwitches(p) ==
    /\ req[p].at = "social_lookup"
    /\ LET r == req[p]  linked == links[r.ident] IN
       \/ linked # 0 /\ GoOn(p, [r EXCEPT !.at = "session_insert", !.uid = linked])
       \/ linked = 0 /\ r.cur # 0 /\ GoOn(p, [r EXCEPT !.at = "link_insert", !.uid = r.cur])
       \/ linked = 0 /\ r.cur = 0
          /\ GoOn(p, [r EXCEPT !.at = IF r.email = Placeholder[r.ident]
                                      THEN "user_insert" ELSE "email_lookup"])
    /\ UNCHANGED <<tables, fresh, redeemed>>

\* Linked, to the caller or to nobody's session: sign in; linked elsewhere:
\* refuse; new and signed in: link; new and anonymous: look the address up,
\* unless the provider reported none and the placeholder is used.
SocialLookup(p) ==
    /\ req[p].at = "social_lookup"
    /\ LET r == req[p]  linked == links[r.ident] IN
       \/ /\ linked # 0 /\ r.cur \in {0, linked}
          /\ GoOn(p, [r EXCEPT !.at = "session_insert", !.uid = linked])
       \/ /\ linked # 0 /\ r.cur \notin {0, linked}
          /\ End(p)
       \/ /\ linked = 0 /\ r.cur # 0
          /\ GoOn(p, [r EXCEPT !.at = "link_insert", !.uid = r.cur])
       \/ /\ linked = 0 /\ r.cur = 0
          /\ GoOn(p, [r EXCEPT !.at = IF r.email = Placeholder[r.ident]
                                      THEN "user_insert" ELSE "email_lookup"])
    /\ UNCHANGED <<tables, fresh, redeemed>>

EmailLookup(p) ==
    /\ req[p].at = "email_lookup"
    /\ \/ \E u \in users :
            /\ u.email = req[p].email
            /\ GoOn(p, [req[p] EXCEPT !.at = "link_insert", !.uid = u.id])
       \/ ~Taken(req[p].email) /\ GoOn(p, [req[p] EXCEPT !.at = "user_insert"])
    /\ UNCHANGED <<tables, fresh, redeemed>>

\* createUserForSocialSignIn: newAccount is set whichever way it ends.
InsertSocialUser(p) ==
    /\ req[p].at = "user_insert"
    /\ \/ /\ ~Taken(req[p].email)
          /\ AddUser(req[p].email, 0)
          /\ GoOn(p, [req[p] EXCEPT !.at = "link_insert", !.uid = nextId,
                                    !.new = TRUE, !.made = TRUE])
       \/ /\ Taken(req[p].email)
          /\ GoOn(p, [req[p] EXCEPT !.at = "user_relookup"])
          /\ UNCHANGED <<users, nextId>>
    /\ UNCHANGED <<sessions, resets, links, nextSid, nextTok, redeemed>>

RelookupUser(p) ==
    /\ req[p].at = "user_relookup"
    /\ \/ \E u \in users :
            /\ u.email = req[p].email
            /\ GoOn(p, [req[p] EXCEPT !.at = "link_insert", !.uid = u.id, !.new = TRUE])
       \/ ~Taken(req[p].email) /\ End(p)
    /\ UNCHANGED <<tables, fresh, redeemed>>

\* Fault: the last callback wins the identity.
LinkAnyway(p) ==
    /\ req[p].at = "link_insert"
    /\ req[p].uid \in UserIds
    /\ links' = [links EXCEPT ![req[p].ident] = req[p].uid]
    /\ GoOn(p, [req[p] EXCEPT !.at = "session_insert"])
    /\ UNCHANGED <<users, sessions, resets, fresh, redeemed>>

\* INSERT INTO social_identities: UNIQUE (provider, provider_user_id) and the
\* foreign key; a refused INSERT ends the request with a 500.
LinkIdentity(p) ==
    /\ req[p].at = "link_insert"
    /\ LET r == req[p] IN
       IF links[r.ident] = 0 /\ r.uid \in UserIds
       THEN /\ links' = [links EXCEPT ![r.ident] = r.uid]
            /\ GoOn(p, [r EXCEPT !.at = "session_insert"])
       ELSE /\ End(p)
            /\ UNCHANGED links
    /\ UNCHANGED <<users, sessions, resets, fresh, redeemed>>

-----------------------------------------------------------------------------
PasswordStep(p) ==
    \/ \E m \in Emails : SignUp(p, m)
    \/ SignUpGet(p) \/ SignUpLogin(p) \/ InsertSession(p)
    \/ \E u \in users : Login(p, u) \/ ForgotPassword(p, u)
    \/ InsertResetToken(p)

SocialStep(p) ==
    \/ \E i \in Idents, cur \in Ids \cup {0} : \E m \in Reports[i] : SocialCallback(p, i, m, cur)
    \/ SocialLookup(p) \/ EmailLookup(p) \/ InsertSocialUser(p) \/ RelookupUser(p)
    \/ LinkIdentity(p)

EraseStep(p) ==
    \/ \E i \in Ids : DeleteAccount(p, i) \/ AdminDeleteUser(p, i)
    \/ DeleteUser(p)

TableStep ==
    \/ \E s \in sessions : Logout(s) \/ ExpireSession(s)
    \/ \E r \in resets : ResetPassword(r) \/ ExpireResetToken(r)
    \/ \E i \in Ids : RevokeAllSessions(i)
    \/ PurgeExpiredSessions \/ PurgeExpiredResetTokens

Next ==
    \/ \E p \in Procs : PasswordStep(p) \/ SocialStep(p) \/ EraseStep(p) \/ Abort(p)
    \/ TableStep

Spec == Init /\ [][Next]_vars

-----------------------------------------------------------------------------
(* Properties.                                                             *)

\* IDNT-16 and SOCIAL-01: however sign-ups and social callbacks for one
\* address race, there is one account for it.
OneAccountPerEmail == \A u, v \in users : u.email = v.email => u = v

\* IDNT-15: no session, reset token or linked identity outlives its account,
\* not even one written by a request that read the account before.
NothingOutlivesItsAccount ==
    /\ \A s \in sessions : s.user \in UserIds
    /\ \A r \in resets : r.user \in UserIds
    /\ \A i \in Idents : links[i] # 0 => links[i] \in UserIds

\* PWRESET-03 and PWRESET-12: every session and every reset token that still
\* works was written under the account's present password; a reset leaves
\* none from before it.
CredentialsAreOfThisPassword ==
    /\ \A s \in sessions, u \in users : s.user = u.id => s.born = u.ver
    /\ \A r \in resets, u \in users : r.user = u.id /\ ~r.used => r.born = u.ver

IssuedToks == {t \in Toks : t < nextTok}
LiveToks   == {t \in Toks : \E r \in resets : r.tok = t /\ ~r.used /\ ~r.expired}
SpentToks  == {t \in Toks : redeemed[t] # {}}

\* PWRESET-05 and PWRESET-10: a reset token is a one-time credential; it sets
\* one password, and nothing once it is used, expired, purged or revoked by
\* the redemption of another.
ResetTokens == INSTANCE OneTimeCredential WITH
    Cred <- Toks, Outcome <- 1..(MaxTok + 1),
    issued <- IssuedToks, live <- LiveToks, spent <- SpentToks, yield <- redeemed

ResetTokensAreOneTime == ResetTokens!CredSpec

\* SOCIAL-03: an identity stays with the account it was first linked to until
\* that account is deleted; no callback moves it.
IdentitiesStayLinked ==
    [][\A i \in Idents : links[i] # 0 =>
           links'[i] = links[i] \/ links[i] \notin {u.id : u \in users'}]_vars

\* SOCIAL-10: a callback made while signed in to one account never opens a
\* session for another, whoever links the identity meanwhile.
NoSilentSwitch ==
    \A p \in Procs : req[p].at = "session_insert" /\ req[p].cur # 0 => req[p].uid = req[p].cur

\* PWRESET-03, as the reset's caller understands it: no session opened with an
\* old password works after the reset.
NoSessionOfAnOldPassword ==
    \A s \in sessions, u \in users :
        s.user = u.id /\ s.how = "password" => s.read = u.ver

\* What createUserForSocialSignIn says of a callback that a concurrent one
\* overtook: the winner's row is the one to link to, "not a real error".  A
\* callback that is overtaken later, when it is about to link, is refused.
LosingCallbacksSignIn ==
    \A p \in Procs : req[p].at = "link_insert" /\ req[p].cur = 0 => links[req[p].ident] = 0

\* What LoginOrCreateViaSocial says of newAccount: "a brand new account was
\* created, not just linked to".
NewAccountMeansCreated == \A p \in Procs : req[p].new => req[p].made
=============================================================================
