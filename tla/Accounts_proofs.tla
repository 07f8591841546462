--------------------------- MODULE Accounts_proofs --------------------------
(***************************************************************************)
(* Proofs about Accounts, for every number of requests in flight, of       *)
(* addresses, identities, accounts, sessions and reset tokens.             *)
(***************************************************************************)
EXTENDS Accounts, FiniteSetTheorems, TLAPS

Users == [id : Ids, email : Emails, ver : Nat]
Sessions == [sid : Sids, user : Ids, expired : BOOLEAN,
             how : {"password", "social"}, read : Nat, born : Nat]
Resets == [tok : Toks, user : Ids, used : BOOLEAN, expired : BOOLEAN, born : Nat]

\* What a request in flight carries: a callback made while signed in keeps to
\* its own account, one on its way to find or make an account is anonymous,
\* and a step of a callback has its identity and address.
Fits(r) ==
    /\ r \in Requests
    /\ r.at \in {"signup_get", "signup_login", "email_lookup", "user_insert", "user_relookup"} =>
         r.cur = 0
    /\ r.at \in {"session_insert", "link_insert"} /\ r.cur # 0 => r.uid = r.cur
    /\ r.at \in {"social_lookup", "email_lookup", "user_insert", "user_relookup", "link_insert"} =>
         r.ident \in Idents /\ r.email \in Emails

TablesTypeOK ==
    /\ users \subseteq Users
    /\ sessions \subseteq Sessions
    /\ resets \subseteq Resets
    /\ links \in [Idents -> Ids \cup {0}]
    /\ nextId \in 1..(MaxUser + 1) /\ nextSid \in 1..(MaxSession + 1) /\ nextTok \in 1..(MaxTok + 1)
    /\ redeemed \in [Toks -> SUBSET Nat]

\* An account's id is never handed out again.
IdsAreOwn ==
    /\ \A u \in users : u.id < nextId
    /\ \A u, v \in users : u.id = v.id => u = v

\* A token is one row, and the row of one that was redeemed is used.
TokensAreOwn ==
    /\ \A r \in resets : r.tok < nextTok
    /\ \A r, x \in resets : r.tok = x.tok => r = x
    /\ \A t \in SpentToks : t < nextTok
    /\ \A r \in resets : r.tok \in SpentToks => r.used

\* Every password but the first costs a reset token.
PasswordsCostTokens == \A u \in users : u.ver <= 1 + Cardinality(SpentToks)

TInv ==
    /\ TablesTypeOK
    /\ IdsAreOwn
    /\ OneAccountPerEmail
    /\ NothingOutlivesItsAccount
    /\ CredentialsAreOfThisPassword
    /\ TokensAreOwn
    /\ PasswordsCostTokens

RInv == req \in [Procs -> Requests] /\ \A p \in Procs : Fits(req[p])

AInv == TInv /\ RInv

-----------------------------------------------------------------------------
(* Requests.                                                               *)

Req(a, u, v, m, i, c, n, k) ==
    [at |-> a, uid |-> u, ver |-> v, email |-> m, ident |-> i, cur |-> c, new |-> n, made |-> k]

\* The fields of a request that is not there yet.
No    == FALSE
Zero  == 0
Blank == ""

\* No request.
LEMMA NoneIs == NoRequest = Req("idle", Zero, Zero, Blank, Blank, Zero, No, No)
BY DEF NoRequest, Req, No, Zero, Blank

\* What they are.
LEMMA NoneTypes == No \in BOOLEAN /\ Zero = 0 /\ Blank = ""
BY DEF No, Zero, Blank

\* A request that fits keeps the requests' part of the invariant.
LEMMA Moved ==
    ASSUME RInv, NEW p \in Procs, NEW r, Fits(r), req' = [req EXCEPT ![p] = r]
    PROVE  RInv'
<1>1. r \in Requests
  BY DEF Fits
<1>2. req' \in [Procs -> Requests]
  BY <1>1 DEF RInv
<1>3. \A q \in Procs : req'[q] = IF q = p THEN r ELSE req[q]
  BY DEF RInv
<1>4. \A q \in Procs : Fits(req'[q])
  BY <1>3 DEF RInv
<1>5. QED
  BY <1>2, <1>4 DEF RInv

\* No request fits.
LEMMA IdleFits == Fits(NoRequest)
<1>1. NoRequest \in Requests
  BY DEF NoRequest, Requests, Steps
<1>2. NoRequest.at = "idle"
  BY DEF NoRequest
<1>3. QED
  BY <1>1, <1>2 DEF Fits

\* A request that ends.
LEMMA Ended ==
    ASSUME RInv, NEW p \in Procs, End(p)
    PROVE  RInv'
BY IdleFits, Moved DEF End

\* A request on an account, outside any callback.
LEMMA OnAccountFits ==
    ASSUME NEW a \in {"signup_get", "session_insert", "reset_insert", "erase"},
           NEW u \in Ids, NEW v \in Nat
    PROVE  Fits(Req(a, u, v, Blank, Blank, Zero, No, No))
<1> DEFINE r == Req(a, u, v, Blank, Blank, Zero, No, No)
<1>1. r \in Requests
  BY NoneTypes DEF Req, Requests, Steps
<1>2. r.at = a /\ r.cur = 0
  BY NoneTypes DEF Req
<1>3. a \notin {"social_lookup", "email_lookup", "user_insert", "user_relookup", "link_insert"}
  OBVIOUS
<1> HIDE DEF r
<1>4. r.cur = 0
  BY <1>2
<1>5. ~(r.at \in {"session_insert", "link_insert"} /\ r.cur # 0)
  BY <1>4
<1>6. Fits(r)
  BY <1>1, <1>2, <1>3, <1>4, <1>5 DEF Fits
<1>7. QED
  BY <1>6 DEF r

\* A request that begins on an account, with a password or without.
LEMMA BegunOn ==
    ASSUME NEW a, NEW u, NEW v
    PROVE  /\ [NoRequest EXCEPT !.at = a, !.uid = u] = Req(a, u, Zero, Blank, Blank, Zero, No, No)
           /\ [NoRequest EXCEPT !.at = a, !.uid = u, !.ver = v]
                = Req(a, u, v, Blank, Blank, Zero, No, No)
<1>1. [NoRequest EXCEPT !.at = a] = Req(a, Zero, Zero, Blank, Blank, Zero, No, No)
  BY NoneIs DEF Req
<1>2. [Req(a, Zero, Zero, Blank, Blank, Zero, No, No) EXCEPT !.uid = u] = Req(a, u, Zero, Blank, Blank, Zero, No, No)
  BY DEF Req
<1>3. [Req(a, u, Zero, Blank, Blank, Zero, No, No) EXCEPT !.ver = v] = Req(a, u, v, Blank, Blank, Zero, No, No)
  BY DEF Req
<1>4. [NoRequest EXCEPT !.at = a, !.uid = u] = Req(a, u, Zero, Blank, Blank, Zero, No, No)
  BY <1>1, <1>2
<1>5. QED
  BY <1>3, <1>4

\* A callback that begins.
LEMMA BegunCallback ==
    ASSUME NEW i, NEW m, NEW c
    PROVE  [NoRequest EXCEPT !.at = "social_lookup", !.ident = i, !.email = m, !.cur = c]
             = Req("social_lookup", Zero, Zero, m, i, c, No, No)
<1>1. [NoRequest EXCEPT !.at = "social_lookup"] = Req("social_lookup", Zero, Zero, Blank, Blank, Zero, No, No)
  BY NoneIs DEF Req
<1>2. [Req("social_lookup", Zero, Zero, Blank, Blank, Zero, No, No) EXCEPT !.ident = i]
        = Req("social_lookup", Zero, Zero, Blank, i, Zero, No, No)
  BY DEF Req
<1>3. [Req("social_lookup", Zero, Zero, Blank, i, Zero, No, No) EXCEPT !.email = m]
        = Req("social_lookup", Zero, Zero, m, i, Zero, No, No)
  BY DEF Req
<1>4. [Req("social_lookup", Zero, Zero, m, i, Zero, No, No) EXCEPT !.cur = c]
        = Req("social_lookup", Zero, Zero, m, i, c, No, No)
  BY DEF Req
<1>5. QED
  BY <1>1, <1>2, <1>3, <1>4

\* A request in flight, and its fields.
LEMMA Fields ==
    ASSUME RInv, NEW p \in Procs
    PROVE  /\ req[p] \in Requests /\ Fits(req[p])
           /\ req[p].uid \in Ids \cup {0} /\ req[p].ver \in Nat /\ req[p].email \in Emails \cup {""}
           /\ req[p].ident \in Idents \cup {""} /\ req[p].cur \in Ids \cup {0}
           /\ req[p].new \in BOOLEAN /\ req[p].made \in BOOLEAN
<1>1. req[p] \in Requests /\ Fits(req[p])
  BY DEF RInv
<1>2. QED
  BY <1>1 DEF Requests

\* A request at its next statement, and with an account.
LEMMA MovedOn ==
    ASSUME NEW q \in Requests, NEW a, NEW u
    PROVE  /\ [q EXCEPT !.at = a] = Req(a, q.uid, q.ver, q.email, q.ident, q.cur, q.new, q.made)
           /\ [q EXCEPT !.at = a, !.uid = u]
                = Req(a, u, q.ver, q.email, q.ident, q.cur, q.new, q.made)
<1>1. q = Req(q.at, q.uid, q.ver, q.email, q.ident, q.cur, q.new, q.made)
  BY DEF Requests, Req
<1>2. [q EXCEPT !.at = a] = Req(a, q.uid, q.ver, q.email, q.ident, q.cur, q.new, q.made)
  <2> DEFINE b == q.at
             x == q.uid
             v == q.ver
             m == q.email
             i == q.ident
             c == q.cur
             n == q.new
             k == q.made
  <2> HIDE DEF b, x, v, m, i, c, n, k
  <2>1. [Req(b, x, v, m, i, c, n, k) EXCEPT !.at = a] = Req(a, x, v, m, i, c, n, k)
    BY DEF Req
  <2>2. QED
    BY <1>1, <2>1 DEF b, x, v, m, i, c, n, k
<1>3. [Req(a, q.uid, q.ver, q.email, q.ident, q.cur, q.new, q.made) EXCEPT !.uid = u]
        = Req(a, u, q.ver, q.email, q.ident, q.cur, q.new, q.made)
  BY DEF Req
<1>4. [q EXCEPT !.at = a, !.uid = u] = Req(a, u, q.ver, q.email, q.ident, q.cur, q.new, q.made)
  BY <1>2, <1>3
<1>5. QED
  BY <1>2, <1>4

\* And with newAccount set.
LEMMA MovedNew ==
    ASSUME NEW q \in Requests, NEW a, NEW u, NEW n
    PROVE  [q EXCEPT !.at = a, !.uid = u, !.new = n]
             = Req(a, u, q.ver, q.email, q.ident, q.cur, n, q.made)
<1>1. [Req(a, u, q.ver, q.email, q.ident, q.cur, q.new, q.made) EXCEPT !.new = n]
        = Req(a, u, q.ver, q.email, q.ident, q.cur, n, q.made)
  BY DEF Req
<1>2. [q EXCEPT !.at = a, !.uid = u] = Req(a, u, q.ver, q.email, q.ident, q.cur, q.new, q.made)
  BY MovedOn
<1>3. QED
  BY <1>1, <1>2

\* The next state of a callback, by the statement it comes to.
LEMMA CallbackFits ==
    ASSUME NEW q, q \in Requests, Fits(q), NEW u \in Ids \cup {0}, NEW n \in BOOLEAN, NEW k \in BOOLEAN,
           NEW a \in {"signup_login", "session_insert", "email_lookup", "user_insert",
                      "user_relookup", "link_insert"},
           a \in {"signup_login", "email_lookup", "user_insert", "user_relookup"} => q.cur = 0,
           a \in {"session_insert", "link_insert"} => u = q.cur \/ q.cur = 0,
           a \in {"email_lookup", "user_insert", "user_relookup", "link_insert"} =>
             q.ident \in Idents /\ q.email \in Emails
    PROVE  Fits(Req(a, u, q.ver, q.email, q.ident, q.cur, n, k))
<1> DEFINE r == Req(a, u, q.ver, q.email, q.ident, q.cur, n, k)
<1>0. q.ver \in Nat /\ q.email \in Emails \cup {""} /\ q.ident \in Idents \cup {""}
      /\ q.cur \in Ids \cup {0}
  BY DEF Requests
<1>1. r \in Requests
  BY <1>0 DEF Req, Requests, Steps
<1>2. r.at = a /\ r.cur = q.cur /\ r.uid = u /\ r.ident = q.ident /\ r.email = q.email
  BY DEF Req
<1> HIDE DEF r
<1>3. r.at \in {"session_insert", "link_insert"} /\ r.cur # 0 => r.uid = r.cur
  BY <1>2
<1>4. r.at \in {"signup_get", "signup_login", "email_lookup", "user_insert", "user_relookup"} => r.cur = 0
  BY <1>2
<1>5. r.at \in {"social_lookup", "email_lookup", "user_insert", "user_relookup", "link_insert"} =>
        r.ident \in Idents /\ r.email \in Emails
  BY <1>2
<1>6. Fits(r)
  BY <1>1, <1>3, <1>4, <1>5 DEF Fits
<1>7. QED
  BY <1>6 DEF r

\* An account's row, and the id the next one gets.
LEMMA Rows ==
    ASSUME TInv
    PROVE  /\ \A u \in users : u.id \in Ids /\ u.ver \in Nat /\ u.email \in Emails
           /\ nextId <= MaxUser => nextId \in Ids
           /\ UserIds \subseteq Ids
           /\ \A i \in Idents : links[i] \in Ids \cup {0}
<1>1. \A u \in users : u.id \in Ids /\ u.ver \in Nat /\ u.email \in Emails
  BY DEF TInv, TablesTypeOK, Users
<1>2. nextId <= MaxUser => nextId \in Ids
  BY AccountsAssumption DEF TInv, TablesTypeOK, Ids
<1>3. UserIds \subseteq Ids
  BY <1>1 DEF UserIds
<1>4. \A i \in Idents : links[i] \in Ids \cup {0}
  BY DEF TInv, TablesTypeOK
<1>5. QED
  BY <1>1, <1>2, <1>3, <1>4

\* Sign-up, login, password reset and deletion, of the requests.
LEMMA PasswordRequests ==
    ASSUME TInv, RInv, NEW p \in Procs,
           \/ PasswordStep(p) \/ EraseStep(p) \/ Abort(p)
    PROVE  RInv'
<1> USE DEF GoOn
<1>a. req[p] \in Requests /\ Fits(req[p]) /\ req[p].uid \in Ids \cup {0}
      /\ req[p].new \in BOOLEAN /\ req[p].made \in BOOLEAN
  BY Fields
<1>1. ASSUME NEW m \in Emails, SignUp(p, m) PROVE RInv'
  <2>1. req' = [req EXCEPT ![p] = [NoRequest EXCEPT !.at = "signup_get", !.uid = nextId, !.ver = 1]]
        /\ nextId \in Ids
    BY <1>1, Rows DEF SignUp, AddUser, Begin
  <2>2. [NoRequest EXCEPT !.at = "signup_get", !.uid = nextId, !.ver = 1]
          = Req("signup_get", nextId, 1, Blank, Blank, Zero, No, No)
    BY BegunOn
  <2>3. QED
    BY <2>1, <2>2, OnAccountFits, Moved
<1>2. ASSUME SignUpGet(p) PROVE RInv'
  <2>1. CASE End(p)
    BY <2>1, Ended
  <2>2. CASE req' = [req EXCEPT ![p] = [req[p] EXCEPT !.at = "signup_login"]]
    <3> DEFINE q == req[p]
               r == Req("signup_login", q.uid, q.ver, q.email, q.ident, q.cur, q.new, q.made)
    <3>1. req' = [req EXCEPT ![p] = r]
      BY <1>a, <2>2, MovedOn
    <3>2. q.cur = 0
      BY <1>2, <1>a DEF SignUpGet, Fits
    <3>3. Fits(r)
      BY <1>a, <3>2, CallbackFits
    <3> HIDE DEF r
    <3>4. QED
      BY <3>1, <3>3, Moved
  <2>3. QED
    BY <1>2, <2>1, <2>2 DEF SignUpGet
<1>3. ASSUME SignUpLogin(p) PROVE RInv'
  <2>1. CASE End(p)
    BY <2>1, Ended
  <2>2. CASE req' = [req EXCEPT ![p] = [req[p] EXCEPT !.at = "session_insert"]]
    <3> DEFINE q == req[p]
               r == Req("session_insert", q.uid, q.ver, q.email, q.ident, q.cur, q.new, q.made)
    <3>1. req' = [req EXCEPT ![p] = r]
      BY <1>a, <2>2, MovedOn
    <3>2. q.cur = 0
      BY <1>3, <1>a DEF SignUpLogin, Fits
    <3>3. Fits(r)
      BY <1>a, <3>2, CallbackFits
    <3> HIDE DEF r
    <3>4. QED
      BY <3>1, <3>3, Moved
  <2>3. QED
    BY <1>3, <2>1, <2>2 DEF SignUpLogin
<1>4. ASSUME NEW u \in users, Login(p, u) PROVE RInv'
  <2>1. req' = [req EXCEPT ![p] = [NoRequest EXCEPT !.at = "session_insert", !.uid = u.id, !.ver = u.ver]]
        /\ u.id \in Ids /\ u.ver \in Nat
    BY <1>4, Rows DEF Login, Begin
  <2>2. [NoRequest EXCEPT !.at = "session_insert", !.uid = u.id, !.ver = u.ver]
          = Req("session_insert", u.id, u.ver, Blank, Blank, Zero, No, No)
    BY BegunOn
  <2>3. QED
    BY <2>1, <2>2, OnAccountFits, Moved
<1>5. ASSUME NEW u \in Ids, NEW a \in {"reset_insert", "erase"},
             Begin(p, [NoRequest EXCEPT !.at = a, !.uid = u])
      PROVE  RInv'
  <2>1. [NoRequest EXCEPT !.at = a, !.uid = u] = Req(a, u, Zero, Blank, Blank, Zero, No, No)
    BY BegunOn
  <2>2. Zero \in Nat
    BY NoneTypes
  <2>3. Fits(Req(a, u, Zero, Blank, Blank, Zero, No, No))
    BY <2>2, OnAccountFits
  <2>4. QED
    BY <1>5, <2>1, <2>3, Moved DEF Begin
<1>6. ASSUME NEW u \in users, ForgotPassword(p, u) PROVE RInv'
  BY <1>5, <1>6, Rows DEF ForgotPassword
<1>7. ASSUME NEW i \in Ids, DeleteAccount(p, i) \/ AdminDeleteUser(p, i) PROVE RInv'
  BY <1>5, <1>7 DEF DeleteAccount, AdminDeleteUser
<1>8. ASSUME InsertSession(p) \/ InsertResetToken(p) \/ DeleteUser(p) \/ Abort(p) PROVE RInv'
  BY <1>8, Ended DEF InsertSession, InsertResetToken, DeleteUser, Abort
<1>9. QED
  BY <1>1, <1>2, <1>3, <1>4, <1>6, <1>7, <1>8 DEF PasswordStep, EraseStep

\* Social sign-in, of the requests.
LEMMA SocialRequests ==
    ASSUME TInv, RInv, NEW p \in Procs, SocialStep(p)
    PROVE  RInv'
<1> USE DEF GoOn
<1> DEFINE q == req[p]
<1>a. q \in Requests /\ Fits(q) /\ q.uid \in Ids \cup {0} /\ q.cur \in Ids \cup {0}
      /\ q.new \in BOOLEAN /\ q.made \in BOOLEAN
  BY Fields
<1>1. ASSUME NEW i \in Idents, NEW c \in Ids \cup {0}, NEW m \in Reports[i], SocialCallback(p, i, m, c)
      PROVE  RInv'
  <2> DEFINE r == Req("social_lookup", Zero, Zero, m, i, c, No, No)
  <2>0. m \in Emails
    BY AccountsAssumption
  <2>1. req' = [req EXCEPT ![p] = [NoRequest EXCEPT !.at = "social_lookup", !.ident = i, !.email = m, !.cur = c]]
    BY <1>1 DEF SocialCallback, Begin
  <2>2. [NoRequest EXCEPT !.at = "social_lookup", !.ident = i, !.email = m, !.cur = c] = r
    BY BegunCallback
  <2>3. r \in Requests
    BY <2>0, NoneTypes DEF Req, Requests, Steps
  <2>4. r.at = "social_lookup" /\ r.ident = i /\ r.email = m
    BY DEF Req
  <2> HIDE DEF r
  <2>5. Fits(r)
    BY <2>0, <2>3, <2>4 DEF Fits
  <2>6. QED
    BY <2>1, <2>2, <2>5, Moved
<1>2. ASSUME SocialLookup(p) PROVE RInv'
  <2> DEFINE l == links[q.ident]
  <2>0. q.ident \in Idents /\ q.email \in Emails /\ q.at = "social_lookup"
    BY <1>2, <1>a DEF SocialLookup, Fits
  <2>1. l \in Ids \cup {0}
    BY <2>0, Rows
  <2>2. CASE End(p)
    BY <2>2, Ended
  <2>3. CASE l # 0 /\ q.cur \in {0, l} /\ GoOn(p, [q EXCEPT !.at = "session_insert", !.uid = l])
    <3> DEFINE r == Req("session_insert", l, q.ver, q.email, q.ident, q.cur, q.new, q.made)
    <3>1. [q EXCEPT !.at = "session_insert", !.uid = l] = r
      BY <1>a, MovedOn
    <3>2. Fits(r)
      BY <1>a, <2>1, <2>3, CallbackFits
    <3> HIDE DEF r
    <3>3. QED
      BY <2>3, <3>1, <3>2, Moved
  <2>4. CASE q.cur # 0 /\ GoOn(p, [q EXCEPT !.at = "link_insert", !.uid = q.cur])
    <3> DEFINE r == Req("link_insert", q.cur, q.ver, q.email, q.ident, q.cur, q.new, q.made)
    <3>1. [q EXCEPT !.at = "link_insert", !.uid = q.cur] = r
      BY <1>a, MovedOn
    <3>2. Fits(r)
      BY <1>a, <2>0, CallbackFits
    <3> HIDE DEF r
    <3>3. QED
      BY <2>4, <3>1, <3>2, Moved
  <2>5. ASSUME NEW a \in {"user_insert", "email_lookup"}, q.cur = 0, GoOn(p, [q EXCEPT !.at = a])
        PROVE  RInv'
    <3> DEFINE r == Req(a, q.uid, q.ver, q.email, q.ident, q.cur, q.new, q.made)
    <3>1. [q EXCEPT !.at = a] = r
      BY <1>a, MovedOn
    <3>2. Fits(r)
      BY <1>a, <2>0, <2>5, CallbackFits
    <3> HIDE DEF r
    <3>3. QED
      BY <2>5, <3>1, <3>2, Moved
  <2>6. \/ End(p)
        \/ l # 0 /\ q.cur \in {0, l} /\ GoOn(p, [q EXCEPT !.at = "session_insert", !.uid = l])
        \/ q.cur # 0 /\ GoOn(p, [q EXCEPT !.at = "link_insert", !.uid = q.cur])
        \/ q.cur = 0 /\ \E a \in {"user_insert", "email_lookup"} : GoOn(p, [q EXCEPT !.at = a])
    BY <1>2 DEF SocialLookup
  <2>7. QED
    BY <2>2, <2>3, <2>4, <2>5, <2>6
<1>3. ASSUME NEW u \in Ids, NEW n \in BOOLEAN, NEW k \in BOOLEAN, q.cur = 0,
             q.ident \in Idents, q.email \in Emails,
             req' = [req EXCEPT ![p] = Req("link_insert", u, q.ver, q.email, q.ident, q.cur, n, k)]
      PROVE  RInv'
  <2> DEFINE r == Req("link_insert", u, q.ver, q.email, q.ident, q.cur, n, k)
  <2>1. Fits(r)
    BY <1>a, <1>3, CallbackFits
  <2> HIDE DEF r
  <2>2. QED
    BY <1>3, <2>1, Moved DEF r
<1>4. ASSUME NEW a \in {"user_insert", "user_relookup"}, q.cur = 0,
             q.ident \in Idents, q.email \in Emails, GoOn(p, [q EXCEPT !.at = a])
      PROVE  RInv'
  <2> DEFINE r == Req(a, q.uid, q.ver, q.email, q.ident, q.cur, q.new, q.made)
  <2>1. [q EXCEPT !.at = a] = r
    BY <1>a, MovedOn
  <2>2. Fits(r)
    BY <1>a, <1>4, CallbackFits
  <2> HIDE DEF r
  <2>3. QED
    BY <1>4, <2>1, <2>2, Moved
<1>5. ASSUME EmailLookup(p) PROVE RInv'
  <2>0. q.ident \in Idents /\ q.email \in Emails /\ q.cur = 0
    BY <1>5, <1>a DEF EmailLookup, Fits
  <2>1. ASSUME NEW u \in users, GoOn(p, [q EXCEPT !.at = "link_insert", !.uid = u.id]) PROVE RInv'
    <3>1. [q EXCEPT !.at = "link_insert", !.uid = u.id]
            = Req("link_insert", u.id, q.ver, q.email, q.ident, q.cur, q.new, q.made)
      BY <1>a, MovedOn
    <3>2. u.id \in Ids
      BY Rows
    <3>3. QED
      BY <1>a, <1>3, <2>0, <2>1, <3>1, <3>2
  <2>2. CASE GoOn(p, [q EXCEPT !.at = "user_insert"])
    BY <1>4, <2>0, <2>2
  <2>3. QED
    BY <1>5, <2>1, <2>2 DEF EmailLookup
<1>6. ASSUME InsertSocialUser(p) PROVE RInv'
  <2>0. q.ident \in Idents /\ q.email \in Emails /\ q.cur = 0
    BY <1>6, <1>a DEF InsertSocialUser, Fits
  <2>1. CASE AddUser(q.email, 0) /\ GoOn(p, [q EXCEPT !.at = "link_insert", !.uid = nextId,
                                                      !.new = TRUE, !.made = TRUE])
    <3> DEFINE yes == TRUE
    <3>1. yes \in BOOLEAN /\ nextId \in Ids
      BY <2>1, Rows DEF AddUser
    <3>2. req' = [req EXCEPT ![p] = [q EXCEPT !.at = "link_insert", !.uid = nextId,
                                              !.new = yes, !.made = yes]]
      BY <2>1
    <3> HIDE DEF yes
    <3>3. [q EXCEPT !.at = "link_insert", !.uid = nextId, !.new = yes, !.made = yes]
            = Req("link_insert", nextId, q.ver, q.email, q.ident, q.cur, yes, yes)
      <4>1. [q EXCEPT !.at = "link_insert", !.uid = nextId, !.new = yes]
              = Req("link_insert", nextId, q.ver, q.email, q.ident, q.cur, yes, q.made)
        BY <1>a, MovedNew
      <4>2. [Req("link_insert", nextId, q.ver, q.email, q.ident, q.cur, yes, q.made) EXCEPT !.made = yes]
              = Req("link_insert", nextId, q.ver, q.email, q.ident, q.cur, yes, yes)
        BY DEF Req
      <4>3. QED
        BY <4>1, <4>2
    <3>4. QED
      BY <1>3, <2>0, <3>1, <3>2, <3>3
  <2>2. CASE GoOn(p, [q EXCEPT !.at = "user_relookup"])
    BY <1>4, <2>0, <2>2
  <2>3. QED
    BY <1>6, <2>1, <2>2 DEF InsertSocialUser
<1>7. ASSUME RelookupUser(p) PROVE RInv'
  <2>0. q.ident \in Idents /\ q.email \in Emails /\ q.cur = 0
    BY <1>7, <1>a DEF RelookupUser, Fits
  <2>1. ASSUME NEW u \in users, GoOn(p, [q EXCEPT !.at = "link_insert", !.uid = u.id, !.new = TRUE])
        PROVE  RInv'
    <3> DEFINE yes == TRUE
    <3>1. yes \in BOOLEAN /\ u.id \in Ids
      BY Rows
    <3>2. req' = [req EXCEPT ![p] = [q EXCEPT !.at = "link_insert", !.uid = u.id, !.new = yes]]
      BY <2>1
    <3> HIDE DEF yes
    <3>3. [q EXCEPT !.at = "link_insert", !.uid = u.id, !.new = yes]
            = Req("link_insert", u.id, q.ver, q.email, q.ident, q.cur, yes, q.made)
      BY <1>a, MovedNew
    <3>4. QED
      BY <1>a, <1>3, <2>0, <3>1, <3>2, <3>3
  <2>2. QED
    BY <1>7, <2>1, Ended DEF RelookupUser
<1>8. ASSUME LinkIdentity(p) PROVE RInv'
  <2> DEFINE r == Req("session_insert", q.uid, q.ver, q.email, q.ident, q.cur, q.new, q.made)
  <2>1. q.cur # 0 => q.uid = q.cur
    BY <1>8, <1>a DEF LinkIdentity, Fits
  <2>2. [q EXCEPT !.at = "session_insert"] = r
    BY <1>a, MovedOn
  <2>3. Fits(r)
    BY <1>a, <2>1, CallbackFits
  <2> HIDE DEF r
  <2>4. QED
    BY <1>8, <2>2, <2>3, Moved, Ended DEF LinkIdentity
<1>9. QED
  BY <1>1, <1>2, <1>5, <1>6, <1>7, <1>8 DEF SocialStep

-----------------------------------------------------------------------------
(* Tables.                                                                 *)

\* There are no more spent tokens than tokens.
LEMMA SpentIsFinite ==
    IsFiniteSet(SpentToks) /\ Cardinality(SpentToks) \in Nat /\ Cardinality(SpentToks) <= MaxTok
<1>1. IsFiniteSet(Toks) /\ Cardinality(Toks) = MaxTok
  BY AccountsAssumption, FS_Interval DEF Toks
<1>2. SpentToks \subseteq Toks
  BY DEF SpentToks
<1>3. QED
  BY <1>1, <1>2, FS_Subset, FS_CardinalityType

\* Steps of requests alone.
LEMMA TablesStay ==
    ASSUME TInv, UNCHANGED <<tables, fresh, redeemed>>
    PROVE  TInv'
BY DEF tables, fresh, TInv, TablesTypeOK, IdsAreOwn, OneAccountPerEmail,
       NothingOutlivesItsAccount, UserIds, CredentialsAreOfThisPassword, TokensAreOwn,
       PasswordsCostTokens, SpentToks

\* INSERT INTO users: the address is free, and nothing refers to the new id.
LEMMA UserAdded ==
    ASSUME TInv, NEW m \in Emails, NEW v \in {0, 1}, ~Taken(m), AddUser(m, v),
           UNCHANGED <<sessions, resets, links, nextSid, nextTok, redeemed>>
    PROVE  TInv'
<1> DEFINE x == [id |-> nextId, email |-> m, ver |-> v]
<1>1. nextId \in Ids /\ users' = users \cup {x} /\ nextId' = nextId + 1
      /\ nextId' \in 1..(MaxUser + 1) /\ nextId \in Nat
  BY Rows, AccountsAssumption DEF AddUser, Ids, TInv, TablesTypeOK
<1>2. x \in Users /\ x.id = nextId /\ x.email = m /\ x.ver = v
  BY <1>1 DEF Users
<1> HIDE DEF x
<1>3. TablesTypeOK'
  BY <1>1, <1>2 DEF TInv, TablesTypeOK
<1>4. \A u \in users : u.id \in Nat /\ u.id < nextId
  BY AccountsAssumption DEF TInv, TablesTypeOK, Users, IdsAreOwn, Ids
<1>5. IdsAreOwn'
  BY <1>1, <1>2, <1>4 DEF TInv, IdsAreOwn
<1>6. OneAccountPerEmail'
  BY <1>1, <1>2 DEF TInv, OneAccountPerEmail, Taken
<1>7. NothingOutlivesItsAccount'
  BY <1>1 DEF TInv, NothingOutlivesItsAccount, UserIds
<1>8. \A s \in sessions : s.user # nextId
  BY <1>1, <1>4 DEF TInv, NothingOutlivesItsAccount, UserIds
<1>9. \A r \in resets : r.user # nextId
  BY <1>1, <1>4 DEF TInv, NothingOutlivesItsAccount, UserIds
<1>10. CredentialsAreOfThisPassword'
  BY <1>1, <1>2, <1>8, <1>9 DEF TInv, CredentialsAreOfThisPassword
<1>11. TokensAreOwn'
  BY DEF TInv, TokensAreOwn, SpentToks
<1>12. SpentToks' = SpentToks
  BY DEF SpentToks
<1>13. PasswordsCostTokens'
  BY <1>1, <1>2, <1>12, SpentIsFinite DEF TInv, PasswordsCostTokens
<1>14. QED
  BY <1>3, <1>5, <1>6, <1>7, <1>10, <1>11, <1>13 DEF TInv

\* Sessions change, as long as each is of an account and of its password.
LEMMA SessionsChange ==
    ASSUME TInv, UNCHANGED <<users, resets, links, nextId, nextTok, redeemed>>,
           sessions' \subseteq Sessions, nextSid' \in 1..(MaxSession + 1),
           \A s \in sessions' : \E u \in users : s.user = u.id /\ s.born = u.ver
    PROVE  TInv'
<1>1. TablesTypeOK'
  BY DEF TInv, TablesTypeOK
<1>2. IdsAreOwn' /\ OneAccountPerEmail' /\ TokensAreOwn' /\ PasswordsCostTokens'
  BY DEF TInv, IdsAreOwn, OneAccountPerEmail, TokensAreOwn, PasswordsCostTokens, SpentToks
<1>3. NothingOutlivesItsAccount'
  BY DEF TInv, NothingOutlivesItsAccount, UserIds
<1>4. CredentialsAreOfThisPassword'
  BY DEF TInv, CredentialsAreOfThisPassword, IdsAreOwn
<1>5. QED
  BY <1>1, <1>2, <1>3, <1>4 DEF TInv

\* Every session there is has an account, with its password.
LEMMA SessionsAreOfUsers ==
    ASSUME TInv, NEW s \in sessions
    PROVE  s \in Sessions /\ \E u \in users : s.user = u.id /\ s.born = u.ver
BY DEF TInv, TablesTypeOK, NothingOutlivesItsAccount, UserIds, CredentialsAreOfThisPassword

\* createSession.
LEMMA SessionAdded ==
    ASSUME TInv, RInv, NEW p \in Procs, InsertSession(p)
    PROVE  TInv'
<1>0. UNCHANGED <<users, resets, links, nextId, nextTok, redeemed>> /\ req[p].ver \in Nat
  BY Fields DEF InsertSession
<1>1. CASE UNCHANGED <<sessions, nextSid>>
  BY <1>0, <1>1, TablesStay DEF tables, fresh
<1>2. ASSUME NEW u \in users, NEW h \in {"password", "social"}, nextSid <= MaxSession,
             sessions' = sessions \cup {[sid |-> nextSid, user |-> u.id, expired |-> FALSE,
                                         how |-> h, read |-> req[p].ver, born |-> u.ver]},
             nextSid' = nextSid + 1
      PROVE  TInv'
  <2> DEFINE x == [sid |-> nextSid, user |-> u.id, expired |-> FALSE,
                   how |-> h, read |-> req[p].ver, born |-> u.ver]
  <2>1. u.id \in Ids /\ u.ver \in Nat /\ nextSid \in Sids /\ nextSid' \in 1..(MaxSession + 1)
    BY <1>2, Rows, AccountsAssumption DEF TInv, TablesTypeOK, Sids
  <2>2. x \in Sessions
    BY <1>0, <2>1 DEF Sessions
  <2>3. x.user = u.id /\ x.born = u.ver
    OBVIOUS
  <2>4. sessions' = sessions \cup {x}
    BY <1>2
  <2> HIDE DEF x
  <2>5. QED
    BY <1>0, <2>1, <2>2, <2>3, <2>4, SessionsAreOfUsers, SessionsChange
<1>3. QED
  <2> DEFINE h == IF req[p].ident = "" THEN "password" ELSE "social"
  <2>1. h \in {"password", "social"}
    OBVIOUS
  <2>2. \/ UNCHANGED <<sessions, nextSid>>
        \/ /\ nextSid <= MaxSession /\ nextSid' = nextSid + 1
           /\ \E u \in users :
                sessions' = sessions \cup {[sid |-> nextSid, user |-> u.id, expired |-> FALSE,
                                            how |-> h, read |-> req[p].ver, born |-> u.ver]}
    BY DEF InsertSession
  <2> HIDE DEF h
  <2>3. QED
    BY <1>1, <1>2, <2>1, <2>2

\* Logout, expiry and the janitor.
LEMMA SessionsEnd ==
    ASSUME TInv,
           \/ \E s \in sessions : Logout(s) \/ ExpireSession(s)
           \/ \E i \in Ids : RevokeAllSessions(i)
           \/ PurgeExpiredSessions
    PROVE  TInv'
<1>1. UNCHANGED <<users, resets, links, nextId, nextTok, redeemed, nextSid>>
  BY DEF Logout, ExpireSession, RevokeAllSessions, PurgeExpiredSessions, fresh
<1>2. nextSid' \in 1..(MaxSession + 1)
  BY <1>1 DEF TInv, TablesTypeOK
<1>3. CASE sessions' \subseteq sessions
  BY <1>1, <1>2, <1>3, SessionsAreOfUsers, SessionsChange
<1>4. ASSUME NEW s \in sessions, ExpireSession(s) PROVE TInv'
  <2> DEFINE x == [s EXCEPT !.expired = TRUE]
  <2>1. s \in Sessions /\ \E u \in users : s.user = u.id /\ s.born = u.ver
    BY SessionsAreOfUsers
  <2>2. x \in Sessions /\ x.user = s.user /\ x.born = s.born
    BY <2>1 DEF Sessions
  <2>3. sessions' = (sessions \ {s}) \cup {x}
    BY <1>4 DEF ExpireSession
  <2> HIDE DEF x
  <2>4. QED
    BY <1>1, <1>2, <2>1, <2>2, <2>3, SessionsAreOfUsers, SessionsChange
<1>5. QED
  BY <1>3, <1>4 DEF Logout, RevokeAllSessions, PurgeExpiredSessions

\* Reset tokens change, as long as each that works is of its account's
\* password, and is still known by its row.
LEMMA ResetsChange ==
    ASSUME TInv, UNCHANGED <<users, sessions, links, nextId, nextSid, redeemed>>,
           resets' \subseteq Resets, nextTok' \in 1..(MaxTok + 1), nextTok <= nextTok',
           \A r \in resets' : \E u \in users : r.user = u.id /\ (~r.used => r.born = u.ver),
           \A r \in resets' : r.tok < nextTok',
           \A r, x \in resets' : r.tok = x.tok => r = x,
           \A r \in resets' : r.tok \in SpentToks => r.used
    PROVE  TInv'
<1>1. TablesTypeOK'
  BY DEF TInv, TablesTypeOK
<1>2. SpentToks' = SpentToks
  BY DEF SpentToks
<1>3. IdsAreOwn' /\ OneAccountPerEmail' /\ PasswordsCostTokens'
  BY <1>2 DEF TInv, IdsAreOwn, OneAccountPerEmail, PasswordsCostTokens
<1>4. TokensAreOwn'
  <2>1. \A t \in SpentToks : t < nextTok'
    BY AccountsAssumption DEF TInv, TablesTypeOK, TokensAreOwn, SpentToks, Toks
  <2>2. QED
    BY <1>2, <2>1 DEF TokensAreOwn
<1>5. NothingOutlivesItsAccount'
  BY DEF TInv, NothingOutlivesItsAccount, UserIds
<1>6. CredentialsAreOfThisPassword'
  BY DEF TInv, CredentialsAreOfThisPassword, IdsAreOwn
<1>7. QED
  BY <1>1, <1>3, <1>4, <1>5, <1>6 DEF TInv

\* Every reset token there is.
LEMMA ResetsAreOfUsers ==
    ASSUME TInv, NEW r \in resets
    PROVE  /\ r \in Resets /\ r.tok < nextTok /\ (r.tok \in SpentToks => r.used)
           /\ \E u \in users : r.user = u.id /\ (~r.used => r.born = u.ver)
BY DEF TInv, TablesTypeOK, NothingOutlivesItsAccount, UserIds, CredentialsAreOfThisPassword,
       TokensAreOwn

\* CreateResetToken's INSERT.
LEMMA ResetAdded ==
    ASSUME TInv, NEW p \in Procs, InsertResetToken(p)
    PROVE  TInv'
<1>0. UNCHANGED <<users, sessions, links, nextId, nextSid, redeemed>>
  BY DEF InsertResetToken
<1>1. CASE UNCHANGED <<resets, nextTok>>
  BY <1>0, <1>1, TablesStay DEF tables, fresh
<1>2. ASSUME NEW u \in users, nextTok <= MaxTok, nextTok' = nextTok + 1,
             resets' = resets \cup {[tok |-> nextTok, user |-> u.id, used |-> FALSE,
                                     expired |-> FALSE, born |-> u.ver]}
      PROVE  TInv'
  <2> DEFINE x == [tok |-> nextTok, user |-> u.id, used |-> FALSE,
                   expired |-> FALSE, born |-> u.ver]
  <2>1. u.id \in Ids /\ u.ver \in Nat /\ nextTok \in Toks /\ nextTok' \in 1..(MaxTok + 1)
        /\ nextTok \in Nat /\ nextTok < nextTok' /\ nextTok <= nextTok'
    BY <1>2, Rows, AccountsAssumption DEF TInv, TablesTypeOK, Toks
  <2>2. x \in Resets
    BY <2>1 DEF Resets
  <2>3. x.user = u.id /\ x.born = u.ver /\ x.tok = nextTok
    OBVIOUS
  <2>4. resets' = resets \cup {x}
    BY <1>2
  <2> HIDE DEF x
  <2>5. \A r \in resets : r.tok \in Nat /\ r.tok < nextTok
    BY ResetsAreOfUsers DEF Resets, Toks
  <2>6. nextTok \notin SpentToks
    BY <2>1 DEF TInv, TokensAreOwn
  <2>7. \A r \in resets' : r.tok < nextTok'
    BY <1>2, <2>1, <2>3, <2>4, <2>5
  <2>8. \A r, y \in resets' : r.tok = y.tok => r = y
    BY <2>1, <2>3, <2>4, <2>5 DEF TInv, TokensAreOwn
  <2>9. \A r \in resets' : r.tok \in SpentToks => r.used
    BY <2>3, <2>4, <2>6, ResetsAreOfUsers
  <2>10. \A r \in resets' : \E w \in users : r.user = w.id /\ (~r.used => r.born = w.ver)
    BY <2>3, <2>4, ResetsAreOfUsers
  <2>11. resets' \subseteq Resets
    BY <2>2, <2>4, ResetsAreOfUsers
  <2>12. QED
    BY <1>0, <2>1, <2>7, <2>8, <2>9, <2>10, <2>11, ResetsChange
<1>3. QED
  BY <1>1, <1>2 DEF InsertResetToken

\* Their expiry, and the janitor.
LEMMA ResetsEnd ==
    ASSUME TInv, PurgeExpiredResetTokens \/ \E r \in resets : ExpireResetToken(r)
    PROVE  TInv'
<1>1. UNCHANGED <<users, sessions, links, nextId, nextSid, redeemed, nextTok>>
  BY DEF PurgeExpiredResetTokens, ExpireResetToken, fresh
<1>2. nextTok' \in 1..(MaxTok + 1) /\ nextTok <= nextTok'
  BY <1>1, AccountsAssumption DEF TInv, TablesTypeOK
<1>3. CASE resets' \subseteq resets
  <2>1. \A r, x \in resets' : r.tok = x.tok => r = x
    BY <1>3 DEF TInv, TokensAreOwn
  <2>2. QED
    BY <1>1, <1>2, <1>3, <2>1, ResetsAreOfUsers, ResetsChange
<1>4. ASSUME NEW r \in resets, ExpireResetToken(r) PROVE TInv'
  <2> DEFINE x == [r EXCEPT !.expired = TRUE]
  <2>1. r \in Resets /\ r.tok < nextTok /\ (r.tok \in SpentToks => r.used)
        /\ \E u \in users : r.user = u.id /\ (~r.used => r.born = u.ver)
    BY ResetsAreOfUsers
  <2>2. x \in Resets /\ x.user = r.user /\ x.born = r.born /\ x.tok = r.tok /\ x.used = r.used
    BY <2>1 DEF Resets
  <2>3. resets' = (resets \ {r}) \cup {x}
    BY <1>4 DEF ExpireResetToken
  <2> HIDE DEF x
  <2>4. \A y \in resets \ {r} : y.tok # r.tok
    BY DEF TInv, TokensAreOwn
  <2>5. \A y, z \in resets' : y.tok = z.tok => y = z
    BY <2>2, <2>3, <2>4 DEF TInv, TokensAreOwn
  <2>6. resets' \subseteq Resets /\ \A y \in resets' : y.tok < nextTok'
    BY <1>1, <2>1, <2>2, <2>3, ResetsAreOfUsers
  <2>7. \A y \in resets' : y.tok \in SpentToks => y.used
    BY <2>1, <2>2, <2>3, ResetsAreOfUsers
  <2>8. \A y \in resets' : \E u \in users : y.user = u.id /\ (~y.used => y.born = u.ver)
    BY <2>1, <2>2, <2>3, ResetsAreOfUsers
  <2>9. QED
    BY <1>1, <1>2, <2>5, <2>6, <2>7, <2>8, ResetsChange
<1>5. QED
  BY <1>3, <1>4 DEF PurgeExpiredResetTokens

\* ResetPassword's transaction on the tokens: every row stays under its token
\* and its account, and those of account i are used.
LEMMA TokensUsed ==
    ASSUME TInv, NEW r \in resets, ResetPassword(r), NEW i, i = r.user
    PROVE  /\ resets' \subseteq Resets
           /\ \A y \in resets' : \E x \in resets :
                /\ y = [x EXCEPT !.used = x.used \/ x \in ResetsOf(i)]
                /\ y.tok = x.tok /\ y.user = x.user /\ y.expired = x.expired /\ y.born = x.born
                /\ (x.used => y.used) /\ (x.user = i => y.used)
                /\ (~y.used => x.user # i /\ ~x.used)
<1> DEFINE Use(x) == [x EXCEPT !.used = x.used \/ x \in ResetsOf(i)]
<1>1. resets' = {Use(x) : x \in resets}
  BY DEF ResetPassword, NewPassword
<1>2. ASSUME NEW x \in resets
      PROVE  /\ Use(x) \in Resets
             /\ Use(x).tok = x.tok /\ Use(x).user = x.user /\ Use(x).expired = x.expired
             /\ Use(x).born = x.born
             /\ Use(x).used <=> (x.used \/ x.user = i)
  <2>1. x \in Resets
    BY DEF TInv, TablesTypeOK
  <2> DEFINE b == x.used \/ x \in ResetsOf(i)
  <2>2. b \in BOOLEAN /\ (b <=> x.used \/ x.user = i)
    BY DEF ResetsOf
  <2>3. ASSUME NEW c \in BOOLEAN
        PROVE  /\ [x EXCEPT !.used = c] \in Resets /\ [x EXCEPT !.used = c].used = c
               /\ [x EXCEPT !.used = c].tok = x.tok /\ [x EXCEPT !.used = c].user = x.user
               /\ [x EXCEPT !.used = c].expired = x.expired /\ [x EXCEPT !.used = c].born = x.born
    BY <2>1 DEF Resets
  <2>4. QED
    BY <2>2, <2>3
<1> HIDE DEF Use
<1>3. resets' \subseteq Resets
  BY <1>1, <1>2
<1>4. ASSUME NEW y \in resets'
      PROVE  \E x \in resets :
                /\ y = Use(x)
                /\ y.tok = x.tok /\ y.user = x.user /\ y.expired = x.expired /\ y.born = x.born
                /\ (x.used => y.used) /\ (x.user = i => y.used)
                /\ (~y.used => x.user # i /\ ~x.used)
  <2>1. PICK x \in resets : y = Use(x)
    BY <1>1
  <2>2. QED
    BY <1>2, <2>1
<1>5. QED
  BY <1>3, <1>4 DEF Use

\* A redemption spends a token that was not spent: it costs one token.
LEMMA OneMoreSpent ==
    ASSUME TInv, NEW r \in resets, ~r.used, NEW v \in Nat,
           redeemed' = [redeemed EXCEPT ![r.tok] = @ \cup {v}]
    PROVE  /\ r.tok \in Toks /\ r.tok \notin SpentToks /\ redeemed[r.tok] = {}
           /\ SpentToks' = SpentToks \cup {r.tok}
           /\ redeemed' = [redeemed EXCEPT ![r.tok] = {v}]
           /\ redeemed' \in [Toks -> SUBSET Nat]
           /\ Cardinality(SpentToks)' = Cardinality(SpentToks) + 1
           /\ Cardinality(SpentToks) < MaxTok
<1>1. r.tok \in Toks /\ r.tok \notin SpentToks
  BY ResetsAreOfUsers DEF Resets
<1>2. redeemed[r.tok] = {} /\ redeemed \in [Toks -> SUBSET Nat]
  BY <1>1 DEF SpentToks, TInv, TablesTypeOK
<1>3. redeemed' = [redeemed EXCEPT ![r.tok] = {v}] /\ redeemed' \in [Toks -> SUBSET Nat]
  BY <1>1, <1>2
<1>4. SpentToks' = SpentToks \cup {r.tok}
  BY <1>1, <1>2, <1>3 DEF SpentToks
<1>5. Cardinality(SpentToks)' = Cardinality(SpentToks) + 1
  BY <1>1, <1>4, SpentIsFinite, FS_AddElement
<1>6. SpentToks \cup {r.tok} \subseteq Toks /\ IsFiniteSet(Toks) /\ Cardinality(Toks) = MaxTok
  BY <1>1, AccountsAssumption, FS_Interval DEF Toks, SpentToks
<1>7. Cardinality(SpentToks \cup {r.tok}) <= MaxTok /\ Cardinality(SpentToks \cup {r.tok}) = Cardinality(SpentToks) + 1
  BY <1>1, <1>6, SpentIsFinite, FS_Subset, FS_AddElement
<1>8. Cardinality(SpentToks) < MaxTok
  BY <1>7, SpentIsFinite, AccountsAssumption
<1>9. QED
  BY <1>1, <1>2, <1>3, <1>4, <1>5, <1>8

\* A reset leaves the account with one password, no session, and no token
\* that works.
LEMMA PasswordReset ==
    ASSUME TInv, NEW r \in resets, ResetPassword(r)
    PROVE  TInv'
<1>1. PICK u \in users :
        /\ u.id = r.user
        /\ users' = (users \ {u}) \cup {[u EXCEPT !.ver = @ + 1]}
        /\ redeemed' = [redeemed EXCEPT ![r.tok] = @ \cup {u.ver + 1}]
  BY DEF ResetPassword, NewPassword
<1>2. /\ ~r.used
      /\ sessions' = sessions \ SessionsOf(r.user)
      /\ UNCHANGED <<links, nextId, nextSid, nextTok>>
  BY DEF ResetPassword, NewPassword, fresh
<1> DEFINE w == [u EXCEPT !.ver = @ + 1]
<1>3. u.id \in Ids /\ u.ver \in Nat /\ u.email \in Emails /\ u \in Users
  BY Rows DEF TInv, TablesTypeOK
<1>4. w \in Users /\ w.id = u.id /\ w.email = u.email /\ w.ver = u.ver + 1
  BY <1>3 DEF Users
<1>5. users' = (users \ {u}) \cup {w}
  BY <1>1
<1> HIDE DEF w
<1>6. /\ resets' \subseteq Resets
      /\ \A y \in resets' : \E x \in resets :
           /\ y = [x EXCEPT !.used = x.used \/ x \in ResetsOf(r.user)]
           /\ y.tok = x.tok /\ y.user = x.user /\ y.expired = x.expired /\ y.born = x.born
           /\ (x.used => y.used) /\ (x.user = r.user => y.used)
           /\ (~y.used => x.user # r.user /\ ~x.used)
  BY TokensUsed
<1>7. /\ r.tok \in Toks /\ SpentToks' = SpentToks \cup {r.tok} /\ redeemed' \in [Toks -> SUBSET Nat]
      /\ Cardinality(SpentToks)' = Cardinality(SpentToks) + 1
  <2> DEFINE v == u.ver + 1
  <2>1. v \in Nat /\ redeemed' = [redeemed EXCEPT ![r.tok] = @ \cup {v}]
    BY <1>1, <1>3
  <2> HIDE DEF v
  <2>2. QED
    BY <1>2, <2>1, OneMoreSpent
<1>8. \A x \in users \ {u} : x.id # u.id /\ x.email # u.email
  BY DEF TInv, IdsAreOwn, OneAccountPerEmail
<1>9. UserIds' = UserIds
  BY <1>4, <1>5 DEF UserIds
<1>10. TablesTypeOK'
  BY <1>2, <1>4, <1>5, <1>6, <1>7 DEF TInv, TablesTypeOK
<1>11. IdsAreOwn' /\ OneAccountPerEmail'
  BY <1>2, <1>4, <1>5, <1>8 DEF TInv, IdsAreOwn, OneAccountPerEmail
<1>12. NothingOutlivesItsAccount'
  BY <1>2, <1>6, <1>9 DEF TInv, NothingOutlivesItsAccount
<1>13. CredentialsAreOfThisPassword'
  <2>1. ASSUME NEW s \in sessions', NEW x \in users', s.user = x.id PROVE s.born = x.ver
    BY <1>1, <1>2, <1>4, <1>5, <2>1 DEF TInv, CredentialsAreOfThisPassword, SessionsOf
  <2>2. ASSUME NEW y \in resets', NEW x \in users', y.user = x.id, ~y.used PROVE y.born = x.ver
    <3>1. PICK z \in resets : y.user = z.user /\ y.born = z.born /\ z.user # r.user /\ ~z.used
      BY <1>6, <2>2
    <3>2. x \in users
      BY <1>1, <1>4, <1>5, <2>2, <3>1
    <3>3. QED
      BY <2>2, <3>1, <3>2 DEF TInv, CredentialsAreOfThisPassword
  <2>3. QED
    BY <2>1, <2>2 DEF CredentialsAreOfThisPassword
<1>14. TokensAreOwn'
  <2>1. \A y \in resets' : y.tok < nextTok'
    BY <1>2, <1>6 DEF TInv, TokensAreOwn
  <2>2. ASSUME NEW y \in resets', NEW z \in resets', y.tok = z.tok PROVE y = z
    <3>1. PICK a \in resets : y.tok = a.tok /\ y = [a EXCEPT !.used = a.used \/ a \in ResetsOf(r.user)]
      BY <1>6
    <3>2. PICK b \in resets : z.tok = b.tok /\ z = [b EXCEPT !.used = b.used \/ b \in ResetsOf(r.user)]
      BY <1>6
    <3>3. a = b
      BY <2>2, <3>1, <3>2 DEF TInv, TokensAreOwn
    <3>4. QED
      BY <3>1, <3>2, <3>3
  <2>3. \A t \in SpentToks' : t < nextTok'
    BY <1>2, <1>7 DEF TInv, TokensAreOwn
  <2>4. ASSUME NEW y \in resets', y.tok \in SpentToks' PROVE y.used
    <3>1. PICK x \in resets : y.tok = x.tok /\ (x.used => y.used) /\ (x.user = r.user => y.used)
      BY <1>6
    <3>2. CASE x.tok = r.tok
      BY <3>1, <3>2 DEF TInv, TokensAreOwn
    <3>3. CASE x.tok \in SpentToks
      BY <3>1, <3>3 DEF TInv, TokensAreOwn
    <3>4. QED
      BY <1>7, <2>4, <3>1, <3>2, <3>3
  <2>5. QED
    BY <2>1, <2>2, <2>3, <2>4 DEF TokensAreOwn
<1>15. PasswordsCostTokens'
  <2>1. \A x \in users : x.ver \in Nat /\ x.ver <= 1 + Cardinality(SpentToks)
    BY Rows DEF TInv, PasswordsCostTokens
  <2>2. \A x \in users' : x.ver <= 1 + (Cardinality(SpentToks) + 1)
    BY <1>4, <1>5, <2>1, SpentIsFinite
  <2>3. QED
    BY <1>7, <2>2 DEF PasswordsCostTokens
<1>16. QED
  BY <1>10, <1>11, <1>12, <1>13, <1>14, <1>15 DEF TInv

\* The cascade takes everything of the account with it.
LEMMA UserDeleted ==
    ASSUME TInv, NEW p \in Procs, DeleteUser(p)
    PROVE  TInv'
<1> DEFINE i == req[p].uid
<1>1. /\ users' = {u \in users : u.id # i} /\ sessions' = {s \in sessions : s.user # i}
      /\ resets' = {r \in resets : r.user # i}
      /\ links' = [j \in Idents |-> IF links[j] = i THEN 0 ELSE links[j]]
      /\ UNCHANGED <<nextId, nextSid, nextTok, redeemed>>
  BY DEF DeleteUser, SessionsOf, ResetsOf, fresh
<1> HIDE DEF i
<1>2. \A j \in Idents : links'[j] = 0 \/ (links'[j] = links[j] /\ links[j] # i)
  BY <1>1
<1>3. links' \in [Idents -> Ids \cup {0}]
  BY <1>1 DEF TInv, TablesTypeOK
<1>4. TablesTypeOK'
  BY <1>1, <1>3 DEF TInv, TablesTypeOK
<1>5. IdsAreOwn' /\ OneAccountPerEmail'
  BY <1>1 DEF TInv, IdsAreOwn, OneAccountPerEmail
<1>6. \A k \in UserIds : k # i => k \in UserIds'
  BY <1>1 DEF UserIds
<1>7. NothingOutlivesItsAccount'
  BY <1>1, <1>2, <1>6 DEF TInv, NothingOutlivesItsAccount
<1>8. CredentialsAreOfThisPassword'
  BY <1>1 DEF TInv, CredentialsAreOfThisPassword
<1>9. SpentToks' = SpentToks
  BY <1>1 DEF SpentToks
<1>10. TokensAreOwn' /\ PasswordsCostTokens'
  BY <1>1, <1>9 DEF TInv, TokensAreOwn, PasswordsCostTokens
<1>11. QED
  BY <1>4, <1>5, <1>7, <1>8, <1>10 DEF TInv

\* INSERT INTO social_identities: for an account that is there.
LEMMA IdentityLinked ==
    ASSUME TInv, NEW p \in Procs, LinkIdentity(p)
    PROVE  TInv'
<1>1. UNCHANGED <<users, sessions, resets, nextId, nextSid, nextTok, redeemed>>
  BY DEF LinkIdentity, fresh
<1>2. \/ UNCHANGED links
      \/ /\ links' = [links EXCEPT ![req[p].ident] = req[p].uid]
         /\ req[p].uid \in UserIds
  BY DEF LinkIdentity
<1>3. links' \in [Idents -> Ids \cup {0}]
  BY <1>2, Rows DEF TInv, TablesTypeOK
<1>4. \A i \in Idents : links'[i] = links[i] \/ links'[i] \in UserIds
  BY <1>2 DEF TInv, TablesTypeOK
<1>5. UserIds' = UserIds /\ SpentToks' = SpentToks
  BY <1>1 DEF UserIds, SpentToks
<1>6. TablesTypeOK'
  BY <1>1, <1>3 DEF TInv, TablesTypeOK
<1>7. NothingOutlivesItsAccount'
  BY <1>1, <1>4, <1>5 DEF TInv, NothingOutlivesItsAccount
<1>8. IdsAreOwn' /\ OneAccountPerEmail' /\ CredentialsAreOfThisPassword'
  BY <1>1 DEF TInv, IdsAreOwn, OneAccountPerEmail, CredentialsAreOfThisPassword
<1>9. TokensAreOwn' /\ PasswordsCostTokens'
  BY <1>1, <1>5 DEF TInv, TokensAreOwn, PasswordsCostTokens
<1>10. QED
  BY <1>6, <1>7, <1>8, <1>9 DEF TInv

-----------------------------------------------------------------------------
(* The invariant.                                                          *)

\* The steps of the tables alone leave the requests as they are.
LEMMA TableSteps ==
    ASSUME AInv, TableStep
    PROVE  TInv' /\ UNCHANGED <<req, links, nextTok>>
<1>1. TInv
  BY DEF AInv
<1>2. ASSUME NEW r \in resets, ResetPassword(r) PROVE TInv'
  BY <1>1, <1>2, PasswordReset
<1>3. TInv'
  BY <1>1, <1>2, SessionsEnd, ResetsEnd DEF TableStep
<1>4. UNCHANGED <<req, links, nextTok>>
  BY DEF TableStep, Logout, ExpireSession, ResetPassword, NewPassword, ExpireResetToken,
         RevokeAllSessions, PurgeExpiredSessions, PurgeExpiredResetTokens, fresh
<1>5. QED
  BY <1>3, <1>4

\* The steps of requests, of the tables.
LEMMA RequestSteps ==
    ASSUME TInv, RInv, NEW p \in Procs, PasswordStep(p) \/ SocialStep(p) \/ EraseStep(p) \/ Abort(p)
    PROVE  TInv'
<1>1. ASSUME NEW m \in Emails, SignUp(p, m) PROVE TInv'
  BY <1>1, UserAdded DEF SignUp
<1>2. ASSUME InsertSocialUser(p) PROVE TInv'
  <2>1. req[p].email \in Emails
    BY <1>2, Fields DEF InsertSocialUser, Fits
  <2>2. CASE ~Taken(req[p].email) /\ AddUser(req[p].email, 0)
    BY <1>2, <2>1, <2>2, UserAdded DEF InsertSocialUser
  <2>3. CASE UNCHANGED <<users, nextId>>
    BY <1>2, <2>3, TablesStay DEF InsertSocialUser, tables, fresh
  <2>4. QED
    BY <1>2, <2>2, <2>3 DEF InsertSocialUser
<1>3. CASE \/ SignUpGet(p) \/ SignUpLogin(p) \/ Abort(p)
           \/ \E u \in users : Login(p, u) \/ ForgotPassword(p, u)
           \/ \E i \in Idents, c \in Ids \cup {0} : \E m \in Reports[i] : SocialCallback(p, i, m, c)
           \/ SocialLookup(p) \/ EmailLookup(p) \/ RelookupUser(p)
           \/ \E i \in Ids : DeleteAccount(p, i) \/ AdminDeleteUser(p, i)
  <2>1. UNCHANGED <<tables, fresh, redeemed>>
    BY <1>3 DEF SignUpGet, SignUpLogin, Abort, Login, ForgotPassword, SocialCallback, SocialLookup,
       EmailLookup, RelookupUser, DeleteAccount, AdminDeleteUser
  <2>2. QED
    BY <2>1, TablesStay
<1>4. QED
  BY <1>1, <1>2, <1>3, SessionAdded, ResetAdded, UserDeleted, IdentityLinked
     DEF PasswordStep, SocialStep, EraseStep

\* The invariant holds when there is no account yet.
LEMMA Start == Init => AInv
<1> SUFFICES ASSUME Init PROVE AInv
  OBVIOUS
<1>1. TablesTypeOK
  BY AccountsAssumption DEF Init, TablesTypeOK
<1>2. SpentToks = {}
  BY DEF Init, SpentToks
<1>3. TInv
  BY <1>1, <1>2 DEF Init, TInv, IdsAreOwn, OneAccountPerEmail, NothingOutlivesItsAccount,
     CredentialsAreOfThisPassword, TokensAreOwn, PasswordsCostTokens
<1>4. req \in [Procs -> Requests] /\ \A p \in Procs : req[p] = NoRequest
  BY IdleFits DEF Init, Fits
<1>5. QED
  BY <1>3, <1>4, IdleFits DEF AInv, RInv, Init

\* One step of the identity layer.
LEMMA Step == AInv /\ [Next]_vars => AInv'
<1> SUFFICES ASSUME AInv, [Next]_vars PROVE AInv'
  OBVIOUS
<1>1. TInv /\ RInv
  BY DEF AInv
<1>2. ASSUME NEW p \in Procs, PasswordStep(p) \/ SocialStep(p) \/ EraseStep(p) \/ Abort(p)
      PROVE  AInv'
  BY <1>1, <1>2, RequestSteps, PasswordRequests, SocialRequests DEF AInv
<1>3. CASE TableStep
  <2>1. TInv' /\ UNCHANGED req
    BY <1>3, TableSteps
  <2>2. RInv'
    BY <1>1, <2>1 DEF RInv
  <2>3. QED
    BY <1>1, <2>1, <2>2 DEF AInv
<1>4. CASE UNCHANGED vars
  <2>1. UNCHANGED <<tables, fresh, redeemed, req>>
    BY <1>4 DEF vars
  <2>2. TInv' /\ RInv'
    BY <1>1, <2>1, TablesStay DEF RInv
  <2>3. QED
    BY <1>1, <2>1, <2>2 DEF AInv
<1>5. QED
  BY <1>2, <1>3, <1>4 DEF Next

\* The identity layer keeps its invariant, however sign-ups, callbacks,
\* resets and deletions interleave.
THEOREM Inductive == Spec => []AInv
BY Start, Step, PTL DEF Spec

\* Type correctness of the tables and of the requests in flight.
THEOREM TypeCorrect == Spec => []TypeOK
<1>1. AInv => TypeOK
  BY DEF AInv, TInv, TablesTypeOK, RInv, TypeOK, Users, Sessions, Resets
<1>2. QED
  BY Inductive, <1>1, PTL

\* Sign-ups and callbacks that race for an address make one account.
THEOREM OneAccount == Spec => []OneAccountPerEmail
<1>1. AInv => OneAccountPerEmail
  BY DEF AInv, TInv
<1>2. QED
  BY Inductive, <1>1, PTL

\* No session, reset token or identity outlives its account.
THEOREM NothingOutlives == Spec => []NothingOutlivesItsAccount
<1>1. AInv => NothingOutlivesItsAccount
  BY DEF AInv, TInv
<1>2. QED
  BY Inductive, <1>1, PTL

\* Every session and every reset token that works is of the account's present
\* password.
THEOREM CredentialsMatch == Spec => []CredentialsAreOfThisPassword
<1>1. AInv => CredentialsAreOfThisPassword
  BY DEF AInv, TInv
<1>2. QED
  BY Inductive, <1>1, PTL

\* A callback made while signed in opens a session for no other account.
THEOREM CallbacksStay == Spec => []NoSilentSwitch
<1>1. AInv => NoSilentSwitch
  BY DEF AInv, RInv, Fits, NoSilentSwitch
<1>2. QED
  BY Inductive, <1>1, PTL

-----------------------------------------------------------------------------
(* Identities stay.                                                        *)

\* The only steps that touch a link insert a new one, or delete its account.
LEMMA LinksStep ==
    ASSUME AInv, Next, NEW i \in Idents, links[i] # 0
    PROVE  links'[i] = links[i] \/ links[i] \notin {u.id : u \in users'}
<1>0. links \in [Idents -> Ids \cup {0}]
  BY DEF AInv, TInv, TablesTypeOK
<1>1. ASSUME NEW p \in Procs, DeleteUser(p)
      PROVE  links'[i] = links[i] \/ links[i] \notin {u.id : u \in users'}
  BY <1>0, <1>1 DEF DeleteUser
<1>2. ASSUME NEW p \in Procs, LinkIdentity(p)
      PROVE  links'[i] = links[i]
  BY <1>0, <1>2 DEF LinkIdentity
<1>3. CASE ~\E p \in Procs : DeleteUser(p) \/ LinkIdentity(p)
  <2>1. CASE TableStep
    BY <2>1, TableSteps
  <2>2. ASSUME NEW p \in Procs, PasswordStep(p) \/ SocialStep(p) \/ EraseStep(p) \/ Abort(p)
        PROVE  UNCHANGED links
    BY <1>3, <2>2 DEF PasswordStep, SocialStep, EraseStep, Abort, SignUp, SignUpGet, SignUpLogin,
       InsertSession, Login, ForgotPassword, InsertResetToken, SocialCallback, SocialLookup,
       EmailLookup, InsertSocialUser, RelookupUser, DeleteAccount, AdminDeleteUser, tables
  <2>3. QED
    BY <2>1, <2>2 DEF Next
<1>4. QED
  BY <1>1, <1>2, <1>3

\* No callback moves an identity from the account it was first linked to.
THEOREM IdentitiesStay == Spec => IdentitiesStayLinked
<1>1. AInv /\ [Next]_vars =>
        [\A i \in Idents : links[i] # 0 =>
             links'[i] = links[i] \/ links[i] \notin {u.id : u \in users'}]_vars
  <2> SUFFICES ASSUME AInv, Next
               PROVE  \A i \in Idents : links[i] # 0 =>
                        links'[i] = links[i] \/ links[i] \notin {u.id : u \in users'}
    OBVIOUS
  <2>1. QED
    BY LinksStep
<1>2. QED
  BY Inductive, <1>1, PTL DEF Spec, IdentitiesStayLinked

-----------------------------------------------------------------------------
(* The refinement: a reset token is a one-time credential.                 *)

\* A step that ends tokens and does nothing else to them.
OnlyTakesAway ==
    /\ UNCHANGED <<nextTok, redeemed>>
    /\ \A y \in resets' : ~y.used /\ ~y.expired =>
         \E x \in resets : x.tok = y.tok /\ ~x.used /\ ~x.expired

\* Taking away is a revocation, perhaps of nothing.
LEMMA TakingAwayRefines ==
    ASSUME OnlyTakesAway
    PROVE  ResetTokens!CredNext
<1>1. LiveToks' \subseteq LiveToks
  BY DEF OnlyTakesAway, LiveToks
<1>2. IssuedToks' = IssuedToks /\ SpentToks' = SpentToks /\ redeemed' = redeemed
  BY DEF OnlyTakesAway, IssuedToks, SpentToks
<1>3. LiveToks \ LiveToks' \in SUBSET Toks
  BY DEF LiveToks
<1>4. ResetTokens!RevokeSome(LiveToks \ LiveToks')
  BY <1>1, <1>2 DEF ResetTokens!RevokeSome
<1>5. QED
  BY <1>3, <1>4 DEF ResetTokens!CredNext

\* Every step but the INSERT and the redemption.
LEMMA OtherStepsOnlyTakeAway ==
    ASSUME AInv, [Next]_vars,
           ~\E p \in Procs : InsertResetToken(p), ~\E r \in resets : ResetPassword(r)
    PROVE  OnlyTakesAway
<1>1. CASE resets' \subseteq resets /\ UNCHANGED <<nextTok, redeemed>>
  BY <1>1 DEF OnlyTakesAway
<1>2. ASSUME NEW r \in resets, ExpireResetToken(r) PROVE OnlyTakesAway
  <2> DEFINE x == [r EXCEPT !.expired = TRUE]
  <2>1. r \in Resets
    BY DEF AInv, TInv, TablesTypeOK
  <2>2. x.expired
    BY <2>1 DEF Resets
  <2>3. resets' = (resets \ {r}) \cup {x} /\ UNCHANGED <<nextTok, redeemed>>
    BY <1>2 DEF ExpireResetToken, fresh
  <2> HIDE DEF x
  <2>4. QED
    BY <2>2, <2>3 DEF OnlyTakesAway
<1>3. ASSUME NEW p \in Procs, PasswordStep(p) \/ SocialStep(p) \/ EraseStep(p) \/ Abort(p)
      PROVE  resets' \subseteq resets /\ UNCHANGED <<nextTok, redeemed>>
  BY <1>3 DEF PasswordStep, SocialStep, EraseStep, Abort, SignUp, SignUpGet, SignUpLogin,
     InsertSession, Login, ForgotPassword, SocialCallback, SocialLookup, EmailLookup,
     InsertSocialUser, RelookupUser, LinkIdentity, DeleteAccount, AdminDeleteUser, DeleteUser,
     tables, fresh
<1>4. CASE TableStep
  <2>1. \/ \E r \in resets : ExpireResetToken(r)
        \/ resets' \subseteq resets /\ UNCHANGED <<nextTok, redeemed>>
    BY <1>4 DEF TableStep, Logout, ExpireSession, RevokeAllSessions, PurgeExpiredSessions,
       PurgeExpiredResetTokens, fresh
  <2>2. QED
    BY <1>1, <1>2, <2>1
<1>5. CASE UNCHANGED vars
  BY <1>1, <1>5 DEF vars, tables, fresh
<1>6. QED
  BY <1>1, <1>3, <1>4, <1>5 DEF Next

\* CreateResetToken issues a credential, or finds the account gone.
LEMMA InsertRefines ==
    ASSUME AInv, NEW p \in Procs, InsertResetToken(p)
    PROVE  ResetTokens!CredNext
<1>1. CASE UNCHANGED <<resets, nextTok>>
  BY <1>1, TakingAwayRefines DEF OnlyTakesAway, InsertResetToken
<1>2. ASSUME NEW u \in users, nextTok <= MaxTok, nextTok' = nextTok + 1,
             resets' = resets \cup {[tok |-> nextTok, user |-> u.id, used |-> FALSE,
                                     expired |-> FALSE, born |-> u.ver]}
      PROVE  ResetTokens!CredNext
  <2> DEFINE x == [tok |-> nextTok, user |-> u.id, used |-> FALSE,
                   expired |-> FALSE, born |-> u.ver]
  <2>1. nextTok \in Toks /\ nextTok \in Nat
    BY <1>2, AccountsAssumption DEF AInv, TInv, TablesTypeOK, Toks
  <2>2. x.tok = nextTok /\ ~x.used /\ ~x.expired
    OBVIOUS
  <2>3. resets' = resets \cup {x}
    BY <1>2
  <2> HIDE DEF x
  <2>4. LiveToks' = LiveToks \cup {nextTok}
    BY <2>1, <2>2, <2>3 DEF LiveToks
  <2>5. IssuedToks' = IssuedToks \cup {nextTok} /\ nextTok \notin IssuedToks
    BY <1>2, <2>1, AccountsAssumption DEF IssuedToks, Toks
  <2>6. redeemed' = redeemed /\ SpentToks' = SpentToks
    BY DEF InsertResetToken, SpentToks
  <2>7. ResetTokens!Issue(nextTok)
    BY <2>4, <2>5, <2>6 DEF ResetTokens!Issue
  <2>8. QED
    BY <2>1, <2>7 DEF ResetTokens!CredNext
<1>3. QED
  BY <1>1, <1>2 DEF InsertResetToken

\* ResetPassword spends a live credential, for one new password, and ends
\* the account's other tokens with it.
LEMMA RedeemRefines ==
    ASSUME AInv, NEW r \in resets, ResetPassword(r)
    PROVE  ResetTokens!CredNext
<1>0. TInv
  BY DEF AInv
<1>1. PICK u \in users : redeemed' = [redeemed EXCEPT ![r.tok] = @ \cup {u.ver + 1}]
  BY DEF ResetPassword, NewPassword
<1> DEFINE v == u.ver + 1
<1>2. v \in Nat /\ v >= 1 /\ v <= 1 + (Cardinality(SpentToks) + 1)
      /\ redeemed' = [redeemed EXCEPT ![r.tok] = @ \cup {v}]
  BY <1>0, <1>1, Rows, SpentIsFinite DEF TInv, PasswordsCostTokens
<1> HIDE DEF v
<1>3. ~r.used /\ ~r.expired /\ UNCHANGED nextTok
  BY DEF ResetPassword, NewPassword, fresh
<1>4. /\ r.tok \in Toks /\ SpentToks' = SpentToks \cup {r.tok}
      /\ redeemed' = [redeemed EXCEPT ![r.tok] = {v}]
      /\ Cardinality(SpentToks) < MaxTok
  BY <1>0, <1>2, <1>3, OneMoreSpent
<1>5. v \in 1..(MaxTok + 1)
  BY <1>2, <1>4, SpentIsFinite, AccountsAssumption
<1>6. \A y \in resets' : ~y.used => \E x \in resets :
        y.tok = x.tok /\ y.expired = x.expired /\ x.user # r.user /\ ~x.used
  BY <1>0, TokensUsed
<1>7. LiveToks' \in SUBSET (LiveToks \ {r.tok}) /\ r.tok \in LiveToks
  <2>1. \A x \in resets : x.tok = r.tok => x = r
    BY <1>0 DEF TInv, TokensAreOwn
  <2>2. QED
    BY <1>3, <1>4, <1>6, <2>1 DEF LiveToks
<1>8. IssuedToks' = IssuedToks
  BY <1>3 DEF IssuedToks
<1>9. ResetTokens!Spend(r.tok)
  BY <1>4, <1>5, <1>7, <1>8 DEF ResetTokens!Spend
<1>10. QED
  BY <1>4, <1>9 DEF ResetTokens!CredNext

\* A reset token sets one password at most, and none once it is used,
\* expired, purged or revoked by another's redemption: password reset
\* implements the one-time credential.
THEOREM ResetTokensRefine == Spec => ResetTokensAreOneTime
<1>1. Init => ResetTokens!CredInit
  BY AccountsAssumption DEF Init, ResetTokens!CredInit, IssuedToks, LiveToks, SpentToks, Toks
<1>2. AInv /\ [Next]_vars => [ResetTokens!CredNext]_(ResetTokens!credVars)
  <2> SUFFICES ASSUME AInv, [Next]_vars
               PROVE  ResetTokens!CredNext
    OBVIOUS
  <2>1. QED
    BY OtherStepsOnlyTakeAway, TakingAwayRefines, InsertRefines, RedeemRefines
<1>3. QED
  BY <1>1, <1>2, Inductive, PTL DEF Spec, ResetTokensAreOneTime, ResetTokens!CredSpec
=============================================================================
