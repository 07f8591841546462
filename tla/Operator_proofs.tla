--------------------------- MODULE Operator_proofs --------------------------
(***************************************************************************)
(* Proofs about what an operator of the server does: OwnerPlane, for every *)
(* number of requests in flight, of addresses, accounts, sessions and      *)
(* audit entries, and Migrations, for every set of processes and of files, *)
(* every length of time and every number of files to revert.               *)
(*                                                                         *)
(* The two share no state; each theorem is about one of them.              *)
(***************************************************************************)
EXTENDS OwnerPlane, Migrations, FiniteSetTheorems, TLAPS

-----------------------------------------------------------------------------
(*                                OwnerPlane                               *)
-----------------------------------------------------------------------------

\* Ids are handed out once, and an account there is was made with its role.
IdsAreOwn ==
    /\ \A m \in made : m.id < nextId
    /\ \A m, n \in made : m.id = n.id => m = n
    /\ \A o \in owners : \E m \in made : m.id = o.id /\ m.role = o.role
    /\ \A o, q \in owners : o.id = q.id => o = q

\* Requests live in a process that is up, and it counted no account only if
\* there never was one.
StartUp ==
    /\ server # "up" => \A p \in Procs : req[p] = NoRequest
    /\ server = "counted" => made = {}

OwnerMade(i) == \E m \in made : m.id = i /\ m.role = "owner"
AdminMade(i) == \E m \in made : m.id = i /\ AtLeast(m.role, "admin")

\* requireOwnerRole's answer stays true of an account's making, whatever
\* becomes of the account.
CallersHadTheRole ==
    \A p \in Procs :
        /\ req[p].at \in {"create", "delete"} => OwnerMade(req[p].actor)
        /\ req[p].at = "purge" => AdminMade(req[p].actor)

\* What an entry says, of one written or still to be written; the id of a
\* deleted account never comes back.
Truthful(e) ==
    /\ e.event = "owner_delete" =>
         e.target \notin OwnerIds /\ e.target < nextId /\ OwnerMade(e.actor)
    /\ e.event = "owner_create" => \E m \in made : m.id = e.target /\ m.by = e.actor
    /\ e.event = "sessions_purged" => AdminMade(e.actor)

EntriesAreTruthful ==
    /\ \A e \in audit : Truthful(e)
    /\ \A p \in Procs : Truthful(req[p].entry)

OInv ==
    /\ TypeOK
    /\ IdsAreOwn
    /\ StartUp
    /\ CallersHadTheRole
    /\ EntriesAreTruthful
    /\ AlwaysAnOwner
    /\ BootstrapFiresOnce
    /\ AccountsTraceBack
    /\ SessionsHaveOwners

-----------------------------------------------------------------------------
(* Requests, with their updates written out.                               *)

Req(a, i, s, e) == [at |-> a, actor |-> i, sid |-> s, entry |-> e]

\* A request that begins.
LEMMA BegunBy ==
    ASSUME NEW a, NEW i
    PROVE  [NoRequest EXCEPT !.at = a, !.actor = i] = Req(a, i, 0, Entry("login", 0, 0))
<1>1. [NoRequest EXCEPT !.at = a] = [at |-> a, actor |-> 0, sid |-> 0, entry |-> Entry("login", 0, 0)]
  BY DEF NoRequest
<1>2. [[at |-> a, actor |-> 0, sid |-> 0, entry |-> Entry("login", 0, 0)] EXCEPT !.actor = i]
        = Req(a, i, 0, Entry("login", 0, 0))
  BY DEF Req
<1>3. QED
  BY <1>1, <1>2

\* One that begins with its entry.
LEMMA BegunWith ==
    ASSUME NEW a, NEW e
    PROVE  [NoRequest EXCEPT !.at = a, !.entry = e] = Req(a, 0, 0, e)
<1>1. [NoRequest EXCEPT !.at = a] = [at |-> a, actor |-> 0, sid |-> 0, entry |-> Entry("login", 0, 0)]
  BY DEF NoRequest
<1>2. [[at |-> a, actor |-> 0, sid |-> 0, entry |-> Entry("login", 0, 0)] EXCEPT !.entry = e]
        = Req(a, 0, 0, e)
  BY DEF Req
<1>3. QED
  BY <1>1, <1>2

\* A logout, with the session it will delete.
LEMMA BegunLogout ==
    ASSUME NEW p \in Procs, NEW s, Logout(p, s)
    PROVE  req' = [req EXCEPT ![p] = Req(IF s.expired THEN "logout" ELSE "record", 0, s.sid,
                                         Entry("logout", s.owner, 0))]
<1> DEFINE a == IF s.expired THEN "logout" ELSE "record"
           e == Entry("logout", s.owner, 0)
           l == Entry("login", 0, 0)
<1>1. req' = [req EXCEPT ![p] = [NoRequest EXCEPT !.at = a, !.sid = s.sid, !.entry = e]]
  BY DEF Logout, Begin
<1> HIDE DEF a, e, l
<1>2. [NoRequest EXCEPT !.at = a] = [at |-> a, actor |-> 0, sid |-> 0, entry |-> l]
  BY DEF NoRequest, l
<1>3. [[at |-> a, actor |-> 0, sid |-> 0, entry |-> l] EXCEPT !.sid = s.sid]
        = [at |-> a, actor |-> 0, sid |-> s.sid, entry |-> l]
  OBVIOUS
<1>4. [[at |-> a, actor |-> 0, sid |-> s.sid, entry |-> l] EXCEPT !.entry = e] = Req(a, 0, s.sid, e)
  BY DEF Req
<1>5. req' = [req EXCEPT ![p] = Req(a, 0, s.sid, e)]
  BY <1>1, <1>2, <1>3, <1>4
<1>6. QED
  BY <1>5 DEF a, e

\* ThenRecord leaves the entry to the request's next step.
LEMMA Recording ==
    ASSUME req \in [Procs -> Requests], NEW p \in Procs, NEW e,
           ThenRecord(p, e)
    PROVE  req' = [req EXCEPT ![p] = Req("record", req[p].actor, req[p].sid, e)]
<1>1. [req[p] EXCEPT !.at = "record"]
        = [at |-> "record", actor |-> req[p].actor, sid |-> req[p].sid, entry |-> req[p].entry]
  BY DEF Requests
<1>2. [[at |-> "record", actor |-> req[p].actor, sid |-> req[p].sid, entry |-> req[p].entry] EXCEPT !.entry = e]
        = Req("record", req[p].actor, req[p].sid, e)
  BY DEF Req
<1>3. req' = [req EXCEPT ![p] = [[req[p] EXCEPT !.at = "record"] EXCEPT !.entry = e]]
  BY DEF ThenRecord
<1>4. QED
  BY <1>1, <1>2, <1>3

\* So does createOwner's INSERT, before the account is read back.
LEMMA Fetching ==
    ASSUME req \in [Procs -> Requests], NEW p \in Procs, NEW e,
           req' = [req EXCEPT ![p].at = "fetch", ![p].entry = e]
    PROVE  req' = [req EXCEPT ![p] = Req("fetch", req[p].actor, req[p].sid, e)]
<1>1. [req[p] EXCEPT !.at = "fetch"]
        = [at |-> "fetch", actor |-> req[p].actor, sid |-> req[p].sid, entry |-> req[p].entry]
  BY DEF Requests
<1>2. [[at |-> "fetch", actor |-> req[p].actor, sid |-> req[p].sid, entry |-> req[p].entry] EXCEPT !.entry = e]
        = Req("fetch", req[p].actor, req[p].sid, e)
  BY DEF Req
<1>3. req' = [req EXCEPT ![p] = [[req[p] EXCEPT !.at = "fetch"] EXCEPT !.entry = e]]
  OBVIOUS
<1>4. QED
  BY <1>1, <1>2, <1>3

-----------------------------------------------------------------------------
(* Steps that leave the accounts alone.                                    *)

Sessions == [sid : Sids, owner : Ids, expired : BOOLEAN]

\* What is asked of a request's next state.
Fits(r) ==
    /\ r \in Requests
    /\ r.at \in {"create", "delete"} => OwnerMade(r.actor)
    /\ r.at = "purge" => AdminMade(r.actor)
    /\ Truthful(r.entry)

\* What is asked of the sessions and the trail.
TablesFit ==
    /\ sessions' \subseteq Sessions
    /\ \A s \in sessions' : s.owner \in OwnerIds
    /\ nextSid' \in 1..(MaxSession + 1)
    /\ audit' \subseteq Entries
    /\ \A e \in audit' : Truthful(e)

\* A request that fits, in a process that is up, keeps the invariant.
LEMMA QuietStep ==
    ASSUME OInv, UNCHANGED <<owners, made, nextId, server>>, TablesFit,
           NEW p \in Procs, NEW r, Fits(r), req' = [req EXCEPT ![p] = r], server = "up"
    PROVE  OInv'
<1>1. TypeOK'
  BY DEF OInv, TypeOK, TablesFit, Fits, Sessions
<1>2. \A q \in Procs : req'[q] = IF q = p THEN r ELSE req[q]
  BY DEF OInv, TypeOK
<1>3. IdsAreOwn' /\ StartUp' /\ AlwaysAnOwner' /\ BootstrapFiresOnce' /\ AccountsTraceBack'
  BY DEF OInv, IdsAreOwn, StartUp, AlwaysAnOwner, OwnerRole, BootstrapFiresOnce, AccountsTraceBack
<1>4. SessionsHaveOwners'
  BY DEF TablesFit, SessionsHaveOwners, OwnerIds
<1>5. CallersHadTheRole'
  BY <1>2 DEF OInv, CallersHadTheRole, Fits, OwnerMade, AdminMade
<1>6. EntriesAreTruthful'
  BY <1>2 DEF OInv, EntriesAreTruthful, Fits, TablesFit, Truthful, OwnerMade, AdminMade, OwnerIds
<1>7. QED
  BY <1>1, <1>3, <1>4, <1>5, <1>6 DEF OInv

\* Tables that stay as they are fit.
LEMMA TablesStay ==
    ASSUME OInv, UNCHANGED <<sessions, nextSid, audit>>
    PROVE  TablesFit
BY DEF OInv, TypeOK, SessionsHaveOwners, EntriesAreTruthful, TablesFit, Sessions

\* A request is in flight only while the process is up.
LEMMA InFlightIsUp ==
    ASSUME OInv, NEW p \in Procs, req[p].at # "idle"
    PROVE  server = "up"
BY DEF OInv, StartUp, NoRequest

\* Sessions can go.
LEMMA SessionsShrink ==
    ASSUME OInv, UNCHANGED <<nextSid, audit>>, sessions' \subseteq sessions
    PROVE  TablesFit
BY DEF OInv, TypeOK, SessionsHaveOwners, EntriesAreTruthful, TablesFit, Sessions

\* A request that has ended, or has not got anything to record yet, fits.
LEMMA IdleFits == Fits(NoRequest)
<1>1. Entry("login", 0, 0) \in Entries
  BY DEF Entry, Entries
<1>2. NoRequest \in Requests
  BY <1>1 DEF NoRequest, Requests
<1>3. QED
  BY <1>2 DEF Fits, NoRequest, Truthful, Entry

\* rank orders the roles.
LEMMA Ranks ==
    ASSUME NEW r \in Roles
    PROVE  /\ AtLeast(r, "owner") <=> r = "owner"
           /\ r = "owner" => AtLeast(r, "admin")
BY DEF Roles, AtLeast, rank

\* An ended request, and one with an entry that needs no account.
LEMMA PlainFits ==
    ASSUME OInv, NEW a \in {"session_insert", "record", "logout"}, NEW i \in Ids \cup {0},
           NEW s \in Sids \cup {0}, NEW j \in Ids \cup {0},
           NEW v \in {"login", "login_failed", "login_rate_limited", "logout"}
    PROVE  Fits(Req(a, i, s, Entry(v, j, 0)))
<1>1. Entry(v, j, 0) \in Entries /\ Entry(v, j, 0).event = v
  BY DEF Entry, Entries
<1>2. Truthful(Entry(v, j, 0))
  BY <1>1 DEF Truthful
<1>3. QED
  BY <1>1, <1>2 DEF Fits, Req, Requests

\* Sessions: login, its INSERT, logout.
LEMMA SessionSteps ==
    ASSUME OInv, NEW p \in Procs,
           \/ \E o \in owners : Login(p, o)
           \/ WrongCredentials(p) \/ LoginRateLimited(p) \/ InsertSession(p)
           \/ \E s \in sessions : Logout(p, s)
           \/ DeleteSession(p)
    PROVE  OInv'
<1>a. req \in [Procs -> Requests] /\ req[p] \in Requests
  BY DEF OInv, TypeOK
<1>b. req[p].actor \in Ids \cup {0} /\ req[p].sid \in Sids \cup {0}
  BY <1>a DEF Requests
<1>1. ASSUME NEW o \in owners, Login(p, o) PROVE OInv'
  <2> DEFINE r == Req("session_insert", o.id, 0, Entry("login", 0, 0))
  <2>1. /\ req' = [req EXCEPT ![p] = r]
        /\ server = "up" /\ UNCHANGED <<tables, server, audit>>
    BY <1>1, BegunBy, Zenon DEF Login, Begin
  <2>2. o.id \in Ids
    BY DEF OInv, TypeOK
  <2>3. Fits(r)
    BY <2>2, PlainFits
  <2> HIDE DEF r
  <2>4. QED
    BY <2>1, <2>3, TablesStay, QuietStep DEF tables
<1>2. ASSUME NEW v \in {"login_failed", "login_rate_limited"},
             Begin(p, [NoRequest EXCEPT !.at = "record", !.entry = Entry(v, 0, 0)]),
             UNCHANGED <<tables, server, audit>>
      PROVE  OInv'
  <2> DEFINE r == Req("record", 0, 0, Entry(v, 0, 0))
  <2>0. [NoRequest EXCEPT !.at = "record", !.entry = Entry(v, 0, 0)] = r
    BY BegunWith
  <2>1. req' = [req EXCEPT ![p] = r] /\ server = "up"
    BY <1>2, <2>0 DEF Begin
  <2>2. Fits(r)
    BY PlainFits
  <2> HIDE DEF r
  <2>3. QED
    BY <1>2, <2>1, <2>2, TablesStay, QuietStep DEF tables
<1>3. ASSUME InsertSession(p) PROVE OInv'
  <2>1. server = "up"
    BY <1>3, InFlightIsUp DEF InsertSession
  <2>2. UNCHANGED <<owners, made, nextId, server, audit>>
    BY <1>3 DEF InsertSession
  <2>3. CASE req[p].actor \in OwnerIds /\ nextSid <= MaxSession /\ nextSid' = nextSid + 1
             /\ sessions' = sessions \cup {NewSession(req[p].actor)}
             /\ ThenRecord(p, Entry("login", req[p].actor, 0))
    <3> DEFINE r == Req("record", req[p].actor, req[p].sid, Entry("login", req[p].actor, 0))
    <3>1. req' = [req EXCEPT ![p] = r]
      BY <2>3, <1>a, Recording
    <3>2. Fits(r)
      BY <1>b, PlainFits
    <3>3. NewSession(req[p].actor) \in Sessions /\ NewSession(req[p].actor).owner \in OwnerIds
          /\ nextSid' \in 1..(MaxSession + 1)
      BY <2>3, OwnerAssumption DEF NewSession, Sessions, Sids, OwnerIds, OInv, TypeOK
    <3>4. TablesFit
      BY <2>2, <2>3, <3>3 DEF TablesFit, OInv, TypeOK, Sessions, SessionsHaveOwners, EntriesAreTruthful
    <3> HIDE DEF r
    <3>5. QED
      BY <2>1, <2>2, <3>1, <3>2, <3>4, QuietStep
  <2>4. CASE ThenRecord(p, Entry("login_failed", 0, 0)) /\ UNCHANGED <<sessions, nextSid>>
    <3> DEFINE r == Req("record", req[p].actor, req[p].sid, Entry("login_failed", 0, 0))
    <3>1. req' = [req EXCEPT ![p] = r]
      BY <2>4, <1>a, Recording
    <3>2. Fits(r)
      BY <1>b, PlainFits
    <3> HIDE DEF r
    <3>3. QED
      BY <2>1, <2>2, <2>4, <3>1, <3>2, TablesStay, QuietStep
  <2>5. QED
    BY <1>3, <2>3, <2>4 DEF InsertSession
<1>4. ASSUME NEW s \in sessions, Logout(p, s) PROVE OInv'
  <2> DEFINE a == IF s.expired THEN "logout" ELSE "record"
             r == Req(a, 0, s.sid, Entry("logout", s.owner, 0))
  <2>1. req' = [req EXCEPT ![p] = r]
    BY <1>4, BegunLogout
  <2>2. s.sid \in Sids /\ s.owner \in Ids /\ a \in {"session_insert", "record", "logout"}
    BY DEF OInv, TypeOK
  <2> HIDE DEF a
  <2>3. Fits(r)
    BY <2>2, PlainFits
  <2>4. server = "up" /\ UNCHANGED <<tables, server, audit>>
    BY <1>4 DEF Logout, Begin
  <2> HIDE DEF r
  <2>5. QED
    BY <2>1, <2>3, <2>4, TablesStay, QuietStep DEF tables
<1>5. ASSUME DeleteSession(p) PROVE OInv'
  <2>1. server = "up"
    BY <1>5, InFlightIsUp DEF DeleteSession
  <2>2. sessions' \subseteq sessions /\ UNCHANGED <<owners, nextId, nextSid, server, audit, made>>
    BY <1>5 DEF DeleteSession
  <2>3. req' = [req EXCEPT ![p] = NoRequest]
    BY <1>5 DEF DeleteSession, End
  <2>4. QED
    BY <2>1, <2>2, <2>3, IdleFits, SessionsShrink, QuietStep
<1>6. QED
  BY <1>1, <1>2, <1>3, <1>4, <1>5 DEF WrongCredentials, LoginRateLimited

\* requireOwnerRole, and the handlers' statements that create or delete no
\* account.
LEMMA CallerSteps ==
    ASSUME OInv, NEW p \in Procs,
           \/ \E s \in sessions : Authenticate(p, s)
           \/ FetchCreated(p) \/ PurgeExpiredSessions(p) \/ Refuse(p) \/ Record(p)
    PROVE  OInv'
<1>a. req \in [Procs -> Requests] /\ req[p] \in Requests
  BY DEF OInv, TypeOK
<1>b. req[p].actor \in Ids \cup {0} /\ req[p].sid \in Sids \cup {0} /\ req[p].entry \in Entries
  BY <1>a DEF Requests
<1>c. Truthful(req[p].entry)
  BY DEF OInv, EntriesAreTruthful
<1>1. ASSUME NEW s \in sessions, NEW min \in Roles, NEW step \in {"create", "delete", "purge"},
             RequireOwnerRole(p, s, min, step), step \in {"create", "delete"} => min = "owner",
             step = "purge" => min = "admin", UNCHANGED <<tables, server, audit>>
      PROVE  OInv'
  <2>1. PICK o \in owners : AtLeast(o.role, min)
                            /\ Begin(p, [NoRequest EXCEPT !.at = step, !.actor = o.id])
    BY <1>1 DEF RequireOwnerRole
  <2> DEFINE r == Req(step, o.id, 0, Entry("login", 0, 0))
  <2>2. req' = [req EXCEPT ![p] = r] /\ server = "up"
    BY <2>1, BegunBy, Zenon DEF Begin
  <2>3. o.id \in Ids /\ o.role \in Roles /\ \E m \in made : m.id = o.id /\ m.role = o.role
    BY DEF OInv, TypeOK, IdsAreOwn
  <2>4. /\ step \in {"create", "delete"} => OwnerMade(o.id)
        /\ step = "purge" => AdminMade(o.id)
    BY <1>1, <2>1, <2>3, Ranks DEF OwnerMade, AdminMade
  <2>5. Entry("login", 0, 0) \in Entries /\ Truthful(Entry("login", 0, 0))
    BY DEF Entry, Entries, Truthful
  <2>6. Fits(r)
    BY <2>3, <2>4, <2>5 DEF Fits, Req, Requests
  <2> HIDE DEF r
  <2>7. QED
    BY <1>1, <2>2, <2>6, TablesStay, QuietStep DEF tables
<1>2. ASSUME FetchCreated(p) PROVE OInv'
  <2>1. server = "up" /\ UNCHANGED <<tables, server, audit>>
    BY <1>2, InFlightIsUp DEF FetchCreated
  <2>2. CASE ThenRecord(p, req[p].entry)
    <3> DEFINE r == Req("record", req[p].actor, req[p].sid, req[p].entry)
    <3>1. req' = [req EXCEPT ![p] = r]
      BY <1>a, <2>2, Recording
    <3>2. Fits(r)
      BY <1>b, <1>c DEF Fits, Req, Requests
    <3> HIDE DEF r
    <3>3. QED
      BY <2>1, <3>1, <3>2, TablesStay, QuietStep DEF tables
  <2>3. CASE End(p)
    BY <2>1, <2>3, IdleFits, TablesStay, QuietStep DEF tables, End
  <2>4. QED
    BY <1>2, <2>2, <2>3 DEF FetchCreated
<1>3. ASSUME PurgeExpiredSessions(p) PROVE OInv'
  <2>1. server = "up" /\ UNCHANGED <<owners, nextId, nextSid, server, audit, made>>
        /\ sessions' \subseteq sessions
    BY <1>3, InFlightIsUp DEF PurgeExpiredSessions, Purged
  <2> DEFINE e == Entry("sessions_purged", req[p].actor, 0)
             r == Req("record", req[p].actor, req[p].sid, e)
  <2>2. req' = [req EXCEPT ![p] = r]
    BY <1>3, <1>a, Recording DEF PurgeExpiredSessions
  <2>3. AdminMade(req[p].actor)
    BY <1>3 DEF PurgeExpiredSessions, OInv, CallersHadTheRole
  <2>4. e \in Entries /\ Truthful(e)
    BY <1>b, <2>3 DEF Entry, Entries, Truthful
  <2> HIDE DEF e
  <2>5. Fits(r)
    BY <1>b, <2>4 DEF Fits, Req, Requests
  <2> HIDE DEF r
  <2>6. QED
    BY <2>1, <2>2, <2>5, SessionsShrink, QuietStep
<1>4. ASSUME Refuse(p) PROVE OInv'
  <2>1. server = "up" /\ UNCHANGED <<tables, server, audit>>
    BY <1>4, InFlightIsUp DEF Refuse
  <2>2. QED
    BY <1>4, <2>1, IdleFits, TablesStay, QuietStep DEF tables, Refuse, End
<1>5. ASSUME Record(p) PROVE OInv'
  <2>1. server = "up" /\ UNCHANGED <<tables, server>>
    BY <1>5, InFlightIsUp DEF Record
  <2>2. audit' \subseteq audit \cup {req[p].entry}
    BY <1>5 DEF Record
  <2>3. TablesFit
    BY <1>b, <1>c, <2>1, <2>2
       DEF tables, OInv, TypeOK, SessionsHaveOwners, EntriesAreTruthful, TablesFit, Sessions
  <2>4. CASE req[p].sid # 0
    <3> DEFINE r == [req[p] EXCEPT !.at = "logout"]
    <3>1. req' = [req EXCEPT ![p] = r]
      BY <1>5, <2>4 DEF Record
    <3>2. Fits(r)
      BY <1>a, <1>b, <1>c DEF Fits, Requests
    <3> HIDE DEF r
    <3>3. QED
      BY <2>1, <2>3, <3>1, <3>2, QuietStep DEF tables
  <2>5. CASE req[p].sid = 0
    BY <1>5, <2>1, <2>3, <2>5, IdleFits, QuietStep DEF tables, Record, End
  <2>6. QED
    BY <2>4, <2>5
<1>6. QED
  <2>1. "owner" \in Roles /\ "admin" \in Roles
    BY DEF Roles
  <2>2. ASSUME NEW s \in sessions, Authenticate(p, s) PROVE OInv'
    BY <1>1, <2>1, <2>2 DEF Authenticate
  <2>3. QED
    BY <1>2, <1>3, <1>4, <1>5, <2>2

\* The janitor, an expiry, and a process that starts or stops.
LEMMA ServerSteps ==
    ASSUME OInv,
           \/ BootstrapCount \/ StartUnconfigured \/ Crash \/ Janitor
           \/ \E s \in sessions : Expire(s)
    PROVE  OInv'
<1> USE DEF OInv, TypeOK, IdsAreOwn, CallersHadTheRole, EntriesAreTruthful, AlwaysAnOwner, OwnerRole,
            BootstrapFiresOnce, AccountsTraceBack, SessionsHaveOwners, OwnerMade, AdminMade, Truthful,
            OwnerIds, StartUp
<1>1. CASE BootstrapCount
  <2>1. owners = {} => made = {}
    OBVIOUS
  <2>2. server' \in {"counted", "up"} /\ (server' = "counted" => made' = {})
        /\ \A p \in Procs : req'[p] = NoRequest
    BY <1>1, <2>1 DEF BootstrapCount, tables
  <2>3. UNCHANGED <<owners, sessions, nextId, nextSid, made, req, audit>>
    BY <1>1 DEF BootstrapCount, tables
  <2>4. QED
    BY <2>2, <2>3
<1>2. CASE StartUnconfigured
  BY <1>2 DEF StartUnconfigured, tables
<1>3. CASE Crash
  <2>1. NoRequest \in Requests /\ NoRequest.at = "idle" /\ NoRequest.entry.event = "login"
    BY IdleFits DEF Fits, NoRequest, Entry
  <2>2. req' \in [Procs -> Requests] /\ \A p \in Procs : req'[p] = NoRequest
    BY <1>3, <2>1 DEF Crash
  <2>3. QED
    BY <1>3, <2>1, <2>2 DEF Crash, tables
<1>4. CASE Janitor
  BY <1>4 DEF Janitor, Purged
<1>5. ASSUME NEW s \in sessions, Expire(s) PROVE OInv'
  <2>1. [s EXCEPT !.expired = TRUE] \in Sessions /\ [s EXCEPT !.expired = TRUE].owner = s.owner
    BY DEF Sessions
  <2>2. sessions' \subseteq Sessions /\ \A t \in sessions' : t.owner \in {o.id : o \in owners}
    BY <1>5, <2>1 DEF Expire, Sessions
  <2>3. QED
    BY <1>5, <2>2 DEF Expire, Sessions
<1>6. QED
  BY <1>1, <1>2, <1>3, <1>4, <1>5

-----------------------------------------------------------------------------
(* Steps that create or delete an account.                                 *)

\* What was truthful stays so while accounts come and go: making is never
\* undone, and a new account has a new id.
LEMMA TruthKept ==
    ASSUME NEW e \in Entries, Truthful(e), nextId \in Nat, nextId' \in Nat, nextId <= nextId',
           made \subseteq made', \A i \in OwnerIds' : i \in OwnerIds \/ i = nextId
    PROVE  Truthful(e)'
<1>1. e.target \in Nat
  BY OwnerAssumption DEF Entries, Ids
<1>2. QED
  BY <1>1 DEF Truthful, OwnerMade, AdminMade

\* The same for all requests and the trail.
LEMMA RequestsKept ==
    ASSUME OInv, nextId' \in Nat, nextId <= nextId', made \subseteq made',
           \A i \in OwnerIds' : i \in OwnerIds \/ i = nextId,
           audit' = audit, NEW p \in Procs, NEW r \in Requests, req' = [req EXCEPT ![p] = r],
           r.at \notin {"create", "delete", "purge"}, Truthful(r.entry)'
    PROVE  CallersHadTheRole' /\ EntriesAreTruthful'
<1>1. nextId \in Nat /\ audit \subseteq Entries /\ \A q \in Procs : req[q].entry \in Entries
  BY OwnerAssumption DEF OInv, TypeOK, Requests
<1>2. \A q \in Procs : req'[q] = IF q = p THEN r ELSE req[q]
  BY DEF OInv, TypeOK
<1>3. \A e \in Entries : Truthful(e) => Truthful(e)'
  BY <1>1, TruthKept
<1>4. CallersHadTheRole'
  BY <1>2 DEF OInv, CallersHadTheRole, OwnerMade, AdminMade
<1>5. \A e \in audit' : Truthful(e)'
  BY <1>1, <1>3 DEF OInv, EntriesAreTruthful
<1>6. \A q \in Procs : Truthful(req[q].entry) => (q = p \/ Truthful(req[q].entry)')
  BY <1>1, <1>2, <1>3 DEF Truthful, OwnerMade, AdminMade
<1>7. QED
  BY <1>2, <1>4, <1>5, <1>6 DEF OInv, EntriesAreTruthful, Truthful, OwnerMade, AdminMade

\* createOwner's INSERT, on behalf of Bootstrap or of an owner.
LEMMA AddOwnerEffect ==
    ASSUME OInv, NEW m \in Emails, NEW r \in Roles, NEW creator \in Ids \cup {0},
           AddOwner(m, r, creator), UNCHANGED <<sessions>>,
           creator = 0 => made = {} /\ r = "owner", creator # 0 => OwnerMade(creator)
    PROVE  /\ owners' \subseteq [id : Ids, email : Emails, role : Roles]
           /\ made' \subseteq [id : Ids, role : Roles, by : Ids \cup {0}]
           /\ nextId' \in 1..(MaxOwner + 1) /\ nextId <= nextId' /\ nextId' \in Nat
           /\ made \subseteq made'
           /\ [id |-> nextId, role |-> r, by |-> creator] \in made'
           /\ \A i \in OwnerIds' : i \in OwnerIds \/ i = nextId
           /\ IdsAreOwn' /\ AlwaysAnOwner' /\ BootstrapFiresOnce' /\ AccountsTraceBack'
           /\ SessionsHaveOwners'
<1> DEFINE o == [id |-> nextId, email |-> m, role |-> r]
           n == [id |-> nextId, role |-> r, by |-> creator]
<1>1. nextId \in Nat /\ nextId \in Ids /\ nextId' = nextId + 1 /\ MaxOwner \in Nat
  BY OwnerAssumption DEF OInv, TypeOK, AddOwner, Ids
<1>2. owners' = owners \cup {o} /\ made' = made \cup {n}
  BY DEF AddOwner
<1>3. o \in [id : Ids, email : Emails, role : Roles] /\ n \in [id : Ids, role : Roles, by : Ids \cup {0}]
  BY <1>1
<1>4. o.id = nextId /\ o.role = r /\ n.id = nextId /\ n.role = r /\ n.by = creator
  OBVIOUS
<1>5. \A k \in made : k.id \in Nat /\ k.id < nextId
  BY OwnerAssumption DEF OInv, TypeOK, IdsAreOwn, Ids
<1>6. \A q \in owners : q.id \in Nat /\ q.id < nextId
  BY <1>5 DEF OInv, IdsAreOwn
<1> HIDE DEF o, n
<1>7. owners' \subseteq [id : Ids, email : Emails, role : Roles]
      /\ made' \subseteq [id : Ids, role : Roles, by : Ids \cup {0}]
  BY <1>2, <1>3 DEF OInv, TypeOK
<1>8. nextId' \in 1..(MaxOwner + 1) /\ nextId <= nextId' /\ nextId' \in Nat
  BY <1>1 DEF Ids
<1>9. IdsAreOwn'
  <2>1. \A k \in made' : k.id < nextId'
    BY <1>1, <1>2, <1>4, <1>5
  <2>2. \A k, l \in made' : k.id = l.id => k = l
    BY <1>1, <1>2, <1>4, <1>5 DEF OInv, IdsAreOwn
  <2>3. \A q \in owners' : \E k \in made' : k.id = q.id /\ k.role = q.role
    BY <1>2, <1>4 DEF OInv, IdsAreOwn
  <2>4. \A q, t \in owners' : q.id = t.id => q = t
    BY <1>1, <1>2, <1>4, <1>6 DEF OInv, IdsAreOwn
  <2>5. QED
    BY <2>1, <2>2, <2>3, <2>4 DEF IdsAreOwn
<1>10. AlwaysAnOwner'
  <2>1. CASE creator = 0
    BY <1>2, <1>4, <2>1 DEF AlwaysAnOwner, OwnerRole
  <2>2. CASE creator # 0
    BY <1>2, <2>2 DEF OInv, AlwaysAnOwner, OwnerRole, OwnerMade
  <2>3. QED
    BY <2>1, <2>2
<1>11. BootstrapFiresOnce'
  BY <1>2, <1>4 DEF OInv, BootstrapFiresOnce
<1>12. AccountsTraceBack'
  <2>1. ASSUME NEW k \in made', k.by # 0
        PROVE  \E l \in made' : l.id = k.by /\ l.id < k.id /\ l.role = "owner"
    <3>1. CASE k \in made
      BY <1>2, <2>1, <3>1 DEF OInv, AccountsTraceBack
    <3>2. CASE k = n
      BY <1>2, <1>4, <1>5, <2>1, <3>2 DEF OwnerMade
    <3>3. QED
      BY <1>2, <3>1, <3>2
  <2>2. QED
    BY <2>1 DEF AccountsTraceBack
<1>13. SessionsHaveOwners' /\ \A i \in OwnerIds' : i \in OwnerIds \/ i = nextId
  BY <1>2, <1>4 DEF OInv, SessionsHaveOwners, OwnerIds
<1>14. QED
  BY <1>2, <1>7, <1>8, <1>9, <1>10, <1>11, <1>12, <1>13 DEF n

\* Another owner-role account is left when there is more than one.
LEMMA AnotherOwner ==
    ASSUME NEW S, NEW x, Cardinality(S) > 1
    PROVE  \E y \in S : y # x
<1>1. SUFFICES ASSUME \A y \in S : y = x PROVE FALSE
  OBVIOUS
<1>2. S = {} \/ S = {x}
  BY <1>1
<1>3. Cardinality(S) \in {0, 1}
  BY <1>2, FS_EmptySet, FS_Singleton
<1>4. QED
  BY <1>3

\* Bootstrap and the owners' handlers that create and delete accounts.
LEMMA AccountSteps ==
    ASSUME OInv,
           \/ BootstrapCreate
           \/ \E p \in Procs, m \in Emails, r \in Granted : CreateOwner(p, m, r)
           \/ \E p \in Procs, o \in owners : DeleteOwner(p, o)
    PROVE  OInv'
<1>a. "owner" \in Roles /\ Granted \subseteq Roles
  BY OwnerAssumption DEF Roles
<1>1. CASE BootstrapCreate
  <2>1. /\ AddOwner(BootEmail, "owner", 0)
        /\ server = "counted" /\ server' \in {"up", "down"}
        /\ UNCHANGED <<sessions, nextSid, req, audit>>
    BY <1>1 DEF BootstrapCreate
  <2>2. made = {} /\ \A p \in Procs : req[p] = NoRequest
    BY <2>1 DEF OInv, StartUp
  <2>3. /\ owners' \subseteq [id : Ids, email : Emails, role : Roles]
        /\ made' \subseteq [id : Ids, role : Roles, by : Ids \cup {0}]
        /\ nextId' \in 1..(MaxOwner + 1) /\ nextId <= nextId' /\ nextId' \in Nat
        /\ made \subseteq made' /\ \A i \in OwnerIds' : i \in OwnerIds \/ i = nextId
        /\ IdsAreOwn' /\ AlwaysAnOwner' /\ BootstrapFiresOnce' /\ AccountsTraceBack'
        /\ SessionsHaveOwners'
    BY <1>a, <2>1, <2>2, AddOwnerEffect, OwnerAssumption
  <2>4. TypeOK'
    BY <2>1, <2>3 DEF OInv, TypeOK
  <2>5. StartUp'
    BY <2>1, <2>2 DEF StartUp
  <2>6. nextId \in Nat /\ audit \subseteq Entries
    BY OwnerAssumption DEF OInv, TypeOK
  <2>7. \A e \in Entries : Truthful(e) => Truthful(e)'
    BY <2>3, <2>6, TruthKept
  <2>8. CallersHadTheRole'
    BY <2>1, <2>2 DEF CallersHadTheRole, NoRequest
  <2>9. \A e \in audit' : Truthful(e)'
    BY <2>1, <2>6, <2>7 DEF OInv, EntriesAreTruthful
  <2>10. \A p \in Procs : req'[p].entry.event = "login"
    BY <2>1, <2>2 DEF NoRequest, Entry
  <2>11. EntriesAreTruthful'
    BY <2>9, <2>10 DEF EntriesAreTruthful, Truthful
  <2>12. QED
    BY <2>3, <2>4, <2>5, <2>8, <2>11 DEF OInv
<1>2. ASSUME NEW p \in Procs, NEW m \in Emails, NEW r \in Granted, CreateOwner(p, m, r) PROVE OInv'
  <2> DEFINE e == Entry("owner_create", req[p].actor, nextId)
             q == Req("fetch", req[p].actor, req[p].sid, e)
  <2>1. /\ AddOwner(m, r, req[p].actor) /\ req[p].at = "create"
        /\ req' = [req EXCEPT ![p].at = "fetch", ![p].entry = e]
        /\ UNCHANGED <<sessions, nextSid, server, audit>>
    BY <1>2 DEF CreateOwner
  <2>2. req \in [Procs -> Requests] /\ req[p] \in Requests
    BY DEF OInv, TypeOK
  <2>3. req[p].actor \in Ids \cup {0} /\ req[p].sid \in Sids \cup {0}
    BY <2>2 DEF Requests
  <2>4. OwnerMade(req[p].actor) /\ req[p].actor # 0 /\ server = "up"
    <3>1. OwnerMade(req[p].actor)
      BY <2>1 DEF OInv, CallersHadTheRole
    <3>2. \A k \in made : k.id # 0
      BY OwnerAssumption DEF OInv, TypeOK, Ids
    <3>3. QED
      BY <2>1, <3>1, <3>2, InFlightIsUp DEF OwnerMade
  <2>5. /\ owners' \subseteq [id : Ids, email : Emails, role : Roles]
        /\ made' \subseteq [id : Ids, role : Roles, by : Ids \cup {0}]
        /\ nextId' \in 1..(MaxOwner + 1) /\ nextId <= nextId' /\ nextId' \in Nat
        /\ made \subseteq made' /\ \A i \in OwnerIds' : i \in OwnerIds \/ i = nextId
        /\ [id |-> nextId, role |-> r, by |-> req[p].actor] \in made'
        /\ IdsAreOwn' /\ AlwaysAnOwner' /\ BootstrapFiresOnce' /\ AccountsTraceBack'
        /\ SessionsHaveOwners'
    BY <1>a, <2>1, <2>3, <2>4, AddOwnerEffect
  <2>6. nextId \in Ids
    BY <2>1, OwnerAssumption DEF OInv, TypeOK, AddOwner, Ids
  <2>7. e \in Entries /\ e.event = "owner_create" /\ e.target = nextId /\ e.actor = req[p].actor
    BY <2>3, <2>6 DEF Entry, Entries
  <2>8. PICK f : f = e
    OBVIOUS
  <2>9. Truthful(f)'
    <3>1. \E k \in made' : k.id = nextId /\ k.by = req[p].actor
      BY <2>5
    <3>2. QED
      BY <2>7, <2>8, <3>1 DEF Truthful
  <2> HIDE DEF e
  <2>10. req' = [req EXCEPT ![p] = q]
    BY <2>1, <2>2, Fetching
  <2>11. q \in Requests /\ q.at = "fetch" /\ q.entry = f
    BY <2>3, <2>7, <2>8 DEF Req, Requests
  <2> HIDE DEF q
  <2>12. CallersHadTheRole' /\ EntriesAreTruthful'
    BY <2>1, <2>5, <2>9, <2>10, <2>11, RequestsKept
  <2>13. TypeOK' /\ StartUp'
    BY <2>1, <2>2, <2>4, <2>5, <2>10, <2>11 DEF OInv, TypeOK, StartUp
  <2>14. QED
    BY <2>5, <2>12, <2>13 DEF OInv
<1>3. ASSUME NEW p \in Procs, NEW o \in owners, DeleteOwner(p, o) PROVE OInv'
  <2> DEFINE e == Entry("owner_delete", req[p].actor, o.id)
             q == Req("record", req[p].actor, req[p].sid, e)
  <2>1. /\ req[p].at = "delete" /\ ThenRecord(p, e)
        /\ o.role = "owner" => Cardinality(OwnerRole) > 1
        /\ owners' = owners \ {o} /\ sessions' = {s \in sessions : s.owner # o.id}
        /\ UNCHANGED <<nextId, nextSid, server, audit, made>>
    BY <1>3 DEF DeleteOwner, Remove
  <2>2. req \in [Procs -> Requests] /\ req[p] \in Requests
    BY DEF OInv, TypeOK
  <2>3. req[p].actor \in Ids \cup {0} /\ req[p].sid \in Sids \cup {0}
    BY <2>2 DEF Requests
  <2>4. OwnerMade(req[p].actor) /\ server = "up"
    BY <2>1, InFlightIsUp DEF OInv, CallersHadTheRole
  <2>5. o.id \in Ids /\ o.id < nextId /\ o.id \notin OwnerIds' /\ OwnerIds' \subseteq OwnerIds
    BY <2>1 DEF OInv, TypeOK, IdsAreOwn, OwnerIds
  <2>6. IdsAreOwn' /\ BootstrapFiresOnce' /\ AccountsTraceBack'
    BY <2>1 DEF OInv, IdsAreOwn, BootstrapFiresOnce, AccountsTraceBack
  <2>7. SessionsHaveOwners'
    BY <2>1 DEF OInv, SessionsHaveOwners, OwnerIds
  <2>8. AlwaysAnOwner'
    <3>1. CASE o.role = "owner"
      <4>1. \E y \in OwnerRole : y # o
        BY <2>1, <3>1, AnotherOwner
      <4>2. QED
        BY <2>1, <4>1 DEF AlwaysAnOwner, OwnerRole
    <3>2. CASE o.role # "owner"
      BY <2>1, <3>2 DEF OInv, AlwaysAnOwner, OwnerRole
    <3>3. QED
      BY <3>1, <3>2
  <2>9. e \in Entries /\ e.event = "owner_delete" /\ e.target = o.id /\ e.actor = req[p].actor
    BY <2>3, <2>5 DEF Entry, Entries
  <2>10. PICK f : f = e
    OBVIOUS
  <2>11. Truthful(f)'
    BY <2>1, <2>4, <2>5, <2>9, <2>10 DEF Truthful, OwnerMade
  <2> HIDE DEF e
  <2>12. req' = [req EXCEPT ![p] = q]
    BY <2>1, <2>2, Recording
  <2>13. q \in Requests /\ q.at = "record" /\ q.entry = f
    BY <2>3, <2>9, <2>10 DEF Req, Requests
  <2> HIDE DEF q
  <2>14. nextId' \in Nat /\ nextId <= nextId' /\ made \subseteq made'
    BY <2>1, OwnerAssumption DEF OInv, TypeOK
  <2>15. CallersHadTheRole' /\ EntriesAreTruthful'
    BY <2>1, <2>5, <2>11, <2>12, <2>13, <2>14, RequestsKept
  <2>16. TypeOK' /\ StartUp'
    BY <2>1, <2>2, <2>4, <2>12, <2>13 DEF OInv, TypeOK, StartUp
  <2>17. QED
    BY <2>6, <2>7, <2>8, <2>15, <2>16 DEF OInv
<1>4. QED
  BY <1>1, <1>2, <1>3

-----------------------------------------------------------------------------
\* An empty database and a process that is not running.
LEMMA InitOwner == Init => OInv
<1> SUFFICES ASSUME Init PROVE OInv
  OBVIOUS
<1>1. NoRequest \in Requests /\ NoRequest.at = "idle" /\ NoRequest.entry.event = "login"
  BY IdleFits DEF Fits, NoRequest, Entry
<1>2. TypeOK
  BY <1>1, OwnerAssumption DEF Init, TypeOK
<1>3. StartUp /\ CallersHadTheRole /\ EntriesAreTruthful
  BY <1>1 DEF Init, StartUp, CallersHadTheRole, EntriesAreTruthful, Truthful
<1>4. IdsAreOwn /\ AlwaysAnOwner /\ BootstrapFiresOnce /\ AccountsTraceBack /\ SessionsHaveOwners
  BY DEF Init, IdsAreOwn, AlwaysAnOwner, BootstrapFiresOnce, AccountsTraceBack, SessionsHaveOwners
<1>5. QED
  BY <1>2, <1>3, <1>4 DEF OInv

\* Every step keeps the invariant.
LEMMA StepOwner == OInv /\ [Next]_vars => OInv'
<1> SUFFICES ASSUME OInv, [Next]_vars PROVE OInv'
  OBVIOUS
<1>1. CASE UNCHANGED vars
  BY <1>1 DEF vars, OInv, TypeOK, IdsAreOwn, StartUp, CallersHadTheRole, EntriesAreTruthful, Truthful,
     OwnerMade, AdminMade, OwnerIds, AlwaysAnOwner, OwnerRole, BootstrapFiresOnce, AccountsTraceBack,
     SessionsHaveOwners
<1>2. ASSUME NEW p \in Procs, RequestStep(p) PROVE OInv'
  BY <1>2, SessionSteps, CallerSteps, AccountSteps DEF RequestStep
<1>3. QED
  BY <1>1, <1>2, ServerSteps, AccountSteps DEF Next

\* The inductive invariant of the owner plane.
THEOREM Inductive == Spec => []OInv
BY InitOwner, StepOwner, PTL DEF Spec

\* DeleteOwner's last-owner rule (OWNR-08): once an account was made, an
\* owner-role one is there, however deletions by several owners, start-ups
\* and crashes interleave.
THEOREM OwnersStay == Spec => []AlwaysAnOwner
<1>1. OInv => AlwaysAnOwner
  BY DEF OInv
<1>2. QED
  BY <1>1, Inductive, PTL

\* Bootstrap (OWNR-02): at most one account is ever made by it.
THEOREM BootstrapOnce == Spec => []BootstrapFiresOnce
<1>1. OInv => BootstrapFiresOnce
  BY DEF OInv
<1>2. QED
  BY <1>1, Inductive, PTL

\* CreateOwner behind requireOwnerRole (OWNR-01, OWNR-06): every account but
\* Bootstrap's was created by an earlier one with the role owner.
THEOREM LineOfOwners == Spec => []AccountsTraceBack
<1>1. OInv => AccountsTraceBack
  BY DEF OInv
<1>2. QED
  BY <1>1, Inductive, PTL

\* The audit trail (OWNR-14, OWNR-15): no entry claims a deletion, a creation
\* or a purge that did not happen, or names an actor who could not do it.
THEOREM TrailTells == Spec => []TrailIsTruthful
<1>1. OInv => TrailIsTruthful
  BY DEF OInv, EntriesAreTruthful, Truthful, TrailIsTruthful, OwnerMade, AdminMade
<1>2. QED
  BY <1>1, Inductive, PTL

\* The foreign key of owner_sessions: no session outlives its account, even
\* one whose login was verified before the deletion.
THEOREM SessionsDie == Spec => []SessionsHaveOwners
<1>1. OInv => SessionsHaveOwners
  BY DEF OInv
<1>2. QED
  BY <1>1, Inductive, PTL

-----------------------------------------------------------------------------
(*                                Migrations                               *)
-----------------------------------------------------------------------------

\* One entry per file, and times that do not run against the names.
FilesUnique(S) == \A r, x \in S : r.file = x.file => r = x
InStep(S) == \A r, x \in S : r.file < x.file => r.at <= x.at

\* The records have the order of the schema, which has one.
RecordsFit ==
    /\ RecordsMatchSchema
    /\ \A r \in records : r.at <= clock
    /\ \A f, g \in schema : f # g => <<f, g>> \in ranBefore \/ <<g, f>> \in ranBefore

\* Which command may be where.
Shape(c) ==
    /\ c.at = "idle" => c = NoCommand
    /\ c.at = "check" => c.op = "up"
    /\ c.at = "scan" => c.op = "to"
    /\ c.at \in {"list", "revert"} => c.op # "up"
    /\ c.at = "apply" => c.op # "down"
    /\ c.at = "list" => c.names = {} /\ c.done = {}
    /\ c.at # "scan" => c.todo = {}

\* The applied files of the directory D beyond the target, when "to" started.
BeyondBefore(c, D) == {r \in c.before : r.file \in D /\ r.file > c.target}

\* A redo that has reverted: the names are the newest of the records it found,
\* and the others are in effect in their order B.
RedoFits(c, R, B) ==
    /\ c.names \subseteq c.before
    /\ \A x \in c.names, r \in c.before \ c.names : Older(r, x)
    /\ FilesOf(R) = FilesOf(c.before \ c.names)
    /\ \A r, x \in c.before \ c.names : r.at < x.at => <<r.file, x.file>> \in B

\* What a "to" has found out, and what it goes by, with the files in order (o).
ToFits(c, D, R, o) ==
    /\ c.target \in D
    /\ c.at = "scan" =>
          /\ c.done \subseteq R /\ FilesOf(c.done) \subseteq D
          /\ \A r \in c.todo : r.file \notin FilesOf(R)
          /\ D \subseteq FilesOf(c.names) \cup FilesOf(c.todo) \cup FilesOf(c.done)
    /\ c.at \in {"list", "revert"} =>
          /\ c.n = Cardinality(BeyondBefore(c, D))
          /\ FilesOf(c.done) \subseteq D
          /\ o => InStep(c.before) /\ \A f \in D : f <= c.target => f \in FilesOf(c.before)
    /\ c.at = "apply" =>
          /\ \A r \in c.names : r.file <= c.target
          /\ o => /\ \A f \in FilesOf(R) : f <= c.target
                  /\ \A f \in D : f <= c.target => f \in FilesOf(R) \cup FilesOf(c.names)

\* A command that is alone knows the records R: they are those it found, less
\* what it has reverted and with what it has applied.
AloneFits(c, D, R, B, o) ==
    /\ FilesUnique(c.before)
    /\ c.at \in {"list", "scan"} => R = c.before
    /\ c.at = "revert" => /\ TakesNewest(c.names \cup c.done, c.before, c.n)
                          /\ c.names \cap c.done = {}
                          /\ R = c.before \ c.done
    /\ c.op = "redo" /\ c.at = "apply" => RedoFits(c, R, B)
    /\ c.op = "to" => ToFits(c, D, R, o)

AloneInv ==
    \A p \in Processes : cmd[p].alone =>
        /\ \A q \in Processes : cmd[q] # NoCommand => q = p
        /\ AloneFits(cmd[p], dir, records, ranBefore, inOrder)

\* Nothing of the directory D below an entry of S is missing from S and not
\* recorded in R.
GapFree(S, D, R) == \A r \in S, g \in D : g < r.file /\ g \notin FilesOf(S) => g \in FilesOf(R)

\* What a command has before it; a revert keeps what a redo will apply again.
Work(c) == c.names \cup (IF c.at = "revert" THEN c.done ELSE c.todo)

\* With the files in order a command works on them in filename order, whichever
\* of the two orders it goes by.
InOrderFits(c, D, R) ==
    /\ FilesUnique(Work(c)) /\ InStep(Work(c)) /\ GapFree(Work(c), D, R)
    /\ c.at = "revert" => /\ c.names \subseteq R
                          /\ \A r \in c.names, x \in R \ c.names : Older(x, r)
                          /\ FilesOf(c.done) \subseteq D
    /\ c.at # "revert" => FilesOf(Work(c)) \subseteq D

InOrderInv ==
    inOrder =>
        /\ \A f \in Applied, g \in dir : g < f => g \in Applied
        /\ InStep(records)
        /\ \A p, q \in Processes : cmd[p] # NoCommand /\ cmd[q] # NoCommand => p = q
        /\ \A p \in Processes : InOrderFits(cmd[p], dir, records)

MigTyped == MigTypeOK /\ \A p \in Processes : Shape(cmd[p])

\* What a down that has come to its end has taken: the first part of
\* DownTakesTheNewest, whose second follows from the invariant.
DownOutcomes ==
    \A c \in outcome : c.op = "down" =>
        records \subseteq c.before /\ TakesNewest(c.before \ records, c.before, c.n)

MigInv == /\ MigTyped /\ RecordsFit /\ AloneInv /\ InOrderInv
          /\ DownOutcomes /\ RedoRestores /\ ToLandsOnTarget

-----------------------------------------------------------------------------
(* Counting, and the fields of a command.                                  *)

\* There are finitely many records, so that they can be counted.
LEMMA RecordsFinite == IsFiniteSet(Records)
<1> DEFINE P == Files \X (0..MaxClock)
           f == [e \in P |-> [file |-> e[1], at |-> e[2]]]
<1>1. IsFiniteSet(0..MaxClock)
  BY FS_Interval, MigrationsAssumption
<1>2. IsFiniteSet(P)
  BY <1>1, FS_Product, MigrationsAssumption
<1>3. f \in [P -> Records]
  BY DEF Records
<1>4. ASSUME NEW r \in Records PROVE \E e \in P : f[e] = r
  <2>1. <<r.file, r.at>> \in P /\ r = [file |-> r.file, at |-> r.at]
    BY DEF Records
  <2>2. f[<<r.file, r.at>>] = r
    BY <2>1
  <2> QED BY <2>1, <2>2
<1>5. f \in Surjection(P, Records)
  BY <1>3, <1>4 DEF Surjection
<1> QED BY <1>2, <1>5, FS_Surjection

\* Every set of records has a size.
LEMMA Counted ==
    ASSUME NEW S \in SUBSET Records
    PROVE  IsFiniteSet(S) /\ Cardinality(S) \in Nat
BY RecordsFinite, FS_Subset, FS_CardinalityType

\* What a record is.
LEMMA RecordTyped ==
    ASSUME NEW r \in Records
    PROVE  r.file \in Nat /\ r.file \in Files /\ r.at \in Nat /\ r = [file |-> r.file, at |-> r.at]
<1>1. r.file \in Files /\ r.at \in 0..MaxClock /\ r = [file |-> r.file, at |-> r.at]
  BY DEF Records
<1>2. r.file \in Nat /\ r.at \in Nat
  BY <1>1, MigrationsAssumption
<1> QED BY <1>1, <1>2

\* No command is one.
LEMMA IdleTyped ==
    /\ NoCommand \in Commands /\ Shape(NoCommand)
    /\ NoCommand.at = "idle" /\ ~NoCommand.alone
    /\ NoCommand.names = {} /\ NoCommand.done = {} /\ NoCommand.todo = {}
<1>1. (CHOOSE f \in Files : TRUE) \in Files
  BY MigrationsAssumption
<1>2. {} \in SUBSET Records /\ 0 \in Nat
  OBVIOUS
<1> QED BY <1>1, <1>2 DEF NoCommand, Commands, Shape

\* A command without its claim to be alone.
Quiet(c) == IF c = NoCommand THEN NoCommand ELSE [c EXCEPT !.alone = FALSE, !.before = {}]

\* It is a command like before in everything else.
LEMMA QuietTyped ==
    ASSUME NEW c \in Commands, Shape(c)
    PROVE  /\ Quiet(c) \in Commands /\ Shape(Quiet(c)) /\ ~Quiet(c).alone
           /\ Quiet(c) = NoCommand <=> c = NoCommand
           /\ Quiet(c).at = c.at /\ Quiet(c).names = c.names
           /\ Quiet(c).done = c.done /\ Quiet(c).todo = c.todo
<1>1. CASE c = NoCommand
  BY <1>1, IdleTyped DEF Quiet
<1>2. CASE c # NoCommand
  <2>1. c.at # "idle"
    BY <1>2 DEF Shape
  <2>2. Quiet(c) = [c EXCEPT !.alone = FALSE, !.before = {}]
    BY <1>2 DEF Quiet
  <2>3. Quiet(c) \in Commands /\ ~Quiet(c).alone /\ Quiet(c).at = c.at /\ Quiet(c).op = c.op
        /\ Quiet(c).names = c.names /\ Quiet(c).done = c.done /\ Quiet(c).todo = c.todo
    BY <2>2 DEF Commands
  <2>4. Quiet(c) # NoCommand
    BY <2>1, <2>3, IdleTyped
  <2>5. Shape(Quiet(c))
    BY <2>1, <2>3 DEF Shape
  <2> QED BY <2>3, <2>4, <2>5, <1>2
<1> QED BY <1>1, <1>2

\* What a running command becomes: where it is, how many it reverts, what it
\* has to do and has done change, and the rest stays.
Becomes(c, d, a, n, N, D, T) ==
    /\ d \in Commands /\ d # NoCommand
    /\ d.at = a /\ d.n = n /\ d.names = N /\ d.done = D /\ d.todo = T
    /\ d.op = c.op /\ d.target = c.target /\ d.before = c.before /\ d.alone = c.alone

\* The changes the steps make, in that form.
LEMMA Changes ==
    ASSUME NEW c \in Commands, c # NoCommand, Shape(c)
    PROVE  /\ Becomes(c, c, c.at, c.n, c.names, c.done, c.todo)
           /\ \A N \in SUBSET Records :
                 Becomes(c, [c EXCEPT !.names = N], c.at, c.n, N, c.done, c.todo)
           /\ Becomes(c, [c EXCEPT !.at = "apply"], "apply", c.n, c.names, c.done, c.todo)
           /\ \A r : Becomes(c, AfterApply(c, r), IF c.op = "up" THEN "check" ELSE "apply", c.n,
                             c.names \ {r}, c.done, c.todo)
           /\ \A N \in SUBSET Records :
                 Becomes(c, [c EXCEPT !.at = "revert", !.names = N], "revert", c.n, N, c.done, c.todo)
           /\ \A r \in Records :
                 IF c.names = {r} /\ c.op = "redo"
                 THEN Becomes(c, AfterRevert(c, r), "apply", c.n, c.done \cup {r}, {}, c.todo)
                 ELSE Becomes(c, AfterRevert(c, r), c.at, c.n, c.names \ {r}, c.done \cup {r}, c.todo)
           /\ \A N, D, T \in SUBSET Records :
                 Becomes(c, [c EXCEPT !.names = N, !.done = D, !.todo = T], c.at, c.n, N, D, T)
           /\ \A a \in {"list", "apply"}, n \in Nat, N \in SUBSET Records :
                 Becomes(c, Settle(c, a, n, N), a, n, N, {}, {})
<1> USE IdleTyped
<1>0. c.at \in {"check", "apply", "list", "revert", "scan"}
  BY DEF Shape, Commands
<1>1. Becomes(c, c, c.at, c.n, c.names, c.done, c.todo)
  BY DEF Becomes, Commands
<1>2. \A N \in SUBSET Records :
         Becomes(c, [c EXCEPT !.names = N], c.at, c.n, N, c.done, c.todo)
  BY <1>0 DEF Becomes, Commands
<1>3. Becomes(c, [c EXCEPT !.at = "apply"], "apply", c.n, c.names, c.done, c.todo)
  BY DEF Becomes, Commands
<1>4. ASSUME NEW r
      PROVE Becomes(c, AfterApply(c, r), IF c.op = "up" THEN "check" ELSE "apply", c.n,
                    c.names \ {r}, c.done, c.todo)
  BY DEF Becomes, Commands, AfterApply
<1>5. \A N \in SUBSET Records :
         Becomes(c, [c EXCEPT !.at = "revert", !.names = N], "revert", c.n, N, c.done, c.todo)
  BY DEF Becomes, Commands
<1>6. ASSUME NEW r \in Records
      PROVE IF c.names = {r} /\ c.op = "redo"
            THEN Becomes(c, AfterRevert(c, r), "apply", c.n, c.done \cup {r}, {}, c.todo)
            ELSE Becomes(c, AfterRevert(c, r), c.at, c.n, c.names \ {r}, c.done \cup {r}, c.todo)
  <2>1. Becomes(c, [c EXCEPT !.at = "apply", !.names = c.done \cup {r}, !.done = {}],
                "apply", c.n, c.done \cup {r}, {}, c.todo)
    BY DEF Becomes, Commands
  <2>2. Becomes(c, [c EXCEPT !.names = @ \ {r}, !.done = @ \cup {r}],
                c.at, c.n, c.names \ {r}, c.done \cup {r}, c.todo)
    BY <1>0 DEF Becomes, Commands
  <2> QED BY <2>1, <2>2 DEF AfterRevert
<1>7. ASSUME NEW N \in SUBSET Records, NEW D \in SUBSET Records, NEW T \in SUBSET Records
      PROVE Becomes(c, [c EXCEPT !.names = N, !.done = D, !.todo = T], c.at, c.n, N, D, T)
  BY <1>0 DEF Becomes, Commands
<1>8. ASSUME NEW a \in {"list", "apply"}, NEW n \in Nat, NEW N \in SUBSET Records
      PROVE Becomes(c, Settle(c, a, n, N), a, n, N, {}, {})
  <2>1. Settle(c, a, n, N) \in Commands
    BY DEF Commands, Settle
  <2>2. /\ Settle(c, a, n, N).at = a /\ Settle(c, a, n, N).n = n /\ Settle(c, a, n, N).names = N
        /\ Settle(c, a, n, N).done = {} /\ Settle(c, a, n, N).todo = {}
    BY DEF Commands, Settle
  <2>3. /\ Settle(c, a, n, N).op = c.op /\ Settle(c, a, n, N).target = c.target
        /\ Settle(c, a, n, N).before = c.before /\ Settle(c, a, n, N).alone = c.alone
    BY DEF Commands, Settle
  <2> QED BY <2>1, <2>2, <2>3 DEF Becomes
<1> QED BY <1>1, <1>2, <1>3, <1>4, <1>5, <1>6, <1>7, <1>8

\* A command that starts.
Begun(d, a, o, n, N, B, b) ==
    /\ d \in Commands /\ d # NoCommand
    /\ d.at = a /\ d.op = o /\ d.n = n /\ d.names = N /\ d.done = {} /\ d.todo = {}
    /\ d.before = B /\ d.alone = b

\* The three ways to start one, as Start completes them.
LEMMA BeginUp ==
    ASSUME NEW B \in SUBSET Records, NEW b \in BOOLEAN, NEW N \in SUBSET Records
    PROVE  LET c == [NoCommand EXCEPT !.at = "check", !.op = "up", !.names = N]
           IN  Begun([c EXCEPT !.before = B, !.alone = b], "check", "up", 0, N, B, b)
<1> DEFINE c == [NoCommand EXCEPT !.at = "check", !.op = "up", !.names = N]
<1>0. NoCommand.n = 0
  BY DEF NoCommand
<1>1. /\ c \in Commands /\ c.at = "check" /\ c.op = "up" /\ c.n = 0
      /\ c.names = N /\ c.done = {} /\ c.todo = {}
  BY <1>0, IdleTyped DEF Commands
<1> HIDE DEF c
<1>2. Begun([c EXCEPT !.before = B, !.alone = b], "check", "up", 0, N, B, b)
  BY <1>1, IdleTyped DEF Begun, Commands
<1> QED BY <1>2 DEF c

\* down and redo, which list before they revert.
LEMMA BeginDown ==
    ASSUME NEW B \in SUBSET Records, NEW b \in BOOLEAN, NEW op \in {"down", "redo"}, NEW n \in Nat
    PROVE  LET c == [NoCommand EXCEPT !.at = "list", !.op = op, !.n = n]
           IN  Begun([c EXCEPT !.before = B, !.alone = b], "list", op, n, {}, B, b)
<1> DEFINE c == [NoCommand EXCEPT !.at = "list", !.op = op, !.n = n]
<1>1. /\ c \in Commands /\ c.at = "list" /\ c.op = op /\ c.n = n
      /\ c.names = {} /\ c.done = {} /\ c.todo = {}
  BY IdleTyped DEF Commands
<1> HIDE DEF c
<1>2. Begun([c EXCEPT !.before = B, !.alone = b], "list", op, n, {}, B, b)
  BY <1>1, IdleTyped DEF Begun, Commands
<1> QED BY <1>2 DEF c

BegunTo(d, t, N, B, b) == Begun(d, "scan", "to", 0, N, B, b) /\ d.target = t

\* to, which scans the directory.
LEMMA BeginTo ==
    ASSUME NEW B \in SUBSET Records, NEW b \in BOOLEAN, NEW N \in SUBSET Records, NEW t \in Files
    PROVE  LET c == [NoCommand EXCEPT !.at = "scan", !.op = "to", !.target = t, !.names = N]
               d == [c EXCEPT !.before = B, !.alone = b]
           IN  BegunTo(d, t, N, B, b)
<1> DEFINE c == [NoCommand EXCEPT !.at = "scan", !.op = "to", !.target = t, !.names = N]
<1>0. NoCommand.n = 0
  BY DEF NoCommand
<1>1. c \in Commands /\ c.at = "scan" /\ c.op = "to" /\ c.n = 0 /\ c.target = t
  BY <1>0, IdleTyped DEF Commands
<1>2. c.names = N /\ c.done = {} /\ c.todo = {}
  BY IdleTyped DEF Commands
<1> HIDE DEF c
<1>3. Begun([c EXCEPT !.before = B, !.alone = b], "scan", "to", 0, N, B, b)
  BY <1>1, <1>2, IdleTyped DEF Begun, Commands
<1>4. [c EXCEPT !.before = B, !.alone = b].target = t
  BY <1>1 DEF Commands
<1> QED BY <1>3, <1>4 DEF c, BegunTo

-----------------------------------------------------------------------------
(* Types.                                                                  *)

CmdTyped == cmd \in [Processes -> Commands] /\ \A p \in Processes : Shape(cmd[p])

\* A running command is the one at its statement.
LEMMA Running ==
    ASSUME CmdTyped, NEW p \in Processes
    PROVE  /\ cmd[p] \in Commands /\ Shape(cmd[p])
           /\ cmd[p] # NoCommand <=> cmd[p].at # "idle"
BY IdleTyped DEF CmdTyped, Shape

\* Only the process that moves changes its command.
LEMMA MoveTyped ==
    ASSUME CmdTyped, NEW p \in Processes, NEW d \in Commands, Shape(d),
           cmd' = [cmd EXCEPT ![p] = d]
    PROVE  CmdTyped' /\ cmd'[p] = d /\ \A q \in Processes : q # p => cmd'[q] = cmd[q]
BY DEF CmdTyped

\* A command goes on, or ends.
LEMMA ContinueTyped ==
    ASSUME CmdTyped, NEW p \in Processes, NEW d \in Commands, NEW over \in BOOLEAN, over \/ Shape(d),
           Continue(p, d, over)
    PROVE  /\ CmdTyped' /\ (outcome \subseteq Commands)'
           /\ cmd'[p] = IF over THEN NoCommand ELSE d
           /\ \A q \in Processes : q # p => cmd'[q] = cmd[q]
<1>1. outcome' \subseteq Commands
  BY DEF Continue
<1>2. cmd' = [cmd EXCEPT ![p] = IF over THEN NoCommand ELSE d]
  BY DEF Continue
<1>3. CASE over
  BY <1>1, <1>2, <1>3, MoveTyped, IdleTyped
<1>4. CASE ~over
  BY <1>1, <1>2, <1>4, MoveTyped
<1> QED BY <1>3, <1>4

\* What the others' commands become when one is disturbed.
LEMMA DisturbedTyped ==
    ASSUME CmdTyped
    PROVE  /\ Disturbed = [q \in Processes |-> Quiet(cmd[q])]
           /\ Disturbed \in [Processes -> Commands]
           /\ \A q \in Processes : Shape(Disturbed[q])
<1>1. Disturbed = [q \in Processes |-> Quiet(cmd[q])]
  BY DEF Disturbed, Quiet
<1>2. ASSUME NEW q \in Processes PROVE Quiet(cmd[q]) \in Commands /\ Shape(Quiet(cmd[q]))
  BY QuietTyped, Running
<1> QED BY <1>1, <1>2

\* A change of the directory disturbs every command.
LEMMA FilesChangeTyped ==
    ASSUME CmdTyped, FilesChange
    PROVE  CmdTyped' /\ \A q \in Processes : cmd'[q] = Quiet(cmd[q])
<1>1. cmd' = Disturbed
  BY DEF FilesChange
<1> QED BY <1>1, DisturbedTyped DEF CmdTyped

\* The listing of the directory.
LEMMA ListingTyped ==
    ASSUME dir \subseteq Files
    PROVE  /\ Listing \in SUBSET Records /\ FilesOf(Listing) = dir
           /\ \A r \in Listing : r.at = 0 /\ r.file \in dir /\ r = [file |-> r.file, at |-> 0]
<1>1. 0 \in 0..MaxClock
  BY MigrationsAssumption
<1>2. \A r \in Listing : r.at = 0 /\ r.file \in dir /\ r = [file |-> r.file, at |-> 0]
  BY DEF Listing
<1>3. Listing \in SUBSET Records
  BY <1>1 DEF Listing, Records
<1>4. ASSUME NEW f \in dir PROVE f \in FilesOf(Listing)
  <2>1. [file |-> f, at |-> 0] \in Listing /\ [file |-> f, at |-> 0].file = f
    BY DEF Listing
  <2> QED BY <2>1 DEF FilesOf
<1>5. FilesOf(Listing) \subseteq dir
  BY <1>2 DEF FilesOf
<1> QED BY <1>2, <1>3, <1>4, <1>5

\* The start of a command.
LEMMA StartForm ==
    ASSUME MigTyped, NEW p \in Processes, NEW c, Start(p, c),
           NEW d \in Commands, Shape(d), d # NoCommand,
           d = [c EXCEPT !.before = IF Nobody THEN records ELSE {}, !.alone = Nobody]
    PROVE  /\ CmdTyped' /\ cmd'[p] = d /\ cmd[p] = NoCommand
           /\ \A q \in Processes : q # p => cmd'[q] = Quiet(cmd[q])
<1>1. CmdTyped
  BY DEF MigTyped, MigTypeOK, CmdTyped
<1>2. cmd' = [Disturbed EXCEPT ![p] = d] /\ cmd[p] = NoCommand
  BY DEF Start
<1>3. cmd'[p] = d /\ \A q \in Processes : q # p => cmd'[q] = Disturbed[q]
  BY <1>1, <1>2, DisturbedTyped
<1>4. CmdTyped'
  BY <1>1, <1>2, <1>3, DisturbedTyped DEF CmdTyped
<1> QED BY <1>1, <1>2, <1>3, <1>4, DisturbedTyped

\* Every start, with the command it starts.
StartOf(p, d) ==
    /\ cmd[p] = NoCommand /\ CmdTyped' /\ cmd'[p] = d
    /\ \A q \in Processes : q # p => cmd'[q] = Quiet(cmd[q])
    /\ inOrder' = (inOrder /\ Nobody) /\ ordinary' = (ordinary /\ Nobody) /\ outcome' = {}
    /\ UNCHANGED <<dir, records, schema, ranBefore, clock>>
    /\ \/ Begun(d, "check", "up", 0, Listing, IF Nobody THEN records ELSE {}, Nobody)
       \/ \E op \in {"down", "redo"}, n \in Nat :
             Begun(d, "list", op, n, {}, IF Nobody THEN records ELSE {}, Nobody)
       \/ /\ Begun(d, "scan", "to", 0, Listing, IF Nobody THEN records ELSE {}, Nobody)
          /\ d.target \in dir

\* up, down, redo and to start so.
LEMMA Starts ==
    ASSUME MigTyped, NEW p \in Processes,
           \/ Up(p)
           \/ \E op \in {"down", "redo"}, n \in 1..MaxRevert : DownOrRedo(p, op, n)
           \/ \E t \in Files : To(p, t)
    PROVE  \E d \in Commands : StartOf(p, d)
<1> DEFINE B == IF Nobody THEN records ELSE {}
<1>1. /\ B \in SUBSET Records /\ Nobody \in BOOLEAN /\ Listing \in SUBSET Records
  BY ListingTyped DEF MigTyped, MigTypeOK, Nobody
<1>2. CASE Up(p)
  <2> DEFINE c == [NoCommand EXCEPT !.at = "check", !.op = "up", !.names = Listing]
             d == [c EXCEPT !.before = B, !.alone = Nobody]
  <2>1. Begun(d, "check", "up", 0, Listing, B, Nobody)
    BY <1>1, BeginUp
  <2>2. Start(p, c)
    BY <1>2 DEF Up
  <2>3. d \in Commands /\ Shape(d) /\ d # NoCommand
    BY <2>1 DEF Begun, Shape
  <2> HIDE DEF c
  <2>4. CmdTyped' /\ cmd'[p] = d /\ cmd[p] = NoCommand
        /\ \A q \in Processes : q # p => cmd'[q] = Quiet(cmd[q])
    BY <2>2, <2>3, StartForm
  <2> HIDE DEF d
  <2>5. StartOf(p, d)
    BY <2>1, <2>2, <2>4 DEF StartOf, Start
  <2> QED BY <2>3, <2>5
<1>3. CASE \E op \in {"down", "redo"}, n \in 1..MaxRevert : DownOrRedo(p, op, n)
  <2> PICK op \in {"down", "redo"}, n \in 1..MaxRevert : DownOrRedo(p, op, n)
    BY <1>3
  <2> DEFINE c == [NoCommand EXCEPT !.at = "list", !.op = op, !.n = n]
             d == [c EXCEPT !.before = B, !.alone = Nobody]
  <2>0. n \in Nat
    BY MigrationsAssumption
  <2>1. Begun(d, "list", op, n, {}, B, Nobody)
    BY <1>1, <2>0, BeginDown
  <2>2. Start(p, c)
    BY DEF DownOrRedo
  <2>3. d \in Commands /\ Shape(d) /\ d # NoCommand
    BY <2>1 DEF Begun, Shape
  <2> HIDE DEF c
  <2>4. CmdTyped' /\ cmd'[p] = d /\ cmd[p] = NoCommand
        /\ \A q \in Processes : q # p => cmd'[q] = Quiet(cmd[q])
    BY <2>2, <2>3, StartForm
  <2> HIDE DEF d
  <2>5. StartOf(p, d)
    BY <2>0, <2>1, <2>2, <2>4 DEF StartOf, Start
  <2> QED BY <2>3, <2>5
<1>4. CASE \E t \in Files : To(p, t)
  <2> PICK t \in Files : To(p, t)
    BY <1>4
  <2> DEFINE c == [NoCommand EXCEPT !.at = "scan", !.op = "to", !.target = t, !.names = Listing]
             d == [c EXCEPT !.before = B, !.alone = Nobody]
  <2>a. BegunTo(d, t, Listing, B, Nobody)
    BY <1>1, BeginTo
  <2>1. Begun(d, "scan", "to", 0, Listing, B, Nobody) /\ d.target = t
    BY <2>a DEF BegunTo
  <2>2. Start(p, c) /\ t \in dir
    BY DEF To
  <2>3. d \in Commands /\ Shape(d) /\ d # NoCommand
    BY <2>1 DEF Begun, Shape
  <2> HIDE DEF c
  <2>4. CmdTyped' /\ cmd'[p] = d /\ cmd[p] = NoCommand
        /\ \A q \in Processes : q # p => cmd'[q] = Quiet(cmd[q])
    BY <2>2, <2>3, StartForm
  <2> HIDE DEF d
  <2>5. StartOf(p, d)
    BY <2>1, <2>2, <2>4 DEF StartOf, Start
  <2> QED BY <2>3, <2>5
<1> QED BY <1>2, <1>3, <1>4

\* A check skips a recorded file, or goes on to apply it.
LEMMA CheckEffect ==
    ASSUME CmdTyped, NEW p \in Processes, Check(p)
    PROVE  \E r \in cmd[p].names, d \in Commands :
              /\ cmd[p].at = "check" /\ cmd[p] # NoCommand
              /\ Oldest(r, cmd[p].names) /\ r \in Records
              /\ cmd' = [cmd EXCEPT ![p] = d] /\ outcome' = {}
              /\ IF r.file \in Applied
                 THEN Becomes(cmd[p], d, "check", cmd[p].n, cmd[p].names \ {r}, cmd[p].done, cmd[p].todo)
                 ELSE Becomes(cmd[p], d, "apply", cmd[p].n, cmd[p].names, cmd[p].done, cmd[p].todo)
<1> DEFINE c == cmd[p]
<1>0. cmd \in [Processes -> Commands] /\ c \in Commands /\ Shape(c) /\ c.at = "check" /\ c # NoCommand
  BY Running DEF Check, CmdTyped
<1>1. PICK r \in c.names :
        /\ Oldest(r, c.names)
        /\ cmd' = IF r.file \in Applied THEN [cmd EXCEPT ![p].names = @ \ {r}]
                                       ELSE [cmd EXCEPT ![p].at = "apply"]
  BY DEF Check
<1>2. r \in Records /\ c.names \ {r} \in SUBSET Records
  BY <1>0 DEF Commands
<1>3. CASE r.file \in Applied
  <2> DEFINE d == [c EXCEPT !.names = c.names \ {r}]
  <2>1. Becomes(c, d, c.at, c.n, c.names \ {r}, c.done, c.todo)
    BY <1>0, <1>2, Changes
  <2>2. cmd' = [cmd EXCEPT ![p] = d]
    BY <1>0, <1>1, <1>3
  <2>3. d \in Commands
    BY <2>1 DEF Becomes
  <2> HIDE DEF d
  <2> QED BY <1>0, <1>1, <1>2, <1>3, <2>1, <2>2, <2>3 DEF Check
<1>4. CASE r.file \notin Applied
  <2> DEFINE d == [c EXCEPT !.at = "apply"]
  <2>1. Becomes(c, d, "apply", c.n, c.names, c.done, c.todo)
    BY <1>0, Changes
  <2>2. cmd' = [cmd EXCEPT ![p] = d]
    BY <1>0, <1>1, <1>4
  <2>3. d \in Commands
    BY <2>1 DEF Becomes
  <2> HIDE DEF d
  <2> QED BY <1>0, <1>1, <1>2, <1>4, <2>1, <2>2, <2>3 DEF Check
<1> QED BY <1>3, <1>4

\* The records of one file.
Found(r) == {x \in records : x.file = r.file}

\* A look at one file of the directory.
LEMMA ScanEffect ==
    ASSUME CmdTyped, records \subseteq Records, NEW p \in Processes, Scan(p)
    PROVE  \E r \in cmd[p].names, d \in Commands :
              /\ cmd[p].at = "scan" /\ cmd[p] # NoCommand
              /\ r \in Records /\ r.file \in dir
              /\ cmd' = [cmd EXCEPT ![p] = d] /\ outcome' = {}
              /\ Becomes(cmd[p], d, "scan", cmd[p].n, cmd[p].names \ {r}, cmd[p].done \cup Found(r),
                         IF Found(r) = {} THEN cmd[p].todo \cup {r} ELSE cmd[p].todo)
<1> DEFINE c == cmd[p]
<1>0. cmd \in [Processes -> Commands] /\ c \in Commands /\ Shape(c) /\ c.at = "scan" /\ c # NoCommand
  BY Running DEF Scan, CmdTyped
<1>1. PICK r \in c.names :
        /\ r.file \in dir
        /\ cmd' = [cmd EXCEPT ![p].names = @ \ {r}, ![p].done = @ \cup Found(r),
                              ![p].todo = IF Found(r) = {} THEN @ \cup {r} ELSE @]
  BY DEF Scan, Found
<1> DEFINE N == c.names \ {r}
           D == c.done \cup Found(r)
           T == IF Found(r) = {} THEN c.todo \cup {r} ELSE c.todo
           d == [c EXCEPT !.names = N, !.done = D, !.todo = T]
<1>2. r \in Records /\ N \in SUBSET Records /\ D \in SUBSET Records /\ T \in SUBSET Records
  BY <1>0 DEF Commands, Found
<1>3. cmd' = [cmd EXCEPT ![p] = d]
  BY <1>0, <1>1
<1> HIDE DEF N, D, T
<1>4. Becomes(c, d, c.at, c.n, N, D, T)
  BY <1>0, <1>2, Changes
<1>5. d \in Commands
  BY <1>4 DEF Becomes
<1> HIDE DEF d
<1>6. Becomes(c, d, "scan", c.n, c.names \ {r}, c.done \cup Found(r),
              IF Found(r) = {} THEN c.todo \cup {r} ELSE c.todo)
  BY <1>0, <1>4 DEF N, D, T
<1>7. r.file \in dir /\ outcome' = {}
  BY <1>1 DEF Scan
<1> HIDE DEF c
<1> QED BY <1>0, <1>2, <1>3, <1>5, <1>6, <1>7 DEF c

\* Shapes along the way.
LEMMA ShapeKept ==
    ASSUME NEW c \in Commands, Shape(c), NEW d, NEW a, NEW n, NEW N, NEW D, NEW T,
           Becomes(c, d, a, n, N, D, T), c.at # "idle",
           \/ a = c.at /\ a # "list" /\ T = c.todo
           \/ a = "scan" /\ c.at = "scan"
           \/ a = "apply" /\ c.op # "down" /\ T = {}
           \/ a = "check" /\ c.op = "up" /\ T = {}
           \/ a = "revert" /\ c.op # "up" /\ T = {}
           \/ a = "list" /\ c.op # "up" /\ T = {} /\ N = {} /\ D = {}
    PROVE  Shape(d)
BY DEF Shape, Becomes

\* Types are kept.
LEMMA TypedStep == MigTyped /\ [MigNext]_migVars => MigTyped'
<1> SUFFICES ASSUME MigTyped, [MigNext]_migVars PROVE MigTyped'
  OBVIOUS
<1>0. /\ CmdTyped /\ dir \subseteq Files /\ records \subseteq Records /\ schema \subseteq Files
      /\ ranBefore \subseteq schema \X schema /\ clock \in 0..MaxClock
      /\ outcome \subseteq Commands /\ inOrder \in BOOLEAN /\ ordinary \in BOOLEAN
  BY DEF MigTyped, MigTypeOK, CmdTyped
<1>1. ASSUME NEW f \in Files,
             NewMigrationFile(f) \/ NewOutgrowsPadding(f) \/ MergeFile(f) \/ RemoveFile(f)
      PROVE MigTyped'
  <2>1. FilesChange /\ dir' \subseteq Files /\ inOrder' \in BOOLEAN /\ ordinary' \in BOOLEAN
    BY <1>0, <1>1 DEF NewMigrationFile, NewOutgrowsPadding, MergeFile, RemoveFile
  <2>2. CmdTyped'
    BY <1>0, <2>1, FilesChangeTyped
  <2> QED BY <1>0, <2>1, <2>2 DEF MigTyped, MigTypeOK, CmdTyped, FilesChange
<1>2. ASSUME Tick PROVE MigTyped'
  <2>1. clock' \in 0..MaxClock
    BY <1>0, <1>2, MigrationsAssumption DEF Tick
  <2> QED BY <1>0, <1>2, <2>1 DEF MigTyped, MigTypeOK, CmdTyped, Tick
<1>3. ASSUME NEW p \in Processes,
             \/ Up(p)
             \/ \E op \in {"down", "redo"}, n \in 1..MaxRevert : DownOrRedo(p, op, n)
             \/ \E t \in Files : To(p, t)
      PROVE MigTyped'
  <2>1. PICK d \in Commands : StartOf(p, d)
    BY <1>3, Starts
  <2> QED BY <1>0, <2>1 DEF StartOf, MigTyped, MigTypeOK, CmdTyped
<1>4. ASSUME NEW p \in Processes, Check(p) PROVE MigTyped'
  <2> DEFINE c == cmd[p]
  <2>1. c \in Commands /\ Shape(c)
    BY <1>0, Running
  <2>2. PICK r \in c.names, d \in Commands :
              /\ c.at = "check" /\ cmd' = [cmd EXCEPT ![p] = d] /\ outcome' = {}
              /\ IF r.file \in Applied
                 THEN Becomes(c, d, "check", c.n, c.names \ {r}, c.done, c.todo)
                 ELSE Becomes(c, d, "apply", c.n, c.names, c.done, c.todo)
    BY <1>0, <1>4, CheckEffect
  <2>3. Shape(d)
    BY <2>1, <2>2, ShapeKept DEF Shape
  <2>4. CmdTyped'
    BY <1>0, <2>2, <2>3, MoveTyped
  <2> QED BY <1>0, <1>4, <2>2, <2>4 DEF MigTyped, MigTypeOK, CmdTyped, Check
<1>5. ASSUME NEW p \in Processes, UpToDate(p) PROVE MigTyped'
  <2>1. cmd[p] \in Commands /\ Continue(p, cmd[p], TRUE)
    BY <1>0, <1>5, Running DEF UpToDate
  <2>2. CmdTyped' /\ (outcome \subseteq Commands)'
    BY <1>0, <2>1, ContinueTyped
  <2> QED BY <1>0, <1>5, <2>2 DEF MigTyped, MigTypeOK, CmdTyped, UpToDate
<1>6. ASSUME NEW p \in Processes, Apply(p) PROVE MigTyped'
  <2> DEFINE c == cmd[p]
  <2>1. c \in Commands /\ Shape(c) /\ c # NoCommand /\ c.at = "apply"
    BY <1>0, <1>6, Running DEF Apply
  <2>2. PICK r \in c.names :
          /\ r.file \in dir \ Applied
          /\ schema' = schema \cup {r.file}
          /\ ranBefore' = ranBefore \cup (schema \X {r.file})
          /\ records' = records \cup {[file |-> r.file, at |-> clock]}
          /\ Continue(p, AfterApply(c, r), c.op # "up" /\ c.names = {r})
    BY <1>6 DEF Apply
  <2>3. Becomes(c, AfterApply(c, r), IF c.op = "up" THEN "check" ELSE "apply", c.n,
                c.names \ {r}, c.done, c.todo)
    BY <2>1, Changes
  <2>4. Shape(AfterApply(c, r)) /\ AfterApply(c, r) \in Commands
    BY <2>1, <2>3, ShapeKept DEF Becomes, Shape
  <2>5. CmdTyped' /\ (outcome \subseteq Commands)'
    BY <1>0, <2>2, <2>4, ContinueTyped
  <2>6. records' \subseteq Records /\ schema' \subseteq Files /\ ranBefore' \subseteq schema' \X schema'
    BY <1>0, <2>2 DEF Records
  <2> QED BY <1>0, <1>6, <2>5, <2>6 DEF MigTyped, MigTypeOK, CmdTyped, Apply
<1>7. ASSUME NEW p \in Processes, ListNewest(p) PROVE MigTyped'
  <2> DEFINE c == cmd[p]
  <2>1. c \in Commands /\ Shape(c) /\ c # NoCommand /\ c.at = "list"
    BY <1>0, <1>7, Running DEF ListNewest
  <2>2. PICK N \in SUBSET records : Continue(p, [c EXCEPT !.at = "revert", !.names = N], N = {})
    BY <1>7 DEF ListNewest
  <2>3. Becomes(c, [c EXCEPT !.at = "revert", !.names = N], "revert", c.n, N, c.done, c.todo)
    BY <1>0, <2>1, Changes
  <2>4. Shape([c EXCEPT !.at = "revert", !.names = N]) /\ [c EXCEPT !.at = "revert", !.names = N] \in Commands
    BY <2>1, <2>3, ShapeKept DEF Becomes, Shape
  <2>5. CmdTyped' /\ (outcome \subseteq Commands)'
    BY <1>0, <2>2, <2>4, ContinueTyped
  <2> QED BY <1>0, <1>7, <2>5 DEF MigTyped, MigTypeOK, CmdTyped, ListNewest
<1>8. ASSUME NEW p \in Processes, Revert(p) PROVE MigTyped'
  <2> DEFINE c == cmd[p]
  <2>1. c \in Commands /\ Shape(c) /\ c # NoCommand /\ c.at = "revert" /\ c.op # "up" /\ c.todo = {}
    BY <1>0, <1>8, Running DEF Revert, Shape
  <2>2. PICK r \in c.names :
          /\ Drop(r.file)
          /\ Continue(p, AfterRevert(c, r), c.names = {r} /\ c.op # "redo")
    BY <1>8 DEF Revert
  <2>a. r \in Records
    BY <2>1 DEF Commands
  <2>3. IF c.names = {r} /\ c.op = "redo"
        THEN Becomes(c, AfterRevert(c, r), "apply", c.n, c.done \cup {r}, {}, c.todo)
        ELSE Becomes(c, AfterRevert(c, r), c.at, c.n, c.names \ {r}, c.done \cup {r}, c.todo)
    BY <2>1, <2>a, Changes
  <2>4. Shape(AfterRevert(c, r)) /\ AfterRevert(c, r) \in Commands
    BY <2>1, <2>3, ShapeKept DEF Becomes
  <2>5. CmdTyped' /\ (outcome \subseteq Commands)'
    BY <1>0, <2>2, <2>4, ContinueTyped
  <2>6. records' \subseteq Records /\ schema' \subseteq Files /\ ranBefore' \subseteq schema' \X schema'
    BY <1>0, <2>2 DEF Drop
  <2> QED BY <1>0, <1>8, <2>5, <2>6 DEF MigTyped, MigTypeOK, CmdTyped, Revert
<1>9. ASSUME NEW p \in Processes, Scan(p) PROVE MigTyped'
  <2> DEFINE c == cmd[p]
  <2>1. c \in Commands /\ Shape(c)
    BY <1>0, Running
  <2>2. PICK r \in c.names, d \in Commands :
              /\ c.at = "scan" /\ cmd' = [cmd EXCEPT ![p] = d] /\ outcome' = {}
              /\ Becomes(c, d, "scan", c.n, c.names \ {r}, c.done \cup Found(r),
                         IF Found(r) = {} THEN c.todo \cup {r} ELSE c.todo)
    BY <1>0, <1>9, ScanEffect
  <2>3. Shape(d)
    BY <2>1, <2>2, ShapeKept
  <2>4. CmdTyped'
    BY <1>0, <2>2, <2>3, MoveTyped
  <2> QED BY <1>0, <1>9, <2>2, <2>4 DEF MigTyped, MigTypeOK, CmdTyped, Scan
<1>10. ASSUME NEW p \in Processes, Decide(p) PROVE MigTyped'
  <2> DEFINE c == cmd[p]
             U == {r \in c.todo : r.file <= c.target}
  <2>1. c \in Commands /\ Shape(c) /\ c # NoCommand /\ c.at = "scan" /\ c.op = "to"
    BY <1>0, <1>10, Running DEF Decide, Shape
  <2>2. Beyond(c) \in SUBSET Records /\ U \in SUBSET Records /\ 0 \in Nat
    BY <2>1 DEF Commands, Beyond
  <2>3. Cardinality(Beyond(c)) \in Nat
    BY <2>2, Counted
  <2>4. Becomes(c, Settle(c, "list", Cardinality(Beyond(c)), {}), "list", Cardinality(Beyond(c)), {}, {}, {})
    BY <2>1, <2>3, Changes
  <2>5. Becomes(c, Settle(c, "apply", 0, U), "apply", 0, U, {}, {})
    BY <2>1, <2>2, Changes
  <2>6. /\ Shape(Settle(c, "list", Cardinality(Beyond(c)), {})) /\ Shape(Settle(c, "apply", 0, U))
        /\ Settle(c, "list", Cardinality(Beyond(c)), {}) \in Commands /\ Settle(c, "apply", 0, U) \in Commands
    BY <2>1, <2>4, <2>5, ShapeKept DEF Becomes
  <2>7. \/ Continue(p, Settle(c, "list", Cardinality(Beyond(c)), {}), Beyond(c) = {})
        \/ Continue(p, Settle(c, "apply", 0, U), FALSE)
    BY <1>10 DEF Decide
  <2>8. CmdTyped' /\ (outcome \subseteq Commands)'
    BY <1>0, <2>6, <2>7, ContinueTyped
  <2> QED BY <1>0, <1>10, <2>8 DEF MigTyped, MigTypeOK, CmdTyped, Decide
<1>11. ASSUME NEW p \in Processes, Stop(p) PROVE MigTyped'
  <2>1. CmdTyped'
    BY <1>0, <1>11, MoveTyped, IdleTyped DEF Stop
  <2> QED BY <1>0, <1>11, <2>1 DEF MigTyped, MigTypeOK, CmdTyped, Stop
<1>12. ASSUME UNCHANGED migVars PROVE MigTyped'
  BY <1>0, <1>12 DEF migVars, MigTyped, MigTypeOK, CmdTyped, Shape
<1> QED BY <1>1, <1>2, <1>3, <1>4, <1>5, <1>6, <1>7, <1>8, <1>9, <1>10, <1>11, <1>12 DEF MigNext

-----------------------------------------------------------------------------
(* The records and the schema.                                             *)

\* The files of one entry more.
LEMMA FilesOfAdd ==
    ASSUME NEW S, NEW x
    PROVE  FilesOf(S \cup {x}) = FilesOf(S) \cup {x.file}
BY DEF FilesOf

\* The file of an entry is among them.
LEMMA FilesOfMember ==
    ASSUME NEW S, NEW x \in S
    PROVE  x.file \in FilesOf(S)
BY DEF FilesOf

\* A file among them is that of an entry.
LEMMA FilesOfIn ==
    ASSUME NEW S, NEW f \in FilesOf(S)
    PROVE  \E x \in S : x.file = f
BY DEF FilesOf

\* A file is executed and recorded.
LEMMA RecordsApply ==
    ASSUME MigTyped, RecordsFit, NEW f \in Files, f \notin Applied,
           schema' = schema \cup {f}, ranBefore' = ranBefore \cup (schema \X {f}),
           records' = records \cup {[file |-> f, at |-> clock]}, clock' = clock
    PROVE  RecordsFit'
<1> DEFINE e == [file |-> f, at |-> clock]
<1>0. /\ records \subseteq Records /\ ranBefore \subseteq schema \X schema
      /\ schema = Applied /\ e.file = f /\ e.at = clock /\ clock \in Nat
  BY MigrationsAssumption DEF MigTyped, MigTypeOK, RecordsFit, RecordsMatchSchema
<1>a. records' = records \cup {e}
  OBVIOUS
<1>b. \A r \in records : r.file \in schema /\ r.file # f
  BY <1>0, FilesOfMember DEF Applied
<1> HIDE DEF e
<1>1. schema' = Applied'
  BY <1>0, <1>a, FilesOfAdd DEF Applied
<1>2. (\A r, x \in records : r.file = x.file => r = x)'
  BY <1>0, <1>a, <1>b DEF RecordsFit, RecordsMatchSchema
<1>3. ASSUME NEW r \in records', NEW x \in records', <<r.file, x.file>> \in ranBefore'
      PROVE r.at <= x.at
  <2>1. CASE <<r.file, x.file>> \in ranBefore
    BY <1>0, <1>a, <1>b, <2>1 DEF RecordsFit, RecordsMatchSchema
  <2>2. CASE <<r.file, x.file>> \in schema \X {f}
    <3>1. r.file \in schema /\ x.file = f
      BY <2>2
    <3>2. r \in records /\ x = e
      BY <1>0, <1>a, <1>b, <3>1
    <3> QED BY <1>0, <3>2 DEF RecordsFit
  <2> QED BY <1>3, <2>1, <2>2
<1>4. ASSUME NEW r \in records' PROVE r.at <= clock'
  BY <1>0, <1>a DEF RecordsFit
<1>5. ASSUME NEW g \in schema', NEW h \in schema', g # h
      PROVE <<g, h>> \in ranBefore' \/ <<h, g>> \in ranBefore'
  BY <1>0, <1>5 DEF RecordsFit
<1> QED BY <1>1, <1>2, <1>3, <1>4, <1>5 DEF RecordsFit, RecordsMatchSchema

\* A file is taken out again.
LEMMA RecordsDrop ==
    ASSUME MigTyped, RecordsFit, NEW f, Drop(f), clock' = clock
    PROVE  /\ RecordsFit'
           /\ Applied' = Applied \ {f}
           /\ \A r \in records : r.file = f => records' = records \ {r}
<1>0. /\ records \subseteq Records /\ ranBefore \subseteq schema \X schema
      /\ schema = Applied /\ \A r, x \in records : r.file = x.file => r = x
  BY DEF MigTyped, MigTypeOK, RecordsFit, RecordsMatchSchema
<1>1. /\ schema' = schema \ {f}
      /\ ranBefore' = {e \in ranBefore : e[1] # f /\ e[2] # f}
      /\ records' = {r \in records : r.file # f}
  BY DEF Drop
<1>2. Applied' = Applied \ {f}
  BY <1>1 DEF Applied, FilesOf
<1>3. ASSUME NEW r \in records, r.file = f PROVE records' = records \ {r}
  BY <1>0, <1>1, <1>3
<1>4. ASSUME NEW r \in records', NEW x \in records', <<r.file, x.file>> \in ranBefore'
      PROVE r.at <= x.at
  BY <1>1, <1>4 DEF RecordsFit, RecordsMatchSchema
<1>5. ASSUME NEW g \in schema', NEW h \in schema', g # h
      PROVE <<g, h>> \in ranBefore' \/ <<h, g>> \in ranBefore'
  BY <1>1, <1>5 DEF RecordsFit
<1>6. RecordsFit'
  BY <1>0, <1>1, <1>2, <1>4, <1>5 DEF RecordsFit, RecordsMatchSchema
<1> QED BY <1>2, <1>3, <1>6

\* Everything else leaves them alone.
LEMMA RecordsStay ==
    ASSUME RecordsFit, UNCHANGED <<records, schema, ranBefore, clock>>
    PROVE  RecordsFit'
BY DEF RecordsFit, RecordsMatchSchema, Applied, FilesOf

\* What is written, in a form for all steps.
LEMMA RecordsStep == MigTyped /\ RecordsFit /\ [MigNext]_migVars => RecordsFit'
<1> SUFFICES ASSUME MigTyped, RecordsFit, [MigNext]_migVars PROVE RecordsFit'
  OBVIOUS
<1>0. /\ CmdTyped /\ records \subseteq Records /\ clock \in 0..MaxClock
  BY DEF MigTyped, MigTypeOK, CmdTyped
<1>1. ASSUME NEW f \in Files,
             NewMigrationFile(f) \/ NewOutgrowsPadding(f) \/ MergeFile(f) \/ RemoveFile(f)
      PROVE RecordsFit'
  BY <1>1, RecordsStay DEF NewMigrationFile, NewOutgrowsPadding, MergeFile, RemoveFile, FilesChange
<1>2. ASSUME Tick PROVE RecordsFit'
  <2>1. \A r \in records : r.at \in Nat /\ r.at <= clock
    BY <1>0, RecordTyped DEF RecordsFit
  <2>2. \A r \in records : r.at <= clock'
    BY <1>0, <1>2, <2>1, MigrationsAssumption DEF Tick
  <2> QED BY <1>2, <2>2 DEF Tick, RecordsFit, RecordsMatchSchema, Applied, FilesOf
<1>3. ASSUME NEW p \in Processes, Apply(p) PROVE RecordsFit'
  <2>1. PICK r \in cmd[p].names :
          /\ r.file \in dir \ Applied
          /\ schema' = schema \cup {r.file}
          /\ ranBefore' = ranBefore \cup (schema \X {r.file})
          /\ records' = records \cup {[file |-> r.file, at |-> clock]}
    BY <1>3 DEF Apply
  <2>2. r.file \in Files /\ clock' = clock
    BY <1>3, <2>1 DEF Apply, MigTyped, MigTypeOK
  <2> QED BY <2>1, <2>2, RecordsApply
<1>4. ASSUME NEW p \in Processes, Revert(p) PROVE RecordsFit'
  BY <1>4, RecordsDrop DEF Revert
<1>5. ASSUME NEW p \in Processes,
             \/ Up(p) \/ Check(p) \/ UpToDate(p)
             \/ \E op \in {"down", "redo"}, n \in 1..MaxRevert : DownOrRedo(p, op, n)
             \/ ListNewest(p) \/ \E t \in Files : To(p, t)
             \/ Scan(p) \/ Decide(p) \/ Stop(p)
      PROVE RecordsFit'
  BY <1>5, RecordsStay DEF Up, Check, UpToDate, DownOrRedo, ListNewest, To, Scan, Decide, Stop, Start
<1>6. ASSUME UNCHANGED migVars PROVE RecordsFit'
  BY <1>6, RecordsStay DEF migVars
<1> QED BY <1>1, <1>2, <1>3, <1>4, <1>5, <1>6 DEF MigNext

-----------------------------------------------------------------------------
(* Ordinary use.                                                           *)

\* The last of the records is the last of the files, and the first the first.
LEMMA ByFile ==
    ASSUME NEW S \in SUBSET Records, InStep(S), FilesUnique(S), NEW r \in S
    PROVE  /\ Newest(r, S) => \A x \in S \ {r} : x.file < r.file
           /\ Oldest(r, S) => \A x \in S \ {r} : r.file < x.file
<1> SUFFICES ASSUME NEW x \in S \ {r}
             PROVE  /\ Newest(r, S) => x.file < r.file
                    /\ Oldest(r, S) => r.file < x.file
  OBVIOUS
<1>1. r.file \in Nat /\ r.at \in Nat /\ x.file \in Nat /\ x.at \in Nat
  BY RecordTyped
<1>2. r.file # x.file
  BY DEF FilesUnique
<1>3. (r.file < x.file => r.at <= x.at) /\ (x.file < r.file => x.at <= r.at)
  BY DEF InStep
<1>4. Newest(r, S) => x.at < r.at \/ (x.at = r.at /\ x.file < r.file)
  BY DEF Newest, Older
<1>5. Oldest(r, S) => r.at < x.at \/ (r.at = x.at /\ r.file < x.file)
  BY DEF Oldest, Older
<1> QED BY <1>1, <1>2, <1>3, <1>4, <1>5

\* An idle process has nothing before it.
LEMMA IdleInOrder ==
    ASSUME NEW D, NEW R
    PROVE  InOrderFits(NoCommand, D, R)
BY IdleTyped DEF InOrderFits, Work, FilesUnique, InStep, GapFree, FilesOf

\* Less work, when what falls away is recorded.
LEMMA LessWork ==
    ASSUME NEW S, NEW D, NEW R, NEW Q, NEW r \in S,
           FilesUnique(S), InStep(S), GapFree(S, D, R), FilesOf(S) \subseteq D,
           FilesOf(R) \subseteq FilesOf(Q), r.file \in FilesOf(Q)
    PROVE  /\ FilesUnique(S \ {r}) /\ InStep(S \ {r}) /\ GapFree(S \ {r}, D, Q)
           /\ FilesOf(S \ {r}) \subseteq D
<1>1. FilesUnique(S \ {r}) /\ InStep(S \ {r})
  BY DEF FilesUnique, InStep
<1>2. FilesOf(S \ {r}) \subseteq FilesOf(S)
  BY DEF FilesOf
<1>3. ASSUME NEW x \in S \ {r}, NEW g \in D, g < x.file, g \notin FilesOf(S \ {r})
      PROVE g \in FilesOf(Q)
  <2>1. CASE g \in FilesOf(S)
    <3>1. PICK y \in S : y.file = g
      BY <2>1, FilesOfIn
    <3>2. y = r
      BY <1>3, <3>1, FilesOfMember
    <3> QED BY <3>1, <3>2
  <2>2. CASE g \notin FilesOf(S)
    BY <1>3, <2>2 DEF GapFree
  <2> QED BY <2>1, <2>2
<1> QED BY <1>1, <1>2, <1>3 DEF GapFree

\* A command goes on with its work, or with less of it.
LEMMA WorkGoesOn ==
    ASSUME NEW c, NEW d, NEW D, NEW R, InOrderFits(c, D, R),
           c.at # "revert", d.at # "revert", Work(d) = Work(c)
    PROVE  InOrderFits(d, D, R)
BY DEF InOrderFits

\* One entry less, whose file is recorded by now.
LEMMA WorkLessens ==
    ASSUME NEW c, NEW d, NEW D, NEW R, NEW Q, NEW r, InOrderFits(c, D, R),
           c.at # "revert", d.at # "revert", r \in Work(c), Work(d) = Work(c) \ {r},
           FilesOf(R) \subseteq FilesOf(Q), r.file \in FilesOf(Q)
    PROVE  InOrderFits(d, D, Q)
<1>1. /\ FilesUnique(Work(c)) /\ InStep(Work(c)) /\ GapFree(Work(c), D, R) /\ FilesOf(Work(c)) \subseteq D
  BY DEF InOrderFits
<1>2. /\ FilesUnique(Work(c) \ {r}) /\ InStep(Work(c) \ {r}) /\ GapFree(Work(c) \ {r}, D, Q)
      /\ FilesOf(Work(c) \ {r}) \subseteq D
  BY <1>1, LessWork
<1>3. /\ FilesUnique(Work(d)) /\ InStep(Work(d)) /\ GapFree(Work(d), D, Q)
      /\ FilesOf(Work(d)) \subseteq D
  BY <1>2
<1> QED BY <1>3 DEF InOrderFits

\* The step of the one command there is.
LEMMA OrdinaryMove ==
    ASSUME MigTyped, InOrderInv, NEW p \in Processes, cmd[p] # NoCommand,
           \A q \in Processes : q # p => cmd'[q] = cmd[q], inOrder' = inOrder,
           inOrder => /\ (\A f \in Applied, g \in dir : g < f => g \in Applied)'
                      /\ InStep(records)'
                      /\ InOrderFits(cmd[p], dir, records)'
    PROVE  InOrderInv'
<1> SUFFICES ASSUME inOrder
             PROVE  /\ (\A f \in Applied, g \in dir : g < f => g \in Applied)'
                    /\ InStep(records)'
                    /\ (\A q, s \in Processes : cmd[q] # NoCommand /\ cmd[s] # NoCommand => q = s)'
                    /\ (\A q \in Processes : InOrderFits(cmd[q], dir, records))'
  BY DEF InOrderInv
<1>1. \A q \in Processes : q # p => cmd[q] = NoCommand
  BY DEF InOrderInv
<1>2. \A q \in Processes : q # p => cmd'[q] = NoCommand
  BY <1>1
<1>3. \A q \in Processes : q # p => InOrderFits(cmd'[q], dir', records')
  BY <1>2, IdleInOrder
<1>4. (\A q \in Processes : InOrderFits(cmd[q], dir, records))'
  BY <1>3
<1> QED BY <1>2, <1>4

\* The same for a step that leaves the directory and the records as they are.
LEMMA OrdinaryQuietMove ==
    ASSUME MigTyped, InOrderInv, NEW p \in Processes, cmd[p] # NoCommand,
           \A q \in Processes : q # p => cmd'[q] = cmd[q],
           UNCHANGED <<dir, records, inOrder>>,
           inOrder => InOrderFits(cmd'[p], dir, records)
    PROVE  InOrderInv'
<1>1. inOrder => /\ (\A f \in Applied, g \in dir : g < f => g \in Applied)'
                 /\ InStep(records)'
  BY DEF InOrderInv, InStep, Applied, FilesOf
<1>2. inOrder => InOrderFits(cmd[p], dir, records)'
  OBVIOUS
<1> QED BY <1>1, <1>2, OrdinaryMove

\* A start with the files in order is the only command, with the listing or nothing
\* before it.
LEMMA InOrderStart ==
    ASSUME MigTyped, InOrderInv, NEW p \in Processes, NEW d \in Commands, StartOf(p, d)
    PROVE  InOrderInv'
<1> SUFFICES ASSUME inOrder, Nobody PROVE InOrderInv'
  BY DEF StartOf, InOrderInv
<1>0. cmd'[p] = d /\ \A q \in Processes : q # p => cmd'[q] = NoCommand
  BY DEF StartOf, Nobody, Quiet
<1>1. /\ Listing \in SUBSET Records /\ FilesOf(Listing) = dir
      /\ \A r \in Listing : r.at = 0 /\ r = [file |-> r.file, at |-> 0]
  BY ListingTyped DEF MigTyped, MigTypeOK
<1>2. d.at # "revert" /\ (Work(d) = Listing \/ Work(d) = {})
  BY DEF StartOf, Begun, Work
<1>3. FilesUnique(Work(d))
  BY <1>1, <1>2 DEF FilesUnique
<1>4. InStep(Work(d))
  BY <1>1, <1>2 DEF InStep
<1>5. FilesOf(Work(d)) \subseteq dir /\ GapFree(Work(d), dir, records)
  BY <1>1, <1>2 DEF GapFree, FilesOf
<1>6. InOrderFits(d, dir, records)
  BY <1>2, <1>3, <1>4, <1>5 DEF InOrderFits
<1>7. dir' = dir /\ records' = records
  BY DEF StartOf
<1>8. (\A q \in Processes : InOrderFits(cmd[q], dir, records))'
  BY <1>0, <1>6, <1>7, IdleInOrder
<1>9. (\A f \in Applied, g \in dir : g < f => g \in Applied)' /\ InStep(records)'
  BY <1>7 DEF InOrderInv, InStep, Applied, FilesOf
<1> QED BY <1>0, <1>8, <1>9 DEF InOrderInv

\* A new file that came in order is past all of a command's work.
LEMMA InOrderNewFile ==
    ASSUME MigTyped, InOrderInv, NEW f \in Files, f \notin dir, dir' = dir \cup {f}, FilesChange,
           inOrder' => inOrder /\ \A g \in dir \cup Applied : f > g
    PROVE  InOrderInv'
<1> SUFFICES ASSUME inOrder, \A g \in dir \cup Applied : f > g PROVE InOrderInv'
  BY DEF InOrderInv
<1>0. /\ CmdTyped /\ records' = records /\ records \subseteq Records /\ dir \subseteq Files
      /\ Applied' = Applied /\ Applied = FilesOf(records)
  BY DEF MigTyped, MigTypeOK, CmdTyped, FilesChange, Applied, FilesOf
<1>1. ASSUME NEW q \in Processes PROVE InOrderFits(cmd'[q], dir', records')
  <2> DEFINE c == cmd[q]
             d == cmd'[q]
  <2>1. c \in Commands /\ Shape(c) /\ d = Quiet(c)
    BY <1>0, Running, FilesChangeTyped
  <2>2. d.at = c.at /\ d.names = c.names /\ d.done = c.done /\ d.todo = c.todo
    BY <2>1, QuietTyped
  <2>3. InOrderFits(c, dir, records) /\ Work(d) = Work(c)
    BY <2>2 DEF InOrderInv, Work
  <2>4. ASSUME NEW r \in Work(c) PROVE r.file \in Nat /\ r.file < f
    <3>1. r \in Records
      BY <2>1 DEF Work, Commands
    <3>2. r.file \in dir \cup Applied
      BY <1>0, <2>3, FilesOfMember DEF InOrderFits, Work
    <3> QED BY <3>1, <3>2, RecordTyped
  <2>5. GapFree(Work(d), dir', records')
    <3> SUFFICES ASSUME NEW r \in Work(c), NEW g \in dir \cup {f}, g < r.file, g \notin FilesOf(Work(c))
                 PROVE  g \in FilesOf(records)
      BY <1>0, <2>3 DEF GapFree
    <3>1. g # f
      BY <2>4, MigrationsAssumption
    <3> QED BY <2>3, <3>1 DEF InOrderFits, GapFree
  <2> QED BY <1>0, <2>2, <2>3, <2>5 DEF InOrderFits
<1>2. ASSUME NEW h \in Applied', NEW g \in dir', g < h PROVE g \in Applied'
  <2>1. h \in Nat /\ f > h /\ f \in Nat
    BY <1>0, <1>2, RecordTyped, FilesOfIn, MigrationsAssumption
  <2>2. g \in dir
    BY <1>2, <2>1
  <2> QED BY <1>0, <1>2, <2>2 DEF InOrderInv
<1>3. InStep(records)'
  BY <1>0 DEF InOrderInv, InStep
<1>4. ASSUME NEW q \in Processes PROVE cmd'[q] = NoCommand <=> cmd[q] = NoCommand
  BY <1>0, FilesChangeTyped, QuietTyped, Running
<1> QED BY <1>1, <1>2, <1>3, <1>4 DEF InOrderInv

\* A file is removed, while no command runs if the order is to stay.
LEMMA InOrderRemove ==
    ASSUME MigTyped, InOrderInv, NEW f \in Files, RemoveFile(f)
    PROVE  InOrderInv'
<1> SUFFICES ASSUME inOrder, Nobody PROVE InOrderInv'
  BY DEF InOrderInv, RemoveFile
<1>0. CmdTyped /\ FilesChange /\ records' = records /\ dir' = dir \ {f}
  BY DEF MigTyped, MigTypeOK, CmdTyped, RemoveFile, FilesChange
<1>1. \A q \in Processes : cmd'[q] = NoCommand
  BY <1>0, FilesChangeTyped DEF Nobody, Quiet
<1>2. (\A q \in Processes : InOrderFits(cmd[q], dir, records))'
  BY <1>1, IdleInOrder
<1>3. (\A h \in Applied, g \in dir : g < h => g \in Applied)' /\ InStep(records)'
  BY <1>0 DEF InOrderInv, InStep, Applied, FilesOf
<1> QED BY <1>1, <1>2, <1>3 DEF InOrderInv

\* The next file of a listing, in order: everything below it is applied.
LEMMA InOrderApply ==
    ASSUME MigTyped, RecordsFit, InOrderInv, NEW p \in Processes, Apply(p)
    PROVE  InOrderInv'
<1> DEFINE c == cmd[p]
<1>0. /\ CmdTyped /\ records \subseteq Records /\ dir \subseteq Files /\ clock \in Nat
      /\ c \in Commands /\ Shape(c) /\ c # NoCommand /\ c.at = "apply" /\ c.todo = {}
  BY Running, MigrationsAssumption DEF MigTyped, MigTypeOK, CmdTyped, Apply, Shape
<1>1. PICK r \in c.names :
        /\ Oldest(r, c.names) /\ r.file \in dir \ Applied
        /\ records' = records \cup {[file |-> r.file, at |-> clock]}
        /\ Continue(p, AfterApply(c, r), c.op # "up" /\ c.names = {r})
  BY DEF Apply
<1>2. Becomes(c, AfterApply(c, r), IF c.op = "up" THEN "check" ELSE "apply", c.n,
              c.names \ {r}, c.done, c.todo)
  BY <1>0, Changes
<1>3. AfterApply(c, r) \in Commands /\ Shape(AfterApply(c, r))
  BY <1>0, <1>2, ShapeKept DEF Becomes, Shape
<1>4. /\ cmd'[p] = IF c.op # "up" /\ c.names = {r} THEN NoCommand ELSE AfterApply(c, r)
      /\ \A q \in Processes : q # p => cmd'[q] = cmd[q]
  BY <1>0, <1>1, <1>3, ContinueTyped
<1>5. UNCHANGED <<dir, inOrder>> /\ Applied' = Applied \cup {r.file} /\ r \in Records
  BY <1>0, <1>1, FilesOfAdd DEF Apply, Applied, Commands
<1> SUFFICES ASSUME inOrder
             PROVE  /\ (\A f \in Applied, g \in dir : g < f => g \in Applied)'
                    /\ InStep(records)'
                    /\ InOrderFits(cmd'[p], dir', records')
  BY <1>0, <1>4, <1>5, OrdinaryMove
<1>6. /\ InOrderFits(c, dir, records) /\ Work(c) = c.names /\ InStep(records)
      /\ \A f \in Applied, g \in dir : g < f => g \in Applied
  BY <1>0 DEF InOrderInv, Work
<1>7. InStep(c.names) /\ FilesUnique(c.names) /\ c.names \in SUBSET Records
  BY <1>0, <1>6 DEF InOrderFits, Commands
<1>8. ASSUME NEW g \in dir, g < r.file PROVE g \in Applied
  <2>1. g \notin FilesOf(c.names)
    <3> SUFFICES ASSUME NEW x \in c.names, x.file = g PROVE FALSE
      BY FilesOfIn
    <3>1. x.file \in Nat /\ r.file \in Nat /\ x # r
      BY <1>7, <1>8, RecordTyped
    <3>2. r.file < x.file
      BY <1>1, <1>7, <3>1, ByFile
    <3> QED BY <1>8, <3>1, <3>2
  <2> QED BY <1>6, <1>8, <2>1 DEF InOrderFits, GapFree, Applied
<1>9. (\A f \in Applied, g \in dir : g < f => g \in Applied)'
  BY <1>5, <1>6, <1>8
<1>10. ASSUME NEW x \in records', NEW y \in records', x.file < y.file PROVE x.at <= y.at
  <2> DEFINE e == [file |-> r.file, at |-> clock]
  <2>1. e.file = r.file /\ e.at = clock /\ records' = records \cup {e}
    BY <1>1
  <2> HIDE DEF e
  <2>2. CASE x \in records /\ y \in records
    BY <1>6, <1>10, <2>2 DEF InStep
  <2>3. CASE x = e /\ y \in records
    <3>1. y.file \in Applied /\ r.file < y.file
      BY <1>10, <2>1, <2>3, FilesOfMember DEF Applied
    <3> QED BY <1>1, <1>6, <3>1
  <2>4. CASE x \in records /\ y = e
    BY <2>1, <2>4 DEF RecordsFit
  <2>5. CASE x = e /\ y = e
    BY <1>0, <2>1, <2>5
  <2> QED BY <2>1, <2>2, <2>3, <2>4, <2>5
<1>11. InOrderFits(cmd'[p], dir', records')
  <2>1. CASE c.op # "up" /\ c.names = {r}
    BY <1>4, <2>1, IdleInOrder
  <2>2. CASE ~(c.op # "up" /\ c.names = {r})
    <3> DEFINE d == AfterApply(c, r)
    <3>1. cmd'[p] = d /\ d.at # "revert" /\ Work(d) = Work(c) \ {r} /\ r \in Work(c)
      BY <1>0, <1>2, <1>4, <1>6, <2>2 DEF Becomes, Work
    <3>2. FilesOf(records) \subseteq FilesOf(records') /\ r.file \in FilesOf(records')
      BY <1>5 DEF Applied
    <3> HIDE DEF d
    <3>3. c.at # "revert"
      BY <1>0
    <3>4. InOrderFits(d, dir, records')
      BY <1>6, <3>1, <3>2, <3>3, WorkLessens
    <3> QED BY <1>5, <3>1, <3>4
  <2> QED BY <2>1, <2>2
<1> QED BY <1>9, <1>10, <1>11 DEF InStep

\* The newest record, in order, is that of the last applied file.
LEMMA InOrderRevert ==
    ASSUME MigTyped, RecordsFit, InOrderInv, NEW p \in Processes, Revert(p)
    PROVE  InOrderInv'
<1> DEFINE c == cmd[p]
<1>0. /\ CmdTyped /\ records \subseteq Records /\ dir \subseteq Files
      /\ c \in Commands /\ Shape(c) /\ c # NoCommand /\ c.at = "revert" /\ c.todo = {} /\ c.op # "up"
  BY Running DEF MigTyped, MigTypeOK, CmdTyped, Revert, Shape
<1>1. PICK r \in c.names :
        /\ Newest(r, c.names) /\ r.file \in dir \ NoDown /\ Drop(r.file)
        /\ Continue(p, AfterRevert(c, r), c.names = {r} /\ c.op # "redo")
  BY DEF Revert
<1>a. r \in Records
  BY <1>0 DEF Commands
<1>2. IF c.names = {r} /\ c.op = "redo"
      THEN Becomes(c, AfterRevert(c, r), "apply", c.n, c.done \cup {r}, {}, c.todo)
      ELSE Becomes(c, AfterRevert(c, r), c.at, c.n, c.names \ {r}, c.done \cup {r}, c.todo)
  BY <1>0, <1>a, Changes
<1>3. AfterRevert(c, r) \in Commands /\ Shape(AfterRevert(c, r))
  BY <1>0, <1>2, ShapeKept DEF Becomes
<1>4. /\ cmd'[p] = IF c.names = {r} /\ c.op # "redo" THEN NoCommand ELSE AfterRevert(c, r)
      /\ \A q \in Processes : q # p => cmd'[q] = cmd[q]
  BY <1>0, <1>1, <1>3, ContinueTyped
<1>5. /\ UNCHANGED <<dir, inOrder>> /\ Applied' = Applied \ {r.file}
      /\ r \in records => records' = records \ {r}
  BY <1>1, RecordsDrop DEF Revert
<1> SUFFICES ASSUME inOrder
             PROVE  /\ (\A f \in Applied, g \in dir : g < f => g \in Applied)'
                    /\ InStep(records)'
                    /\ InOrderFits(cmd'[p], dir', records')
  BY <1>0, <1>4, <1>5, OrdinaryMove
<1>6. /\ InOrderFits(c, dir, records) /\ Work(c) = c.names \cup c.done /\ InStep(records)
      /\ \A f \in Applied, g \in dir : g < f => g \in Applied
      /\ FilesUnique(records)
  BY <1>0 DEF InOrderInv, Work, RecordsFit, RecordsMatchSchema, FilesUnique
<1>7. /\ c.names \subseteq records /\ FilesOf(c.done) \subseteq dir
      /\ \A y \in c.names, x \in records \ c.names : Older(x, y)
  BY <1>0, <1>6 DEF InOrderFits
<1>8. records' = records \ {r} /\ r \in records
  BY <1>5, <1>7
<1>9. Newest(r, records)
  BY <1>1, <1>7 DEF Newest
<1>10. \A x \in records \ {r} : x.file < r.file
  BY <1>0, <1>6, <1>8, <1>9, ByFile
<1>11. ASSUME NEW f \in Applied', NEW g \in dir', g < f PROVE g \in Applied'
  <2>1. f \in Applied /\ f # r.file /\ g \in dir
    BY <1>5, <1>11
  <2>2. PICK x \in records : x.file = f
    BY <2>1, FilesOfIn DEF Applied
  <2>3. f < r.file
    BY <1>10, <2>1, <2>2
  <2>4. g # r.file
    BY <1>0, <1>8, <1>11, <2>2, <2>3, RecordTyped
  <2> QED BY <1>5, <1>6, <1>11, <2>1, <2>4
<1>12. InStep(records)'
  BY <1>6, <1>8 DEF InStep
<1>13. FilesUnique(Work(c)) /\ InStep(Work(c)) /\ GapFree(Work(c), dir', records')
  <2>1. FilesUnique(Work(c)) /\ InStep(Work(c)) /\ GapFree(Work(c), dir, records)
    BY <1>6 DEF InOrderFits
  <2>2. r.file \in FilesOf(Work(c))
    BY <1>6, FilesOfMember
  <2>3. GapFree(Work(c), dir', records')
    BY <1>5, <2>1, <2>2 DEF GapFree, Applied
  <2> QED BY <2>1, <2>3
<1>14. FilesOf(c.done \cup {r}) \subseteq dir'
  BY <1>1, <1>5, <1>7, FilesOfAdd
<1>15. InOrderFits(cmd'[p], dir', records')
  <2> DEFINE d == AfterRevert(c, r)
  <2>1. CASE c.names = {r} /\ c.op # "redo"
    BY <1>4, <2>1, IdleInOrder
  <2>2. CASE c.names = {r} /\ c.op = "redo"
    <3>1. cmd'[p] = d /\ d.at = "apply" /\ Work(d) = c.done \cup {r} /\ Work(d) = Work(c)
      BY <1>0, <1>2, <1>4, <1>6, <2>2 DEF Becomes, Work
    <3> HIDE DEF d
    <3> QED BY <1>13, <1>14, <3>1 DEF InOrderFits
  <2>3. CASE c.names # {r}
    <3>1. cmd'[p] = d /\ d.at = "revert" /\ d.names = c.names \ {r} /\ d.done = c.done \cup {r}
      BY <1>0, <1>2, <1>4, <2>3 DEF Becomes
    <3> HIDE DEF d
    <3>2. Work(d) = Work(c)
      BY <1>6, <3>1 DEF Work
    <3>3. d.names \subseteq records' /\ \A y \in d.names, x \in records' \ d.names : Older(x, y)
      BY <1>7, <1>8, <3>1
    <3> QED BY <1>13, <1>14, <3>1, <3>2, <3>3 DEF InOrderFits
  <2> QED BY <2>1, <2>2, <2>3
<1> QED BY <1>11, <1>12, <1>15

\* The steps that only read: what they find is fit to work on.
LEMMA InOrderReads ==
    ASSUME MigTyped, RecordsFit, InOrderInv, NEW p \in Processes,
           Check(p) \/ UpToDate(p) \/ ListNewest(p) \/ Scan(p) \/ Decide(p) \/ Stop(p)
    PROVE  InOrderInv'
<1> DEFINE c == cmd[p]
<1>0. /\ CmdTyped /\ records \subseteq Records /\ dir \subseteq Files
      /\ c \in Commands /\ Shape(c) /\ UNCHANGED <<dir, records, inOrder>>
  BY Running DEF MigTyped, MigTypeOK, CmdTyped, Check, UpToDate, ListNewest, Scan, Decide, Stop
<1>1. inOrder => InOrderFits(c, dir, records)
  BY DEF InOrderInv
<1>2. CASE Check(p)
  <2>1. PICK r \in c.names, d \in Commands :
              /\ c.at = "check" /\ c # NoCommand /\ cmd' = [cmd EXCEPT ![p] = d]
              /\ IF r.file \in Applied
                 THEN Becomes(c, d, "check", c.n, c.names \ {r}, c.done, c.todo)
                 ELSE Becomes(c, d, "apply", c.n, c.names, c.done, c.todo)
    BY <1>0, <1>2, CheckEffect
  <2>2. cmd'[p] = d /\ (\A q \in Processes : q # p => cmd'[q] = cmd[q]) /\ c.todo = {}
    BY <1>0, <2>1 DEF CmdTyped, Shape
  <2>3. c.at # "revert" /\ d.at # "revert" /\ r \in Work(c)
    BY <2>1 DEF Becomes, Work
  <2>4. inOrder => InOrderFits(d, dir, records)
    <3>1. CASE r.file \in Applied
      <4>1. Work(d) = Work(c) \ {r}
        BY <2>1, <2>2, <3>1 DEF Becomes, Work
      <4> QED BY <1>1, <2>3, <3>1, <4>1, WorkLessens DEF Applied
    <3>2. CASE r.file \notin Applied
      <4>1. Work(d) = Work(c)
        BY <2>1, <2>2, <3>2 DEF Becomes, Work
      <4> QED BY <1>1, <2>3, <4>1, WorkGoesOn
    <3> QED BY <3>1, <3>2
  <2> QED BY <1>0, <2>1, <2>2, <2>4, OrdinaryQuietMove
<1>3. CASE UpToDate(p) \/ Stop(p)
  <2>1. c # NoCommand /\ cmd' = [cmd EXCEPT ![p] = NoCommand]
    BY <1>0, <1>3, Running DEF UpToDate, Stop, Continue
  <2>2. cmd'[p] = NoCommand /\ (\A q \in Processes : q # p => cmd'[q] = cmd[q])
    BY <1>0, <2>1 DEF CmdTyped
  <2> QED BY <1>0, <2>1, <2>2, IdleInOrder, OrdinaryQuietMove
<1>4. CASE ListNewest(p)
  <2>1. c.at = "list" /\ c # NoCommand /\ c.done = {} /\ c.todo = {} /\ c.op # "up"
    BY <1>0, <1>4, Running DEF ListNewest, Shape
  <2>2. PICK N \in SUBSET records :
          /\ TakesNewest(N, records, c.n)
          /\ Continue(p, [c EXCEPT !.at = "revert", !.names = N], N = {})
    BY <1>4 DEF ListNewest
  <2> DEFINE d == [c EXCEPT !.at = "revert", !.names = N]
  <2>3. Becomes(c, d, "revert", c.n, N, c.done, c.todo)
    BY <1>0, <2>1, Changes
  <2> HIDE DEF d
  <2>4. d \in Commands /\ Shape(d)
    BY <1>0, <2>1, <2>3, ShapeKept DEF Becomes
  <2>5. Continue(p, d, N = {})
    BY <2>2 DEF d
  <2>6. /\ cmd'[p] = IF N = {} THEN NoCommand ELSE d
        /\ \A q \in Processes : q # p => cmd'[q] = cmd[q]
    BY <1>0, <2>4, <2>5, ContinueTyped
  <2>7. ASSUME inOrder PROVE InOrderFits(d, dir, records)
    <3>1. Work(d) = N /\ d.at = "revert" /\ d.names = N /\ d.done = {}
      BY <2>1, <2>3 DEF Work, Becomes
    <3>2. FilesUnique(N) /\ InStep(N)
      BY <2>7 DEF InOrderInv, InStep, FilesUnique, RecordsFit, RecordsMatchSchema
    <3>3. GapFree(N, dir, records)
      BY <2>7, FilesOfMember DEF InOrderInv, GapFree, Applied
    <3>4. \A r \in N, x \in records \ N : Older(x, r)
      BY <2>2 DEF TakesNewest
    <3>5. FilesOf({}) \subseteq dir
      BY DEF FilesOf
    <3> QED BY <3>1, <3>2, <3>3, <3>4, <3>5 DEF InOrderFits
  <2>8. inOrder => InOrderFits(cmd'[p], dir, records)
    BY <2>6, <2>7, IdleInOrder
  <2> QED BY <1>0, <2>1, <2>6, <2>8, OrdinaryQuietMove
<1>5. CASE Scan(p)
  <2>1. PICK r \in c.names, d \in Commands :
              /\ c.at = "scan" /\ c # NoCommand /\ cmd' = [cmd EXCEPT ![p] = d]
              /\ Becomes(c, d, "scan", c.n, c.names \ {r}, c.done \cup Found(r),
                         IF Found(r) = {} THEN c.todo \cup {r} ELSE c.todo)
    BY <1>0, <1>5, ScanEffect
  <2>2. cmd'[p] = d /\ (\A q \in Processes : q # p => cmd'[q] = cmd[q])
    BY <1>0, <2>1 DEF CmdTyped
  <2>3. c.at # "revert" /\ d.at # "revert" /\ r \in Work(c)
    BY <2>1 DEF Becomes, Work
  <2>4. inOrder => InOrderFits(d, dir, records)
    <3>1. CASE Found(r) = {} \/ r \in c.todo
      <4>1. Work(d) = Work(c)
        BY <2>1, <3>1 DEF Becomes, Work
      <4> QED BY <1>1, <2>3, <4>1, WorkGoesOn
    <3>2. CASE Found(r) # {} /\ r \notin c.todo
      <4>1. Work(d) = Work(c) \ {r}
        BY <2>1, <3>2 DEF Becomes, Work
      <4>2. r.file \in FilesOf(records)
        BY <3>2 DEF Found, FilesOf
      <4> QED BY <1>1, <2>3, <4>1, <4>2, WorkLessens
    <3> QED BY <3>1, <3>2
  <2> QED BY <1>0, <2>1, <2>2, <2>4, OrdinaryQuietMove
<1>6. CASE Decide(p)
  <2> DEFINE U == {r \in c.todo : r.file <= c.target}
             n == Cardinality(Beyond(c))
  <2>1. c # NoCommand /\ c.at = "scan" /\ c.op = "to" /\ c.names = {}
    BY <1>0, <1>6, Running DEF Decide, Shape
  <2>2. Beyond(c) \in SUBSET Records /\ U \in SUBSET Records /\ 0 \in Nat
    BY <1>0 DEF Commands, Beyond
  <2>3. n \in Nat
    BY <2>2, Counted
  <2>4. Becomes(c, Settle(c, "list", n, {}), "list", n, {}, {}, {})
    BY <1>0, <2>1, <2>3, Changes
  <2>5. Becomes(c, Settle(c, "apply", 0, U), "apply", 0, U, {}, {})
    BY <1>0, <2>1, <2>2, Changes
  <2>6. /\ Shape(Settle(c, "list", n, {})) /\ Shape(Settle(c, "apply", 0, U))
        /\ Settle(c, "list", n, {}) \in Commands /\ Settle(c, "apply", 0, U) \in Commands
    BY <1>0, <2>1, <2>4, <2>5, ShapeKept DEF Becomes
  <2>7. \/ Continue(p, Settle(c, "list", n, {}), Beyond(c) = {})
        \/ Continue(p, Settle(c, "apply", 0, U), FALSE)
    BY <1>6 DEF Decide
  <2>8. /\ cmd'[p] \in {NoCommand, Settle(c, "list", n, {}), Settle(c, "apply", 0, U)}
        /\ \A q \in Processes : q # p => cmd'[q] = cmd[q]
    BY <1>0, <2>6, <2>7, ContinueTyped
  <2>9. InOrderFits(Settle(c, "list", n, {}), dir, records)
    <3>1. Settle(c, "list", n, {}).at = "list" /\ Work(Settle(c, "list", n, {})) = {}
      BY <2>4 DEF Becomes, Work
    <3> QED BY <3>1 DEF InOrderFits, FilesUnique, InStep, GapFree, FilesOf
  <2>10. ASSUME inOrder PROVE InOrderFits(Settle(c, "apply", 0, U), dir, records)
    <3>1. Settle(c, "apply", 0, U).at = "apply" /\ Work(Settle(c, "apply", 0, U)) = U
      BY <2>5 DEF Becomes, Work
    <3>2. /\ FilesUnique(c.todo) /\ InStep(c.todo) /\ GapFree(c.todo, dir, records)
          /\ FilesOf(c.todo) \subseteq dir
      BY <1>1, <2>1, <2>10 DEF InOrderFits, Work
    <3>3. FilesUnique(U) /\ InStep(U) /\ FilesOf(U) \subseteq dir
      BY <3>2 DEF FilesUnique, InStep, FilesOf
    <3>4. ASSUME NEW r \in U, NEW g \in dir, g < r.file, g \notin FilesOf(U) PROVE g \in FilesOf(records)
      <4>1. g \notin FilesOf(c.todo)
        <5> SUFFICES ASSUME NEW x \in c.todo, x.file = g PROVE FALSE
          BY FilesOfIn
        <5>1. x.file \in Nat /\ r.file \in Nat /\ c.target \in Nat /\ r.file <= c.target
          BY <1>0, RecordTyped, MigrationsAssumption DEF Commands
        <5>2. x \in U
          BY <3>4, <5>1
        <5> QED BY <3>4, <5>2, FilesOfMember
      <4> QED BY <3>2, <3>4, <4>1 DEF GapFree
    <3> QED BY <3>1, <3>3, <3>4 DEF InOrderFits, GapFree
  <2>11. inOrder => InOrderFits(cmd'[p], dir, records)
    BY <2>8, <2>9, <2>10, IdleInOrder
  <2> QED BY <1>0, <2>1, <2>8, <2>11, OrdinaryQuietMove
<1> QED BY <1>2, <1>3, <1>4, <1>5, <1>6

\* Files in order, step by step.
LEMMA InOrderStep == MigTyped /\ RecordsFit /\ InOrderInv /\ [MigNext]_migVars => InOrderInv'
<1> SUFFICES ASSUME MigTyped, RecordsFit, InOrderInv, [MigNext]_migVars PROVE InOrderInv'
  OBVIOUS
<1>1. ASSUME NEW f \in Files, NewMigrationFile(f) \/ NewOutgrowsPadding(f) \/ MergeFile(f)
      PROVE InOrderInv'
  <2>1. f \notin dir
    BY <1>1, MigrationsAssumption DEF NewMigrationFile, NewOutgrowsPadding, MergeFile
  <2>2. /\ FilesChange /\ dir' = dir \cup {f}
        /\ inOrder' => inOrder /\ \A g \in dir \cup Applied : f > g
    BY <1>1 DEF NewMigrationFile, NewOutgrowsPadding, MergeFile
  <2> QED BY <2>1, <2>2, InOrderNewFile
<1>2. ASSUME NEW f \in Files, RemoveFile(f) PROVE InOrderInv'
  BY <1>2, InOrderRemove
<1>3. ASSUME Tick \/ UNCHANGED migVars PROVE InOrderInv'
  BY <1>3 DEF Tick, migVars, InOrderInv, InStep, Applied, FilesOf
<1>4. ASSUME NEW p \in Processes,
             \/ Up(p)
             \/ \E op \in {"down", "redo"}, n \in 1..MaxRevert : DownOrRedo(p, op, n)
             \/ \E t \in Files : To(p, t)
      PROVE InOrderInv'
  BY <1>4, Starts, InOrderStart
<1>5. ASSUME NEW p \in Processes,
             Check(p) \/ UpToDate(p) \/ ListNewest(p) \/ Scan(p) \/ Decide(p) \/ Stop(p)
      PROVE InOrderInv'
  BY <1>5, InOrderReads
<1>6. ASSUME NEW p \in Processes, Apply(p) PROVE InOrderInv'
  BY <1>6, InOrderApply
<1>7. ASSUME NEW p \in Processes, Revert(p) PROVE InOrderInv'
  BY <1>7, InOrderRevert
<1> QED BY <1>1, <1>2, <1>3, <1>4, <1>5, <1>6, <1>7 DEF MigNext

-----------------------------------------------------------------------------
(* A command that is alone.                                                *)

\* What the three properties say of a command d that has come to its end.
DownLands(d, R) ==
    d.op = "down" => R \subseteq d.before /\ TakesNewest(d.before \ R, d.before, d.n)
RedoLands(d, R, B) ==
    d.op = "redo" =>
        /\ FilesOf(R) = FilesOf(d.before)
        /\ \A r, x \in d.before : r.at < x.at => <<r.file, x.file>> \in B
ToLands(d, D, R, o) ==
    d.op = "to" /\ o => FilesOf(R) \cap D = {f \in D : f <= d.target}

Outcomes == DownOutcomes /\ RedoRestores /\ ToLandsOnTarget

\* The properties of outcomes, of the one command that may have ended.
LEMMA OutcomeOf ==
    ASSUME NEW d, outcome' \subseteq {d},
           outcome' # {} => /\ DownLands(d, records') /\ RedoLands(d, records', ranBefore')
                            /\ ToLands(d, dir', records', inOrder')
    PROVE  Outcomes'
<1> SUFFICES ASSUME d \in outcome' /\ outcome' = {d} PROVE Outcomes'
  BY DEF Outcomes, DownOutcomes, RedoRestores, ToLandsOnTarget
<1>1. DownOutcomes'
  BY DEF DownOutcomes, DownLands
<1>2. RedoRestores'
  BY DEF RedoRestores, RedoLands, Applied
<1>3. ToLandsOnTarget'
  BY DEF ToLandsOnTarget, ToLands, Applied
<1> QED BY <1>1, <1>2, <1>3 DEF Outcomes

\* They hold of a step that ends no command.
LEMMA NoOutcome ==
    ASSUME outcome' = {}
    PROVE  Outcomes'
BY DEF Outcomes, DownOutcomes, RedoRestores, ToLandsOnTarget

\* The step of a command: the others are not alone while it runs.
LEMMA AloneMove ==
    ASSUME AloneInv, NEW p \in Processes, cmd[p] # NoCommand,
           \A q \in Processes : q # p => cmd'[q] = cmd[q],
           cmd'[p].alone => /\ cmd[p].alone
                            /\ AloneFits(cmd'[p], dir', records', ranBefore', inOrder')
    PROVE  AloneInv'
<1> SUFFICES ASSUME NEW q \in Processes, cmd'[q].alone
             PROVE  /\ \A s \in Processes : cmd'[s] # NoCommand => s = q
                    /\ AloneFits(cmd'[q], dir', records', ranBefore', inOrder')
  BY DEF AloneInv
<1>1. q = p
  BY DEF AloneInv
<1>2. \A s \in Processes : s # p => cmd[s] = NoCommand
  BY <1>1 DEF AloneInv
<1> QED BY <1>1, <1>2

\* With the others disturbed, only what starts can be alone.
LEMMA AloneStart ==
    ASSUME MigTyped, RecordsFit, NEW p \in Processes, NEW d \in Commands, StartOf(p, d)
    PROVE  AloneInv' /\ Outcomes'
<1>0. /\ CmdTyped /\ dir \subseteq Files /\ records' = records /\ dir' = dir /\ outcome' = {}
  BY DEF MigTyped, MigTypeOK, CmdTyped, StartOf
<1> SUFFICES ASSUME NEW q \in Processes, cmd'[q].alone
             PROVE  /\ \A s \in Processes : cmd'[s] # NoCommand => s = q
                    /\ AloneFits(cmd'[q], dir', records', ranBefore', inOrder')
  BY <1>0, NoOutcome DEF AloneInv
<1>1. q = p
  BY <1>0, QuietTyped, Running DEF StartOf
<1>2. cmd'[q] = d /\ d.alone /\ Nobody
  BY <1>1 DEF StartOf, Begun
<1>3. \A s \in Processes : cmd'[s] # NoCommand => s = q
  BY <1>1, <1>2 DEF StartOf, Nobody, Quiet
<1>4. d.before = records /\ FilesUnique(d.before) /\ d.done = {} /\ d.todo = {}
  BY <1>2 DEF StartOf, Begun, RecordsFit, RecordsMatchSchema, FilesUnique
<1>5. FilesOf(Listing) = dir /\ FilesOf({}) = {}
  BY <1>0, ListingTyped DEF FilesOf
<1>6. /\ d.at \in {"check", "list", "scan"}
      /\ d.op = "to" => d.at = "scan" /\ d.names = Listing /\ d.target \in dir
  BY DEF StartOf, Begun
<1>7. d.op = "to" => ToFits(d, dir', records', inOrder')
  BY <1>0, <1>4, <1>5, <1>6 DEF ToFits
<1>8. AloneFits(d, dir', records', ranBefore', inOrder')
  BY <1>0, <1>4, <1>6, <1>7 DEF AloneFits
<1> QED BY <1>2, <1>3, <1>8

\* A change of the directory leaves no command alone.
LEMMA AloneDisturbed ==
    ASSUME MigTyped, FilesChange
    PROVE  AloneInv' /\ Outcomes'
<1>1. CmdTyped /\ outcome' = {}
  BY DEF MigTyped, MigTypeOK, CmdTyped, FilesChange
<1>2. \A q \in Processes : ~cmd'[q].alone
  BY <1>1, FilesChangeTyped, QuietTyped, Running
<1> QED BY <1>1, <1>2, NoOutcome DEF AloneInv

\* Records of different seconds are in effect in that order.
LEMMA RunOrder ==
    ASSUME RecordsFit, records \subseteq Records, NEW r \in records, NEW x \in records, r.at < x.at
    PROVE  <<r.file, x.file>> \in ranBefore
<1>1. r.at \in Nat /\ x.at \in Nat
  BY RecordTyped
<1>2. r.file # x.file
  BY <1>1 DEF RecordsFit, RecordsMatchSchema
<1>3. r.file \in schema /\ x.file \in schema
  BY FilesOfMember DEF RecordsFit, RecordsMatchSchema, Applied
<1>4. <<x.file, r.file>> \notin ranBefore
  BY <1>1 DEF RecordsFit, RecordsMatchSchema
<1> QED BY <1>2, <1>3, <1>4 DEF RecordsFit

\* down by as many as are applied beyond the target takes exactly those, when
\* the records are in step with the files and nothing outside the directory
\* was among the newest.
LEMMA LandsDown ==
    ASSUME NEW B \in SUBSET Records, InStep(B), FilesUnique(B), NEW D \in SUBSET Files, NEW t \in Files,
           NEW N, TakesNewest(N, B, Cardinality({r \in B : r.file \in D /\ r.file > t})),
           FilesOf(N) \subseteq D, \A f \in D : f <= t => f \in FilesOf(B)
    PROVE  FilesOf(B \ N) \cap D = {f \in D : f <= t}
<1> DEFINE W == {r \in B : r.file \in D /\ r.file > t}
<1>0. N \in SUBSET B /\ W \in SUBSET B /\ N \in SUBSET Records /\ W \in SUBSET Records /\ t \in Nat
  BY MigrationsAssumption DEF TakesNewest
<1>1. IsFiniteSet(N) /\ IsFiniteSet(B) /\ IsFiniteSet(W) /\ Cardinality(N) \in Nat /\ Cardinality(W) \in Nat
  BY <1>0, Counted
<1>2. Cardinality(N) = Cardinality(W)
  <2>1. Cardinality(W) <= Cardinality(B)
    BY <1>0, <1>1, FS_Subset
  <2> HIDE DEF W
  <2>2. Cardinality(N) = Cardinality(W) \/ (N = B /\ Cardinality(N) < Cardinality(W))
    BY DEF TakesNewest, W
  <2> QED BY <1>1, <2>1, <2>2
<1>3. ASSUME NEW r \in N, r \notin W PROVE W \subseteq N
  <2> SUFFICES ASSUME NEW x \in W, x \notin N PROVE FALSE
    OBVIOUS
  <2>1. r.file \in Nat /\ r.at \in Nat /\ x.file \in Nat /\ x.at \in Nat
    BY <1>0, RecordTyped
  <2>2. Older(x, r)
    BY DEF TakesNewest
  <2>3. r.file <= t /\ x.file > t
    BY <1>0, <1>3, <2>1, FilesOfMember
  <2>4. r.at <= x.at
    BY <1>0, <2>1, <2>3 DEF InStep
  <2> QED BY <1>0, <2>1, <2>2, <2>3, <2>4 DEF Older
<1>4. N = W
  <2>1. W \subseteq N => N = W
    BY <1>1, <1>2, FS_Subset
  <2>2. N \subseteq W => N = W
    BY <1>1, <1>2, FS_Subset
  <2> HIDE DEF W
  <2> QED BY <1>3, <2>1, <2>2
<1>5. ASSUME NEW f \in FilesOf(B \ N), f \in D PROVE f <= t
  <2>1. PICK x \in B \ N : x.file = f
    BY FilesOfIn
  <2> QED BY <1>0, <1>4, <1>5, <2>1, RecordTyped
<1>6. ASSUME NEW f \in D, f <= t PROVE f \in FilesOf(B \ N)
  <2>1. PICK x \in B : x.file = f
    BY <1>6, FilesOfIn
  <2>2. x \notin N
    BY <1>0, <1>4, <1>6, <2>1, RecordTyped
  <2> QED BY <2>1, <2>2, FilesOfMember
<1> QED BY <1>5, <1>6

\* A redo that applies: the reverted files come back in their order.
LEMMA RedoApplies ==
    ASSUME NEW c, NEW d, NEW r \in c.names, NEW R, NEW Q, NEW B,
           c.before \subseteq Records, RedoFits(c, R, B), Oldest(r, c.names), d.before = c.before,
           d.names = c.names \ {r}, FilesOf(Q) = FilesOf(R) \cup {r.file}
    PROVE  RedoFits(d, Q, B \cup (FilesOf(R) \X {r.file}))
<1> DEFINE s == FilesOf(R)
           E == B \cup (s \X {r.file})
<1>0. /\ c.names \subseteq c.before /\ \A x \in c.names, y \in c.before \ c.names : Older(y, x)
      /\ s = FilesOf(c.before \ c.names)
      /\ \A y, x \in c.before \ c.names : y.at < x.at => <<y.file, x.file>> \in B
  BY DEF RedoFits
<1>1. d.before \ d.names = (c.before \ c.names) \cup {r}
  BY <1>0
<1>2. FilesOf(Q) = FilesOf(d.before \ d.names)
  BY <1>0, <1>1, FilesOfAdd
<1>3. \A x \in d.names, y \in d.before \ d.names : Older(y, x)
  BY <1>0, <1>1 DEF Oldest
<1>4. ASSUME NEW y \in d.before \ d.names, NEW x \in d.before \ d.names, y.at < x.at
      PROVE <<y.file, x.file>> \in E
  <2>1. y.at \in Nat /\ x.at \in Nat
    BY RecordTyped
  <2>2. CASE y # r /\ x # r
    BY <1>0, <1>1, <1>4, <2>2
  <2>3. CASE y # r /\ x = r
    <3>1. y.file \in s
      BY <1>0, <1>1, <2>3, FilesOfMember
    <3> QED BY <2>3, <3>1
  <2>4. CASE y = r /\ x # r
    <3>1. Older(x, y)
      BY <1>0, <1>1, <2>4
    <3> QED BY <1>4, <2>1, <3>1 DEF Older
  <2>5. CASE y = r /\ x = r
    BY <1>4, <2>1, <2>5
  <2> QED BY <2>2, <2>3, <2>4, <2>5
<1> QED BY <1>0, <1>2, <1>3, <1>4 DEF RedoFits

\* A file is applied by the command that is alone.
LEMMA AloneApply ==
    ASSUME MigTyped, RecordsFit, AloneInv, NEW p \in Processes, Apply(p)
    PROVE  AloneInv' /\ Outcomes'
<1> DEFINE c == cmd[p]
<1>0. /\ CmdTyped /\ records \subseteq Records /\ dir \subseteq Files
      /\ c \in Commands /\ Shape(c) /\ c # NoCommand /\ c.at = "apply" /\ c.todo = {} /\ c.op # "down"
  BY Running DEF MigTyped, MigTypeOK, CmdTyped, Apply, Shape
<1>1. PICK r \in c.names :
        /\ Oldest(r, c.names) /\ r.file \in dir \ Applied
        /\ ranBefore' = ranBefore \cup (schema \X {r.file})
        /\ records' = records \cup {[file |-> r.file, at |-> clock]}
        /\ Continue(p, AfterApply(c, r), c.op # "up" /\ c.names = {r})
  BY DEF Apply
<1> DEFINE d == AfterApply(c, r)
           over == c.op # "up" /\ c.names = {r}
<1>2. Becomes(c, d, IF c.op = "up" THEN "check" ELSE "apply", c.n, c.names \ {r}, c.done, c.todo)
  BY <1>0, Changes
<1> HIDE DEF d
<1>3. d \in Commands /\ Shape(d) /\ Continue(p, d, over)
  BY <1>0, <1>1, <1>2, ShapeKept DEF Becomes, Shape, d
<1>a. over \in BOOLEAN
  OBVIOUS
<1> HIDE DEF over
<1>4. /\ cmd'[p] = IF over THEN NoCommand ELSE d
      /\ \A q \in Processes : q # p => cmd'[q] = cmd[q]
      /\ outcome' = IF over /\ d.alone THEN {d} ELSE {}
  <2>1. outcome' = IF over /\ d.alone THEN {d} ELSE {}
    BY <1>3 DEF Continue
  <2>2. /\ cmd'[p] = IF over THEN NoCommand ELSE d
        /\ \A q \in Processes : q # p => cmd'[q] = cmd[q]
    BY <1>0, <1>3, <1>a, ContinueTyped
  <2> QED BY <2>1, <2>2
<1> USE DEF over
<1>5. UNCHANGED <<dir, inOrder>> /\ FilesOf(records') = FilesOf(records) \cup {r.file}
  <2>1. FilesOf(records \cup {[file |-> r.file, at |-> clock]})
           = FilesOf(records) \cup {[file |-> r.file, at |-> clock].file}
    BY FilesOfAdd
  <2> QED BY <1>1, <2>1 DEF Apply
<1>6. /\ d.op = c.op /\ d.before = c.before /\ d.alone = c.alone /\ d.target = c.target
      /\ d.names = c.names \ {r} /\ d.at = IF c.op = "up" THEN "check" ELSE "apply"
  BY <1>2 DEF Becomes
<1>7. c.alone => AloneFits(c, dir, records, ranBefore, inOrder)
  BY DEF AloneInv
<1>8. ASSUME c.alone, c.op = "redo" PROVE RedoFits(d, records', ranBefore')
  <2>1. RedoFits(c, records, ranBefore) /\ c.before \subseteq Records
    BY <1>0, <1>7, <1>8 DEF AloneFits, Commands
  <2>2. schema = FilesOf(records)
    BY DEF RecordsFit, RecordsMatchSchema, Applied
  <2>3. RedoFits(d, records', ranBefore \cup (FilesOf(records) \X {r.file}))
    BY <1>1, <1>5, <1>6, <2>1, RedoApplies
  <2> QED BY <1>1, <2>2, <2>3
<1>9. ASSUME c.alone, c.op = "to" PROVE ToFits(d, dir', records', inOrder')
  <2>1. /\ c.target \in dir /\ \A x \in c.names : x.file <= c.target
        /\ inOrder => /\ \A f \in FilesOf(records) : f <= c.target
                      /\ \A f \in dir : f <= c.target => f \in FilesOf(records) \cup FilesOf(c.names)
    BY <1>0, <1>7, <1>9 DEF AloneFits, ToFits
  <2>2. FilesOf(c.names) \subseteq FilesOf(d.names) \cup {r.file}
    BY <1>6 DEF FilesOf
  <2>3. d.target \in dir' /\ d.at = "apply" /\ \A x \in d.names : x.file <= d.target
    BY <1>5, <1>6, <1>9, <2>1
  <2>4. inOrder' => \A f \in FilesOf(records') : f <= d.target
    BY <1>5, <1>6, <2>1
  <2>5. inOrder' => \A f \in dir' : f <= d.target => f \in FilesOf(records') \cup FilesOf(d.names)
    BY <1>5, <1>6, <2>1, <2>2
  <2> QED BY <2>3, <2>4, <2>5 DEF ToFits
<1>10. c.alone => AloneFits(d, dir', records', ranBefore', inOrder')
  BY <1>6, <1>7, <1>8, <1>9 DEF AloneFits
<1>11. AloneInv'
  BY <1>0, <1>4, <1>6, <1>10, IdleTyped, AloneMove
<1>12. ASSUME over, d.alone
       PROVE /\ DownLands(d, records') /\ RedoLands(d, records', ranBefore')
             /\ ToLands(d, dir', records', inOrder')
  <2>1. d.names = {} /\ c.alone /\ d.at = "apply"
    BY <1>6, <1>12
  <2>2. DownLands(d, records')
    BY <1>0, <1>6 DEF DownLands
  <2>3. RedoLands(d, records', ranBefore')
    BY <1>6, <1>8, <2>1 DEF RedoLands, RedoFits
  <2>4. d.op = "to" /\ inOrder' => FilesOf(records') \cap dir' = {f \in dir' : f <= d.target}
    <3> SUFFICES ASSUME d.op = "to", inOrder' PROVE FilesOf(records') \cap dir' = {f \in dir' : f <= d.target}
      OBVIOUS
    <3>1. FilesOf({}) = {}
      BY DEF FilesOf
    <3> QED BY <1>6, <1>9, <2>1, <3>1 DEF ToFits
  <2> QED BY <2>2, <2>3, <2>4 DEF ToLands
<1>13. Outcomes'
  BY <1>4, <1>12, OutcomeOf
<1> QED BY <1>11, <1>13

\* The newest n, or all there are, are listed.
LEMMA AloneList ==
    ASSUME MigTyped, RecordsFit, AloneInv, NEW p \in Processes, ListNewest(p)
    PROVE  AloneInv' /\ Outcomes'
<1> DEFINE c == cmd[p]
<1>0. /\ CmdTyped /\ records \subseteq Records /\ dir \subseteq Files
      /\ c \in Commands /\ Shape(c) /\ c # NoCommand /\ c.at = "list" /\ c.todo = {} /\ c.op # "up"
      /\ c.done = {} /\ UNCHANGED <<dir, records, ranBefore, inOrder>>
  BY Running DEF MigTyped, MigTypeOK, CmdTyped, ListNewest, Shape
<1>1. PICK N \in SUBSET records :
        /\ TakesNewest(N, records, c.n)
        /\ Continue(p, [c EXCEPT !.at = "revert", !.names = N], N = {})
  BY DEF ListNewest
<1> DEFINE d == [c EXCEPT !.at = "revert", !.names = N]
<1>2. Becomes(c, d, "revert", c.n, N, c.done, c.todo)
  BY <1>0, Changes
<1> HIDE DEF d
<1>3. d \in Commands /\ Shape(d) /\ Continue(p, d, N = {})
  BY <1>0, <1>1, <1>2, ShapeKept DEF Becomes, d
<1>4. /\ cmd'[p] = IF N = {} THEN NoCommand ELSE d
      /\ \A q \in Processes : q # p => cmd'[q] = cmd[q]
      /\ outcome' = IF N = {} /\ d.alone THEN {d} ELSE {}
  BY <1>0, <1>3, ContinueTyped DEF Continue
<1>5. /\ d.op = c.op /\ d.before = c.before /\ d.alone = c.alone /\ d.target = c.target
      /\ d.names = N /\ d.at = "revert" /\ d.done = {} /\ d.n = c.n
  BY <1>0, <1>2 DEF Becomes
<1>6. c.alone => AloneFits(c, dir, records, ranBefore, inOrder) /\ records = c.before
  BY <1>0 DEF AloneInv, AloneFits
<1>7. c.alone /\ c.op = "to" => ToFits(d, dir, records, inOrder)
  BY <1>0, <1>5, <1>6 DEF AloneFits, ToFits, BeyondBefore
<1>8. c.alone => AloneFits(d, dir, records, ranBefore, inOrder)
  <2> SUFFICES ASSUME c.alone PROVE AloneFits(d, dir, records, ranBefore, inOrder)
    OBVIOUS
  <2>1. d.names \cup d.done = N /\ d.before = records
    BY <1>5, <1>6
  <2>2. TakesNewest(d.names \cup d.done, d.before, d.n)
    BY <1>1, <1>5, <2>1
  <2> QED BY <1>5, <1>6, <1>7, <2>1, <2>2 DEF AloneFits
<1>9. AloneInv'
  BY <1>0, <1>4, <1>5, <1>8, IdleTyped, AloneMove
<1>10. ASSUME N = {}, d.alone
       PROVE /\ DownLands(d, records') /\ RedoLands(d, records', ranBefore')
             /\ ToLands(d, dir', records', inOrder')
  <2>0. d.before = records' /\ records' = records /\ d.before \ records' = N
    BY <1>0, <1>5, <1>6, <1>10
  <2>2. DownLands(d, records')
    BY <1>1, <1>5, <2>0 DEF DownLands
  <2>3. RedoLands(d, records', ranBefore')
    BY <1>0, <2>0, RunOrder DEF RedoLands
  <2>4. ASSUME d.op = "to", inOrder
        PROVE FilesOf(records') \cap dir' = {f \in dir' : f <= d.target}
    <3>1. /\ d.n = Cardinality(BeyondBefore(d, dir)) /\ InStep(d.before) /\ FilesUnique(d.before)
          /\ \A f \in dir : f <= d.target => f \in FilesOf(d.before)
      BY <1>5, <1>7, <1>8, <1>10, <2>4 DEF ToFits, AloneFits
    <3>2. TakesNewest({}, d.before, Cardinality({r \in d.before : r.file \in dir /\ r.file > d.target}))
      BY <1>1, <1>5, <1>10, <2>0, <3>1 DEF BeyondBefore
    <3>3. d.before \in SUBSET Records /\ dir \in SUBSET Files /\ d.target \in Files
      BY <1>0, <1>3 DEF Commands
    <3>4. FilesOf({}) \subseteq dir
      BY DEF FilesOf
    <3>5. FilesOf(d.before \ {}) \cap dir = {f \in dir : f <= d.target}
      BY <3>1, <3>2, <3>3, <3>4, LandsDown
    <3>6. d.before \ {} = records'
      BY <2>0
    <3> QED BY <1>0, <3>5, <3>6
  <2> QED BY <1>0, <2>2, <2>3, <2>4 DEF ToLands
<1>11. Outcomes'
  BY <1>4, <1>10, OutcomeOf
<1> QED BY <1>9, <1>11

\* One of the listed records is reverted.
LEMMA AloneRevert ==
    ASSUME MigTyped, RecordsFit, AloneInv, NEW p \in Processes, Revert(p)
    PROVE  AloneInv' /\ Outcomes'
<1> DEFINE c == cmd[p]
<1>0. /\ CmdTyped /\ records \subseteq Records /\ dir \subseteq Files /\ RecordsFit'
      /\ c \in Commands /\ Shape(c) /\ c # NoCommand /\ c.at = "revert" /\ c.todo = {} /\ c.op # "up"
  BY Running, RecordsDrop DEF MigTyped, MigTypeOK, CmdTyped, Revert, Shape
<1>1. PICK r \in c.names :
        /\ r.file \in dir \ NoDown /\ Drop(r.file)
        /\ Continue(p, AfterRevert(c, r), c.names = {r} /\ c.op # "redo")
  BY DEF Revert
<1> DEFINE d == AfterRevert(c, r)
           over == c.names = {r} /\ c.op # "redo"
<1>a. r \in Records /\ over \in BOOLEAN
  BY <1>0 DEF Commands
<1>2. IF c.names = {r} /\ c.op = "redo"
      THEN Becomes(c, d, "apply", c.n, c.done \cup {r}, {}, c.todo)
      ELSE Becomes(c, d, "revert", c.n, c.names \ {r}, c.done \cup {r}, c.todo)
  BY <1>0, <1>a, Changes
<1> HIDE DEF d
<1>3. d \in Commands /\ Shape(d) /\ Continue(p, d, over)
  BY <1>0, <1>1, <1>2, ShapeKept DEF Becomes, d
<1>4. /\ cmd'[p] = IF over THEN NoCommand ELSE d
      /\ \A q \in Processes : q # p => cmd'[q] = cmd[q]
      /\ outcome' = IF over /\ d.alone THEN {d} ELSE {}
  <2> HIDE DEF over
  <2>1. outcome' = IF over /\ d.alone THEN {d} ELSE {}
    BY <1>3 DEF Continue
  <2>2. /\ cmd'[p] = IF over THEN NoCommand ELSE d
        /\ \A q \in Processes : q # p => cmd'[q] = cmd[q]
    BY <1>0, <1>3, <1>a, ContinueTyped
  <2> QED BY <2>1, <2>2
<1>5. UNCHANGED <<dir, inOrder>> /\ (r \in records => records' = records \ {r})
  BY <1>1, RecordsDrop DEF Revert
<1>6. /\ d.op = c.op /\ d.before = c.before /\ d.alone = c.alone /\ d.target = c.target /\ d.n = c.n
  BY <1>2 DEF Becomes
<1> SUFFICES ASSUME c.alone PROVE AloneInv' /\ Outcomes'
  <2>1. ~c.alone => AloneInv'
    BY <1>0, <1>4, <1>6, IdleTyped, AloneMove
  <2>2. ~c.alone => Outcomes'
    BY <1>4, <1>6, NoOutcome
  <2> QED BY <2>1, <2>2
<1> DEFINE N == c.names \cup c.done
<1>7. /\ AloneFits(c, dir, records, ranBefore, inOrder) /\ TakesNewest(N, c.before, c.n)
      /\ c.names \cap c.done = {} /\ records = c.before \ c.done /\ N \subseteq c.before
  BY <1>0 DEF AloneInv, AloneFits, TakesNewest
<1>8. r \in records /\ records' = c.before \ (c.done \cup {r})
  BY <1>5, <1>7
<1>9. ASSUME c.op = "to"
      PROVE /\ d.target \in dir' /\ d.n = Cardinality(BeyondBefore(d, dir')) /\ FilesOf(c.done \cup {r}) \subseteq dir'
            /\ inOrder' => /\ InStep(d.before)
                           /\ \A f \in dir' : f <= d.target => f \in FilesOf(d.before)
  <2>1. ToFits(c, dir, records, inOrder)
    BY <1>7, <1>9 DEF AloneFits
  <2>2. FilesOf(c.done \cup {r}) \subseteq dir
    BY <1>0, <1>1, <2>1, FilesOfAdd DEF ToFits
  <2>3. BeyondBefore(d, dir') = BeyondBefore(c, dir)
    BY <1>5, <1>6 DEF BeyondBefore
  <2> QED BY <1>0, <1>5, <1>6, <2>1, <2>2, <2>3 DEF ToFits
<1>10. AloneInv'
  <2>1. CASE over
    BY <1>0, <1>4, <2>1, IdleTyped, AloneMove
  <2>2. CASE c.names = {r} /\ c.op = "redo"
    <3>1. d.at = "apply" /\ d.names = c.done \cup {r} /\ d.names = N /\ cmd'[p] = d
      BY <1>2, <1>4, <2>2 DEF Becomes
    <3>2. d.before \ d.names = records' /\ records' \subseteq Records
      BY <1>0, <1>6, <1>8, <3>1 DEF Commands
    <3>3. \A y, x \in records' : y.at < x.at => <<y.file, x.file>> \in ranBefore'
      <4> SUFFICES ASSUME NEW y \in records', NEW x \in records', y.at < x.at
                   PROVE <<y.file, x.file>> \in ranBefore'
        OBVIOUS
      <4>1. y.at \in Nat /\ x.at \in Nat
        BY <3>2, RecordTyped
      <4>2. y.file # x.file
        BY <1>0, <4>1 DEF RecordsFit, RecordsMatchSchema
      <4>3. y.file \in schema' /\ x.file \in schema'
        BY <1>0, FilesOfMember DEF RecordsFit, RecordsMatchSchema, Applied
      <4>4. <<x.file, y.file>> \notin ranBefore'
        BY <1>0, <4>1 DEF RecordsFit, RecordsMatchSchema
      <4> QED BY <1>0, <4>2, <4>3, <4>4 DEF RecordsFit
    <3>4. /\ d.names \subseteq d.before
          /\ \A x \in d.names, y \in d.before \ d.names : Older(y, x)
      BY <1>6, <1>7, <3>1 DEF TakesNewest
    <3>5. RedoFits(d, records', ranBefore')
      BY <3>2, <3>3, <3>4 DEF RedoFits
    <3>6. AloneFits(d, dir', records', ranBefore', inOrder')
      BY <1>6, <1>7, <2>2, <3>1, <3>5 DEF AloneFits
    <3> QED BY <1>0, <1>4, <3>1, <3>6, AloneMove
  <2>3. CASE c.names # {r}
    <3>1. d.at = "revert" /\ d.names = c.names \ {r} /\ d.done = c.done \cup {r} /\ cmd'[p] = d
      BY <1>2, <1>4, <2>3 DEF Becomes
    <3>2. d.names \cup d.done = N /\ d.names \cap d.done = {}
      BY <1>7, <3>1
    <3>3. TakesNewest(d.names \cup d.done, d.before, d.n)
      BY <1>6, <1>7, <3>2
    <3>4. d.op = "to" => ToFits(d, dir', records', inOrder')
      BY <1>6, <1>9, <3>1 DEF ToFits
    <3>5. AloneFits(d, dir', records', ranBefore', inOrder')
      BY <1>6, <1>7, <1>8, <3>1, <3>2, <3>3, <3>4 DEF AloneFits
    <3> QED BY <1>0, <1>4, <3>1, <3>5, AloneMove
  <2> QED BY <2>1, <2>2, <2>3
<1>11. ASSUME over
       PROVE /\ DownLands(d, records') /\ RedoLands(d, records', ranBefore')
             /\ ToLands(d, dir', records', inOrder')
  <2>1. N = c.done \cup {r} /\ records' = d.before \ N /\ d.before \ records' = N
    BY <1>6, <1>7, <1>8, <1>11
  <2>2. TakesNewest(N, d.before, d.n) /\ d.before \in SUBSET Records /\ d.n \in Nat /\ d.target \in Files
    BY <1>3, <1>6, <1>7 DEF Commands
  <2>3. DownLands(d, records')
    BY <2>1, <2>2 DEF DownLands
  <2>4. RedoLands(d, records', ranBefore')
    BY <1>6, <1>11 DEF RedoLands
  <2>5. ASSUME d.op = "to", inOrder'
        PROVE FilesOf(records') \cap dir' = {f \in dir' : f <= d.target}
    <3>1. /\ TakesNewest(N, d.before, Cardinality({y \in d.before : y.file \in dir' /\ y.file > d.target}))
          /\ InStep(d.before) /\ FilesOf(N) \subseteq dir'
          /\ \A f \in dir' : f <= d.target => f \in FilesOf(d.before)
      BY <1>6, <1>9, <2>1, <2>2, <2>5 DEF BeyondBefore
    <3>2. FilesUnique(d.before) /\ dir' \in SUBSET Files
      BY <1>0, <1>5, <1>6, <1>7 DEF AloneFits
    <3> HIDE DEF N
    <3>3. FilesOf(d.before \ N) \cap dir' = {f \in dir' : f <= d.target}
      BY <2>2, <3>1, <3>2, LandsDown
    <3> QED BY <2>1, <3>3
  <2> QED BY <2>3, <2>4, <2>5 DEF ToLands
<1>12. Outcomes'
  BY <1>4, <1>11, OutcomeOf
<1> QED BY <1>10, <1>12

\* Status looks at one file after the other.
LEMMA AloneScan ==
    ASSUME MigTyped, AloneInv, NEW p \in Processes, Scan(p)
    PROVE  AloneInv' /\ Outcomes'
<1> DEFINE c == cmd[p]
<1>0. /\ CmdTyped /\ records \subseteq Records /\ c \in Commands /\ Shape(c)
      /\ UNCHANGED <<dir, records, ranBefore, inOrder>>
  BY Running DEF MigTyped, MigTypeOK, CmdTyped, Scan
<1>1. PICK r \in c.names, d \in Commands :
        /\ c.at = "scan" /\ c # NoCommand /\ r.file \in dir
        /\ cmd' = [cmd EXCEPT ![p] = d] /\ outcome' = {}
        /\ Becomes(c, d, "scan", c.n, c.names \ {r}, c.done \cup Found(r),
                   IF Found(r) = {} THEN c.todo \cup {r} ELSE c.todo)
  BY <1>0, ScanEffect
<1>2. cmd'[p] = d /\ \A q \in Processes : q # p => cmd'[q] = cmd[q]
  BY <1>0, <1>1 DEF CmdTyped
<1>3. /\ d.op = c.op /\ d.before = c.before /\ d.alone = c.alone /\ d.target = c.target /\ d.at = "scan"
      /\ d.names = c.names \ {r} /\ d.done = c.done \cup Found(r)
      /\ d.todo = IF Found(r) = {} THEN c.todo \cup {r} ELSE c.todo
      /\ c.op = "to"
  BY <1>0, <1>1 DEF Becomes, Shape
<1>4. ASSUME c.alone PROVE AloneFits(d, dir, records, ranBefore, inOrder)
  <2>1. /\ FilesUnique(c.before) /\ records = c.before /\ c.target \in dir
        /\ c.done \subseteq records /\ FilesOf(c.done) \subseteq dir
        /\ \A x \in c.todo : x.file \notin FilesOf(records)
        /\ dir \subseteq FilesOf(c.names) \cup FilesOf(c.todo) \cup FilesOf(c.done)
    BY <1>1, <1>3, <1>4 DEF AloneInv, AloneFits, ToFits
  <2>2. d.done \subseteq records /\ FilesOf(d.done) \subseteq dir
    BY <1>1, <1>3, <2>1 DEF Found, FilesOf
  <2>3. \A x \in d.todo : x.file \notin FilesOf(records)
    BY <1>3, <2>1 DEF Found, FilesOf
  <2>4. ASSUME NEW f \in dir PROVE f \in FilesOf(d.names) \cup FilesOf(d.todo) \cup FilesOf(d.done)
    <3>1. CASE f \in FilesOf(c.todo) \cup FilesOf(c.done)
      BY <1>3, <3>1 DEF FilesOf
    <3>2. CASE f \in FilesOf(c.names)
      <4>1. PICK x \in c.names : x.file = f
        BY <3>2, FilesOfIn
      <4>2. CASE x # r
        BY <1>3, <4>1, <4>2, FilesOfMember
      <4>3. CASE x = r /\ Found(r) = {}
        BY <1>3, <4>1, <4>3, FilesOfMember
      <4>4. CASE x = r /\ Found(r) # {}
        <5>1. PICK y \in Found(r) : TRUE
          BY <4>4
        <5>2. y \in d.done /\ y.file = f
          BY <1>3, <4>1, <4>4, <5>1 DEF Found
        <5> QED BY <5>2, FilesOfMember
      <4> QED BY <4>2, <4>3, <4>4
    <3> QED BY <2>1, <3>1, <3>2
  <2>5. ToFits(d, dir, records, inOrder)
    BY <1>3, <2>1, <2>2, <2>3, <2>4 DEF ToFits
  <2> QED BY <1>3, <2>1, <2>5 DEF AloneFits
<1> QED BY <1>0, <1>1, <1>2, <1>3, <1>4, AloneMove, NoOutcome

\* MigrateDirTo decides on the whole of what Status found.
LEMMA AloneDecide ==
    ASSUME MigTyped, RecordsFit, InOrderInv, AloneInv, NEW p \in Processes, Decide(p)
    PROVE  AloneInv' /\ Outcomes'
<1> DEFINE c == cmd[p]
           U == {r \in c.todo : r.file <= c.target}
           n == Cardinality(Beyond(c))
<1>0. /\ CmdTyped /\ records \subseteq Records /\ dir \subseteq Files
      /\ c \in Commands /\ Shape(c) /\ c # NoCommand /\ c.at = "scan" /\ c.op = "to" /\ c.names = {}
      /\ UNCHANGED <<dir, records, ranBefore, inOrder>>
  BY Running DEF MigTyped, MigTypeOK, CmdTyped, Decide, Shape
<1>1. Beyond(c) \in SUBSET Records /\ U \in SUBSET Records /\ 0 \in Nat /\ c.target \in Nat
  BY <1>0, MigrationsAssumption DEF Commands, Beyond
<1>2. n \in Nat
  BY <1>1, Counted
<1> DEFINE d == Settle(c, "list", n, {})
           e == Settle(c, "apply", 0, U)
<1>3. Becomes(c, d, "list", n, {}, {}, {}) /\ Becomes(c, e, "apply", 0, U, {}, {})
  BY <1>0, <1>1, <1>2, Changes
<1>4. \/ c.target \in FilesOf(c.done) /\ Continue(p, d, Beyond(c) = {})
      \/ c.target \notin FilesOf(c.done) /\ Continue(p, e, FALSE)
  BY DEF Decide
<1> HIDE DEF d, e
<1>5. d \in Commands /\ Shape(d) /\ e \in Commands /\ Shape(e)
  BY <1>0, <1>3, ShapeKept DEF Becomes
<1>6. ASSUME c.alone
      PROVE /\ FilesUnique(c.before) /\ records = c.before /\ c.target \in dir
            /\ c.done \subseteq records /\ FilesOf(c.done) \subseteq dir
            /\ \A x \in c.todo : x.file \notin FilesOf(records)
            /\ dir \subseteq FilesOf(c.todo) \cup FilesOf(c.done)
  <2>1. AloneFits(c, dir, records, ranBefore, inOrder) /\ ToFits(c, dir, records, inOrder)
    BY <1>0, <1>6 DEF AloneInv, AloneFits
  <2>2. FilesOf(c.names) = {}
    BY <1>0 DEF FilesOf
  <2> QED BY <1>0, <2>1, <2>2 DEF AloneFits, ToFits
<1>7. FilesOf(c.done) \subseteq FilesOf(records) \/ ~c.alone
  BY <1>6 DEF FilesOf
<1>8. inOrder => InStep(records) /\ \A f \in FilesOf(records), g \in dir : g < f => g \in FilesOf(records)
  BY DEF InOrderInv, Applied
<1>9. \A f \in FilesOf(records) \cup dir : f \in Nat
  BY <1>0, FilesOfIn, RecordTyped, MigrationsAssumption
<1>10. CASE c.target \in FilesOf(c.done) /\ Continue(p, d, Beyond(c) = {})
  <2>1. /\ cmd'[p] = IF Beyond(c) = {} THEN NoCommand ELSE d
        /\ \A q \in Processes : q # p => cmd'[q] = cmd[q]
    BY <1>0, <1>5, <1>10, ContinueTyped
  <2>2. outcome' = IF Beyond(c) = {} /\ d.alone THEN {d} ELSE {}
    BY <1>10 DEF Continue
  <2>3. /\ d.op = "to" /\ d.before = c.before /\ d.alone = c.alone /\ d.target = c.target
        /\ d.at = "list" /\ d.n = n /\ d.done = {} /\ d.todo = {}
    BY <1>0, <1>3 DEF Becomes
  <2>4. ASSUME c.alone PROVE Beyond(c) = BeyondBefore(c, dir)
    <3>1. Beyond(c) \subseteq BeyondBefore(c, dir)
      BY <1>6, <2>4, FilesOfMember DEF Beyond, BeyondBefore
    <3>2. ASSUME NEW r \in BeyondBefore(c, dir) PROVE r \in Beyond(c)
      <4>1. r \in records /\ r.file \in dir /\ r.file > c.target
        BY <1>6, <2>4 DEF BeyondBefore
      <4>2. r.file \in FilesOf(records)
        BY <4>1, FilesOfMember
      <4>3. r.file \notin FilesOf(c.todo)
        BY <1>6, <2>4, <4>2, FilesOfIn
      <4>4. PICK x \in c.done : x.file = r.file
        BY <1>6, <2>4, <4>1, <4>3, FilesOfIn
      <4>5. x = r
        BY <1>6, <2>4, <4>1, <4>4 DEF FilesUnique
      <4> QED BY <4>1, <4>4, <4>5 DEF Beyond
    <3> QED BY <3>1, <3>2
  <2>5. ASSUME c.alone, inOrder
        PROVE InStep(records) /\ \A f \in dir : f <= c.target => f \in FilesOf(records)
    <3>1. c.target \in FilesOf(records)
      BY <1>7, <1>10, <2>5
    <3>2. ASSUME NEW f \in dir, f <= c.target PROVE f \in FilesOf(records)
      <4>1. f = c.target \/ f < c.target
        BY <1>1, <1>9, <3>2
      <4> QED BY <1>8, <2>5, <3>1, <4>1
    <3> QED BY <1>8, <2>5, <3>2
  <2>6. ASSUME c.alone PROVE AloneFits(d, dir, records, ranBefore, inOrder)
    <3>1. BeyondBefore(d, dir) = BeyondBefore(c, dir) /\ FilesOf({}) \subseteq dir
      BY <2>3 DEF BeyondBefore, FilesOf
    <3>2. ToFits(d, dir, records, inOrder)
      BY <1>6, <2>3, <2>4, <2>5, <2>6, <3>1 DEF ToFits
    <3> QED BY <1>6, <2>3, <2>6, <3>2 DEF AloneFits
  <2>7. AloneInv'
    BY <1>0, <2>1, <2>3, <2>6, IdleTyped, AloneMove
  <2>8. ASSUME Beyond(c) = {}, d.alone, inOrder
        PROVE FilesOf(records) \cap dir = {f \in dir : f <= d.target}
    <3>1. ASSUME NEW f \in FilesOf(records), f \in dir PROVE f <= c.target
      <4>1. PICK r \in records : r.file = f
        BY FilesOfIn
      <4>2. r \notin BeyondBefore(c, dir)
        BY <2>3, <2>4, <2>8
      <4>3. ~(f > c.target)
        BY <1>6, <2>3, <2>8, <3>1, <4>1, <4>2 DEF BeyondBefore
      <4> QED BY <1>1, <1>9, <4>3
    <3> QED BY <2>3, <2>5, <2>8, <3>1
  <2>9. Outcomes'
    <3>1. ASSUME Beyond(c) = {}, d.alone
          PROVE /\ DownLands(d, records') /\ RedoLands(d, records', ranBefore')
                /\ ToLands(d, dir', records', inOrder')
      BY <1>0, <2>3, <2>8, <3>1 DEF DownLands, RedoLands, ToLands
    <3> QED BY <2>2, <3>1, OutcomeOf
  <2> QED BY <2>7, <2>9
<1>11. CASE c.target \notin FilesOf(c.done) /\ Continue(p, e, FALSE)
  <2>1. /\ cmd'[p] = e /\ \A q \in Processes : q # p => cmd'[q] = cmd[q]
    BY <1>0, <1>5, <1>11, ContinueTyped
  <2>2. outcome' = {}
    BY <1>11 DEF Continue
  <2>3. /\ e.op = "to" /\ e.before = c.before /\ e.alone = c.alone /\ e.target = c.target
        /\ e.at = "apply" /\ e.names = U
    BY <1>0, <1>3 DEF Becomes
  <2>4. ASSUME c.alone PROVE AloneFits(e, dir, records, ranBefore, inOrder)
    <3>1. c.target \notin FilesOf(records)
      BY <1>6, <1>11, <2>4, FilesOfIn
    <3>2. ASSUME inOrder, NEW f \in FilesOf(records) PROVE f <= c.target
      BY <1>1, <1>6, <1>8, <1>9, <2>4, <3>1, <3>2
    <3>3. ASSUME NEW f \in dir, f <= c.target PROVE f \in FilesOf(records) \cup FilesOf(U)
      <4>1. CASE f \in FilesOf(c.done)
        BY <1>7, <2>4, <4>1
      <4>2. CASE f \in FilesOf(c.todo)
        <5>1. PICK x \in c.todo : x.file = f
          BY <4>2, FilesOfIn
        <5>2. x \in U
          BY <3>3, <5>1
        <5> QED BY <5>1, <5>2, FilesOfMember
      <4> QED BY <1>6, <2>4, <4>1, <4>2
    <3>4. ToFits(e, dir, records, inOrder)
      BY <1>6, <2>3, <2>4, <3>2, <3>3 DEF ToFits
    <3> QED BY <1>6, <2>3, <2>4, <3>4 DEF AloneFits
  <2> QED BY <1>0, <2>1, <2>2, <2>3, <2>4, AloneMove, NoOutcome
<1> QED BY <1>4, <1>10, <1>11

\* An up looks only at what is recorded; a command that ends is none.
LEMMA AloneUpOrStop ==
    ASSUME MigTyped, AloneInv, NEW p \in Processes, Check(p) \/ UpToDate(p) \/ Stop(p)
    PROVE  AloneInv' /\ Outcomes'
<1> DEFINE c == cmd[p]
<1>0. /\ CmdTyped /\ c \in Commands /\ Shape(c)
      /\ UNCHANGED <<dir, records, ranBefore, inOrder>>
  BY Running DEF MigTyped, MigTypeOK, CmdTyped, Check, UpToDate, Stop
<1>1. CASE Check(p)
  <2>1. PICK r \in c.names, d \in Commands :
              /\ c.at = "check" /\ c # NoCommand /\ cmd' = [cmd EXCEPT ![p] = d] /\ outcome' = {}
              /\ IF r.file \in Applied
                 THEN Becomes(c, d, "check", c.n, c.names \ {r}, c.done, c.todo)
                 ELSE Becomes(c, d, "apply", c.n, c.names, c.done, c.todo)
    BY <1>0, <1>1, CheckEffect
  <2>2. cmd'[p] = d /\ (\A q \in Processes : q # p => cmd'[q] = cmd[q])
    BY <1>0, <2>1 DEF CmdTyped
  <2>3. /\ d.op = "up" /\ d.alone = c.alone /\ d.before = c.before /\ d.at \in {"check", "apply"}
    BY <1>0, <2>1 DEF Becomes, Shape
  <2>4. c.alone => AloneFits(d, dir', records', ranBefore', inOrder')
    BY <2>3 DEF AloneInv, AloneFits
  <2> QED BY <2>1, <2>2, <2>3, <2>4, AloneMove, NoOutcome
<1>2. CASE UpToDate(p) \/ Stop(p)
  <2>1. c # NoCommand /\ cmd' = [cmd EXCEPT ![p] = NoCommand]
    BY <1>0, <1>2, Running DEF UpToDate, Stop, Continue
  <2>2. cmd'[p] = NoCommand /\ (\A q \in Processes : q # p => cmd'[q] = cmd[q])
    BY <1>0, <2>1 DEF CmdTyped
  <2>3. AloneInv'
    BY <2>1, <2>2, IdleTyped, AloneMove
  <2>4. CASE Stop(p)
    BY <2>3, <2>4, NoOutcome DEF Stop
  <2>5. CASE UpToDate(p)
    <3>1. outcome' \subseteq {c} /\ c.op = "up"
      BY <1>0, <2>5 DEF UpToDate, Continue, Shape
    <3>2. DownLands(c, records') /\ RedoLands(c, records', ranBefore') /\ ToLands(c, dir', records', inOrder')
      BY <3>1 DEF DownLands, RedoLands, ToLands
    <3> QED BY <2>3, <3>1, <3>2, OutcomeOf
  <2> QED BY <1>2, <2>4, <2>5
<1> QED BY <1>1, <1>2

\* A command that is alone, step by step.
LEMMA AloneStep ==
    MigTyped /\ RecordsFit /\ InOrderInv /\ AloneInv /\ Outcomes /\ [MigNext]_migVars
        => AloneInv' /\ Outcomes'
<1> SUFFICES ASSUME MigTyped, RecordsFit, InOrderInv, AloneInv, Outcomes, [MigNext]_migVars
             PROVE AloneInv' /\ Outcomes'
  OBVIOUS
<1>1. ASSUME NEW f \in Files,
             NewMigrationFile(f) \/ NewOutgrowsPadding(f) \/ MergeFile(f) \/ RemoveFile(f)
      PROVE AloneInv' /\ Outcomes'
  BY <1>1, AloneDisturbed DEF NewMigrationFile, NewOutgrowsPadding, MergeFile, RemoveFile
<1>2. ASSUME Tick PROVE AloneInv' /\ Outcomes'
  BY <1>2, NoOutcome DEF Tick, AloneInv
<1>3. ASSUME UNCHANGED migVars PROVE AloneInv' /\ Outcomes'
  BY <1>3 DEF migVars, AloneInv, Outcomes, DownOutcomes, RedoRestores, ToLandsOnTarget, Applied, FilesOf
<1>4. ASSUME NEW p \in Processes,
             \/ Up(p)
             \/ \E op \in {"down", "redo"}, n \in 1..MaxRevert : DownOrRedo(p, op, n)
             \/ \E t \in Files : To(p, t)
      PROVE AloneInv' /\ Outcomes'
  BY <1>4, Starts, AloneStart
<1>5. ASSUME NEW p \in Processes, Check(p) \/ UpToDate(p) \/ Stop(p)
      PROVE AloneInv' /\ Outcomes'
  BY <1>5, AloneUpOrStop
<1>6. ASSUME NEW p \in Processes, Apply(p) PROVE AloneInv' /\ Outcomes'
  BY <1>6, AloneApply
<1>7. ASSUME NEW p \in Processes, ListNewest(p) PROVE AloneInv' /\ Outcomes'
  BY <1>7, AloneList
<1>8. ASSUME NEW p \in Processes, Revert(p) PROVE AloneInv' /\ Outcomes'
  BY <1>8, AloneRevert
<1>9. ASSUME NEW p \in Processes, Scan(p) PROVE AloneInv' /\ Outcomes'
  BY <1>9, AloneScan
<1>10. ASSUME NEW p \in Processes, Decide(p) PROVE AloneInv' /\ Outcomes'
  BY <1>10, AloneDecide
<1> QED BY <1>1, <1>2, <1>3, <1>4, <1>5, <1>6, <1>7, <1>8, <1>9, <1>10 DEF MigNext

-----------------------------------------------------------------------------
(* The theorems.                                                           *)

\* An empty directory and no command.
LEMMA InitMig == MigInit => MigInv
<1> SUFFICES ASSUME MigInit PROVE MigInv
  OBVIOUS
<1>1. \A p \in Processes : cmd[p] = NoCommand
  BY DEF MigInit
<1>2. FilesOf({}) = {}
  BY DEF FilesOf
<1>3. MigTyped
  BY <1>1, IdleTyped, MigrationsAssumption DEF MigInit, MigTyped, MigTypeOK
<1>4. RecordsFit
  BY <1>2 DEF MigInit, RecordsFit, RecordsMatchSchema, Applied
<1>5. AloneInv
  BY <1>1, IdleTyped DEF AloneInv
<1>6. InOrderInv
  BY <1>1, <1>2, IdleInOrder DEF MigInit, InOrderInv, InStep, Applied
<1>7. DownOutcomes /\ RedoRestores /\ ToLandsOnTarget
  BY DEF MigInit, DownOutcomes, RedoRestores, ToLandsOnTarget
<1> QED BY <1>3, <1>4, <1>5, <1>6, <1>7 DEF MigInv

\* Every step keeps the invariant.
LEMMA StepMig == MigInv /\ [MigNext]_migVars => MigInv'
BY TypedStep, RecordsStep, InOrderStep, AloneStep DEF MigInv, Outcomes

\* The inductive invariant: types, records that are the schema in its order,
\* what a command that is alone knows, and the filename order it works in while
\* every file that came sorted last.
THEOREM MigInductive == MigSpec => []MigInv
BY InitMig, StepMig, PTL DEF MigSpec

\* migrate.go, what the tables and the running commands can hold.
THEOREM MigTypeCorrect == MigSpec => []MigTypeOK
<1>1. MigInv => MigTypeOK
  BY DEF MigInv, MigTyped
<1> QED BY <1>1, MigInductive, PTL

\* migrate.go, one transaction for a section and its record: schema_migrations
\* is what the schema is built of, with times that never run against the order
\* of execution, for any number of overlapping, failing and cut-off commands.
THEOREM RecordsTell == MigSpec => []RecordsMatchSchema
<1>1. MigInv => RecordsMatchSchema
  BY DEF MigInv, RecordsFit
<1> QED BY <1>1, MigInductive, PTL

\* migrate.go, MigrateDirTo's assumption: while every file that came sorted
\* last, the applied files are a prefix of the directory, wherever a command
\* stopped.
THEOREM PrefixKept == MigSpec => []AppliedIsAPrefix
<1>1. MigInv => AppliedIsAPrefix
  BY DEF MigInv, InOrderInv, AppliedIsAPrefix
<1> QED BY <1>1, MigInductive, PTL

\* What a command that is alone leaves standing, though it ran after a record
\* that is to be reverted, shares that one's second and has a lower name.
LEMMA LeftStanding ==
    ASSUME MigTyped, RecordsFit, AloneInv, NEW p \in Processes,
           cmd[p].at = "revert", cmd[p].alone,
           NEW r \in cmd[p].names, NEW x \in records \ cmd[p].names,
           <<r.file, x.file>> \in ranBefore
    PROVE  x.at = r.at /\ x.file < r.file
<1> DEFINE c == cmd[p]
           N == c.names \cup c.done
<1>1. /\ TakesNewest(N, c.before, c.n) /\ c.names \cap c.done = {}
      /\ records = c.before \ c.done
  BY DEF AloneInv, AloneFits
<1>2. r \in N /\ x \in c.before \ N /\ r \in c.before
  BY <1>1 DEF TakesNewest
<1>3. Older(x, r)
  BY <1>1, <1>2 DEF TakesNewest
<1>4. r \in records
  BY <1>1, <1>2
<1>5. r.at <= x.at
  BY <1>4 DEF RecordsFit, RecordsMatchSchema
<1>6. r.at \in Nat /\ x.at \in Nat
  BY <1>4, RecordTyped DEF MigTyped, MigTypeOK
<1> QED BY <1>3, <1>5, <1>6 DEF Older

\* migrate.go, MigrateDirDown: down n takes exactly the first n of applied_at
\* DESC, version DESC, and only a file of the same second and a lower name may
\* stand though it ran after one that is to go.
THEOREM DownIsNewestFirst == MigSpec => []DownTakesTheNewest
<1>1. MigInv => DownTakesTheNewest
  BY LeftStanding DEF MigInv, DownOutcomes, DownTakesTheNewest
<1> QED BY <1>1, MigInductive, PTL

\* migrate.go, MigrateDirRedo: redo ends with what there was, the files of
\* different seconds in their order.
THEOREM RedoIsNeutral == MigSpec => []RedoRestores
<1>1. MigInv => RedoRestores
  BY DEF MigInv
<1> QED BY <1>1, MigInductive, PTL

\* migrate.go, MigrateDirTo: counting by filename and reverting by age land on
\* the target, as long as the files came in order.
THEOREM ToIsExact == MigSpec => []ToLandsOnTarget
<1>1. MigInv => ToLandsOnTarget
  BY DEF MigInv
<1> QED BY <1>1, MigInductive, PTL
=============================================================================
