----------------------------- MODULE OwnerPlane -----------------------------
(***************************************************************************)
(* The owner plane (internal/ownerauth/service.go and the handlers on it): *)
(* the accounts of the team that runs a deployment, their sessions, the    *)
(* bootstrap at start-up, the last-owner rule and the audit trail.         *)
(*                                                                         *)
(* requireOwnerRole reads the caller's session and role in one statement   *)
(* and the handler runs after it, so the caller may be gone by the time    *)
(* its request writes.  DeleteOwner is one transaction, hence one step;    *)
(* the audit entry of what a handler did is a further statement, which may *)
(* fail.  The process restarts at any time and loses its requests.         *)
(***************************************************************************)
EXTENDS Naturals, FiniteSets

CONSTANTS Procs,        \* requests that can be in flight at the same time
          Emails,       \* normalized addresses
          BootEmail,    \* MAUBASE_BOOTSTRAP_OWNER_EMAIL
          MaxOwner,     \* bound: accounts ever created
          MaxSession,   \* bound: sessions ever created
          MaxAudit,     \* bound: distinct audit entries
          Granted       \* the roles new accounts are asked for

ASSUME OwnerAssumption ==
    /\ BootEmail \in Emails
    /\ MaxOwner \in Nat /\ MaxSession \in Nat /\ MaxAudit \in Nat
    /\ Granted \subseteq {"viewer", "developer", "admin", "owner"}

Ids  == 1..MaxOwner
Sids == 1..MaxSession

\* The four fixed roles by rank.
rank == [viewer |-> 1, developer |-> 2, admin |-> 3, owner |-> 4]
Roles == {"viewer", "developer", "admin", "owner"}
AtLeast(r, min) == rank[r] >= rank[min]

VARIABLES
    owners,    \* owner_users: [id, email, role]
    sessions,  \* owner_sessions: [sid, owner, expired]
    nextId, nextSid,
    server,    \* the process: "down", "counted" (Bootstrap saw no owner) or "up"
    req,       \* req[p]: the request in flight, past its authentication
    audit,     \* owner_audit_log: [event, actor, target]
    made       \* history: every account ever created, and by whom (0: Bootstrap)

vars == <<owners, sessions, nextId, nextSid, server, req, audit, made>>
tables == <<owners, sessions, nextId, nextSid, made>>

Entries == [event : {"login", "login_failed", "login_rate_limited", "logout", "owner_create",
                     "owner_delete", "sessions_purged"},
            actor : Ids \cup {0}, target : Ids \cup {0}]

Entry(e, a, t) == [event |-> e, actor |-> a, target |-> t]

\* at: the next statement; actor: the caller requireOwnerRole found, or the
\* account a login has verified; sid: the session a logout will delete;
\* entry: what the handler records once its write is done.
Requests == [at : {"idle", "session_insert", "create", "fetch", "delete",
                   "purge", "record", "logout"},
             actor : Ids \cup {0}, sid : Sids \cup {0}, entry : Entries]

NoRequest == [at |-> "idle", actor |-> 0, sid |-> 0, entry |-> Entry("login", 0, 0)]

TypeOK ==
    /\ owners \subseteq [id : Ids, email : Emails, role : Roles]
    /\ sessions \subseteq [sid : Sids, owner : Ids, expired : BOOLEAN]
    /\ nextId \in 1..(MaxOwner + 1)
    /\ nextSid \in 1..(MaxSession + 1)
    /\ server \in {"down", "counted", "up"}
    /\ req \in [Procs -> Requests]
    /\ audit \subseteq Entries
    /\ made \subseteq [id : Ids, role : Roles, by : Ids \cup {0}]

Init ==
    /\ owners = {} /\ sessions = {} /\ audit = {} /\ made = {}
    /\ nextId = 1 /\ nextSid = 1
    /\ server = "down"
    /\ req = [p \in Procs |-> NoRequest]

-----------------------------------------------------------------------------
(* Start-up.                                                               *)

OwnerIds == {o.id : o \in owners}
Taken(m) == \E o \in owners : o.email = m

\* createOwner's INSERT, past the unique index on the address.
AddOwner(m, r, creator) ==
    /\ nextId <= MaxOwner
    /\ ~Taken(m)
    /\ owners' = owners \cup {[id |-> nextId, email |-> m, role |-> r]}
    /\ made' = made \cup {[id |-> nextId, role |-> r, by |-> creator]}
    /\ nextId' = nextId + 1

\* Fault: only the configured address is counted.
CountByEmail ==
    /\ server = "down"
    /\ server' = IF Taken(BootEmail) THEN "up" ELSE "counted"
    /\ UNCHANGED <<tables, req, audit>>

\* Bootstrap's COUNT(*): any account at all ends it.
BootstrapCount ==
    /\ server = "down"
    /\ server' = IF owners = {} THEN "counted" ELSE "up"
    /\ UNCHANGED <<tables, req, audit>>

\* createOwner; when reading the new account back fails, start-up does too.
BootstrapCreate ==
    /\ server = "counted"
    /\ AddOwner(BootEmail, "owner", 0)
    /\ server' \in {"up", "down"}
    /\ UNCHANGED <<sessions, nextSid, req, audit>>

\* A start without MAUBASE_BOOTSTRAP_OWNER_EMAIL and _PASSWORD.
StartUnconfigured ==
    /\ server = "down"
    /\ server' = "up"
    /\ UNCHANGED <<tables, req, audit>>

\* The process stops, in the middle of whatever it is doing.
Crash ==
    /\ server # "down"
    /\ server' = "down"
    /\ req' = [p \in Procs |-> NoRequest]
    /\ UNCHANGED <<tables, audit>>

-----------------------------------------------------------------------------
(* Requests, and the audit entry that ends most of them.                   *)

Begin(p, r) ==
    /\ server = "up"
    /\ req[p] = NoRequest
    /\ req' = [req EXCEPT ![p] = r]

End(p) == req' = [req EXCEPT ![p] = NoRequest]

ThenRecord(p, e) == req' = [req EXCEPT ![p].at = "record", ![p].entry = e]

\* RecordLogged: the INSERT may fail (a full disk, a client that is gone and
\* took its context with it), which is only logged.
Record(p) ==
    /\ req[p].at = "record"
    /\ \/ /\ Cardinality(audit) < MaxAudit
          /\ audit' = audit \cup {req[p].entry}
       \/ UNCHANGED audit
    /\ IF req[p].sid # 0
         THEN req' = [req EXCEPT ![p].at = "logout"]
         ELSE End(p)
    /\ UNCHANGED <<tables, server>>

-----------------------------------------------------------------------------
(* Sessions.                                                               *)

\* Login's SELECT and password check.
Login(p, o) ==
    /\ Begin(p, [NoRequest EXCEPT !.at = "session_insert", !.actor = o.id])
    /\ UNCHANGED <<tables, server, audit>>

WrongCredentials(p) ==
    /\ Begin(p, [NoRequest EXCEPT !.at = "record", !.entry = Entry("login_failed", 0, 0)])
    /\ UNCHANGED <<tables, server, audit>>

\* The limiter refuses the login before any account is looked up.
LoginRateLimited(p) ==
    /\ Begin(p, [NoRequest EXCEPT !.at = "record", !.entry = Entry("login_rate_limited", 0, 0)])
    /\ UNCHANGED <<tables, server, audit>>

NewSession(o) == [sid |-> nextSid, owner |-> o, expired |-> FALSE]

\* createSession.  The foreign key refuses an account that is gone, and
\* whatever the error the handler records a failed login.
InsertSession(p) ==
    /\ req[p].at = "session_insert"
    /\ \/ /\ req[p].actor \in OwnerIds
          /\ nextSid <= MaxSession
          /\ sessions' = sessions \cup {NewSession(req[p].actor)}
          /\ nextSid' = nextSid + 1
          /\ ThenRecord(p, Entry("login", req[p].actor, 0))
       \/ /\ ThenRecord(p, Entry("login_failed", 0, 0))
          /\ UNCHANGED <<sessions, nextSid>>
    /\ UNCHANGED <<owners, nextId, server, audit, made>>

\* handleOwnerLogout: a valid session is recorded before it is deleted.
Logout(p, s) ==
    /\ Begin(p, [NoRequest EXCEPT
                   !.at = IF s.expired THEN "logout" ELSE "record",
                   !.sid = s.sid, !.entry = Entry("logout", s.owner, 0)])
    /\ UNCHANGED <<tables, server, audit>>

\* The DELETE, whose error the handler ignores.
DeleteSession(p) ==
    /\ req[p].at = "logout"
    /\ sessions' \in {sessions, {s \in sessions : s.sid # req[p].sid}}
    /\ End(p)
    /\ UNCHANGED <<owners, nextId, nextSid, server, audit, made>>

Expire(s) ==
    /\ ~s.expired
    /\ sessions' = (sessions \ {s}) \cup {[s EXCEPT !.expired = TRUE]}
    /\ UNCHANGED <<owners, nextId, nextSid, server, req, audit, made>>

Purged == {s \in sessions : ~s.expired}

\* runSessionJanitor's tick.
Janitor ==
    /\ server = "up"
    /\ sessions' = Purged
    /\ UNCHANGED <<owners, nextId, nextSid, server, req, audit, made>>

-----------------------------------------------------------------------------
(* What a signed-in owner does.                                            *)

\* Fault: any valid session will do.
AnySession(p, s, min, step) ==
    \E o \in owners :
        /\ ~s.expired /\ s.owner = o.id
        /\ Begin(p, [NoRequest EXCEPT !.at = step, !.actor = o.id])

\* requireOwnerRole: a session that has not expired, of an account that is
\* there, with at least the role the route asks for.
RequireOwnerRole(p, s, min, step) ==
    \E o \in owners :
        /\ ~s.expired /\ s.owner = o.id
        /\ AtLeast(o.role, min)
        /\ Begin(p, [NoRequest EXCEPT !.at = step, !.actor = o.id])

Authenticate(p, s) ==
    /\ \/ RequireOwnerRole(p, s, "owner", "create")
       \/ RequireOwnerRole(p, s, "owner", "delete")
       \/ RequireOwnerRole(p, s, "admin", "purge")
    /\ UNCHANGED <<tables, server, audit>>

\* createOwner's INSERT; the entry names the account it will read back.
CreateOwner(p, m, r) ==
    /\ req[p].at = "create"
    /\ AddOwner(m, r, req[p].actor)
    /\ req' = [req EXCEPT ![p].at = "fetch",
                          ![p].entry = Entry("owner_create", req[p].actor, nextId)]
    /\ UNCHANGED <<sessions, nextSid, server, audit>>

\* createOwner's GetOwner: an account already deleted again is an error,
\* and the handler leaves without recording anything.
FetchCreated(p) ==
    /\ req[p].at = "fetch"
    /\ \/ req[p].entry.target \in OwnerIds /\ ThenRecord(p, req[p].entry)
       \/ End(p)
    /\ UNCHANGED <<tables, server, audit>>

\* The transaction's DELETE, cascading to the account's sessions.
Remove(o) ==
    /\ owners' = owners \ {o}
    /\ sessions' = {s \in sessions : s.owner # o.id}

OwnerRole == {o \in owners : o.role = "owner"}

\* Fault: the count includes every role.
DeleteOwnerCountsAll(p, o) ==
    /\ req[p].at = "delete"
    /\ Cardinality(owners) > 1
    /\ Remove(o)
    /\ ThenRecord(p, Entry("owner_delete", req[p].actor, o.id))
    /\ UNCHANGED <<nextId, nextSid, server, audit, made>>

\* Fault: the entry is due even when the last-owner rule refuses.
DeleteOwnerRecordsAnyway(p, o) ==
    /\ req[p].at = "delete"
    /\ IF o.role = "owner" => Cardinality(OwnerRole) > 1
         THEN Remove(o)
         ELSE UNCHANGED <<owners, sessions>>
    /\ ThenRecord(p, Entry("owner_delete", req[p].actor, o.id))
    /\ UNCHANGED <<nextId, nextSid, server, audit, made>>

\* One transaction: the target, the count if it is an owner, the DELETE.
DeleteOwner(p, o) ==
    /\ req[p].at = "delete"
    /\ o.role = "owner" => Cardinality(OwnerRole) > 1
    /\ Remove(o)
    /\ ThenRecord(p, Entry("owner_delete", req[p].actor, o.id))
    /\ UNCHANGED <<nextId, nextSid, server, audit, made>>

\* handlePurgeSessions.
PurgeExpiredSessions(p) ==
    /\ req[p].at = "purge"
    /\ sessions' = Purged
    /\ ThenRecord(p, Entry("sessions_purged", req[p].actor, 0))
    /\ UNCHANGED <<owners, nextId, nextSid, server, audit, made>>

\* ErrEmailTaken, ErrInvalidRole, ErrLastOwner, ErrOwnerNotFound, or a
\* statement that fails: an answer, and nothing written.
Refuse(p) ==
    /\ req[p].at \in {"create", "delete", "purge"}
    /\ End(p)
    /\ UNCHANGED <<tables, server, audit>>

-----------------------------------------------------------------------------
RequestStep(p) ==
    \/ \E o \in owners : Login(p, o) \/ DeleteOwner(p, o)
    \/ \E s \in sessions : Authenticate(p, s) \/ Logout(p, s)
    \/ \E m \in Emails, r \in Granted : CreateOwner(p, m, r)
    \/ WrongCredentials(p) \/ LoginRateLimited(p) \/ InsertSession(p) \/ DeleteSession(p)
    \/ FetchCreated(p) \/ PurgeExpiredSessions(p) \/ Refuse(p) \/ Record(p)

Next ==
    \/ BootstrapCount \/ BootstrapCreate \/ StartUnconfigured \/ Crash
    \/ Janitor
    \/ \E s \in sessions : Expire(s)
    \/ \E p \in Procs : RequestStep(p)

Spec == Init /\ [][Next]_vars

-----------------------------------------------------------------------------
(* Properties.                                                             *)

\* OWNR-08: from the first account on there is always an owner-role one,
\* however the deletions of several owners, start-ups and crashes interleave.
AlwaysAnOwner == made # {} => OwnerRole # {}

\* OWNR-02: bootstrap fires once per deployment, whatever happens to the
\* account it created and however often and wherever the process stops.
BootstrapFiresOnce == \A m, n \in made : m.by = 0 /\ n.by = 0 => m = n

\* The foreign key of owner_sessions: no session outlives its account, even
\* one whose login was verified before the deletion.
SessionsHaveOwners == \A s \in sessions : s.owner \in OwnerIds

\* OWNR-01 and OWNR-06: every account traces back to Bootstrap through
\* accounts that had the role owner, also when its creator was deleted
\* between the check of its role and the creation.
AccountsTraceBack ==
    \A m \in made :
        m.by # 0 => \E n \in made : n.id = m.by /\ n.id < m.id /\ n.role = "owner"

\* OWNR-14 and OWNR-15: what the trail says happened did happen: the target
\* of owner_delete is gone, the target of owner_create was created by the
\* actor named, an owner is named for either and at least an admin for an
\* operator's purge.
TrailIsTruthful ==
    \A e \in audit :
        /\ e.event = "owner_delete" =>
             /\ e.target \notin OwnerIds
             /\ \E m \in made : m.id = e.actor /\ m.role = "owner"
        /\ e.event = "owner_create" =>
             \E m \in made : m.id = e.target /\ m.by = e.actor
        /\ e.event = "sessions_purged" =>
             \E m \in made : m.id = e.actor /\ AtLeast(m.role, "admin")

\* OWNR-15 as "Every security-relevant owner-plane action is recorded" reads:
\* an account that is gone has its owner_delete entry, or a request is about
\* to write it.  The entry is a statement of its own, after the commit and on
\* the request's context, so the code does not keep this.
DeletionsAreRecorded ==
    \A m \in made :
        \/ m.id \in OwnerIds
        \/ \E e \in audit : e.event = "owner_delete" /\ e.target = m.id
        \/ \E p \in Procs : /\ req[p].at = "record"
                            /\ req[p].entry.event = "owner_delete"
                            /\ req[p].entry.target = m.id
=============================================================================
