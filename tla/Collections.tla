---------------------------- MODULE Collections -----------------------------
(***************************************************************************)
(* Auto-REST (internal/restapi): the rows of one owner-scoped collection,  *)
(* the access rules on it, and the realtime event each write publishes.    *)
(*                                                                         *)
(* A handler looks its collection up once and keeps the rules it found; it *)
(* then runs one statement per step: the write, reading the row back, the  *)
(* publication.  Requests of customers, of the admin UI's data browser and *)
(* of account erasure interleave at those steps.  A row is its owner_id    *)
(* and, as history, who wrote it last and under which rule; primary keys   *)
(* may be chosen by the client, so a deleted key can come back.            *)
(***************************************************************************)
EXTENDS Naturals, FiniteSets

CONSTANTS Procs,      \* requests that can be in flight at the same time
          Subjects,   \* users holding access tokens, all of them subscribed
          Ids,        \* primary keys
          Policies,   \* the rule sets a deployment declares in _policies
          Nobody      \* owner_id NULL or '', and the gate that means everyone

Rules == {"owner", "shared", "denied"}
RuleSets == [read : Rules, create : Rules, update : Rules, delete : Rules]
Admin == "admin"

ASSUME CollectionsAssumption ==
    /\ Nobody \notin Subjects /\ Admin \notin Subjects /\ Nobody # Admin
    /\ Policies \subseteq RuleSets
    /\ Policies # {} /\ Ids # {}

Owners  == Subjects \cup {Nobody}
Writers == Subjects \cup {Admin}

VARIABLES
    rows,      \* the table: [id, owner, by, via]
    policies,  \* the _policies table
    registry,  \* the rules of the Registry in use
    gone,      \* accounts that have been erased
    req,       \* req[p]: the request in flight
    events,    \* the event the last step published, and what it is about
    answers,   \* the row the last step returned to the customer who wrote it
    late       \* history: subjects given a row during or after their erasure

vars == <<rows, policies, registry, gone, req, events, answers, late>>
data == <<rows, gone, late>>

Rows == [id : Ids, owner : Owners, by : Writers, via : {"owner", "shared", "admin"}]
Events == [type : {"written", "deleted"}, gate : Owners, owner : Owners, read : Rules]
Answers == [who : Subjects, owner : Owners, rule : Rules]

\* at: the next statement; rules: the collection as looked up; owner: of the
\* row read back or deleted; gate: realtime visibility; ids: an erasure's keys.
Requests == [at : {"idle", "insert", "update", "fetch", "gate", "delete",
                   "publish", "list", "wipe", "notify", "leave", "discover", "store"},
             op : {"create", "update", "delete", "erase", "reload"},
             who : Writers, id : Ids, rules : RuleSets,
             owner : Owners, gate : Owners, ids : SUBSET Ids]

NoRequest == [at |-> "idle", op |-> "create", who |-> Admin,
              id |-> CHOOSE i \in Ids : TRUE,
              rules |-> CHOOSE r \in Policies : TRUE,
              owner |-> Nobody, gate |-> Nobody, ids |-> {}]

TypeOK ==
    /\ rows \subseteq Rows
    /\ \A r, x \in rows : r.id = x.id => r = x
    /\ policies \in Policies /\ registry \in Policies
    /\ gone \subseteq Subjects /\ late \subseteq Subjects
    /\ req \in [Procs -> Requests]
    /\ events \subseteq Events
    /\ answers \subseteq Answers

Init ==
    /\ rows = {} /\ gone = {} /\ late = {}
    /\ policies \in Policies /\ registry = policies
    /\ req = [p \in Procs |-> NoRequest]
    /\ events = {} /\ answers = {}

-----------------------------------------------------------------------------
At(i) == {r \in rows : r.id = i}

\* A step that publishes and answers nothing.
Quiet == events' = {} /\ answers' = {}

Begin(p, r) ==
    /\ req[p] = NoRequest
    /\ req' = [req EXCEPT ![p] = r]

End(p) == req' = [req EXCEPT ![p] = NoRequest]

\* An access token authenticates until its grant is swept; the admin UI's
\* session is the owner plane's business.
MayCall(w) == w = Admin \/ w \notin gone

Erasing(s) == s \in gone \/ \E p \in Procs : req[p].op = "erase" /\ req[p].who = s
                                            /\ req[p].at # "idle"

\* Who may read a row of owner o under read rule r.
Readers(r, o) ==
    CASE r = "shared" -> Subjects
      [] r = "owner"  -> Subjects \cap {o}
      [] r = "denied" -> {}

\* Broker.Publish: the empty owner is everyone.
Audience(e) == IF e.gate = Nobody THEN Subjects ELSE {e.gate}

\* Fault: the writer's subject gates the event.
GateByWriter(rules, o, w) == IF rules.read = "owner" /\ w # Admin THEN w ELSE Nobody

\* ownerGateValue, on the row read back.
OwnerGateValue(rules, o, w) == IF rules.read = "owner" THEN o ELSE Nobody

\* publish: nothing at all on a collection nobody may read.
Publish(type, r) ==
    events' = IF r.rules.read = "denied" THEN {}
              ELSE {[type |-> type, gate |-> r.gate, owner |-> r.owner,
                     read |-> r.rules.read]}

\* The response: a row, to the customer who asked.
Answer(w, o, rule) ==
    answers' = IF w = Admin THEN {} ELSE {[who |-> w, owner |-> o, rule |-> rule]}

-----------------------------------------------------------------------------
(* Create and update.                                                      *)

\* The authority a write was made under.
Via(q, rule) == IF q.who = Admin THEN "admin" ELSE rule

\* handleCreate up to its INSERT; authorizeOp refuses a denied operation.
\* AdminCreateRow ignores the rules.
Create(p, w, i) ==
    /\ MayCall(w)
    /\ w # Admin => registry.create # "denied"
    /\ Begin(p, [NoRequest EXCEPT !.at = "insert", !.op = "create", !.who = w,
                                  !.id = i, !.rules = registry])
    /\ Quiet /\ UNCHANGED <<data, policies, registry>>

\* The INSERT.  A customer's row is stamped with the token's subject, the
\* admin's takes whatever owner_id the form has.  A key in use is a conflict.
Insert(p, o) ==
    LET q == req[p] IN
    /\ q.at = "insert"
    /\ At(q.id) = {}
    /\ q.who # Admin => o = q.who
    /\ rows' = rows \cup {[id |-> q.id, owner |-> o, by |-> q.who,
                           via |-> Via(q, q.rules.create)]}
    /\ late' = IF Erasing(o) THEN late \cup {o} ELSE late
    /\ req' = [req EXCEPT ![p].at = "fetch"]
    /\ Quiet /\ UNCHANGED <<gone, policies, registry>>

Update(p, w, i) ==
    /\ MayCall(w)
    /\ w # Admin => registry.update # "denied"
    /\ Begin(p, [NoRequest EXCEPT !.at = "update", !.op = "update", !.who = w,
                                  !.id = i, !.rules = registry])
    /\ Quiet /\ UNCHANGED <<data, policies, registry>>

\* The row an UPDATE ... WHERE id = ? [AND owner_id = ?] changes.
Matches(q, rule) ==
    {r \in At(q.id) : q.who = Admin \/ rule = "shared" \/ r.owner = q.who}

\* Fault: the UPDATE is not scoped to the owner.
UpdateAnyRow(p, o) ==
    LET q == req[p] IN
    \E r \in At(q.id) :
        /\ q.at = "update"
        /\ q.who # Admin => o = r.owner
        /\ rows' = (rows \ {r}) \cup
                     {[r EXCEPT !.owner = o, !.by = q.who, !.via = Via(q, q.rules.update)]}
        /\ late' = IF o # r.owner /\ Erasing(o) THEN late \cup {o} ELSE late
        /\ req' = [req EXCEPT ![p].at = "fetch"]
        /\ Quiet /\ UNCHANGED <<gone, policies, registry>>

\* handleUpdate's UPDATE keeps the owner; AdminUpdateRow may change it.
UpdateRow(p, o) ==
    LET q == req[p] IN
    \E r \in Matches(q, q.rules.update) :
        /\ q.at = "update"
        /\ q.who # Admin => o = r.owner
        /\ rows' = (rows \ {r}) \cup
                     {[r EXCEPT !.owner = o, !.by = q.who, !.via = Via(q, q.rules.update)]}
        /\ late' = IF o # r.owner /\ Erasing(o) THEN late \cup {o} ELSE late
        /\ req' = [req EXCEPT ![p].at = "fetch"]
        /\ Quiet /\ UNCHANGED <<gone, policies, registry>>

\* AdminUpdateRow does not look at the row count: an UPDATE that changed
\* nothing goes on to read back whatever has the key by then.
UpdateMisses(p) ==
    LET q == req[p] IN
    /\ q.at = "update" /\ q.who = Admin
    /\ At(q.id) = {}
    /\ req' = [req EXCEPT ![p].at = "fetch"]
    /\ Quiet /\ UNCHANGED <<data, policies, registry>>

\* A body of only immutable fields: scoped like the update, nothing written
\* and nothing published.
UpdateNothing(p) ==
    LET q == req[p] IN
    /\ q.at = "update"
    /\ \E r \in Matches(q, q.rules.update) : Answer(q.who, r.owner, q.rules.update)
    /\ events' = {}
    /\ End(p)
    /\ UNCHANGED <<data, policies, registry>>

\* fetchByPK, unscoped, by key: whichever row has the key now.
Fetch(p) ==
    LET q == req[p] IN
    \E r \in At(q.id) :
        /\ q.at = "fetch"
        /\ req' = [req EXCEPT ![p].at = "publish", ![p].owner = r.owner,
                              ![p].gate = OwnerGateValue(q.rules, r.owner, q.who)]
        /\ Quiet /\ UNCHANGED <<data, policies, registry>>

\* The event, then the response with the row.
PublishWritten(p) ==
    LET q == req[p] IN
    /\ q.at = "publish" /\ q.op \in {"create", "update"}
    /\ Publish("written", q)
    /\ Answer(q.who, q.owner, IF q.op = "update" THEN q.rules.update ELSE "owner")
    /\ End(p)
    /\ UNCHANGED <<data, policies, registry>>

-----------------------------------------------------------------------------
(* Delete.                                                                 *)

Delete(p, w, i) ==
    /\ MayCall(w)
    /\ w # Admin => registry.delete # "denied"
    /\ Begin(p, [NoRequest EXCEPT !.at = "gate", !.op = "delete", !.who = w,
                                  !.id = i, !.rules = registry])
    /\ Quiet /\ UNCHANGED <<data, policies, registry>>

\* ownerValueForPK, before the DELETE; a failed lookup leaves the gate empty.
ReadGate(p) ==
    LET q == req[p] IN
    /\ q.at = "gate"
    /\ \E g \in {Nobody} \cup {r.owner : r \in At(q.id)} :
         /\ q.rules.read # "owner" => g = Nobody
         /\ req' = [req EXCEPT ![p].at = "delete", ![p].gate = g]
    /\ Quiet /\ UNCHANGED <<data, policies, registry>>

\* The DELETE, scoped by DeleteRule.
DeleteRow(p) ==
    LET q == req[p] IN
    \E r \in Matches(q, q.rules.delete) :
        /\ q.at = "delete"
        /\ rows' = rows \ {r}
        /\ req' = [req EXCEPT ![p].at = "publish", ![p].owner = r.owner]
        /\ Quiet /\ UNCHANGED <<gone, late, policies, registry>>

PublishDeleted(p) ==
    LET q == req[p] IN
    /\ q.at = "publish" /\ q.op = "delete"
    /\ Publish("deleted", q)
    /\ answers' = {}
    /\ End(p)
    /\ UNCHANGED <<data, policies, registry>>

-----------------------------------------------------------------------------
(* Account erasure (handleDeleteAccount, handleDeleteUser) as this package *)
(* sees it: DeleteOwned, then tokens and the account itself.               *)

Erase(p, s) ==
    /\ s \notin gone
    /\ Begin(p, [NoRequest EXCEPT !.at = "list", !.op = "erase", !.who = s,
                                  !.rules = registry])
    /\ Quiet /\ UNCHANGED <<data, policies, registry>>

\* pkValuesForOwner.
ListOwned(p) ==
    LET q == req[p] IN
    /\ q.at = "list"
    /\ req' = [req EXCEPT ![p].at = "wipe",
                          ![p].ids = {r.id : r \in {x \in rows : x.owner = q.who}}]
    /\ Quiet /\ UNCHANGED <<data, policies, registry>>

\* Fault: erasure respects the collection's delete rule.
WipeUnlessDenied(p) ==
    LET q == req[p] IN
    /\ q.at = "wipe"
    /\ rows' = IF q.rules.delete = "denied" THEN rows
               ELSE {r \in rows : r.owner # q.who}
    /\ req' = [req EXCEPT ![p].at = "notify", ![p].owner = q.who, ![p].gate = q.who]
    /\ Quiet /\ UNCHANGED <<gone, late, policies, registry>>

\* DeleteOwned's DELETE, whatever the rules say.
Wipe(p) ==
    LET q == req[p] IN
    /\ q.at = "wipe"
    /\ rows' = {r \in rows : r.owner # q.who}
    /\ req' = [req EXCEPT ![p].at = "notify", ![p].owner = q.who, ![p].gate = q.who]
    /\ Quiet /\ UNCHANGED <<gone, late, policies, registry>>

\* One event per key listed, gated by the subject.
Notify(p) ==
    LET q == req[p] IN
    /\ q.at = "notify"
    /\ IF q.ids = {} THEN events' = {} ELSE Publish("deleted", q)
    /\ answers' = {}
    /\ req' = [req EXCEPT ![p].at = "leave"]
    /\ UNCHANGED <<data, policies, registry>>

\* RevokeAllForSubject and DeleteUser.
Leave(p) ==
    /\ req[p].at = "leave"
    /\ gone' = gone \cup {req[p].who}
    /\ End(p)
    /\ Quiet /\ UNCHANGED <<rows, late, policies, registry>>

-----------------------------------------------------------------------------
(* The registry.                                                           *)

\* A statement run in SQL Studio changes _policies and reloads.
SetPolicies(p, r) ==
    /\ policies' = r
    /\ Begin(p, [NoRequest EXCEPT !.at = "discover", !.op = "reload"])
    /\ Quiet /\ UNCHANGED <<data, registry>>

\* ReloadSchema: Discover reads the table, then the pointer is swapped.
Discover(p) ==
    /\ req[p].at = "discover"
    /\ req' = [req EXCEPT ![p].at = "store", ![p].rules = policies]
    /\ Quiet /\ UNCHANGED <<data, policies, registry>>

StoreRegistry(p) ==
    /\ req[p].at = "store"
    /\ registry' = req[p].rules
    /\ End(p)
    /\ Quiet /\ UNCHANGED <<data, policies>>

\* A conflict, no such row, a failed statement, a client that is gone: the
\* request ends where it is and what it has written stays.
Abandon(p) ==
    /\ req[p] # NoRequest
    /\ End(p)
    /\ Quiet /\ UNCHANGED <<data, policies, registry>>

-----------------------------------------------------------------------------
Next ==
    \E p \in Procs :
        \/ \E w \in Writers, i \in Ids : Create(p, w, i) \/ Update(p, w, i) \/ Delete(p, w, i)
        \/ \E o \in Owners : Insert(p, o) \/ UpdateRow(p, o)
        \/ UpdateMisses(p) \/ UpdateNothing(p) \/ Fetch(p) \/ PublishWritten(p)
        \/ ReadGate(p) \/ DeleteRow(p) \/ PublishDeleted(p)
        \/ \E s \in Subjects : Erase(p, s)
        \/ ListOwned(p) \/ Wipe(p) \/ Notify(p) \/ Leave(p)
        \/ \E r \in Policies : SetPolicies(p, r)
        \/ Discover(p) \/ StoreRegistry(p) \/ Abandon(p)

Spec == Init /\ [][Next]_vars

-----------------------------------------------------------------------------
(* Properties.                                                             *)

\* REST-OWNERSHIP-02/03: a row last written under an owner rule, or created
\* by a customer at all, was written by the subject that owns it; only the
\* admin UI ever gives a row another owner, whatever the rules were while
\* the request was under way.
OwnedWritesAreTheOwners ==
    \A r \in rows : r.via = "owner" => r.by = r.owner

\* ACCESS-09 and RT-02, RT-03: the event of a created or updated row is gated
\* by the row it carries, whoever wrote it and whatever happened to the row
\* since: it goes to exactly the subjects that may read that row under the
\* rules the request looked up.  A row without an owner where owners read is
\* the exception: nobody may read it and the event goes to everyone.
WriteEventsFollowReads ==
    \A e \in events : e.type = "written" =>
        Audience(e) = IF e.read = "owner" /\ e.owner = Nobody THEN Subjects
                      ELSE Readers(e.read, e.owner)

\* IDNT-10 and ACCESS-11: an account that is gone left no row behind, unless
\* the row was given to it while or after it was being erased.
ErasureIsComplete ==
    \A r \in rows : r.owner \in gone => r.owner \in late

\* IDNT-10 without the exception.  A create that authenticated before the
\* tokens were revoked inserts behind the wipe.
NoRowOfAnErasedAccount == \A r \in rows : r.owner \notin gone

\* RT-05: no event about a row of some owner reaches a subject that may not
\* read it.  A delete whose owner lookup finds nothing publishes to everyone.
EventsFollowReads ==
    \A e \in events :
        e.owner # Nobody => Audience(e) \subseteq Readers(e.read, e.owner)

\* RT-05 for a row without an owner: where owners read, nobody may read it and
\* its event reaches nobody.  ownerGateValue turns a NULL owner into the gate for everyone.
UnownedRowsAreUnheard ==
    \A e \in events :
        e.type = "written" /\ e.read = "owner" /\ e.owner = Nobody => Audience(e) = {}

\* spec/realtime.md: an event goes only to a subscriber that "could GET that
\* row through the ordinary REST endpoint right now".  The rules are those the
\* request started with.
EventsFollowCurrentRules ==
    \A e \in events :
        e.type = "written" /\ e.owner # Nobody
            => Audience(e) \subseteq Readers(registry.read, e.owner)

\* RT-04: a deleted row's event reaches everyone who could read it, also when
\* it goes with its owner's account.  DeleteOwned gates it by the owner even
\* where reads are shared.
DeletionsReachReaders ==
    \A e \in events : e.type = "deleted" => Readers(e.read, e.owner) \subseteq Audience(e)

\* REST-OWNERSHIP-02: what an owner-scoped write answers with is the caller's
\* own row.  The row is read back by key alone, in another statement.
AnswersAreOwn ==
    \A a \in answers : a.rule = "owner" => a.owner = a.who
=============================================================================
