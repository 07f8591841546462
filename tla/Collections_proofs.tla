-------------------------- MODULE Collections_proofs ------------------------
(***************************************************************************)
(* Proofs about Collections, for every number of requests in flight, of    *)
(* subjects and primary keys, and every set of declared rules.             *)
(***************************************************************************)
EXTENDS Collections, TLAPS

\* What a request carries by the time it stands before its next statement:
\* the authority authorizeOp gave it, who it is for, the gate of the row it
\* read back, and the rules it discovered.
Fits(r) ==
    /\ r \in Requests
    /\ r.at = "insert" => r.op = "create" /\ (r.who # Admin => r.rules.create # "denied")
    /\ r.at = "update" => r.op = "update" /\ (r.who # Admin => r.rules.update # "denied")
    /\ r.at = "fetch" => r.op \in {"create", "update"}
    /\ r.at \in {"gate", "delete"} => r.op = "delete"
    /\ r.at \in {"list", "wipe", "notify", "leave"} => r.op = "erase" /\ r.who \in Subjects
    /\ r.at = "store" => r.rules \in Policies
    /\ r.at = "publish" /\ r.op # "delete" => r.gate = OwnerGateValue(r.rules, r.owner, r.who)

\* The wipe has been: the rows of q's account are gone.
Wiped(q) == q.at \in {"notify", "leave"}

\* A row an erasure's wipe did not see came while it was under way.
WipedStayWiped ==
    \A p \in Procs : Wiped(req[p]) =>
        \A r \in rows : r.owner = req[p].who => r.owner \in late

CInv ==
    /\ TypeOK
    /\ \A p \in Procs : Fits(req[p])
    /\ OwnedWritesAreTheOwners
    /\ WriteEventsFollowReads
    /\ WipedStayWiped
    /\ ErasureIsComplete

-----------------------------------------------------------------------------
(* Requests, with their updates written out.                               *)

Req(a, o, w, i, u, n, g, k) ==
    [at |-> a, op |-> o, who |-> w, id |-> i, rules |-> u, owner |-> n, gate |-> g, ids |-> k]

AnyId == CHOOSE i \in Ids : TRUE
AnyRules == CHOOSE r \in Policies : TRUE

\* No request: nobody's, about nothing.
LEMMA NoneIs ==
    /\ NoRequest = Req("idle", "create", Admin, AnyId, AnyRules, Nobody, Nobody, {})
    /\ AnyId \in Ids /\ AnyRules \in Policies
BY CollectionsAssumption DEF NoRequest, Req, AnyId, AnyRules

\* A request that begins, on a key.
LEMMA BegunOn ==
    ASSUME NEW a, NEW o, NEW w, NEW i, NEW u
    PROVE  [NoRequest EXCEPT !.at = a, !.op = o, !.who = w, !.id = i, !.rules = u]
             = Req(a, o, w, i, u, Nobody, Nobody, {})
<1>1. [NoRequest EXCEPT !.at = a] = Req(a, "create", Admin, AnyId, AnyRules, Nobody, Nobody, {})
  BY NoneIs DEF Req
<1>2. [Req(a, "create", Admin, AnyId, AnyRules, Nobody, Nobody, {}) EXCEPT !.op = o]
        = Req(a, o, Admin, AnyId, AnyRules, Nobody, Nobody, {})
  BY DEF Req
<1>3. [Req(a, o, Admin, AnyId, AnyRules, Nobody, Nobody, {}) EXCEPT !.who = w]
        = Req(a, o, w, AnyId, AnyRules, Nobody, Nobody, {})
  BY DEF Req
<1>4. [Req(a, o, w, AnyId, AnyRules, Nobody, Nobody, {}) EXCEPT !.id = i]
        = Req(a, o, w, i, AnyRules, Nobody, Nobody, {})
  BY DEF Req
<1>5. [Req(a, o, w, i, AnyRules, Nobody, Nobody, {}) EXCEPT !.rules = u]
        = Req(a, o, w, i, u, Nobody, Nobody, {})
  BY DEF Req
<1>6. [NoRequest EXCEPT !.at = a, !.op = o, !.who = w]
        = Req(a, o, w, AnyId, AnyRules, Nobody, Nobody, {})
  BY <1>1, <1>2, <1>3
<1>7. [NoRequest EXCEPT !.at = a, !.op = o, !.who = w, !.id = i]
        = Req(a, o, w, i, AnyRules, Nobody, Nobody, {})
  BY <1>4, <1>6
<1>8. QED
  BY <1>5, <1>7

\* An erasure that begins.
LEMMA BegunErasure ==
    ASSUME NEW s, NEW u
    PROVE  [NoRequest EXCEPT !.at = "list", !.op = "erase", !.who = s, !.rules = u]
             = Req("list", "erase", s, AnyId, u, Nobody, Nobody, {})
<1>1. [NoRequest EXCEPT !.at = "list"] = Req("list", "create", Admin, AnyId, AnyRules, Nobody, Nobody, {})
  BY NoneIs DEF Req
<1>2. [Req("list", "create", Admin, AnyId, AnyRules, Nobody, Nobody, {}) EXCEPT !.op = "erase"]
        = Req("list", "erase", Admin, AnyId, AnyRules, Nobody, Nobody, {})
  BY DEF Req
<1>3. [Req("list", "erase", Admin, AnyId, AnyRules, Nobody, Nobody, {}) EXCEPT !.who = s]
        = Req("list", "erase", s, AnyId, AnyRules, Nobody, Nobody, {})
  BY DEF Req
<1>4. [Req("list", "erase", s, AnyId, AnyRules, Nobody, Nobody, {}) EXCEPT !.rules = u]
        = Req("list", "erase", s, AnyId, u, Nobody, Nobody, {})
  BY DEF Req
<1>5. QED
  BY <1>1, <1>2, <1>3, <1>4

\* A reload that begins.
LEMMA BegunReload ==
    [NoRequest EXCEPT !.at = "discover", !.op = "reload"]
        = Req("discover", "reload", Admin, AnyId, AnyRules, Nobody, Nobody, {})
<1>1. [NoRequest EXCEPT !.at = "discover"]
        = Req("discover", "create", Admin, AnyId, AnyRules, Nobody, Nobody, {})
  BY NoneIs DEF Req
<1>2. [Req("discover", "create", Admin, AnyId, AnyRules, Nobody, Nobody, {}) EXCEPT !.op = "reload"]
        = Req("discover", "reload", Admin, AnyId, AnyRules, Nobody, Nobody, {})
  BY DEF Req
<1>3. QED
  BY <1>1, <1>2

\* A request at its next statement.
LEMMA MovedOn ==
    ASSUME NEW q \in Requests, NEW a
    PROVE  [q EXCEPT !.at = a] = Req(a, q.op, q.who, q.id, q.rules, q.owner, q.gate, q.ids)
BY DEF Requests, Req

-----------------------------------------------------------------------------
(* Steps that leave the rows and the accounts alone.                       *)

\* What is asked of the event and the answer of a step.
OutputFits == events' \subseteq Events /\ answers' \subseteq Answers /\ WriteEventsFollowReads'

\* No event and no answer.
LEMMA QuietFits ==
    ASSUME Quiet PROVE OutputFits
BY DEF Quiet, OutputFits, WriteEventsFollowReads

\* A request that fits, and has wiped nothing that it had not before, keeps
\* the invariant.
LEMMA QuietStep ==
    ASSUME CInv, NEW p \in Procs, NEW r, Fits(r), req' = [req EXCEPT ![p] = r],
           Wiped(r) => Wiped(req[p]) /\ r.who = req[p].who,
           UNCHANGED data, policies' \in Policies, registry' \in Policies, OutputFits
    PROVE  CInv'
<1>1. \A q \in Procs : req'[q] = IF q = p THEN r ELSE req[q]
  BY DEF CInv, TypeOK
<1>2. TypeOK'
  BY DEF CInv, TypeOK, OutputFits, Fits, data
<1>3. \A q \in Procs : Fits(req[q])'
  BY <1>1 DEF CInv, Fits, OwnerGateValue
<1>4. OwnedWritesAreTheOwners' /\ ErasureIsComplete' /\ WriteEventsFollowReads'
  BY DEF CInv, OwnedWritesAreTheOwners, ErasureIsComplete, data, OutputFits
<1>5. WipedStayWiped'
  BY <1>1 DEF CInv, WipedStayWiped, Wiped, data
<1>6. QED
  BY <1>2, <1>3, <1>4, <1>5 DEF CInv

\* No request fits.
LEMMA IdleFits == Fits(NoRequest) /\ ~Wiped(NoRequest)
<1>1. NoRequest \in Requests
  BY NoneIs, CollectionsAssumption DEF Req, Requests, Owners, Writers
<1>2. QED
  BY <1>1, NoneIs DEF Fits, Req, Wiped

\* The handlers' beginnings: create, update, delete, erase, reload.
LEMMA Beginnings ==
    ASSUME CInv, NEW p \in Procs,
           \/ \E w \in Writers, i \in Ids : Create(p, w, i) \/ Update(p, w, i) \/ Delete(p, w, i)
           \/ \E s \in Subjects : Erase(p, s)
           \/ \E r \in Policies : SetPolicies(p, r)
    PROVE  CInv'
<1>a. registry \in Policies /\ policies \in Policies /\ registry \in RuleSets
  BY CollectionsAssumption DEF CInv, TypeOK
<1>1. ASSUME NEW w \in Writers, NEW i \in Ids, Create(p, w, i) PROVE CInv'
  <2> DEFINE r == Req("insert", "create", w, i, registry, Nobody, Nobody, {})
  <2>0. [NoRequest EXCEPT !.at = "insert", !.op = "create", !.who = w, !.id = i, !.rules = registry] = r
    BY BegunOn
  <2>1. req' = [req EXCEPT ![p] = r]
    BY <1>1, <2>0, Zenon DEF Create, Begin
  <2>2. r \in Requests
    BY <1>a DEF Req, Requests, Owners
  <2>3. Fits(r) /\ ~Wiped(r)
    BY <1>1, <2>2 DEF Fits, Req, Wiped, Create
  <2> HIDE DEF r
  <2>4. Quiet /\ UNCHANGED <<data, policies, registry>>
    BY <1>1 DEF Create
  <2>5. QED
    BY <1>a, <2>1, <2>3, <2>4, QuietFits, QuietStep
<1>2. ASSUME NEW w \in Writers, NEW i \in Ids, Update(p, w, i) PROVE CInv'
  <2> DEFINE r == Req("update", "update", w, i, registry, Nobody, Nobody, {})
  <2>0. [NoRequest EXCEPT !.at = "update", !.op = "update", !.who = w, !.id = i, !.rules = registry] = r
    BY BegunOn
  <2>1. req' = [req EXCEPT ![p] = r]
    BY <1>2, <2>0, Zenon DEF Update, Begin
  <2>2. r \in Requests
    BY <1>a DEF Req, Requests, Owners
  <2>3. Fits(r) /\ ~Wiped(r)
    BY <1>2, <2>2 DEF Fits, Req, Wiped, Update
  <2> HIDE DEF r
  <2>4. Quiet /\ UNCHANGED <<data, policies, registry>>
    BY <1>2 DEF Update
  <2>5. QED
    BY <1>a, <2>1, <2>3, <2>4, QuietFits, QuietStep
<1>3. ASSUME NEW w \in Writers, NEW i \in Ids, Delete(p, w, i) PROVE CInv'
  <2> DEFINE r == Req("gate", "delete", w, i, registry, Nobody, Nobody, {})
  <2>0. [NoRequest EXCEPT !.at = "gate", !.op = "delete", !.who = w, !.id = i, !.rules = registry] = r
    BY BegunOn
  <2>1. req' = [req EXCEPT ![p] = r]
    BY <1>3, <2>0, Zenon DEF Delete, Begin
  <2>2. r \in Requests
    BY <1>a DEF Req, Requests, Owners
  <2>3. Fits(r) /\ ~Wiped(r)
    BY <2>2 DEF Fits, Req, Wiped
  <2> HIDE DEF r
  <2>4. Quiet /\ UNCHANGED <<data, policies, registry>>
    BY <1>3 DEF Delete
  <2>5. QED
    BY <1>a, <2>1, <2>3, <2>4, QuietFits, QuietStep
<1>4. ASSUME NEW s \in Subjects, Erase(p, s) PROVE CInv'
  <2> DEFINE r == Req("list", "erase", s, AnyId, registry, Nobody, Nobody, {})
  <2>1. req' = [req EXCEPT ![p] = r]
    BY <1>4, BegunErasure, Zenon DEF Erase, Begin
  <2>2. r \in Requests
    BY <1>a, NoneIs DEF Req, Requests, Owners, Writers
  <2>3. Fits(r) /\ ~Wiped(r)
    BY <2>2 DEF Fits, Req, Wiped
  <2> HIDE DEF r
  <2>4. Quiet /\ UNCHANGED <<data, policies, registry>>
    BY <1>4 DEF Erase
  <2>5. QED
    BY <1>a, <2>1, <2>3, <2>4, QuietFits, QuietStep
<1>5. ASSUME NEW u \in Policies, SetPolicies(p, u) PROVE CInv'
  <2> DEFINE r == Req("discover", "reload", Admin, AnyId, AnyRules, Nobody, Nobody, {})
  <2>1. req' = [req EXCEPT ![p] = r]
    BY <1>5, BegunReload, Zenon DEF SetPolicies, Begin
  <2>2. r \in Requests
    BY <1>a, NoneIs, CollectionsAssumption DEF Req, Requests, Owners, Writers
  <2>3. Fits(r) /\ ~Wiped(r)
    BY <2>2 DEF Fits, Req, Wiped
  <2> HIDE DEF r
  <2>4. Quiet /\ UNCHANGED <<data, registry>> /\ policies' = u
    BY <1>5 DEF SetPolicies
  <2>5. QED
    BY <1>a, <2>1, <2>3, <2>4, QuietFits, QuietStep
<1>6. QED
  BY <1>1, <1>2, <1>3, <1>4, <1>5

\* A request in flight, and its fields.
LEMMA Fields ==
    ASSUME CInv, NEW p \in Procs
    PROVE  /\ req \in [Procs -> Requests] /\ req[p] \in Requests /\ Fits(req[p])
           /\ req[p].op \in {"create", "update", "delete", "erase", "reload"}
           /\ req[p].who \in Writers /\ req[p].id \in Ids /\ req[p].rules \in RuleSets
           /\ req[p].owner \in Owners /\ req[p].gate \in Owners /\ req[p].ids \subseteq Ids
<1>1. req \in [Procs -> Requests] /\ Fits(req[p])
  BY DEF CInv, TypeOK
<1>2. QED
  BY <1>1 DEF Requests

\* Who hears of a row that was written.
Hearers(r, o) == IF r = "owner" /\ o = Nobody THEN Subjects ELSE Readers(r, o)

\* The event of a row read back reaches exactly its readers: the gate is the
\* row's owner where owners read, and everyone where reads are shared or the
\* row has no owner.
LEMMA GateIsReaders ==
    ASSUME NEW e \in Events, NEW u \in RuleSets, NEW w,
           e.read = u.read, u.read # "denied", e.gate = OwnerGateValue(u, e.owner, w)
    PROVE  Audience(e) = Hearers(e.read, e.owner)
<1>0. e.owner \in Owners /\ u.read \in Rules
  BY DEF Events, RuleSets
<1>1. CASE u.read = "owner" /\ e.owner = Nobody
  BY <1>1 DEF Audience, OwnerGateValue, Hearers
<1>2. CASE u.read = "owner" /\ e.owner # Nobody
  <2>1. Readers(e.read, e.owner) = Subjects \cap {e.owner}
    BY <1>2 DEF Readers
  <2>2. Audience(e) = {e.owner}
    BY <1>2 DEF Audience, OwnerGateValue
  <2>3. QED
    BY <1>0, <1>2, <2>1, <2>2 DEF Owners, Hearers
<1>3. CASE u.read = "shared"
  <2>1. Readers(e.read, e.owner) = Subjects
    BY <1>3 DEF Readers
  <2>2. Audience(e) = Subjects
    BY <1>3 DEF Audience, OwnerGateValue
  <2>3. QED
    BY <1>3, <2>1, <2>2 DEF Hearers
<1>4. QED
  BY <1>0, <1>1, <1>2, <1>3 DEF Rules

\* What a request publishes: well-formed, and, of a row that was written, for
\* its readers.
LEMMA Published ==
    ASSUME CInv, NEW p \in Procs, NEW t \in {"written", "deleted"}, Publish(t, req[p]),
           t = "written" => req[p].gate = OwnerGateValue(req[p].rules, req[p].owner, req[p].who)
    PROVE  events' \subseteq Events /\ WriteEventsFollowReads'
<1> DEFINE q == req[p]
           e == [type |-> t, gate |-> q.gate, owner |-> q.owner, read |-> q.rules.read]
<1>1. q.rules \in RuleSets /\ q.owner \in Owners /\ q.gate \in Owners
  BY Fields
<1>2. q.rules.read \in Rules
  BY <1>1 DEF RuleSets
<1> HIDE DEF q
<1>3. e \in Events /\ e.type = t /\ e.gate = q.gate /\ e.owner = q.owner /\ e.read = q.rules.read
  BY <1>1, <1>2 DEF Events
<1>4. events' \subseteq {e} /\ (events' # {} => q.rules.read # "denied")
  BY DEF Publish, q
<1>5. t = "written" => q.gate = OwnerGateValue(q.rules, q.owner, q.who)
  BY DEF q
<1> HIDE DEF e
<1>6. ASSUME NEW f \in events', f.type = "written"
      PROVE  Audience(f) = Hearers(f.read, f.owner)
  <2>1. f = e /\ q.rules.read # "denied"
    BY <1>4
  <2>2. QED
    BY <1>1, <1>3, <1>5, <1>6, <2>1, GateIsReaders
<1>7. WriteEventsFollowReads'
  BY <1>6 DEF WriteEventsFollowReads, Audience, Readers, Hearers
<1>8. QED
  BY <1>3, <1>4, <1>7

\* What a customer is answered.
LEMMA Answered ==
    ASSUME NEW w \in Writers, NEW o \in Owners, NEW u \in Rules, Answer(w, o, u)
    PROVE  answers' \subseteq Answers
<1>1. CASE w = Admin
  BY <1>1 DEF Answer
<1>2. CASE w # Admin
  <2>1. w \in Subjects
    BY <1>2 DEF Writers
  <2>2. [who |-> w, owner |-> o, rule |-> u] \in Answers
    BY <2>1 DEF Answers
  <2>3. QED
    BY <1>2, <2>2 DEF Answer
<1>3. QED
  BY <1>1, <1>2

\* A step that ends a request and leaves the tables alone.
LEMMA EndStep ==
    ASSUME CInv, NEW p \in Procs, End(p), UNCHANGED data, policies' \in Policies,
           registry' \in Policies, OutputFits
    PROVE  CInv'
BY IdleFits, QuietStep DEF End

\* The ends of requests.
LEMMA Endings ==
    ASSUME CInv, NEW p \in Procs,
           \/ UpdateNothing(p) \/ PublishWritten(p) \/ PublishDeleted(p)
           \/ StoreRegistry(p) \/ Abandon(p)
    PROVE  CInv'
<1>a. registry \in Policies /\ policies \in Policies
  BY DEF CInv, TypeOK
<1>b. Fits(req[p]) /\ req[p].who \in Writers /\ req[p].owner \in Owners
      /\ req[p].rules \in RuleSets /\ req[p].rules.update \in Rules
  BY Fields DEF RuleSets
<1>1. ASSUME UpdateNothing(p) PROVE CInv'
  <2>1. PICK r \in rows : Answer(req[p].who, r.owner, req[p].rules.update)
    BY <1>1 DEF UpdateNothing, Matches, At
  <2>2. r.owner \in Owners
    BY DEF CInv, TypeOK, Rows
  <2>3. answers' \subseteq Answers
    BY <1>b, <2>1, <2>2, Answered
  <2>4. OutputFits
    BY <1>1, <2>3 DEF UpdateNothing, OutputFits, WriteEventsFollowReads
  <2>5. End(p) /\ UNCHANGED <<data, policies, registry>>
    BY <1>1 DEF UpdateNothing
  <2>6. QED
    BY <1>a, <2>4, <2>5, EndStep
<1>2. ASSUME PublishWritten(p) PROVE CInv'
  <2> DEFINE u == IF req[p].op = "update" THEN req[p].rules.update ELSE "owner"
  <2>1. Publish("written", req[p]) /\ Answer(req[p].who, req[p].owner, u)
        /\ End(p) /\ UNCHANGED <<data, policies, registry>>
    BY <1>2 DEF PublishWritten
  <2>2. req[p].gate = OwnerGateValue(req[p].rules, req[p].owner, req[p].who)
    BY <1>2, <1>b DEF PublishWritten, Fits
  <2>3. u \in Rules
    BY <1>b DEF Rules
  <2> HIDE DEF u
  <2>4. answers' \subseteq Answers
    BY <1>b, <2>1, <2>3, Answered
  <2>5. OutputFits
    BY <2>1, <2>2, <2>4, Published DEF OutputFits
  <2>6. QED
    BY <1>a, <2>1, <2>5, EndStep
<1>3. ASSUME PublishDeleted(p) PROVE CInv'
  <2>1. Publish("deleted", req[p]) /\ answers' = {}
        /\ End(p) /\ UNCHANGED <<data, policies, registry>>
    BY <1>3 DEF PublishDeleted
  <2>2. OutputFits
    BY <2>1, Published DEF OutputFits
  <2>3. QED
    BY <1>a, <2>1, <2>2, EndStep
<1>4. ASSUME StoreRegistry(p) PROVE CInv'
  <2>1. registry' \in Policies
    BY <1>4, <1>b DEF StoreRegistry, Fits
  <2>2. QED
    BY <1>4, <1>a, <2>1, QuietFits, EndStep DEF StoreRegistry
<1>5. ASSUME Abandon(p) PROVE CInv'
  BY <1>5, <1>a, QuietFits, EndStep DEF Abandon
<1>6. QED
  BY <1>1, <1>2, <1>3, <1>4, <1>5

\* The statements that read, and the erasure's events.
LEMMA ReadingSteps ==
    ASSUME CInv, NEW p \in Procs,
           Fetch(p) \/ ReadGate(p) \/ ListOwned(p) \/ Notify(p) \/ Discover(p)
    PROVE  CInv'
<1> DEFINE q == req[p]
<1>a. registry \in Policies /\ policies \in Policies /\ policies \in RuleSets
  BY CollectionsAssumption DEF CInv, TypeOK
<1>b. /\ req \in [Procs -> Requests] /\ q \in Requests /\ Fits(q)
      /\ q.op \in {"create", "update", "delete", "erase", "reload"}
      /\ q.who \in Writers /\ q.id \in Ids /\ q.rules \in RuleSets
      /\ q.owner \in Owners /\ q.gate \in Owners /\ q.ids \subseteq Ids
  BY Fields
<1>c. \A r \in rows : r.owner \in Owners /\ r.id \in Ids
  BY DEF CInv, TypeOK, Rows
<1>1. ASSUME Fetch(p) PROVE CInv'
  <2>1. PICK r \in rows : req' = [req EXCEPT ![p].at = "publish", ![p].owner = r.owner,
                                             ![p].gate = OwnerGateValue(q.rules, r.owner, q.who)]
    BY <1>1 DEF Fetch, At
  <2> DEFINE g == OwnerGateValue(q.rules, r.owner, q.who)
             x == Req("publish", q.op, q.who, q.id, q.rules, r.owner, g, q.ids)
  <2>2. q.at = "fetch" /\ Quiet /\ UNCHANGED <<data, policies, registry>>
    BY <1>1 DEF Fetch
  <2>3. g \in Owners
    BY <1>c DEF OwnerGateValue, Owners
  <2>4. x.at = "publish" /\ x.gate = g /\ x.owner = r.owner /\ x.rules = q.rules /\ x.who = q.who
    BY DEF Req
  <2>5. Fits(x) /\ ~Wiped(x)
    <3>1. x \in Requests
      BY <1>b, <1>c, <2>3 DEF Req, Requests
    <3>2. x.gate = OwnerGateValue(x.rules, x.owner, x.who)
      BY <2>4
    <3> HIDE DEF x
    <3>3. QED
      BY <3>1, <3>2, <2>4 DEF Fits, Wiped
  <2> HIDE DEF g
  <2>6. req' = [req EXCEPT ![p] = x]
    <3>1. [q EXCEPT !.at = "publish"]
            = Req("publish", q.op, q.who, q.id, q.rules, q.owner, q.gate, q.ids)
      BY <1>b, MovedOn
    <3>2. [Req("publish", q.op, q.who, q.id, q.rules, q.owner, q.gate, q.ids) EXCEPT !.owner = r.owner]
            = Req("publish", q.op, q.who, q.id, q.rules, r.owner, q.gate, q.ids)
      BY DEF Req
    <3>3. [Req("publish", q.op, q.who, q.id, q.rules, r.owner, q.gate, q.ids) EXCEPT !.gate = g] = x
      BY DEF Req
    <3>4. [q EXCEPT !.at = "publish", !.owner = r.owner, !.gate = g] = x
      BY <3>1, <3>2, <3>3
    <3>5. req' = [req EXCEPT ![p] = [q EXCEPT !.at = "publish", !.owner = r.owner, !.gate = g]]
      BY <2>1 DEF g
    <3>6. QED
      BY <3>4, <3>5
  <2> HIDE DEF x, q
  <2>7. QED
    BY <1>a, <2>2, <2>5, <2>6, QuietFits, QuietStep
<1>2. ASSUME ReadGate(p) PROVE CInv'
  <2>1. PICK g \in Owners : req' = [req EXCEPT ![p].at = "delete", ![p].gate = g]
    BY <1>2, <1>c DEF ReadGate, At, Owners
  <2> DEFINE x == Req("delete", q.op, q.who, q.id, q.rules, q.owner, g, q.ids)
  <2>2. q.at = "gate" /\ Quiet /\ UNCHANGED <<data, policies, registry>>
    BY <1>2 DEF ReadGate
  <2>3. q.op = "delete"
    BY <1>b, <2>2 DEF Fits
  <2>4. Fits(x) /\ ~Wiped(x)
    <3>1. x \in Requests
      BY <1>b DEF Req, Requests
    <3>2. x.at = "delete" /\ x.op = "delete"
      BY <2>3 DEF Req
    <3> HIDE DEF x
    <3>3. QED
      BY <3>1, <3>2 DEF Fits, Wiped
  <2>5. req' = [req EXCEPT ![p] = x]
    <3>1. [q EXCEPT !.at = "delete"]
            = Req("delete", q.op, q.who, q.id, q.rules, q.owner, q.gate, q.ids)
      BY <1>b, MovedOn
    <3>2. [Req("delete", q.op, q.who, q.id, q.rules, q.owner, q.gate, q.ids) EXCEPT !.gate = g] = x
      BY DEF Req
    <3>3. [q EXCEPT !.at = "delete", !.gate = g] = x
      BY <3>1, <3>2
    <3>4. req' = [req EXCEPT ![p] = [q EXCEPT !.at = "delete", !.gate = g]]
      BY <2>1
    <3>5. QED
      BY <3>3, <3>4
  <2> HIDE DEF x, q
  <2>6. QED
    BY <1>a, <2>2, <2>4, <2>5, QuietFits, QuietStep
<1>3. ASSUME ListOwned(p) PROVE CInv'
  <2> DEFINE k == {r.id : r \in {y \in rows : y.owner = q.who}}
             x == Req("wipe", q.op, q.who, q.id, q.rules, q.owner, q.gate, k)
  <2>1. req' = [req EXCEPT ![p].at = "wipe", ![p].ids = k] /\ q.at = "list"
        /\ Quiet /\ UNCHANGED <<data, policies, registry>>
    BY <1>3 DEF ListOwned
  <2>2. q.op = "erase" /\ q.who \in Subjects
    BY <1>b, <2>1 DEF Fits
  <2>3. k \subseteq Ids
    BY <1>c
  <2> HIDE DEF k
  <2>4. Fits(x) /\ ~Wiped(x)
    <3>1. x \in Requests
      BY <1>b, <2>3 DEF Req, Requests
    <3>2. x.at = "wipe" /\ x.op = "erase" /\ x.who \in Subjects
      BY <2>2 DEF Req
    <3> HIDE DEF x
    <3>3. QED
      BY <3>1, <3>2 DEF Fits, Wiped
  <2>5. req' = [req EXCEPT ![p] = x]
    <3>1. [q EXCEPT !.at = "wipe"]
            = Req("wipe", q.op, q.who, q.id, q.rules, q.owner, q.gate, q.ids)
      BY <1>b, MovedOn
    <3>2. [Req("wipe", q.op, q.who, q.id, q.rules, q.owner, q.gate, q.ids) EXCEPT !.ids = k] = x
      BY DEF Req
    <3>3. [q EXCEPT !.at = "wipe", !.ids = k] = x
      BY <3>1, <3>2
    <3>4. req' = [req EXCEPT ![p] = [q EXCEPT !.at = "wipe", !.ids = k]]
      BY <2>1
    <3>5. QED
      BY <3>3, <3>4
  <2> HIDE DEF x, q
  <2>6. QED
    BY <1>a, <2>1, <2>4, <2>5, QuietFits, QuietStep
<1>4. ASSUME Notify(p) PROVE CInv'
  <2> DEFINE x == Req("leave", q.op, q.who, q.id, q.rules, q.owner, q.gate, q.ids)
  <2>1. q.at = "notify" /\ answers' = {} /\ req' = [req EXCEPT ![p].at = "leave"]
        /\ UNCHANGED <<data, policies, registry>>
        /\ (events' = {} \/ Publish("deleted", q))
    BY <1>4 DEF Notify
  <2>2. q.op = "erase" /\ q.who \in Subjects
    BY <1>b, <2>1 DEF Fits
  <2>3. OutputFits
    <3>1. CASE events' = {}
      BY <3>1, <2>1 DEF OutputFits, WriteEventsFollowReads
    <3>2. CASE Publish("deleted", q)
      BY <3>2, <2>1, Published DEF OutputFits
    <3>3. QED
      BY <2>1, <3>1, <3>2
  <2>4. Fits(x) /\ Wiped(x) /\ Wiped(q) /\ x.who = q.who
    <3>1. x \in Requests
      BY <1>b DEF Req, Requests
    <3>2. x.at = "leave" /\ x.op = "erase" /\ x.who \in Subjects /\ x.who = q.who
      BY <2>2 DEF Req
    <3> HIDE DEF x
    <3>3. QED
      BY <2>1, <3>1, <3>2 DEF Fits, Wiped
  <2>5. req' = [req EXCEPT ![p] = x]
    BY <1>b, <2>1, MovedOn
  <2> HIDE DEF x
  <2>6. QED
    BY <1>a, <2>1, <2>3, <2>4, <2>5, QuietStep
<1>5. ASSUME Discover(p) PROVE CInv'
  <2> DEFINE x == Req("store", q.op, q.who, q.id, policies, q.owner, q.gate, q.ids)
  <2>1. q.at = "discover" /\ req' = [req EXCEPT ![p].at = "store", ![p].rules = policies]
        /\ Quiet /\ UNCHANGED <<data, policies, registry>>
    BY <1>5 DEF Discover
  <2>2. Fits(x) /\ ~Wiped(x)
    <3>1. x \in Requests
      BY <1>a, <1>b DEF Req, Requests
    <3>2. x.at = "store" /\ x.rules = policies
      BY DEF Req
    <3> HIDE DEF x
    <3>3. QED
      BY <1>a, <3>1, <3>2 DEF Fits, Wiped
  <2>3. req' = [req EXCEPT ![p] = x]
    <3>1. [q EXCEPT !.at = "store"]
            = Req("store", q.op, q.who, q.id, q.rules, q.owner, q.gate, q.ids)
      BY <1>b, MovedOn
    <3>2. [Req("store", q.op, q.who, q.id, q.rules, q.owner, q.gate, q.ids) EXCEPT !.rules = policies] = x
      BY DEF Req
    <3>3. [q EXCEPT !.at = "store", !.rules = policies] = x
      BY <3>1, <3>2
    <3>4. req' = [req EXCEPT ![p] = [q EXCEPT !.at = "store", !.rules = policies]]
      BY <2>1
    <3>5. QED
      BY <3>3, <3>4
  <2> HIDE DEF x, q
  <2>4. QED
    BY <1>a, <2>1, <2>2, <2>3, QuietFits, QuietStep
<1>6. QED
  BY <1>1, <1>2, <1>3, <1>4, <1>5

-----------------------------------------------------------------------------
(* Steps that change the rows.                                             *)

\* Every owner has rows there were before, or gets its first ones on record.
RowsFit ==
    /\ rows' \subseteq Rows
    /\ \A r, x \in rows' : r.id = x.id => r = x
    /\ \A r \in rows' : r.via = "owner" => r.by = r.owner
    /\ late \subseteq late' /\ late' \subseteq Subjects
    /\ \A r \in rows' : (\E x \in rows : x.owner = r.owner)
                        \/ (Erasing(r.owner) => r.owner \in late')

\* A write by a request that is no erasure.
LEMMA RowStep ==
    ASSUME CInv, NEW p \in Procs, NEW r, Fits(r), req' = [req EXCEPT ![p] = r], ~Wiped(r),
           RowsFit, UNCHANGED <<gone, policies, registry>>, Quiet
    PROVE  CInv'
<1>1. \A q \in Procs : req'[q] = IF q = p THEN r ELSE req[q]
  BY DEF CInv, TypeOK
<1>2. TypeOK'
  BY DEF CInv, TypeOK, Quiet, Fits, RowsFit
<1>3. \A q \in Procs : Fits(req[q])'
  BY <1>1 DEF CInv, Fits, OwnerGateValue
<1>4. OwnedWritesAreTheOwners' /\ WriteEventsFollowReads'
  BY DEF RowsFit, OwnedWritesAreTheOwners, WriteEventsFollowReads, Quiet
<1>5. ErasureIsComplete'
  BY DEF CInv, RowsFit, ErasureIsComplete, Erasing
<1>6. WipedStayWiped'
  <2> SUFFICES ASSUME NEW q \in Procs, Wiped(req[q])', NEW x \in rows', x.owner = req'[q].who
               PROVE  x.owner \in late'
    BY DEF WipedStayWiped
  <2>1. req'[q] = req[q] /\ Wiped(req[q])
    BY <1>1 DEF Wiped
  <2>2. req[q].op = "erase" /\ req[q].at # "idle"
    BY <2>1 DEF CInv, Fits, Wiped
  <2>3. Erasing(x.owner)
    BY <2>1, <2>2 DEF Erasing
  <2>4. QED
    BY <2>1, <2>3 DEF CInv, RowsFit, WipedStayWiped
<1>7. QED
  BY <1>2, <1>3, <1>4, <1>5, <1>6 DEF CInv

\* Whoever is being erased, or is gone, is a subject.
LEMMA ErasedAreSubjects ==
    ASSUME CInv, NEW o \in Owners, Erasing(o)
    PROVE  o \in Subjects
<1>1. CASE o \in gone
  BY <1>1 DEF CInv, TypeOK
<1>2. CASE \E p \in Procs : req[p].who = o
  BY <1>2, Fields, CollectionsAssumption DEF Owners, Writers
<1>3. QED
  BY <1>1, <1>2 DEF Erasing

\* A request with its row written: it goes on to read it back.
LEMMA ToFetch ==
    ASSUME CInv, NEW p \in Procs, req[p].at \in {"insert", "update"},
           req' = [req EXCEPT ![p].at = "fetch"]
    PROVE  \E r : Fits(r) /\ ~Wiped(r) /\ req' = [req EXCEPT ![p] = r]
<1> DEFINE q == req[p]
           x == Req("fetch", q.op, q.who, q.id, q.rules, q.owner, q.gate, q.ids)
<1>1. /\ req \in [Procs -> Requests] /\ q \in Requests /\ Fits(q)
      /\ q.op \in {"create", "update", "delete", "erase", "reload"}
      /\ q.who \in Writers /\ q.id \in Ids /\ q.rules \in RuleSets
      /\ q.owner \in Owners /\ q.gate \in Owners /\ q.ids \subseteq Ids
  BY Fields
<1>2. req' = [req EXCEPT ![p] = x]
  BY <1>1, MovedOn
<1>3. x \in Requests
  BY <1>1 DEF Req, Requests
<1>4. x.at = "fetch" /\ x.op = q.op
  BY DEF Req
<1> HIDE DEF x
<1>5. Fits(x) /\ ~Wiped(x)
  BY <1>1, <1>3, <1>4 DEF Fits, Wiped
<1>6. QED
  BY <1>2, <1>5

\* Rows that go.
LEMMA RowsShrink ==
    ASSUME CInv, rows' \subseteq rows, UNCHANGED late
    PROVE  RowsFit
BY DEF CInv, TypeOK, RowsFit, OwnedWritesAreTheOwners

\* The INSERT: a customer's row is the customer's own, and its key is free.
LEMMA InsertStep ==
    ASSUME CInv, NEW p \in Procs, NEW o \in Owners, Insert(p, o)
    PROVE  CInv'
<1> DEFINE q == req[p]
           v == Via(q, q.rules.create)
           x == [id |-> q.id, owner |-> o, by |-> q.who, via |-> v]
<1>1. q.at = "insert" /\ At(q.id) = {} /\ (q.who # Admin => o = q.who)
      /\ rows' = rows \cup {x} /\ late' = (IF Erasing(o) THEN late \cup {o} ELSE late)
      /\ req' = [req EXCEPT ![p].at = "fetch"] /\ Quiet /\ UNCHANGED <<gone, policies, registry>>
  BY DEF Insert
<1>2. Fits(q) /\ q.who \in Writers /\ q.id \in Ids /\ q.rules.create \in Rules
  BY Fields DEF RuleSets
<1>3. v \in {"owner", "shared", "admin"} /\ (v = "owner" => q.who # Admin)
  BY <1>1, <1>2 DEF Via, Fits, Rules
<1> HIDE DEF v
<1>4. x \in Rows /\ x.owner = o /\ x.by = q.who /\ x.id = q.id /\ (x.via = "owner" => x.by = x.owner)
  BY <1>1, <1>2, <1>3 DEF Rows
<1> HIDE DEF x, q
<1>5. late \subseteq late' /\ late' \subseteq Subjects /\ (Erasing(o) => o \in late')
  BY <1>1, ErasedAreSubjects DEF CInv, TypeOK
<1>6. \A r \in rows : r.id # x.id
  BY <1>1, <1>4 DEF At
<1>7. RowsFit
  BY <1>1, <1>4, <1>5, <1>6 DEF RowsFit, CInv, TypeOK, OwnedWritesAreTheOwners
<1>8. QED
  BY <1>1, <1>7, ToFetch, RowStep DEF q

\* The UPDATE: under an owner rule it finds only rows of the caller, and it
\* is the admin who may change a row's owner.
LEMMA UpdateStep ==
    ASSUME CInv, NEW p \in Procs, NEW o \in Owners, UpdateRow(p, o)
    PROVE  CInv'
<1> DEFINE q == req[p]
           v == Via(q, q.rules.update)
<1>1. PICK r \in Matches(q, q.rules.update) :
        /\ q.at = "update"
        /\ q.who # Admin => o = r.owner
        /\ rows' = (rows \ {r}) \cup {[r EXCEPT !.owner = o, !.by = q.who, !.via = v]}
        /\ late' = IF o # r.owner /\ Erasing(o) THEN late \cup {o} ELSE late
        /\ req' = [req EXCEPT ![p].at = "fetch"]
        /\ Quiet /\ UNCHANGED <<gone, policies, registry>>
  BY DEF UpdateRow
<1> DEFINE x == [id |-> r.id, owner |-> o, by |-> q.who, via |-> v]
<1>2. Fits(q) /\ q.who \in Writers /\ q.id \in Ids /\ q.rules.update \in Rules
  BY Fields DEF RuleSets
<1>3. r \in rows /\ r \in Rows /\ r.id \in Ids
      /\ (q.who = Admin \/ q.rules.update = "shared" \/ r.owner = q.who)
  BY DEF Matches, At, CInv, TypeOK, Rows
<1>4. v \in {"owner", "shared", "admin"}
      /\ (v = "owner" => q.who # Admin /\ q.rules.update = "owner")
  BY <1>1, <1>2 DEF Via, Fits, Rules
<1> HIDE DEF v
<1>5. [r EXCEPT !.owner = o, !.by = q.who, !.via = v] = x
  <2>1. [r EXCEPT !.owner = o] = [id |-> r.id, owner |-> o, by |-> r.by, via |-> r.via]
    BY <1>3 DEF Rows
  <2>2. [[id |-> r.id, owner |-> o, by |-> r.by, via |-> r.via] EXCEPT !.by = q.who]
          = [id |-> r.id, owner |-> o, by |-> q.who, via |-> r.via]
    OBVIOUS
  <2>3. [[id |-> r.id, owner |-> o, by |-> q.who, via |-> r.via] EXCEPT !.via = v] = x
    OBVIOUS
  <2>4. QED
    BY <2>1, <2>2, <2>3
<1>6. x \in Rows /\ x.owner = o /\ x.by = q.who /\ x.id = r.id
      /\ (x.via = "owner" => x.by = x.owner)
  BY <1>1, <1>2, <1>3, <1>4 DEF Rows
<1>7. rows' = (rows \ {r}) \cup {x}
  BY <1>1, <1>5
<1> HIDE DEF x, q
<1>8. late \subseteq late' /\ late' \subseteq Subjects
      /\ (o = r.owner \/ (Erasing(o) => o \in late'))
  BY <1>1, ErasedAreSubjects DEF CInv, TypeOK
<1>9. \A y \in rows \ {r} : y.id # x.id
  BY <1>3, <1>6 DEF CInv, TypeOK
<1>10. RowsFit
  <2>1. rows' \subseteq Rows /\ \A y \in rows' : y.via = "owner" => y.by = y.owner
    BY <1>6, <1>7 DEF CInv, TypeOK, OwnedWritesAreTheOwners
  <2>2. \A y, z \in rows' : y.id = z.id => y = z
    BY <1>7, <1>9 DEF CInv, TypeOK
  <2>3. \A y \in rows' : (\E z \in rows : z.owner = y.owner)
                         \/ (Erasing(y.owner) => y.owner \in late')
    BY <1>3, <1>6, <1>7, <1>8
  <2>4. QED
    BY <1>8, <2>1, <2>2, <2>3 DEF RowsFit
<1>11. QED
  BY <1>1, <1>10, ToFetch, RowStep DEF q

\* The admin's UPDATE that changed nothing.
LEMMA MissStep ==
    ASSUME CInv, NEW p \in Procs, UpdateMisses(p)
    PROVE  CInv'
<1>1. req[p].at = "update" /\ req' = [req EXCEPT ![p].at = "fetch"]
      /\ Quiet /\ UNCHANGED <<data, policies, registry>>
  BY DEF UpdateMisses
<1>2. PICK r : Fits(r) /\ ~Wiped(r) /\ req' = [req EXCEPT ![p] = r]
  BY <1>1, ToFetch
<1>3. policies' \in Policies /\ registry' \in Policies
  BY <1>1 DEF CInv, TypeOK
<1>4. QED
  BY <1>1, <1>2, <1>3, QuietFits, QuietStep

\* The DELETE.
LEMMA DeleteStep ==
    ASSUME CInv, NEW p \in Procs, DeleteRow(p)
    PROVE  CInv'
<1> DEFINE q == req[p]
<1>1. PICK r \in rows : /\ q.at = "delete" /\ rows' = rows \ {r}
                        /\ req' = [req EXCEPT ![p].at = "publish", ![p].owner = r.owner]
                        /\ Quiet /\ UNCHANGED <<gone, late, policies, registry>>
  BY DEF DeleteRow, Matches, At
<1> DEFINE x == Req("publish", q.op, q.who, q.id, q.rules, r.owner, q.gate, q.ids)
<1>2. /\ req \in [Procs -> Requests] /\ q \in Requests /\ Fits(q)
      /\ q.op \in {"create", "update", "delete", "erase", "reload"}
      /\ q.who \in Writers /\ q.id \in Ids /\ q.rules \in RuleSets
      /\ q.owner \in Owners /\ q.gate \in Owners /\ q.ids \subseteq Ids
  BY Fields
<1>3. r.owner \in Owners
  BY DEF CInv, TypeOK, Rows
<1>4. req' = [req EXCEPT ![p] = x]
  <2>1. [q EXCEPT !.at = "publish"]
          = Req("publish", q.op, q.who, q.id, q.rules, q.owner, q.gate, q.ids)
    BY <1>2, MovedOn
  <2>2. [Req("publish", q.op, q.who, q.id, q.rules, q.owner, q.gate, q.ids) EXCEPT !.owner = r.owner] = x
    BY DEF Req
  <2>3. [q EXCEPT !.at = "publish", !.owner = r.owner] = x
    BY <2>1, <2>2
  <2>4. req' = [req EXCEPT ![p] = [q EXCEPT !.at = "publish", !.owner = r.owner]]
    BY <1>1
  <2>5. QED
    BY <2>3, <2>4
<1>5. Fits(x) /\ ~Wiped(x)
  <2>1. x \in Requests
    BY <1>2, <1>3 DEF Req, Requests
  <2>2. x.at = "publish" /\ x.op = "delete"
    BY <1>1, <1>2 DEF Req, Fits
  <2> HIDE DEF x
  <2>3. QED
    BY <2>1, <2>2 DEF Fits, Wiped
<1> HIDE DEF x, q
<1>6. QED
  BY <1>1, <1>4, <1>5, RowsShrink, RowStep

\* DeleteOwned: after it there is no row of the account.
LEMMA WipeStep ==
    ASSUME CInv, NEW p \in Procs, Wipe(p)
    PROVE  CInv'
<1> DEFINE q == req[p]
           x == Req("notify", q.op, q.who, q.id, q.rules, q.who, q.who, q.ids)
<1>1. /\ q.at = "wipe" /\ rows' = {r \in rows : r.owner # q.who}
      /\ req' = [req EXCEPT ![p].at = "notify", ![p].owner = q.who, ![p].gate = q.who]
      /\ Quiet /\ UNCHANGED <<gone, late, policies, registry>>
  BY DEF Wipe
<1>2. /\ req \in [Procs -> Requests] /\ q \in Requests /\ Fits(q)
      /\ q.op \in {"create", "update", "delete", "erase", "reload"}
      /\ q.who \in Writers /\ q.id \in Ids /\ q.rules \in RuleSets
      /\ q.owner \in Owners /\ q.gate \in Owners /\ q.ids \subseteq Ids
  BY Fields
<1>3. q.op = "erase" /\ q.who \in Subjects /\ q.who \in Owners
  BY <1>1, <1>2 DEF Fits, Owners
<1>4. req' = [req EXCEPT ![p] = x]
  <2>1. [q EXCEPT !.at = "notify"]
          = Req("notify", q.op, q.who, q.id, q.rules, q.owner, q.gate, q.ids)
    BY <1>2, MovedOn
  <2>2. [Req("notify", q.op, q.who, q.id, q.rules, q.owner, q.gate, q.ids) EXCEPT !.owner = q.who]
          = Req("notify", q.op, q.who, q.id, q.rules, q.who, q.gate, q.ids)
    BY DEF Req
  <2>3. [Req("notify", q.op, q.who, q.id, q.rules, q.who, q.gate, q.ids) EXCEPT !.gate = q.who] = x
    BY DEF Req
  <2>4. [q EXCEPT !.at = "notify", !.owner = q.who, !.gate = q.who] = x
    BY <2>1, <2>2, <2>3
  <2>5. req' = [req EXCEPT ![p] = [q EXCEPT !.at = "notify", !.owner = q.who, !.gate = q.who]]
    BY <1>1
  <2>6. QED
    BY <2>4, <2>5
<1>5. Fits(x) /\ x.who = q.who
  <2>1. x \in Requests
    BY <1>2, <1>3 DEF Req, Requests
  <2>2. x.at = "notify" /\ x.op = "erase" /\ x.who \in Subjects /\ x.who = q.who
    BY <1>3 DEF Req
  <2> HIDE DEF x
  <2>3. QED
    BY <2>1, <2>2 DEF Fits
<1> HIDE DEF x, q
<1>6. \A y \in Procs : req'[y] = IF y = p THEN x ELSE req[y]
  BY <1>2, <1>4
<1>7. TypeOK'
  <2>1. req' \in [Procs -> Requests]
    BY <1>2, <1>4, <1>5 DEF Fits
  <2>2. rows' \subseteq rows
    BY <1>1
  <2>3. QED
    BY <1>1, <2>1, <2>2 DEF CInv, TypeOK, Quiet
<1>8. \A y \in Procs : Fits(req[y])'
  BY <1>5, <1>6 DEF CInv, Fits, OwnerGateValue
<1>9. OwnedWritesAreTheOwners' /\ ErasureIsComplete' /\ WriteEventsFollowReads'
  BY <1>1 DEF CInv, OwnedWritesAreTheOwners, ErasureIsComplete, WriteEventsFollowReads, Quiet
<1>10. WipedStayWiped'
  BY <1>1, <1>5, <1>6 DEF CInv, WipedStayWiped, Wiped
<1>11. QED
  BY <1>7, <1>8, <1>9, <1>10 DEF CInv

\* DeleteUser: the account goes only after its rows.
LEMMA LeaveStep ==
    ASSUME CInv, NEW p \in Procs, Leave(p)
    PROVE  CInv'
<1>1. req[p].at = "leave" /\ gone' = gone \cup {req[p].who} /\ req' = [req EXCEPT ![p] = NoRequest]
      /\ Quiet /\ UNCHANGED <<rows, late, policies, registry>>
  BY DEF Leave, End
<1>2. req[p].who \in Subjects /\ Wiped(req[p])
  BY <1>1 DEF CInv, Fits, Wiped
<1>3. \A y \in Procs : req'[y] = IF y = p THEN NoRequest ELSE req[y]
  BY <1>1 DEF CInv, TypeOK
<1>4. TypeOK'
  BY <1>1, <1>2, IdleFits DEF CInv, TypeOK, Quiet, Fits
<1>5. \A y \in Procs : Fits(req[y])'
  BY <1>3, IdleFits DEF CInv, Fits, OwnerGateValue
<1>6. OwnedWritesAreTheOwners' /\ WriteEventsFollowReads'
  BY <1>1 DEF CInv, OwnedWritesAreTheOwners, WriteEventsFollowReads, Quiet
<1>7. ErasureIsComplete'
  BY <1>1, <1>2 DEF CInv, ErasureIsComplete, WipedStayWiped
<1>8. WipedStayWiped'
  BY <1>1, <1>3, IdleFits DEF CInv, WipedStayWiped, Wiped
<1>9. QED
  BY <1>4, <1>5, <1>6, <1>7, <1>8 DEF CInv

-----------------------------------------------------------------------------
(* The theorems.                                                           *)

\* The invariant holds before the first request.
LEMMA Start == Init => CInv
<1> SUFFICES ASSUME Init PROVE CInv
  OBVIOUS
<1>1. \A p \in Procs : req[p] = NoRequest
  BY DEF Init
<1>2. TypeOK
  BY IdleFits DEF Init, TypeOK, Fits
<1>3. \A p \in Procs : Fits(req[p])
  BY <1>1, IdleFits
<1>4. OwnedWritesAreTheOwners /\ WriteEventsFollowReads /\ WipedStayWiped /\ ErasureIsComplete
  BY DEF Init, OwnedWritesAreTheOwners, WriteEventsFollowReads, WipedStayWiped, ErasureIsComplete
<1>5. QED
  BY <1>2, <1>3, <1>4 DEF CInv

\* The collection keeps its invariant through any interleaving of writes,
\* deletions, erasures and reloads.
THEOREM Inductive == Spec => []CInv
<1>1. CInv /\ [Next]_vars => CInv'
  <2> SUFFICES ASSUME CInv, [Next]_vars PROVE CInv'
    OBVIOUS
  <2>1. CASE Next
    BY <2>1, Beginnings, Endings, ReadingSteps, InsertStep, UpdateStep, MissStep,
          DeleteStep, WipeStep, LeaveStep
       DEF Next
  <2>2. CASE UNCHANGED vars
    BY <2>2 DEF vars, CInv, TypeOK, Fits, OwnerGateValue, OwnedWritesAreTheOwners,
       WriteEventsFollowReads, WipedStayWiped, Wiped, ErasureIsComplete
  <2>3. QED
    BY <2>1, <2>2
<1>2. QED
  BY Start, <1>1, PTL DEF Spec

\* Type correctness: keys stay unique, and nothing is written under a rule
\* authorizeOp denies.
THEOREM TypeCorrect == Spec => []TypeOK
<1>1. CInv => TypeOK
  BY DEF CInv
<1>2. QED
  BY Inductive, <1>1, PTL

\* A row last written under an owner rule was written by the subject that
\* owns it, whatever the rules became meanwhile.
THEOREM OwnersWriteTheirOwn == Spec => []OwnedWritesAreTheOwners
<1>1. CInv => OwnedWritesAreTheOwners
  BY DEF CInv
<1>2. QED
  BY Inductive, <1>1, PTL

\* The event of a created or updated row reaches exactly the readers of the
\* row it carries, or everyone if that row has no owner and owners read.
THEOREM WritesReachReaders == Spec => []WriteEventsFollowReads
<1>1. CInv => WriteEventsFollowReads
  BY DEF CInv
<1>2. QED
  BY Inductive, <1>1, PTL

\* An erased account has no row but those given to it while or after it was
\* being erased.
THEOREM ErasureTakesAll == Spec => []ErasureIsComplete
<1>1. CInv => ErasureIsComplete
  BY DEF CInv
<1>2. QED
  BY Inductive, <1>1, PTL
=============================================================================
