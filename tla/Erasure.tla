------------------------------ MODULE Erasure -------------------------------
(***************************************************************************)
(* Erasing an account: DELETE /api/auth/me (handleDeleteAccount) and the   *)
(* admin UI's handleDeleteUser put together what Collections, FileStorage, *)
(* OAuthTokens and Accounts each do.  Four calls in a row, no transaction  *)
(* around them, against everything the account can still do meanwhile: its *)
(* sessions authorize clients, its clients' tokens write rows, upload      *)
(* files and mint further tokens.  Any call may fail half-way; the         *)
(* customer asks again until the account is gone.  (The audit entry of a   *)
(* completed erasure is best effort and nothing here reads it.)            *)
(*                                                                         *)
(* One account: every statement is keyed by its id, and accounts share     *)
(* nothing.  An item is a row of an owned collection, a file or an access  *)
(* token; what the components do inside a call is in their own modules.    *)
(***************************************************************************)
EXTENDS Naturals

CONSTANTS Procs,    \* requests that can be in flight at the same time
          Rows,     \* rows the account may own
          Files,    \* files it may upload
          Tokens,   \* access tokens that may be issued for it
          None,     \* no item
          MaxFault  \* bound: calls that fail

ASSUME ErasureAssumption == MaxFault \in Nat

VARIABLES
    account,  \* the users row is there
    session,  \* the account has a session
    tokens,   \* oauth_access_tokens with the account's subject
    rows,     \* rows of owned collections with its owner_id
    meta,     \* rows of files with its owner_id
    disk,     \* its files in the storage directory
    req,      \* req[p]: the request in flight
    asked,    \* the customer has asked for the erasure
    faults,   \* calls that have failed
    missed    \* history: what was committed behind the erasure that succeeded

data == <<account, session, tokens, rows, meta, disk>>
vars == <<data, req, asked, faults, missed>>

Items == Rows \cup Files \cup Tokens

EraseSteps == {"rows", "list", "bytes", "meta", "grants", "account"}
WriteSteps == {"insert", "put", "describe", "mint"}

\* todo: files an erasure still has to remove.  behind: what was committed
\* where the erasure had already been.
NoRequest == [at |-> "idle", item |-> None, todo |-> {}, behind |-> {}]

Requests == [at : {"idle"} \cup EraseSteps \cup WriteSteps, item : Items \cup {None},
             todo : SUBSET Files, behind : SUBSET Items]

TypeOK ==
    /\ account \in BOOLEAN /\ session \in BOOLEAN /\ asked \in BOOLEAN
    /\ tokens \subseteq Tokens /\ rows \subseteq Rows
    /\ meta \subseteq Files /\ disk \subseteq Files
    /\ req \in [Procs -> Requests]
    /\ faults \in 0..MaxFault
    /\ missed \subseteq Items

Init ==
    /\ account = TRUE /\ session = TRUE
    /\ tokens \in SUBSET Tokens
    /\ rows \in SUBSET Rows
    /\ meta \in SUBSET Files /\ disk = meta
    /\ req = [p \in Procs |-> NoRequest]
    /\ asked = FALSE
    /\ faults = 0
    /\ missed = {}

-----------------------------------------------------------------------------
Begin(p, r) ==
    /\ req[p] = NoRequest
    /\ req' = [req EXCEPT ![p] = r]

GoTo(p, at) == req' = [req EXCEPT ![p].at = at]

Finish(p) == req' = [req EXCEPT ![p] = NoRequest]

InFlight(i) == \E p \in Procs : req[p].item = i

-----------------------------------------------------------------------------
(* What the account and its clients do meanwhile.                          *)

\* The erasures that have been where this kind of item is removed.
Past(at) ==
    CASE at = "insert" -> {"list", "bytes", "meta", "grants", "account"}
      [] at = "describe" -> {"bytes", "meta", "grants", "account"}
      [] at = "mint" -> {"account"}

\* The request of p commits its item and ends.
Commit(p) ==
    /\ req' = [q \in Procs |->
                 IF q = p THEN NoRequest
                 ELSE IF req[q].at \in Past(req[p].at)
                 THEN [req[q] EXCEPT !.behind = @ \cup {req[p].item}] ELSE req[q]]
    /\ missed' = IF account THEN missed ELSE missed \cup {req[p].item}

\* RequireScope lets a request in while its token has a row; the account is
\* not looked at.
BeginInsert(p, r) ==
    /\ tokens # {} /\ r \notin rows /\ ~InFlight(r)
    /\ Begin(p, [NoRequest EXCEPT !.at = "insert", !.item = r])
    /\ UNCHANGED <<data, asked, faults, missed>>

InsertRow(p) ==
    /\ req[p].at = "insert"
    /\ rows' = rows \cup {req[p].item}
    /\ Commit(p)
    /\ UNCHANGED <<account, session, tokens, meta, disk, asked, faults>>

\* The id is a new UUID: no file there is, and none an erasure has listed.
BeginUpload(p, f) ==
    /\ tokens # {} /\ f \notin meta \cup disk /\ ~InFlight(f)
    /\ \A q \in Procs : f \notin req[q].todo
    /\ Begin(p, [NoRequest EXCEPT !.at = "put", !.item = f])
    /\ UNCHANGED <<data, asked, faults, missed>>

PutBytes(p) ==
    /\ req[p].at = "put"
    /\ disk' = disk \cup {req[p].item}
    /\ GoTo(p, "describe")
    /\ UNCHANGED <<account, session, tokens, rows, meta, asked, faults, missed>>

\* The foreign key of files needs the account; the upload cleans up if it is
\* gone.
InsertFile(p) ==
    /\ req[p].at = "describe"
    /\ \/ /\ account
          /\ meta' = meta \cup {req[p].item}
          /\ Commit(p)
          /\ UNCHANGED disk
       \/ /\ ~account
          /\ disk' = disk \ {req[p].item}
          /\ Finish(p)
          /\ UNCHANGED <<meta, missed>>
    /\ UNCHANGED <<account, session, tokens, rows, asked, faults>>

\* An authorization by the signed-in customer, or a refresh by a client.
BeginIssue(p, t) ==
    /\ session \/ tokens # {}
    /\ t \notin tokens /\ ~InFlight(t)
    /\ Begin(p, [NoRequest EXCEPT !.at = "mint", !.item = t])
    /\ UNCHANGED <<data, asked, faults, missed>>

\* No foreign key ties the grant tables to users.
IssueToken(p) ==
    /\ req[p].at = "mint"
    /\ tokens' = tokens \cup {req[p].item}
    /\ Commit(p)
    /\ UNCHANGED <<account, session, rows, meta, disk, asked, faults>>

Login ==
    /\ account /\ ~session
    /\ session' = TRUE
    /\ UNCHANGED <<account, tokens, rows, meta, disk, req, asked, faults, missed>>

\* Logout, a password reset, an expiry, the admin UI's sign-out everywhere.
SignOut ==
    /\ session
    /\ session' = FALSE
    /\ UNCHANGED <<account, tokens, rows, meta, disk, req, asked, faults, missed>>

\* An expiry, a revocation, the sweep after a password reset.
TokenEnds(t) ==
    /\ t \in tokens
    /\ tokens' = tokens \ {t}
    /\ UNCHANGED <<account, session, rows, meta, disk, req, asked, faults, missed>>

-----------------------------------------------------------------------------
(* The erasure.                                                            *)

Ask ==
    /\ account /\ ~asked
    /\ asked' = TRUE
    /\ UNCHANGED <<data, req, faults, missed>>

\* DELETE /api/auth/me, behind requireAuth.
DeleteAccount(p) ==
    /\ asked /\ session
    /\ Begin(p, [NoRequest EXCEPT !.at = "rows"])
    /\ UNCHANGED <<data, asked, faults, missed>>

\* The admin UI: GetUser must find the account.
DeleteUserByAdmin(p) ==
    /\ account
    /\ Begin(p, [NoRequest EXCEPT !.at = "rows"])
    /\ UNCHANGED <<data, asked, faults, missed>>

\* restapi.DeleteOwned.
DeleteOwnedRows(p) ==
    /\ req[p].at = "rows"
    /\ rows' = {}
    /\ GoTo(p, "list")
    /\ UNCHANGED <<account, session, tokens, meta, disk, asked, faults, missed>>

\* storage.DeleteOwned: the rows of files, then bytes and row of each.
ListFiles(p) ==
    /\ req[p].at = "list"
    /\ req' = [req EXCEPT ![p].at = IF meta = {} THEN "grants" ELSE "bytes", ![p].todo = meta]
    /\ UNCHANGED <<data, asked, faults, missed>>

\* Fault: bytes that are already gone are an error.
RemovePresentBytes(p, f) ==
    /\ req[p].at = "bytes" /\ f \in req[p].todo
    /\ IF f \in disk
       THEN disk' = disk \ {f} /\ req' = [req EXCEPT ![p].at = "meta", ![p].item = f]
       ELSE Finish(p) /\ UNCHANGED disk
    /\ UNCHANGED <<account, session, tokens, rows, meta, asked, faults, missed>>

\* Delete: bytes that are already gone are fine.
RemoveBytes(p, f) ==
    /\ req[p].at = "bytes" /\ f \in req[p].todo
    /\ disk' = disk \ {f}
    /\ req' = [req EXCEPT ![p].at = "meta", ![p].item = f]
    /\ UNCHANGED <<account, session, tokens, rows, meta, asked, faults, missed>>

RemoveFileRow(p) ==
    /\ req[p].at = "meta"
    /\ meta' = meta \ {req[p].item}
    /\ LET left == req[p].todo \ {req[p].item} IN
       req' = [req EXCEPT ![p].at = IF left = {} THEN "grants" ELSE "bytes",
                          ![p].todo = left, ![p].item = None]
    /\ UNCHANGED <<account, session, tokens, rows, disk, asked, faults, missed>>

\* Fault: an error of the revocation is logged and the erasure goes on.
RevokeOrLog(p) ==
    /\ req[p].at = "grants"
    /\ tokens' \in IF faults < MaxFault THEN SUBSET tokens ELSE {{}}
    /\ faults' = IF tokens' = {} THEN faults ELSE faults + 1
    /\ GoTo(p, "account")
    /\ UNCHANGED <<account, session, rows, meta, disk, asked, missed>>

\* oauth.RevokeAllForSubject.
RevokeAllForSubject(p) ==
    /\ req[p].at = "grants"
    /\ tokens' = {}
    /\ GoTo(p, "account")
    /\ UNCHANGED <<account, session, rows, meta, disk, asked, faults, missed>>

\* auth.DeleteUser: sessions, consents and rows of files cascade.  Deleting
\* an account that is already gone succeeds.
DeleteUser(p) ==
    /\ req[p].at = "account"
    /\ account' = FALSE
    /\ session' = FALSE
    /\ meta' = {}
    /\ asked' = FALSE
    /\ missed' = IF account THEN req[p].behind ELSE missed
    /\ Finish(p)
    /\ UNCHANGED <<tokens, rows, disk, faults>>

\* A call fails, having removed some of what it removes; the handler answers
\* 500 and the rest is not tried.
Fail(p) ==
    /\ faults < MaxFault
    /\ req[p].at \in EraseSteps
    /\ rows' \in IF req[p].at = "rows" THEN SUBSET rows ELSE {rows}
    /\ tokens' \in IF req[p].at = "grants" THEN SUBSET tokens ELSE {tokens}
    /\ faults' = faults + 1
    /\ Finish(p)
    /\ UNCHANGED <<account, session, meta, disk, asked, missed>>

-----------------------------------------------------------------------------
Erase(p) ==
    \/ DeleteOwnedRows(p) \/ ListFiles(p) \/ RemoveFileRow(p)
    \/ \E f \in Files : RemoveBytes(p, f)
    \/ RevokeAllForSubject(p) \/ DeleteUser(p)

Write(p) ==
    \/ \E r \in Rows : BeginInsert(p, r)
    \/ \E f \in Files : BeginUpload(p, f)
    \/ \E t \in Tokens : BeginIssue(p, t)

Proceed(p) == InsertRow(p) \/ PutBytes(p) \/ InsertFile(p) \/ IssueToken(p)

Next ==
    \/ \E p \in Procs : DeleteAccount(p) \/ DeleteUserByAdmin(p) \/ Erase(p) \/ Fail(p)
                        \/ Write(p) \/ Proceed(p)
    \/ \E t \in Tokens : TokenEnds(t)
    \/ Ask \/ Login \/ SignOut

Spec == Init /\ [][Next]_vars

\* Handlers run to their end; a customer who asked signs in again where needed
\* and, one of the times they can, sends the request again.
FairSpec ==
    /\ Spec
    /\ \A p \in Procs : WF_vars(Erase(p)) /\ WF_vars(Proceed(p))
    /\ WF_vars(asked /\ Login)
    /\ SF_vars(\E p \in Procs : DeleteAccount(p))

-----------------------------------------------------------------------------
(* Properties.                                                             *)

Uploading(f) == \E p \in Procs : req[p].at = "describe" /\ req[p].item = f

\* When the account is gone, whichever erasure of how many got there and
\* whatever failed before, all that is left of it was committed behind the
\* back of the erasure that succeeded, or by such a token later on: nothing
\* an erasure had to remove is left with nobody who could retry it.
NothingIsOrphaned ==
    ~account =>
        /\ rows \cup tokens \subseteq missed
        /\ meta = {}
        /\ \A f \in disk : f \in missed \/ Uploading(f)

\* A customer who asks for their account to be erased, and asks again when a
\* call fails, sees it gone: no failure leaves a state a retry cannot finish.
ErasureCompletes == asked ~> ~account

\* What DeleteOwned is for without that exception: "so no application data is
\* left behind, orphaned, once the user it belonged to is gone".
NothingIsLeft == ~account => rows = {} /\ tokens = {}
=============================================================================
