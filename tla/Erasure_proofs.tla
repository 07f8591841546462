--------------------------- MODULE Erasure_proofs ---------------------------
(***************************************************************************)
(* Proofs about Erasure, for every number of requests in flight, of rows,  *)
(* files, tokens and failing calls.                                        *)
(***************************************************************************)
EXTENDS Erasure, TLAPS

Uploads == {"put", "describe"}

\* What a request holds at each of its steps.
ItemsFit ==
    \A p \in Procs :
        /\ req[p].at = "insert" => req[p].item \in Rows
        /\ req[p].at \in Uploads => req[p].item \in Files
        /\ req[p].at = "mint" => req[p].item \in Tokens
        /\ req[p].at = "meta" => req[p].item \in req[p].todo

\* A file on its way in is nobody else's: no row, no other upload and no
\* erasure's list has it.
UploadsAreNew ==
    \A p \in Procs : req[p].at \in Uploads =>
        /\ req[p].item \notin meta
        /\ \A q \in Procs : req[p].item \notin req[q].todo
        /\ \A q \in Procs : q # p /\ req[q].at \in Uploads => req[q].item # req[p].item

\* A file's row goes after its bytes.
BytesGoFirst == \A p \in Procs : req[p].at = "meta" => req[p].item \notin disk

\* Where an erasure has been, all there is was committed behind it or is on
\* its list.
NothingSlipsBy ==
    \A p \in Procs :
        /\ req[p].at \in {"list", "bytes", "meta", "grants", "account"} => rows \subseteq req[p].behind
        /\ req[p].at \in {"bytes", "meta"} => meta \subseteq req[p].todo \cup req[p].behind
        /\ req[p].at \in {"grants", "account"} => meta \subseteq req[p].behind
        /\ req[p].at = "account" => tokens \subseteq req[p].behind

\* While there is an account, an erasure finds every file by its row.
FilesAreListed == account => \A f \in disk : f \in meta \/ Uploading(f)

EInv ==
    /\ TypeOK
    /\ ItemsFit
    /\ UploadsAreNew
    /\ BytesGoFirst
    /\ NothingSlipsBy
    /\ FilesAreListed
    /\ NothingIsOrphaned

-----------------------------------------------------------------------------
\* An account with its data, nothing in flight.
LEMMA InitErasure == Init => EInv
<1> SUFFICES ASSUME Init PROVE EInv
  OBVIOUS
<1>1. TypeOK
  <2>1. NoRequest \in Requests
    BY DEF Requests, NoRequest, Items
  <2>2. faults \in 0..MaxFault /\ req \in [Procs -> Requests]
    BY <2>1, ErasureAssumption DEF Init
  <2>3. account \in BOOLEAN /\ session \in BOOLEAN /\ asked \in BOOLEAN
    BY DEF Init
  <2>4. QED
    BY <2>2, <2>3 DEF Init, TypeOK
<1>2. ItemsFit /\ UploadsAreNew /\ BytesGoFirst /\ NothingSlipsBy
  BY DEF Init, NoRequest, ItemsFit, UploadsAreNew, BytesGoFirst, NothingSlipsBy, Uploads
<1>3. FilesAreListed /\ NothingIsOrphaned
  BY DEF Init, FilesAreListed, NothingIsOrphaned
<1>4. QED
  BY <1>1, <1>2, <1>3 DEF EInv

\* Updates of two fields at a time, written out.
LEMMA AtAndTodo ==
    ASSUME NEW r \in Requests, NEW a, NEW x
    PROVE  [r EXCEPT !.at = a, !.todo = x] = [at |-> a, item |-> r.item, todo |-> x, behind |-> r.behind]
<1>1. [r EXCEPT !.at = a] = [at |-> a, item |-> r.item, todo |-> r.todo, behind |-> r.behind]
  BY DEF Requests
<1>2. [[at |-> a, item |-> r.item, todo |-> r.todo, behind |-> r.behind] EXCEPT !.todo = x]
        = [at |-> a, item |-> r.item, todo |-> x, behind |-> r.behind]
  OBVIOUS
<1>3. QED
  BY <1>1, <1>2

\* The same for the item.
LEMMA AtAndItem ==
    ASSUME NEW r \in Requests, NEW a, NEW x
    PROVE  [r EXCEPT !.at = a, !.item = x] = [at |-> a, item |-> x, todo |-> r.todo, behind |-> r.behind]
<1>1. [r EXCEPT !.at = a] = [at |-> a, item |-> r.item, todo |-> r.todo, behind |-> r.behind]
  BY DEF Requests
<1>2. [[at |-> a, item |-> r.item, todo |-> r.todo, behind |-> r.behind] EXCEPT !.item = x]
        = [at |-> a, item |-> x, todo |-> r.todo, behind |-> r.behind]
  OBVIOUS
<1>3. QED
  BY <1>1, <1>2

\* What a request is once a handler has begun, and what storage.DeleteOwned
\* makes of its own.
LEMMA RequestEffects ==
    ASSUME req \in [Procs -> Requests], NEW p \in Procs
    PROVE  /\ \A r \in Rows : BeginInsert(p, r) =>
                 req' = [req EXCEPT ![p] = [at |-> "insert", item |-> r, todo |-> {}, behind |-> {}]]
           /\ \A f \in Files : BeginUpload(p, f) =>
                 req' = [req EXCEPT ![p] = [at |-> "put", item |-> f, todo |-> {}, behind |-> {}]]
           /\ \A t \in Tokens : BeginIssue(p, t) =>
                 req' = [req EXCEPT ![p] = [at |-> "mint", item |-> t, todo |-> {}, behind |-> {}]]
           /\ ListFiles(p) =>
                 req' = [req EXCEPT ![p] = [at |-> IF meta = {} THEN "grants" ELSE "bytes",
                           item |-> req[p].item, todo |-> meta, behind |-> req[p].behind]]
           /\ \A f \in Files : RemoveBytes(p, f) =>
                 req' = [req EXCEPT ![p] = [at |-> "meta", item |-> f,
                           todo |-> req[p].todo, behind |-> req[p].behind]]
           /\ RemoveFileRow(p) =>
                 LET left == req[p].todo \ {req[p].item} IN
                 req' = [req EXCEPT ![p] = [at |-> IF left = {} THEN "grants" ELSE "bytes",
                           item |-> None, todo |-> left, behind |-> req[p].behind]]
<1>1. NoRequest \in Requests /\ NoRequest.todo = {} /\ NoRequest.behind = {}
  BY DEF Requests, NoRequest, Items
<1>2. ASSUME NEW a, NEW x
      PROVE  [NoRequest EXCEPT !.at = a, !.item = x] = [at |-> a, item |-> x, todo |-> {}, behind |-> {}]
  <2>1. [NoRequest EXCEPT !.at = a, !.item = x]
          = [at |-> a, item |-> x, todo |-> NoRequest.todo, behind |-> NoRequest.behind]
    BY <1>1, AtAndItem
  <2>2. QED
    BY <1>1, <2>1
<1>3. ASSUME NEW a, NEW x
      PROVE  [req EXCEPT ![p].at = a, ![p].item = x]
               = [req EXCEPT ![p] = [at |-> a, item |-> x, todo |-> req[p].todo, behind |-> req[p].behind]]
  <2>1. [req EXCEPT ![p].at = a, ![p].item = x] = [req EXCEPT ![p] = [req[p] EXCEPT !.at = a, !.item = x]]
    OBVIOUS
  <2>2. [req[p] EXCEPT !.at = a, !.item = x]
          = [at |-> a, item |-> x, todo |-> req[p].todo, behind |-> req[p].behind]
    BY AtAndItem
  <2>3. QED
    BY <2>1, <2>2
<1>4. ASSUME NEW a, NEW x
      PROVE  [req EXCEPT ![p].at = a, ![p].todo = x]
               = [req EXCEPT ![p] = [at |-> a, item |-> req[p].item, todo |-> x, behind |-> req[p].behind]]
  <2>1. [req EXCEPT ![p].at = a, ![p].todo = x] = [req EXCEPT ![p] = [req[p] EXCEPT !.at = a, !.todo = x]]
    OBVIOUS
  <2>2. QED
    BY <2>1, AtAndTodo
<1>5. ASSUME NEW r \in Rows, BeginInsert(p, r)
      PROVE  req' = [req EXCEPT ![p] = [at |-> "insert", item |-> r, todo |-> {}, behind |-> {}]]
  BY <1>2, <1>5, Zenon DEF BeginInsert, Begin
<1>6. ASSUME NEW f \in Files, BeginUpload(p, f)
      PROVE  req' = [req EXCEPT ![p] = [at |-> "put", item |-> f, todo |-> {}, behind |-> {}]]
  BY <1>2, <1>6, Zenon DEF BeginUpload, Begin
<1>7. ASSUME NEW t \in Tokens, BeginIssue(p, t)
      PROVE  req' = [req EXCEPT ![p] = [at |-> "mint", item |-> t, todo |-> {}, behind |-> {}]]
  BY <1>2, <1>7, Zenon DEF BeginIssue, Begin
<1>8. ASSUME ListFiles(p)
      PROVE  req' = [req EXCEPT ![p] = [at |-> IF meta = {} THEN "grants" ELSE "bytes",
                       item |-> req[p].item, todo |-> meta, behind |-> req[p].behind]]
  BY <1>4, <1>8, Zenon DEF ListFiles
<1>9. ASSUME NEW f \in Files, RemoveBytes(p, f)
       PROVE  req' = [req EXCEPT ![p] = [at |-> "meta", item |-> f,
                        todo |-> req[p].todo, behind |-> req[p].behind]]
  BY <1>3, <1>9, Zenon DEF RemoveBytes
<1>10. ASSUME RemoveFileRow(p)
       PROVE  LET left == req[p].todo \ {req[p].item} IN
              req' = [req EXCEPT ![p] = [at |-> IF left = {} THEN "grants" ELSE "bytes",
                        item |-> None, todo |-> left, behind |-> req[p].behind]]
  <2> DEFINE left == req[p].todo \ {req[p].item}
             step == IF left = {} THEN "grants" ELSE "bytes"
  <2>1. req' = [req EXCEPT ![p].at = step, ![p].todo = left, ![p].item = None]
    BY <1>10 DEF RemoveFileRow
  <2> HIDE DEF left, step
  <2>2. [[req[p] EXCEPT !.at = step, !.todo = left] EXCEPT !.item = None]
          = [[at |-> step, item |-> req[p].item, todo |-> left, behind |-> req[p].behind] EXCEPT !.item = None]
    BY AtAndTodo
  <2>3. [[at |-> step, item |-> req[p].item, todo |-> left, behind |-> req[p].behind] EXCEPT !.item = None]
          = [at |-> step, item |-> None, todo |-> left, behind |-> req[p].behind]
    OBVIOUS
  <2>4. [req EXCEPT ![p].at = step, ![p].todo = left, ![p].item = None]
          = [req EXCEPT ![p] = [[req[p] EXCEPT !.at = step, !.todo = left] EXCEPT !.item = None]]
    OBVIOUS
  <2>5. req' = [req EXCEPT ![p] = [at |-> step, item |-> None, todo |-> left, behind |-> req[p].behind]]
    BY <2>1, <2>2, <2>3, <2>4
  <2>6. QED
    BY <2>5 DEF left, step
<1>11. QED
  BY <1>5, <1>6, <1>7, <1>8, <1>9, <1>10, Zenon

\* Every step keeps the invariant.
LEMMA StepErasure == EInv /\ [Next]_vars => EInv'
<1> SUFFICES ASSUME EInv, [Next]_vars PROVE EInv'
  OBVIOUS
<1> USE ErasureAssumption DEF EInv, TypeOK, Requests, Items, EraseSteps, WriteSteps, Uploads,
    ItemsFit, UploadsAreNew, BytesGoFirst, NothingSlipsBy, FilesAreListed, NothingIsOrphaned,
    Uploading, data
<1>1. ASSUME NEW p \in Procs, DeleteAccount(p) PROVE EInv'
  BY <1>1 DEF DeleteAccount, Begin, NoRequest
<1>2. ASSUME NEW p \in Procs, DeleteUserByAdmin(p) PROVE EInv'
  BY <1>2 DEF DeleteUserByAdmin, Begin, NoRequest
<1>3. ASSUME NEW p \in Procs, DeleteOwnedRows(p) PROVE EInv'
  BY <1>3 DEF DeleteOwnedRows, GoTo
<1>4. ASSUME NEW p \in Procs, ListFiles(p) PROVE EInv'
  <2>1. /\ req[p].at = "list"
        /\ req' = [req EXCEPT ![p] = [at |-> IF meta = {} THEN "grants" ELSE "bytes",
                     item |-> req[p].item, todo |-> meta, behind |-> req[p].behind]]
        /\ UNCHANGED <<account, session, tokens, rows, meta, disk, asked, faults, missed>>
    BY <1>4, RequestEffects, Zenon DEF ListFiles
  <2>2. TypeOK'
    BY <2>1
  <2>3. ItemsFit' /\ UploadsAreNew' /\ BytesGoFirst'
    BY <2>1
  <2>4. NothingSlipsBy'
    BY <2>1
  <2>5. FilesAreListed' /\ NothingIsOrphaned'
    BY <2>1
  <2>6. QED
    BY <2>2, <2>3, <2>4, <2>5
<1>5. ASSUME NEW p \in Procs, NEW f \in Files, RemoveBytes(p, f) PROVE EInv'
  <2>0. req' = [req EXCEPT ![p] = [at |-> "meta", item |-> f,
                  todo |-> req[p].todo, behind |-> req[p].behind]]
    BY <1>5, RequestEffects
  <2>1. /\ req[p].at = "bytes" /\ f \in req[p].todo /\ disk' = disk \ {f}
        /\ req' = [req EXCEPT ![p] = [at |-> "meta", item |-> f,
                     todo |-> req[p].todo, behind |-> req[p].behind]]
        /\ UNCHANGED <<account, session, tokens, rows, meta, asked, faults, missed>>
    BY <1>5, <2>0 DEF RemoveBytes
  <2>2. TypeOK'
    BY <2>1
  <2>3. ItemsFit' /\ UploadsAreNew' /\ BytesGoFirst'
    BY <2>1
  <2>4. NothingSlipsBy'
    BY <2>1
  <2>5. FilesAreListed' /\ NothingIsOrphaned'
    BY <2>1
  <2>6. QED
    BY <2>2, <2>3, <2>4, <2>5
<1>6. ASSUME NEW p \in Procs, RemoveFileRow(p) PROVE EInv'
  <2> DEFINE left == req[p].todo \ {req[p].item}
  <2>0. req' = [req EXCEPT ![p] = [at |-> IF left = {} THEN "grants" ELSE "bytes",
                  item |-> None, todo |-> left, behind |-> req[p].behind]]
    BY <1>6, RequestEffects
  <2>1. /\ req[p].at = "meta" /\ meta' = meta \ {req[p].item}
        /\ req' = [req EXCEPT ![p] = [at |-> IF left = {} THEN "grants" ELSE "bytes",
                     item |-> None, todo |-> left, behind |-> req[p].behind]]
        /\ UNCHANGED <<account, session, tokens, rows, disk, asked, faults, missed>>
    BY <1>6, <2>0 DEF RemoveFileRow
  <2>2. TypeOK'
    BY <2>1
  <2>3. ItemsFit' /\ UploadsAreNew' /\ BytesGoFirst'
    BY <2>1
  <2>4. NothingSlipsBy'
    BY <2>1
  <2>5. FilesAreListed' /\ NothingIsOrphaned'
    BY <2>1
  <2>6. QED
    BY <2>2, <2>3, <2>4, <2>5
<1>7. ASSUME NEW p \in Procs, RevokeAllForSubject(p) PROVE EInv'
  BY <1>7 DEF RevokeAllForSubject, GoTo
<1>8. ASSUME NEW p \in Procs, DeleteUser(p) PROVE EInv'
  <2>1. /\ req' \in [Procs -> Requests]
        /\ req'[p] = NoRequest
        /\ \A q \in Procs : q # p => req'[q] = req[q]
    BY <1>8 DEF DeleteUser, Finish, NoRequest
  <2>2. TypeOK'
    BY <1>8, <2>1 DEF DeleteUser, NoRequest
  <2>3. ItemsFit' /\ UploadsAreNew' /\ BytesGoFirst'
    BY <1>8, <2>1 DEF DeleteUser, NoRequest
  <2>4. NothingSlipsBy'
    BY <1>8, <2>1 DEF DeleteUser, NoRequest
  <2>5. FilesAreListed' /\ NothingIsOrphaned'
    BY <1>8, <2>1 DEF DeleteUser, NoRequest
  <2>6. QED
    BY <2>2, <2>3, <2>4, <2>5
<1>9. ASSUME NEW p \in Procs, Fail(p) PROVE EInv'
  BY <1>9 DEF Fail, Finish, NoRequest
<1>10. ASSUME NEW p \in Procs, NEW r \in Rows, BeginInsert(p, r) PROVE EInv'
  <2>0. req' = [req EXCEPT ![p] = [at |-> "insert", item |-> r, todo |-> {}, behind |-> {}]]
    BY <1>10, RequestEffects
  <2>1. /\ req[p] = NoRequest
        /\ req' = [req EXCEPT ![p] = [at |-> "insert", item |-> r, todo |-> {}, behind |-> {}]]
        /\ UNCHANGED <<account, session, tokens, rows, meta, disk, asked, faults, missed>>
    BY <1>10, <2>0 DEF BeginInsert, Begin
  <2>2. TypeOK'
    BY <2>1 DEF NoRequest
  <2>3. ItemsFit' /\ UploadsAreNew' /\ BytesGoFirst'
    BY <2>1 DEF NoRequest
  <2>4. NothingSlipsBy'
    BY <2>1 DEF NoRequest
  <2>5. FilesAreListed' /\ NothingIsOrphaned'
    BY <2>1 DEF NoRequest
  <2>6. QED
    BY <2>2, <2>3, <2>4, <2>5
<1>11. ASSUME NEW p \in Procs, NEW f \in Files, BeginUpload(p, f) PROVE EInv'
  <2>0. req' = [req EXCEPT ![p] = [at |-> "put", item |-> f, todo |-> {}, behind |-> {}]]
    BY <1>11, RequestEffects
  <2>1. /\ req[p] = NoRequest /\ f \notin meta \cup disk /\ ~InFlight(f)
        /\ \A q \in Procs : f \notin req[q].todo
        /\ req' = [req EXCEPT ![p] = [at |-> "put", item |-> f, todo |-> {}, behind |-> {}]]
        /\ UNCHANGED <<account, session, tokens, rows, meta, disk, asked, faults, missed>>
    BY <1>11, <2>0 DEF BeginUpload, Begin
  <2>2. TypeOK'
    BY <2>1 DEF NoRequest, InFlight
  <2>3. ItemsFit' /\ UploadsAreNew' /\ BytesGoFirst'
    BY <2>1 DEF NoRequest, InFlight
  <2>4. NothingSlipsBy'
    BY <2>1 DEF NoRequest, InFlight
  <2>5. FilesAreListed' /\ NothingIsOrphaned'
    BY <2>1 DEF NoRequest, InFlight
  <2>6. QED
    BY <2>2, <2>3, <2>4, <2>5
<1>12. ASSUME NEW p \in Procs, NEW t \in Tokens, BeginIssue(p, t) PROVE EInv'
  <2>0. req' = [req EXCEPT ![p] = [at |-> "mint", item |-> t, todo |-> {}, behind |-> {}]]
    BY <1>12, RequestEffects
  <2>1. /\ req[p] = NoRequest
        /\ req' = [req EXCEPT ![p] = [at |-> "mint", item |-> t, todo |-> {}, behind |-> {}]]
        /\ UNCHANGED <<account, session, tokens, rows, meta, disk, asked, faults, missed>>
    BY <1>12, <2>0 DEF BeginIssue, Begin
  <2>2. TypeOK'
    BY <2>1 DEF NoRequest
  <2>3. ItemsFit' /\ UploadsAreNew' /\ BytesGoFirst'
    BY <2>1 DEF NoRequest
  <2>4. NothingSlipsBy'
    BY <2>1 DEF NoRequest
  <2>5. FilesAreListed' /\ NothingIsOrphaned'
    BY <2>1 DEF NoRequest
  <2>6. QED
    BY <2>2, <2>3, <2>4, <2>5
<1>13. ASSUME NEW p \in Procs, InsertRow(p) PROVE EInv'
  BY <1>13 DEF InsertRow, Commit, Past, NoRequest
<1>14. ASSUME NEW p \in Procs, PutBytes(p) PROVE EInv'
  BY <1>14 DEF PutBytes, GoTo
<1>15. ASSUME NEW p \in Procs, InsertFile(p) PROVE EInv'
  BY <1>15 DEF InsertFile, Commit, Finish, Past, NoRequest
<1>16. ASSUME NEW p \in Procs, IssueToken(p) PROVE EInv'
  BY <1>16 DEF IssueToken, Commit, Past, NoRequest
<1>17. ASSUME NEW t \in Tokens, TokenEnds(t) PROVE EInv'
  BY <1>17 DEF TokenEnds
<1>18. CASE Ask \/ Login \/ SignOut
  <2>1. /\ UNCHANGED <<account, tokens, rows, meta, disk, req, faults, missed>>
        /\ session' \in BOOLEAN /\ asked' \in BOOLEAN
    BY <1>18 DEF Ask, Login, SignOut
  <2>2. QED
    BY <2>1
<1>19. CASE UNCHANGED vars
  BY <1>19 DEF vars
<1>20. QED
  BY <1>1, <1>2, <1>3, <1>4, <1>5, <1>6, <1>7, <1>8, <1>9, <1>10, <1>11, <1>12, <1>13, <1>14,
     <1>15, <1>16, <1>17, <1>18, <1>19 DEF Next, Erase, Write, Proceed

\* The types of the whole module.
THEOREM TypeCorrect == Spec => []TypeOK
<1>1. EInv => TypeOK
  BY DEF EInv
<1>2. QED
  BY <1>1, InitErasure, StepErasure, PTL DEF Spec

\* handleDeleteAccount and handleDeleteUser: when the account is gone, however
\* many erasures ran at once, wherever calls failed and whatever the account's
\* clients wrote meanwhile, all that is left was committed behind the back of
\* the erasure that succeeded.
THEOREM NoOrphans == Spec => []NothingIsOrphaned
<1>1. EInv => NothingIsOrphaned
  BY DEF EInv
<1>2. QED
  BY <1>1, InitErasure, StepErasure, PTL DEF Spec
=============================================================================
