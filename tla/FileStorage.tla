---------------------------- MODULE FileStorage -----------------------------
(***************************************************************************)
(* File storage (internal/storage): the bytes of an upload are one file on *)
(* disk, its metadata one row of files, and nothing makes the two change   *)
(* together.  Uploads write bytes then row, deletions remove bytes then    *)
(* row, account erasure does the latter file by file and then deletes the  *)
(* user, whose remaining rows go by ON DELETE CASCADE.  Any statement or   *)
(* file operation may fail, and the process may stop between any two.      *)
(***************************************************************************)
EXTENDS Naturals

CONSTANTS Procs,     \* requests that can be in flight at the same time
          Users,     \* accounts
          Ids,       \* the UUIDs uploads draw
          Nobody     \* the owner of an id not drawn yet

ASSUME FileStorageAssumption == Nobody \notin Users

VARIABLES
    users,     \* accounts in the users table
    files,     \* ids of the rows of files
    rank,      \* rank[i]: created_at and rowid of i's row, 0 before its INSERT
    rows,      \* rows inserted so far, the newest rank
    disk,      \* disk[i]: what the storage directory holds under key i
    owner,     \* owner[i]: the subject that uploaded i, and owner_id of its row
    req,       \* req[p]: the request in flight
    served,    \* what the last step sent to a downloader: the content Open found,
               \* and whether all of it went
    begun,     \* history: ids some deletion has removed the bytes of
    stranded,  \* history: ids left behind by a crash or a failed clean-up
    late       \* history: ids whose row was inserted behind an erasure's listing

vars == <<users, files, rank, rows, disk, owner, req, served, begun, stranded, late>>

\* ids: what it is about; of an erasure, the files still to delete.
Requests == [at : {"idle", "copy", "insert", "open", "bytes", "row", "list", "leave"},
             op : {"upload", "download", "delete", "erase"},
             who : Users \cup {Nobody}, ids : SUBSET Ids]

NoRequest == [at |-> "idle", op |-> "download", who |-> Nobody, ids |-> {}]

TypeOK ==
    /\ users \subseteq Users
    /\ files \subseteq Ids
    /\ rank \in [Ids -> Nat] /\ rows \in Nat
    /\ disk \in [Ids -> {"none", "partial", "whole"}]
    /\ owner \in [Ids -> Users \cup {Nobody}]
    /\ req \in [Procs -> Requests]
    /\ served \subseteq [who : Users, id : Ids, content : {"partial", "whole"}, all : BOOLEAN]
    /\ begun \subseteq Ids /\ stranded \subseteq Ids /\ late \subseteq Ids

Init ==
    /\ users = Users
    /\ files = {} /\ rank = [i \in Ids |-> 0] /\ rows = 0
    /\ disk = [i \in Ids |-> "none"]
    /\ owner = [i \in Ids |-> Nobody]
    /\ req = [p \in Procs |-> NoRequest]
    /\ served = {} /\ begun = {} /\ stranded = {} /\ late = {}

-----------------------------------------------------------------------------
HasRow(i) == i \in files

\* The one of k uploaded first (ORDER BY created_at, rowid).
First(k) == {i \in k : \A j \in k : rank[i] <= rank[j]}

\* A step that leaves the table of files alone.
table == <<files, rank, rows>>

Begin(p, r) ==
    /\ req[p] = NoRequest
    /\ req' = [req EXCEPT ![p] = r]

End(p) == req' = [req EXCEPT ![p] = NoRequest]

\* An erasure of u that has listed its files.
Erasing(u) == \E p \in Procs : req[p].op = "erase" /\ req[p].who = u
                              /\ req[p].at \in {"bytes", "row", "leave"}

Uploading(i) == \E p \in Procs : req[p].op = "upload" /\ req[p].ids = {i}

\* Server.get: the row, for its owner only.
Owns(u, i) == HasRow(i) /\ owner[i] = u

-----------------------------------------------------------------------------
(* Upload.  The scope check is behind the handler: a token issued behind   *)
(* an erasure's sweep (OAuthTokens) still passes it, so no handler here    *)
(* requires the account to exist.                                          *)

\* handleUpload into Put: the file is created, O_EXCL, under a fresh UUID.
Upload(p, u, i) ==
    /\ owner[i] = Nobody
    /\ owner' = [owner EXCEPT ![i] = u]
    /\ disk' = [disk EXCEPT ![i] = "partial"]
    /\ Begin(p, [at |-> "copy", op |-> "upload", who |-> u, ids |-> {i}])
    /\ served' = {}
    /\ UNCHANGED <<users, table, begun, stranded, late>>

\* io.Copy reaches the end of the body.
Copied(p) ==
    /\ req[p].at = "copy"
    /\ \E i \in req[p].ids : disk' = [disk EXCEPT ![i] = "whole"]
    /\ req' = [req EXCEPT ![p].at = "insert"]
    /\ served' = {}
    /\ UNCHANGED <<users, table, owner, begun, stranded, late>>

\* The bytes of a failed upload are removed, and the error of removing them
\* is ignored.
CleanUp(p) ==
    /\ \E i \in req[p].ids :
         \/ disk' = [disk EXCEPT ![i] = "none"] /\ UNCHANGED stranded
         \/ stranded' = stranded \cup {i} /\ UNCHANGED disk
    /\ End(p)
    /\ served' = {}
    /\ UNCHANGED <<users, table, owner, begun, late>>

\* Fault: an error of io.Copy is taken for the end of the body.
CopyErrorIgnored(p) ==
    /\ req[p].at = "copy"
    /\ req' = [req EXCEPT ![p].at = "insert"]
    /\ served' = {}
    /\ UNCHANGED <<users, table, disk, owner, begun, stranded, late>>

\* io.Copy fails: the disk is full, the body breaks off.
CopyFails(p) == req[p].at = "copy" /\ CleanUp(p)

\* The INSERT, which the foreign key admits only for an existing user.  The
\* row read back for the response changes nothing.
InsertFile(p) ==
    /\ req[p].at = "insert"
    /\ req[p].who \in users
    /\ files' = files \cup req[p].ids
    /\ rows' = rows + 1
    /\ rank' = [i \in Ids |-> IF i \in req[p].ids THEN rows + 1 ELSE rank[i]]
    /\ late' = IF Erasing(req[p].who) THEN late \cup req[p].ids ELSE late
    /\ End(p)
    /\ served' = {}
    /\ UNCHANGED <<users, disk, owner, begun, stranded>>

\* The INSERT fails: no such user, a cancelled request, a full disk.
InsertFails(p) == req[p].at = "insert" /\ CleanUp(p)

-----------------------------------------------------------------------------
(* Download and delete.                                                    *)

\* Fault: get looks the row up by id alone.
DownloadAny(p, u, i) ==
    /\ HasRow(i)
    /\ Begin(p, [at |-> "open", op |-> "download", who |-> u, ids |-> {i}])
    /\ served' = {}
    /\ UNCHANGED <<users, table, disk, owner, begun, stranded, late>>

\* handleDownload up to Open.
Download(p, u, i) ==
    /\ Owns(u, i)
    /\ Begin(p, [at |-> "open", op |-> "download", who |-> u, ids |-> {i}])
    /\ served' = {}
    /\ UNCHANGED <<users, table, disk, owner, begun, stranded, late>>

\* Open and io.Copy: an open file outlives its directory entry and is never
\* written again, so what is sent is of what Open found.  io.Copy's error is
\* ignored: a body that breaks off is shorter than the Content-Length sent
\* before it, and nothing else tells.
Serve(p) ==
    /\ req[p].at = "open"
    /\ \E i \in req[p].ids, all \in BOOLEAN :
         /\ disk[i] # "none"
         /\ served' = {[who |-> req[p].who, id |-> i, content |-> disk[i], all |-> all]}
    /\ End(p)
    /\ UNCHANGED <<users, table, disk, owner, begun, stranded, late>>

\* handleDelete up to Backend.Delete.
Delete(p, u, i) ==
    /\ Owns(u, i)
    /\ Begin(p, [at |-> "bytes", op |-> "delete", who |-> u, ids |-> {i}])
    /\ served' = {}
    /\ UNCHANGED <<users, table, disk, owner, begun, stranded, late>>

\* Fault: an error of Backend.Delete does not stop the deletion.
RemoveBytesOrNot(p) ==
    /\ req[p].at = "bytes"
    /\ \E i \in First(req[p].ids) :
         /\ disk' \in {disk, [disk EXCEPT ![i] = "none"]}
         /\ begun' = begun \cup {i}
    /\ req' = [req EXCEPT ![p].at = "row"]
    /\ served' = {}
    /\ UNCHANGED <<users, table, owner, stranded, late>>

\* Backend.Delete, which tolerates bytes that are gone already.
RemoveBytes(p) ==
    /\ req[p].at = "bytes"
    /\ \E i \in First(req[p].ids) :
         /\ disk' = [disk EXCEPT ![i] = "none"]
         /\ begun' = begun \cup {i}
    /\ req' = [req EXCEPT ![p].at = "row"]
    /\ served' = {}
    /\ UNCHANGED <<users, table, owner, stranded, late>>

\* An erasure of u that is to delete the files k.
Deleting(u, k) == [at |-> IF k = {} THEN "leave" ELSE "bytes", op |-> "erase",
                   who |-> u, ids |-> k]

\* DELETE FROM files; then the request is over, or erasure goes on to its
\* next file.
RemoveRow(p) ==
    LET q == req[p]
        rest == q.ids \ First(q.ids)
    IN
    /\ q.at = "row"
    /\ files' = files \ First(q.ids)
    /\ IF q.op = "delete" THEN End(p)
       ELSE req' = [req EXCEPT ![p] = Deleting(q.who, rest)]
    /\ served' = {}
    /\ UNCHANGED <<rank, rows, users, disk, owner, begun, stranded, late>>

-----------------------------------------------------------------------------
(* Account erasure, as this package sees it.                               *)

Erase(p, u) ==
    /\ u \in users
    /\ Begin(p, [at |-> "list", op |-> "erase", who |-> u, ids |-> {}])
    /\ served' = {}
    /\ UNCHANGED <<users, table, disk, owner, begun, stranded, late>>

\* Fault: the listing is the API's, one page long.
ListFirstPage(p) ==
    /\ req[p].at = "list"
    /\ req' = [req EXCEPT ![p] =
                  Deleting(req[p].who, First({i \in files : owner[i] = req[p].who}))]
    /\ served' = {}
    /\ UNCHANGED <<users, table, disk, owner, begun, stranded, late>>

\* DeleteOwned's SELECT, of all of them.
ListOwned(p) ==
    /\ req[p].at = "list"
    /\ req' = [req EXCEPT ![p] =
                  Deleting(req[p].who, {i \in files : owner[i] = req[p].who})]
    /\ served' = {}
    /\ UNCHANGED <<users, table, disk, owner, begun, stranded, late>>

\* RevokeAllForSubject, which is OAuthTokens's, and DeleteUser: rows the loop
\* did not see go with the account, their bytes do not.
Leave(p) ==
    /\ req[p].at = "leave"
    /\ users' = users \ {req[p].who}
    /\ files' = {i \in files : owner[i] # req[p].who}
    /\ End(p)
    /\ served' = {}
    /\ UNCHANGED <<rank, rows, disk, owner, begun, stranded, late>>

\* A failed statement or file operation ends any request but an upload where
\* it is; so does a row that is gone or a file that does not open.
Fail(p) ==
    /\ req[p] # NoRequest /\ req[p].op # "upload"
    /\ End(p)
    /\ served' = {}
    /\ UNCHANGED <<users, table, disk, owner, begun, stranded, late>>

\* The process stops and starts again.
Crash ==
    /\ req' = [p \in Procs |-> NoRequest]
    /\ stranded' = stranded \cup {i \in Ids : Uploading(i)}
    /\ served' = {}
    /\ UNCHANGED <<users, table, disk, owner, begun, late>>

-----------------------------------------------------------------------------
Next ==
    \/ \E p \in Procs :
        \/ \E u \in Users, i \in Ids : Upload(p, u, i) \/ Download(p, u, i) \/ Delete(p, u, i)
        \/ Copied(p) \/ CopyFails(p) \/ InsertFile(p) \/ InsertFails(p)
        \/ Serve(p) \/ RemoveBytes(p) \/ RemoveRow(p)
        \/ \E u \in Users : Erase(p, u)
        \/ ListOwned(p) \/ Leave(p) \/ Fail(p)
    \/ Crash

Spec == Init /\ [][Next]_vars

-----------------------------------------------------------------------------
(* Properties.                                                             *)

\* STOR-01, 03: a file the API lists has all of its bytes, unless a deletion
\* of it has begun (and perhaps failed before its row went).
ListedFilesAreWhole == \A i \in files : disk[i] = "whole" \/ i \in begun

\* DeleteOwned's "still discoverable and retryable": bytes on disk have a row
\* to find them by while their owner has an account, whatever failed half-way,
\* unless their upload is under way, was cut off by a crash, or could not
\* clean up after itself.
BytesAreDiscoverable ==
    \A i \in Ids : disk[i] # "none" /\ owner[i] \in users =>
        HasRow(i) \/ Uploading(i) \/ i \in stranded

\* STOR-05 and STOR-03: only the uploader is sent a file, and always from its
\* whole bytes, even when the download races the upload's end or a deletion: a
\* body that breaks off is its beginning, never a smaller file.
DownloadsAreOwnAndWhole ==
    \A d \in served : owner[d.id] = d.who /\ d.content = "whole"

\* STOR-08: the bytes of an account that is gone are gone, except those of
\* uploads that were under way during the erasure or had been left behind.
ErasedBytesAreGone ==
    \A i \in Ids : disk[i] # "none" /\ owner[i] \in Users \ users =>
        Uploading(i) \/ i \in stranded \cup late

\* STOR-08 and DeleteOwned's "every file (bytes and metadata)", without late.
\* The row of an upload that commits behind the listing goes by the cascade
\* and its bytes stay on disk for good.
ErasureLeavesNoBytes ==
    \A i \in Ids : disk[i] # "none" /\ owner[i] \in Users \ users =>
        Uploading(i) \/ i \in stranded
=============================================================================
