------------------------- MODULE FileStorage_proofs -------------------------
(***************************************************************************)
(* Proofs about FileStorage, for every number of requests in flight, of    *)
(* accounts and of files.                                                  *)
(***************************************************************************)
EXTENDS FileStorage, TLAPS

\* An id is drawn before it has bytes, has all of its bytes before it has a
\* row, and keeps its place in the upload order.
FilesFit ==
    /\ \A i \in files : rank[i] > 0
    /\ \A i \in Ids : owner[i] = Nobody => disk[i] = "none" /\ rank[i] = 0
    /\ \A i \in Ids : rank[i] > 0 => disk[i] # "partial"
    /\ \A i \in Ids : rank[i] <= rows
    /\ \A i, j \in Ids : rank[i] = rank[j] /\ rank[i] > 0 => i = j

\* An upload is about one id, its caller's, without a row and nobody else's.
UploadFits(q) ==
    q.op = "upload" =>
        /\ q.at \in {"copy", "insert"} /\ q.who \in Users
        /\ \E i \in Ids : /\ q.ids = {i} /\ owner[i] = q.who /\ rank[i] = 0
                          /\ q.at = "insert" => disk[i] = "whole"

\* Every other request is about files its caller uploaded; one that removes
\* a row has removed the bytes; an erasure that has listed the account's
\* files still has them before it, but for late ones.
OtherFits(q) ==
    q.op # "upload" =>
        /\ q.at \notin {"copy", "insert"}
        /\ q.at # "idle" => q.who \in Users
        /\ \A i \in q.ids : rank[i] > 0 /\ owner[i] = q.who
        /\ q.at \in {"list", "leave"} => q.op = "erase" /\ q.ids = {}
        /\ q.at \in {"bytes", "row"} => q.op \in {"delete", "erase"}
        /\ q.at = "row" => \A i \in First(q.ids) : disk[i] = "none"
        /\ q.op = "erase" /\ q.at \in {"bytes", "row", "leave"} =>
             \A i \in files : owner[i] = q.who => i \in q.ids \cup late

UploadsAreOwn ==
    \A p, q \in Procs : req[p].op = "upload" /\ req[q].op = "upload" /\ req[p].ids = req[q].ids => p = q

FInv ==
    /\ TypeOK
    /\ FilesFit
    /\ \A p \in Procs : UploadFits(req[p]) /\ OtherFits(req[p])
    /\ UploadsAreOwn
    /\ ListedFilesAreWhole
    /\ BytesAreDiscoverable
    /\ DownloadsAreOwnAndWhole
    /\ ErasedBytesAreGone

-----------------------------------------------------------------------------
(* Requests.                                                               *)

\* The request of p becomes r, the others stay.
LEMMA Others ==
    ASSUME TypeOK, NEW p \in Procs, NEW r \in Requests, req' = [req EXCEPT ![p] = r]
    PROVE  req' \in [Procs -> Requests] /\ \A q \in Procs : req'[q] = IF q = p THEN r ELSE req[q]
BY DEF TypeOK

\* A request, of the kinds that begin or go on.
LEMMA RequestTypes ==
    ASSUME NEW a \in {"idle", "copy", "insert", "open", "bytes", "row", "list", "leave"},
           NEW o \in {"upload", "download", "delete", "erase"},
           NEW u \in Users \cup {Nobody}, NEW k \in SUBSET Ids
    PROVE  [at |-> a, op |-> o, who |-> u, ids |-> k] \in Requests
BY DEF Requests

\* No request is about anything.
LEMMA IdleFits ==
    /\ NoRequest \in Requests /\ NoRequest.op = "download" /\ NoRequest.at = "idle"
    /\ NoRequest.ids = {} /\ UploadFits(NoRequest) /\ OtherFits(NoRequest)
<1>1. NoRequest \in Requests /\ NoRequest.op = "download" /\ NoRequest.at = "idle"
      /\ NoRequest.ids = {}
  BY DEF NoRequest, Requests
<1>2. QED
  BY <1>1 DEF UploadFits, OtherFits

\* It stays so.
LEMMA IdleFitsNext == UploadFits(NoRequest)' /\ OtherFits(NoRequest)'
BY IdleFits DEF UploadFits, OtherFits, NoRequest

\* What the two predicates are about.
bytes == <<users, disk, owner, begun, stranded, late>>

\* A request that does not upload moves on, and nothing else does.
LEMMA QuietStep ==
    ASSUME FInv, NEW p \in Procs, NEW r, r \in Requests, req' = [req EXCEPT ![p] = r],
           req[p].op # "upload", r.op # "upload", OtherFits(r)',
           UNCHANGED <<bytes, table>>,
           served' \subseteq [who : Users, id : Ids, content : {"partial", "whole"}, all : BOOLEAN],
           \A d \in served' : owner[d.id] = d.who /\ d.content = "whole"
    PROVE  FInv'
<1>1. req' \in [Procs -> Requests] /\ \A q \in Procs : req'[q] = IF q = p THEN r ELSE req[q]
  BY Others DEF FInv
<1>2. TypeOK'
  BY <1>1 DEF FInv, TypeOK, bytes, table
<1>3. FilesFit'
  BY DEF FInv, FilesFit, bytes, table
<1>4. \A q \in Procs : UploadFits(req[q])'
  BY <1>1 DEF FInv, UploadFits, bytes, table
<1>5. ASSUME NEW q \in Procs PROVE OtherFits(req[q])'
  <2>1. CASE q = p
    BY <1>1, <2>1 DEF OtherFits, First
  <2>2. CASE q # p
    <3>1. req'[q] = req[q] /\ OtherFits(req[q])
      BY <1>1, <2>2 DEF FInv
    <3>2. QED
      BY <3>1 DEF OtherFits, First, bytes, table
  <2>3. QED
    BY <2>1, <2>2
<1>6. UploadsAreOwn'
  BY <1>1 DEF FInv, UploadsAreOwn
<1>7. \A i \in Ids : Uploading(i) => Uploading(i)'
  BY <1>1 DEF Uploading
<1>8. ListedFilesAreWhole' /\ DownloadsAreOwnAndWhole'
  BY DEF FInv, ListedFilesAreWhole, DownloadsAreOwnAndWhole, bytes, table
<1>9. BytesAreDiscoverable' /\ ErasedBytesAreGone'
  BY <1>7 DEF FInv, BytesAreDiscoverable, ErasedBytesAreGone, HasRow, bytes, table
<1>10. QED
  BY <1>2, <1>3, <1>4, <1>5, <1>6, <1>8, <1>9 DEF FInv

\* The requests that read: their beginnings, the listing, the bytes sent, and
\* every failure.
LEMMA ReadingSteps ==
    ASSUME FInv, NEW p \in Procs,
           \/ \E u \in Users, i \in Ids : Download(p, u, i) \/ Delete(p, u, i)
           \/ \E u \in Users : Erase(p, u)
           \/ ListOwned(p) \/ Serve(p) \/ Fail(p)
    PROVE  FInv'
<1>0. req[p] \in Requests /\ UploadFits(req[p]) /\ OtherFits(req[p]) /\ req[p].ids \subseteq Ids
      /\ req[p].who \in Users \cup {Nobody}
  BY DEF FInv, TypeOK, Requests
<1>1. ASSUME NEW u \in Users, NEW i \in Ids, Download(p, u, i) \/ Delete(p, u, i) PROVE FInv'
  <2>1. PICK a \in {"open", "bytes"}, o \in {"download", "delete"} :
          /\ req' = [req EXCEPT ![p] = [at |-> a, op |-> o, who |-> u, ids |-> {i}]]
          /\ a = "bytes" => o = "delete"
    BY <1>1 DEF Download, Delete, Begin
  <2> DEFINE r == [at |-> a, op |-> o, who |-> u, ids |-> {i}]
  <2>2. r \in Requests /\ r.at = a /\ r.op = o /\ r.who = u /\ r.ids = {i}
    BY RequestTypes
  <2> HIDE DEF r
  <2>3. UNCHANGED <<bytes, table>> /\ served' = {} /\ Owns(u, i) /\ req[p] = NoRequest
    BY <1>1 DEF Download, Delete, bytes, Begin
  <2>4. rank[i] > 0 /\ owner[i] = u
    BY <2>3 DEF Owns, HasRow, FInv, FilesFit
  <2>5. OtherFits(r)'
    BY <2>1, <2>2, <2>3, <2>4 DEF OtherFits, bytes, table
  <2>6. req' = [req EXCEPT ![p] = r]
    BY <2>1 DEF r
  <2>7. r.op # "upload" /\ req[p].op # "upload"
    BY <2>2, <2>3, IdleFits
  <2>8. QED
    BY <2>2, <2>3, <2>5, <2>6, <2>7, QuietStep
<1>2. ASSUME NEW u \in Users, Erase(p, u) PROVE FInv'
  <2> DEFINE r == [at |-> "list", op |-> "erase", who |-> u, ids |-> {}]
  <2>1. req' = [req EXCEPT ![p] = r] /\ UNCHANGED <<bytes, table>> /\ served' = {} /\ req[p] = NoRequest
    BY <1>2 DEF Erase, Begin, bytes
  <2>2. r \in Requests /\ r.at = "list" /\ r.op = "erase" /\ r.who = u /\ r.ids = {}
    BY RequestTypes
  <2> HIDE DEF r
  <2>3. OtherFits(r)'
    BY <2>2 DEF OtherFits
  <2>4. req[p].op # "upload"
    BY <2>1, IdleFits
  <2>5. QED
    BY <2>1, <2>2, <2>3, <2>4, QuietStep
<1>3. ASSUME ListOwned(p) PROVE FInv'
  <2>1. req[p].at = "list" /\ UNCHANGED <<bytes, table>> /\ served' = {}
    BY <1>3 DEF ListOwned, bytes
  <2>2. req[p].op # "upload" /\ req[p].who \in Users
    BY <1>0, <2>1 DEF UploadFits, OtherFits
  <2>3. PICK u \in Users, k \in SUBSET Ids : u = req[p].who /\ k = {i \in files : owner[i] = u}
    BY <2>2 DEF FInv, TypeOK
  <2> DEFINE r == Deleting(u, k)
  <2>4. req' = [req EXCEPT ![p] = r]
    BY <1>3, <2>3 DEF ListOwned
  <2>5. r \in Requests /\ r.at = (IF k = {} THEN "leave" ELSE "bytes") /\ r.op = "erase"
        /\ r.who = u /\ r.ids = k
    BY DEF Deleting, Requests
  <2> HIDE DEF r
  <2>6. /\ \A i \in k : rank'[i] > 0 /\ owner'[i] = u
        /\ \A i \in files' : owner'[i] = u => i \in k
    BY <2>1, <2>3 DEF FInv, FilesFit, bytes, table
  <2>7. OtherFits(r)'
    BY <2>5, <2>6 DEF OtherFits
  <2>8. QED
    BY <2>1, <2>2, <2>4, <2>5, <2>7, QuietStep
<1>4. ASSUME Serve(p) PROVE FInv'
  <2>1. PICK i \in req[p].ids, all \in BOOLEAN :
          /\ disk[i] # "none"
          /\ served' = {[who |-> req[p].who, id |-> i, content |-> disk[i], all |-> all]}
    BY <1>4 DEF Serve
  <2>2. req[p].at = "open" /\ req' = [req EXCEPT ![p] = NoRequest] /\ UNCHANGED <<bytes, table>>
    BY <1>4 DEF Serve, End, bytes
  <2>3. req[p].op # "upload" /\ req[p].who \in Users /\ rank[i] > 0 /\ owner[i] = req[p].who /\ i \in Ids
    BY <1>0, <2>2 DEF UploadFits, OtherFits
  <2>4. disk[i] = "whole"
    BY <2>1, <2>3 DEF FInv, FilesFit, TypeOK
  <2> DEFINE d == [who |-> req[p].who, id |-> i, content |-> disk[i], all |-> all]
  <2>5. d \in [who : Users, id : Ids, content : {"partial", "whole"}, all : BOOLEAN]
        /\ d.id = i /\ d.who = req[p].who /\ d.content = "whole"
    BY <2>3, <2>4
  <2>6. served' = {d}
    BY <2>1
  <2> HIDE DEF d
  <2>7. QED
    BY <2>2, <2>3, <2>5, <2>6, IdleFits, IdleFitsNext, QuietStep
<1>5. ASSUME Fail(p) PROVE FInv'
  <2>1. req[p].op # "upload" /\ req' = [req EXCEPT ![p] = NoRequest] /\ UNCHANGED <<bytes, table>>
        /\ served' = {}
    BY <1>5 DEF Fail, End, bytes
  <2>2. QED
    BY <2>1, IdleFits, IdleFitsNext, QuietStep
<1>6. QED
  BY <1>1, <1>2, <1>3, <1>4, <1>5

-----------------------------------------------------------------------------
(* The steps of an upload.                                                 *)

\* What an upload under way knows of its file: no row, no other request and
\* no other upload is about it.
LEMMA UploadIsAlone ==
    ASSUME FInv, NEW p \in Procs, req[p].at \in {"copy", "insert"}
    PROVE  \E i \in Ids :
             /\ req[p].op = "upload" /\ req[p].ids = {i} /\ req[p].who \in Users
             /\ owner[i] = req[p].who /\ rank[i] = 0 /\ i \notin files
             /\ req[p].at = "insert" => disk[i] = "whole"
             /\ \A q \in Procs : q # p => i \notin req[q].ids
             /\ Uploading(i)
<1>1. UploadFits(req[p]) /\ OtherFits(req[p])
  BY DEF FInv
<1>2. req[p].op = "upload"
  BY <1>1 DEF OtherFits
<1>3. PICK i \in Ids : /\ req[p].ids = {i} /\ owner[i] = req[p].who /\ rank[i] = 0
                       /\ req[p].at = "insert" => disk[i] = "whole"
  BY <1>1, <1>2 DEF UploadFits
<1>4. i \notin files
  BY <1>3 DEF FInv, FilesFit
<1>5. ASSUME NEW q \in Procs, q # p PROVE i \notin req[q].ids
  <2>1. UploadFits(req[q]) /\ OtherFits(req[q])
    BY DEF FInv
  <2>2. CASE req[q].op = "upload"
    <3>1. PICK j \in Ids : req[q].ids = {j}
      BY <2>1, <2>2 DEF UploadFits
    <3>2. j # i
      BY <1>2, <1>3, <1>5, <2>2, <3>1 DEF FInv, UploadsAreOwn
    <3>3. QED
      BY <3>1, <3>2
  <2>3. CASE req[q].op # "upload"
    BY <1>3, <2>1, <2>3 DEF OtherFits
  <2>4. QED
    BY <2>2, <2>3
<1>6. Uploading(i) /\ req[p].who \in Users
  BY <1>1, <1>2, <1>3 DEF Uploading, UploadFits
<1>7. QED
  BY <1>2, <1>3, <1>4, <1>5, <1>6

\* An id not drawn yet has no bytes, no place in the order, no row and no
\* request about it.
LEMMA FreshIds ==
    ASSUME FInv, NEW i \in Ids, owner[i] = Nobody
    PROVE  disk[i] = "none" /\ rank[i] = 0 /\ i \notin files /\ \A q \in Procs : i \notin req[q].ids
<1>1. disk[i] = "none" /\ rank[i] = 0 /\ i \notin files
  BY DEF FInv, FilesFit
<1>2. ASSUME NEW q \in Procs PROVE i \notin req[q].ids
  <2>1. UploadFits(req[q]) /\ OtherFits(req[q])
    BY DEF FInv
  <2>2. CASE req[q].op = "upload"
    BY <2>1, <2>2, FileStorageAssumption DEF UploadFits
  <2>3. CASE req[q].op # "upload"
    BY <1>1, <2>1, <2>3 DEF OtherFits
  <2>4. QED
    BY <2>2, <2>3
<1>3. QED
  BY <1>1, <1>2

\* A request keeps fitting when no file of its own changes, and no row is new.
LEMMA StillFits ==
    ASSUME FInv, NEW q \in Procs, req'[q] = req[q], late \subseteq late',
           \A i \in req[q].ids : owner'[i] = owner[i] /\ rank'[i] = rank[i],
           req[q].op = "upload" => \A i \in req[q].ids : disk'[i] = disk[i],
           req[q].op # "upload" => \A i \in req[q].ids : disk'[i] \in {disk[i], "none"},
           \A i \in files' : owner'[i] = req[q].who => i \in files /\ owner[i] = req[q].who
    PROVE  UploadFits(req[q])' /\ OtherFits(req[q])'
<1>1. UploadFits(req[q]) /\ OtherFits(req[q])
  BY DEF FInv
<1>2. UploadFits(req[q])'
  BY <1>1 DEF UploadFits
<1>3. First(req[q].ids)' = First(req[q].ids) /\ First(req[q].ids) \subseteq req[q].ids
  BY DEF First
<1>4. OtherFits(req[q])'
  <2>1. CASE req[q].op = "upload"
    BY <2>1 DEF OtherFits
  <2>2. CASE req[q].op # "upload"
    <3>1. /\ req[q].at \notin {"copy", "insert"}
          /\ req[q].at # "idle" => req[q].who \in Users
          /\ \A i \in req[q].ids : rank'[i] > 0 /\ owner'[i] = req[q].who
          /\ req[q].at \in {"list", "leave"} => req[q].op = "erase" /\ req[q].ids = {}
          /\ req[q].at \in {"bytes", "row"} => req[q].op \in {"delete", "erase"}
      BY <1>1, <2>2 DEF OtherFits
    <3>2. req[q].at = "row" => \A i \in First(req[q].ids)' : disk'[i] = "none"
      BY <1>1, <1>3, <2>2 DEF OtherFits
    <3>3. req[q].op = "erase" /\ req[q].at \in {"bytes", "row", "leave"} =>
             \A i \in files' : owner'[i] = req[q].who => i \in req[q].ids \cup late'
      BY <1>1, <2>2 DEF OtherFits
    <3>4. QED
      BY <3>1, <3>2, <3>3 DEF OtherFits
  <2>3. QED
    BY <2>1, <2>2
<1>5. QED
  BY <1>2, <1>4

\* The file of an upload begins.
LEMMA UploadStep ==
    ASSUME FInv, NEW p \in Procs, NEW u \in Users, NEW i \in Ids, Upload(p, u, i)
    PROVE  FInv'
<1> DEFINE r == [at |-> "copy", op |-> "upload", who |-> u, ids |-> {i}]
<1>1. r \in Requests /\ r.at = "copy" /\ r.op = "upload" /\ r.who = u /\ r.ids = {i}
  BY RequestTypes
<1>2. req[p] = NoRequest /\ req' = [req EXCEPT ![p] = r]
  BY DEF Upload, Begin
<1> HIDE DEF r
<1>3. req' \in [Procs -> Requests] /\ \A q \in Procs : req'[q] = IF q = p THEN r ELSE req[q]
  BY <1>1, <1>2, Others DEF FInv
<1>4. /\ owner' = [owner EXCEPT ![i] = u] /\ disk' = [disk EXCEPT ![i] = "partial"]
      /\ served' = {} /\ UNCHANGED <<users, table, begun, stranded, late>> /\ owner[i] = Nobody
  BY DEF Upload
<1>5. /\ owner' \in [Ids -> Users \cup {Nobody}] /\ disk' \in [Ids -> {"none", "partial", "whole"}]
      /\ \A j \in Ids : owner'[j] = (IF j = i THEN u ELSE owner[j])
                        /\ disk'[j] = (IF j = i THEN "partial" ELSE disk[j])
  BY <1>4 DEF FInv, TypeOK
<1>6. disk[i] = "none" /\ rank[i] = 0 /\ i \notin files /\ \A q \in Procs : i \notin req[q].ids
  BY <1>4, FreshIds
<1>7. TypeOK'
  BY <1>3, <1>4, <1>5 DEF FInv, TypeOK, table
<1>8. FilesFit'
  BY <1>4, <1>5, <1>6, FileStorageAssumption DEF FInv, FilesFit, table, TypeOK
<1>9. ASSUME NEW q \in Procs PROVE UploadFits(req[q])' /\ OtherFits(req[q])'
  <2>1. CASE q = p
    <3>1. owner'[i] = u /\ rank'[i] = 0 /\ req'[q] = r
      BY <1>3, <1>4, <1>5, <1>6, <2>1 DEF table
    <3>2. QED
      BY <1>1, <3>1 DEF UploadFits, OtherFits
  <2>2. CASE q # p
    <3>1. req'[q] = req[q] /\ req[q].ids \subseteq Ids \ {i}
      BY <1>3, <1>6, <2>2 DEF FInv, TypeOK, Requests
    <3>2. \A j \in req[q].ids : owner'[j] = owner[j] /\ rank'[j] = rank[j] /\ disk'[j] = disk[j]
      BY <1>4, <1>5, <3>1 DEF table
    <3>3. \A j \in files' : owner'[j] = req[q].who => j \in files /\ owner[j] = req[q].who
      BY <1>4, <1>5, <1>6 DEF table, FInv, TypeOK
    <3>4. QED
      BY <1>4, <3>1, <3>2, <3>3, StillFits
  <2>3. QED
    BY <2>1, <2>2
<1>10. UploadsAreOwn'
  BY <1>1, <1>3, <1>6 DEF FInv, UploadsAreOwn
<1>11. \A j \in Ids : Uploading(j) \/ j = i => Uploading(j)'
  BY <1>1, <1>2, <1>3, IdleFits DEF Uploading
<1>12. ListedFilesAreWhole' /\ DownloadsAreOwnAndWhole'
  BY <1>4, <1>5, <1>6 DEF FInv, ListedFilesAreWhole, DownloadsAreOwnAndWhole, table, TypeOK
<1>13. BytesAreDiscoverable' /\ ErasedBytesAreGone'
  BY <1>4, <1>5, <1>11 DEF FInv, BytesAreDiscoverable, ErasedBytesAreGone, HasRow, table
<1>14. QED
  BY <1>7, <1>8, <1>9, <1>10, <1>12, <1>13 DEF FInv

\* The body ends.
LEMMA CopiedStep ==
    ASSUME FInv, NEW p \in Procs, Copied(p)
    PROVE  FInv'
<1>1. req[p].at = "copy" /\ req' = [req EXCEPT ![p].at = "insert"] /\ served' = {}
      /\ UNCHANGED <<users, table, owner, begun, stranded, late>>
  BY DEF Copied
<1>2. PICK i \in Ids : /\ req[p].op = "upload" /\ req[p].ids = {i} /\ req[p].who \in Users
                       /\ owner[i] = req[p].who /\ rank[i] = 0 /\ i \notin files
                       /\ \A q \in Procs : q # p => i \notin req[q].ids
  BY <1>1, UploadIsAlone
<1>3. PICK r : /\ r \in Requests /\ r.at = "insert" /\ r.op = "upload" /\ r.who = req[p].who
               /\ r.ids = {i} /\ req' = [req EXCEPT ![p] = r]
  <2>1. req[p] \in Requests
    BY DEF FInv, TypeOK
  <2> DEFINE r == [req[p] EXCEPT !.at = "insert"]
  <2>2. r \in Requests /\ r.at = "insert" /\ r.op = "upload" /\ r.who = req[p].who /\ r.ids = {i}
    BY <1>2, <2>1 DEF Requests
  <2>3. req' = [req EXCEPT ![p] = r]
    BY <1>1
  <2>4. QED
    BY <2>2, <2>3
<1>4. req' \in [Procs -> Requests] /\ \A q \in Procs : req'[q] = IF q = p THEN r ELSE req[q]
  BY <1>3, Others DEF FInv
<1>5. disk' = [disk EXCEPT ![i] = "whole"]
  BY <1>2 DEF Copied
<1>6. /\ disk' \in [Ids -> {"none", "partial", "whole"}]
      /\ \A j \in Ids : disk'[j] = (IF j = i THEN "whole" ELSE disk[j])
  BY <1>5 DEF FInv, TypeOK
<1>7. TypeOK'
  BY <1>1, <1>4, <1>6 DEF FInv, TypeOK, table
<1>8. FilesFit'
  BY <1>1, <1>2, <1>6, FileStorageAssumption DEF FInv, FilesFit, table, TypeOK
<1>9. ASSUME NEW q \in Procs PROVE UploadFits(req[q])' /\ OtherFits(req[q])'
  <2>1. CASE q = p
    <3>1. owner'[i] = r.who /\ rank'[i] = 0 /\ disk'[i] = "whole" /\ req'[q] = r /\ r.who \in Users
      BY <1>1, <1>2, <1>3, <1>4, <1>6, <2>1 DEF table
    <3>2. QED
      BY <1>3, <3>1 DEF UploadFits, OtherFits
  <2>2. CASE q # p
    <3>1. req'[q] = req[q] /\ req[q].ids \subseteq Ids \ {i}
      BY <1>2, <1>4, <2>2 DEF FInv, TypeOK, Requests
    <3>2. \A j \in req[q].ids : owner'[j] = owner[j] /\ rank'[j] = rank[j] /\ disk'[j] = disk[j]
      BY <1>1, <1>6, <3>1 DEF table
    <3>3. QED
      BY <1>1, <3>1, <3>2, StillFits DEF table
  <2>3. QED
    BY <2>1, <2>2
<1>10. UploadsAreOwn'
  BY <1>2, <1>3, <1>4 DEF FInv, UploadsAreOwn
<1>11. \A j \in Ids : Uploading(j) => Uploading(j)'
  BY <1>2, <1>3, <1>4 DEF Uploading
<1>12. ListedFilesAreWhole' /\ DownloadsAreOwnAndWhole'
  BY <1>1, <1>2, <1>6 DEF FInv, ListedFilesAreWhole, DownloadsAreOwnAndWhole, table, TypeOK
<1>13. Uploading(i)'
  BY <1>3, <1>4 DEF Uploading
<1>14. BytesAreDiscoverable' /\ ErasedBytesAreGone'
  BY <1>1, <1>6, <1>11, <1>13 DEF FInv, BytesAreDiscoverable, ErasedBytesAreGone, HasRow, table
<1>15. QED
  BY <1>7, <1>8, <1>9, <1>10, <1>12, <1>14 DEF FInv

\* An upload that failed cleans up, or tries to.
LEMMA CleanUpStep ==
    ASSUME FInv, NEW p \in Procs, CopyFails(p) \/ InsertFails(p)
    PROVE  FInv'
<1>1. /\ req[p].at \in {"copy", "insert"} /\ req' = [req EXCEPT ![p] = NoRequest] /\ served' = {}
      /\ UNCHANGED <<users, table, owner, begun, late>>
  BY DEF CopyFails, InsertFails, CleanUp, End
<1>2. PICK i \in Ids : /\ req[p].op = "upload" /\ req[p].ids = {i} /\ rank[i] = 0 /\ i \notin files
                       /\ \A q \in Procs : q # p => i \notin req[q].ids
  BY <1>1, UploadIsAlone
<1>3. req' \in [Procs -> Requests] /\ \A q \in Procs : req'[q] = IF q = p THEN NoRequest ELSE req[q]
  BY <1>1, IdleFits, Others DEF FInv
<1>4. \/ disk' = [disk EXCEPT ![i] = "none"] /\ UNCHANGED stranded
      \/ stranded' = stranded \cup {i} /\ UNCHANGED disk
  BY <1>2 DEF CopyFails, InsertFails, CleanUp
<1>5. /\ disk' \in [Ids -> {"none", "partial", "whole"}] /\ stranded' \in SUBSET Ids
      /\ \A j \in Ids : j # i => disk'[j] = disk[j]
      /\ disk'[i] = "none" \/ (disk'[i] = disk[i] /\ i \in stranded')
      /\ stranded \subseteq stranded'
  <2>1. CASE disk' = [disk EXCEPT ![i] = "none"] /\ UNCHANGED stranded
    BY <2>1 DEF FInv, TypeOK
  <2>2. CASE stranded' = stranded \cup {i} /\ UNCHANGED disk
    BY <2>2 DEF FInv, TypeOK
  <2>3. QED
    BY <1>4, <2>1, <2>2
<1>6. TypeOK'
  BY <1>1, <1>3, <1>5 DEF FInv, TypeOK, table
<1>7. FilesFit'
  <2>1. \A j \in Ids : disk'[j] \in {disk[j], "none"}
    BY <1>5
  <2>2. QED
    BY <1>1, <2>1 DEF FInv, FilesFit, table
<1>8. ASSUME NEW q \in Procs PROVE UploadFits(req[q])' /\ OtherFits(req[q])'
  <2>1. CASE q = p
    <3>1. req'[q] = NoRequest
      BY <1>3, <2>1
    <3>2. QED
      BY <3>1, IdleFitsNext, IdleFits DEF UploadFits, OtherFits
  <2>2. CASE q # p
    <3>1. req'[q] = req[q] /\ req[q].ids \subseteq Ids \ {i}
      BY <1>2, <1>3, <2>2 DEF FInv, TypeOK, Requests
    <3>2. \A j \in req[q].ids : owner'[j] = owner[j] /\ rank'[j] = rank[j] /\ disk'[j] = disk[j]
      BY <1>1, <1>5, <3>1 DEF table
    <3>3. QED
      BY <1>1, <3>1, <3>2, StillFits DEF table
  <2>3. QED
    BY <2>1, <2>2
<1>9. UploadsAreOwn'
  BY <1>3, IdleFits DEF FInv, UploadsAreOwn
<1>10. \A j \in Ids : Uploading(j) /\ j # i => Uploading(j)'
  BY <1>2, <1>3 DEF Uploading
<1>11. ListedFilesAreWhole' /\ DownloadsAreOwnAndWhole'
  BY <1>1, <1>2, <1>5 DEF FInv, ListedFilesAreWhole, DownloadsAreOwnAndWhole, table, TypeOK
<1>12. BytesAreDiscoverable' /\ ErasedBytesAreGone'
  BY <1>1, <1>5, <1>10 DEF FInv, BytesAreDiscoverable, ErasedBytesAreGone, HasRow, table
<1>13. QED
  BY <1>6, <1>7, <1>8, <1>9, <1>11, <1>12 DEF FInv

\* The row of an upload is inserted: the newest, behind every listing.
LEMMA InsertStep ==
    ASSUME FInv, NEW p \in Procs, InsertFile(p)
    PROVE  FInv'
<1>1. req[p].at = "insert"
  BY DEF InsertFile
<1>2. PICK i \in Ids : /\ req[p].op = "upload" /\ req[p].ids = {i} /\ req[p].who \in Users
                       /\ owner[i] = req[p].who /\ rank[i] = 0 /\ i \notin files
                       /\ disk[i] = "whole"
                       /\ \A q \in Procs : q # p => i \notin req[q].ids
  BY <1>1, UploadIsAlone
<1>3. /\ files' = files \cup {i} /\ rows' = rows + 1
      /\ rank' = [j \in Ids |-> IF j \in {i} THEN rows + 1 ELSE rank[j]]
      /\ late' = IF Erasing(req[p].who) THEN late \cup {i} ELSE late
      /\ req' = [req EXCEPT ![p] = NoRequest] /\ served' = {} /\ req[p].who \in users
      /\ UNCHANGED <<users, disk, owner, begun, stranded>>
  BY <1>2 DEF InsertFile, End
<1>4. req' \in [Procs -> Requests] /\ \A q \in Procs : req'[q] = IF q = p THEN NoRequest ELSE req[q]
  BY <1>3, IdleFits, Others DEF FInv
<1>5. /\ rank' \in [Ids -> Nat] /\ rows' \in Nat
      /\ \A j \in Ids : rank'[j] = IF j = i THEN rows + 1 ELSE rank[j]
      /\ late' \in SUBSET Ids /\ late \subseteq late'
  BY <1>3 DEF FInv, TypeOK
<1>6. TypeOK'
  BY <1>3, <1>4, <1>5 DEF FInv, TypeOK
<1>7. FilesFit'
  <2>1. /\ \A j \in files : rank[j] > 0 /\ j \in Ids
        /\ \A j \in Ids : owner[j] = Nobody => disk[j] = "none" /\ rank[j] = 0
        /\ \A j \in Ids : rank[j] > 0 => disk[j] # "partial"
        /\ \A j \in Ids : rank[j] <= rows /\ rank[j] \in Nat
        /\ \A j, k \in Ids : rank[j] = rank[k] /\ rank[j] > 0 => j = k
        /\ rows \in Nat
    BY DEF FInv, FilesFit, TypeOK
  <2>2. \A j \in files' : rank'[j] > 0
    BY <1>3, <1>5, <2>1
  <2>3. \A j \in Ids : owner'[j] = Nobody => disk'[j] = "none" /\ rank'[j] = 0
    BY <1>2, <1>3, <1>5, <2>1, FileStorageAssumption
  <2>4. \A j \in Ids : rank'[j] > 0 => disk'[j] # "partial"
    BY <1>2, <1>3, <1>5, <2>1
  <2>5. \A j \in Ids : rank'[j] <= rows'
    BY <1>3, <1>5, <2>1
  <2>6. \A j, k \in Ids : rank'[j] = rank'[k] /\ rank'[j] > 0 => j = k
    BY <1>5, <2>1
  <2>7. QED
    BY <2>2, <2>3, <2>4, <2>5, <2>6 DEF FilesFit
<1>8. ASSUME NEW q \in Procs PROVE UploadFits(req[q])' /\ OtherFits(req[q])'
  <2>1. CASE q = p
    <3>1. req'[q] = NoRequest
      BY <1>4, <2>1
    <3>2. QED
      BY <3>1, IdleFitsNext, IdleFits DEF UploadFits, OtherFits
  <2>2. CASE q # p
    <3>1. req'[q] = req[q] /\ req[q].ids \subseteq Ids \ {i}
      BY <1>2, <1>4, <2>2 DEF FInv, TypeOK, Requests
    <3>2. \A j \in req[q].ids : owner'[j] = owner[j] /\ rank'[j] = rank[j] /\ disk'[j] = disk[j]
      BY <1>3, <1>5, <3>1
    <3>3. UploadFits(req[q]) /\ OtherFits(req[q])
      BY DEF FInv
    <3>4. UploadFits(req[q])'
      BY <3>1, <3>2, <3>3 DEF UploadFits
    <3>5. First(req[q].ids)' = First(req[q].ids) /\ First(req[q].ids) \subseteq req[q].ids
      BY <3>1, <3>2 DEF First
    <3>6. req[q].op = "erase" /\ req[q].at \in {"bytes", "row", "leave"} =>
             \A j \in files' : owner'[j] = req[q].who => j \in req[q].ids \cup late'
      <4>1. SUFFICES ASSUME req[q].op = "erase" /\ req[q].at \in {"bytes", "row", "leave"},
                            NEW j \in files', owner'[j] = req[q].who
                     PROVE  j \in req[q].ids \cup late'
        OBVIOUS
      <4>2. CASE j = i
        BY <1>2, <1>3, <4>1, <4>2 DEF Erasing
      <4>3. CASE j # i
        BY <1>3, <1>5, <3>3, <4>1, <4>3 DEF OtherFits
      <4>4. QED
        BY <4>2, <4>3
    <3>7. /\ req[q].op # "upload" => /\ req[q].at \notin {"copy", "insert"}
                                     /\ req[q].at # "idle" => req[q].who \in Users
          /\ req[q].op # "upload" => \A j \in req[q].ids : rank'[j] > 0 /\ owner'[j] = req[q].who
          /\ req[q].op # "upload" /\ req[q].at \in {"list", "leave"} => req[q].op = "erase" /\ req[q].ids = {}
          /\ req[q].op # "upload" /\ req[q].at \in {"bytes", "row"} => req[q].op \in {"delete", "erase"}
          /\ req[q].op # "upload" /\ req[q].at = "row" => \A j \in First(req[q].ids)' : disk'[j] = "none"
      BY <3>2, <3>3, <3>5 DEF OtherFits
    <3>8. OtherFits(req[q])'
      BY <3>1, <3>6, <3>7 DEF OtherFits
    <3>9. QED
      BY <3>4, <3>8
  <2>3. QED
    BY <2>1, <2>2
<1>9. UploadsAreOwn'
  BY <1>4, IdleFits DEF FInv, UploadsAreOwn
<1>10. \A j \in Ids : Uploading(j) /\ j # i => Uploading(j)'
  BY <1>2, <1>4 DEF Uploading
<1>11. ListedFilesAreWhole' /\ DownloadsAreOwnAndWhole'
  BY <1>2, <1>3 DEF FInv, ListedFilesAreWhole, DownloadsAreOwnAndWhole
<1>12. BytesAreDiscoverable'
  BY <1>3, <1>10 DEF FInv, BytesAreDiscoverable, HasRow
<1>13. ErasedBytesAreGone'
  BY <1>2, <1>3, <1>5, <1>10 DEF FInv, ErasedBytesAreGone
<1>14. QED
  BY <1>6, <1>7, <1>8, <1>9, <1>11, <1>12, <1>13 DEF FInv

-----------------------------------------------------------------------------
(* The steps of a deletion.                                                *)

\* Of the files a request is about, at most one is the first: the order of
\* uploads is strict.
LEMMA OneFirst ==
    ASSUME FInv, NEW p \in Procs, req[p].at \in {"bytes", "row"}, NEW i \in First(req[p].ids)
    PROVE  /\ First(req[p].ids) = {i} /\ i \in req[p].ids /\ i \in Ids /\ rank[i] > 0
           /\ req[p].op \in {"delete", "erase"} /\ req[p].who \in Users
           /\ owner[i] = req[p].who
<1>1. req[p] \in Requests /\ UploadFits(req[p]) /\ OtherFits(req[p])
  BY DEF FInv, TypeOK
<1>2. req[p].op # "upload" /\ req[p].ids \subseteq Ids /\ req[p].op \in {"delete", "erase"} /\ req[p].who \in Users
  BY <1>1 DEF Requests, UploadFits, OtherFits
<1>3. \A j \in req[p].ids : rank[j] > 0 /\ rank[j] \in Nat /\ owner[j] = req[p].who
  BY <1>1, <1>2 DEF OtherFits, FInv, TypeOK
<1>4. i \in req[p].ids /\ \A j \in req[p].ids : rank[i] <= rank[j]
  BY DEF First
<1>5. ASSUME NEW j \in First(req[p].ids) PROVE j = i
  <2>1. j \in req[p].ids /\ rank[j] <= rank[i] /\ rank[i] <= rank[j]
    BY <1>4 DEF First
  <2>2. rank[i] = rank[j]
    BY <1>3, <1>4, <2>1
  <2>3. QED
    BY <1>2, <1>3, <1>4, <2>1, <2>2 DEF FInv, FilesFit
<1>6. QED
  BY <1>2, <1>3, <1>4, <1>5

\* The bytes go.
LEMMA RemoveBytesStep ==
    ASSUME FInv, NEW p \in Procs, RemoveBytes(p)
    PROVE  FInv'
<1>1. /\ req[p].at = "bytes" /\ req' = [req EXCEPT ![p].at = "row"] /\ served' = {}
      /\ UNCHANGED <<users, table, owner, stranded, late>>
  BY DEF RemoveBytes
<1>2. PICK i \in First(req[p].ids) : disk' = [disk EXCEPT ![i] = "none"] /\ begun' = begun \cup {i}
  BY DEF RemoveBytes
<1>3. /\ First(req[p].ids) = {i} /\ i \in req[p].ids /\ i \in Ids /\ rank[i] > 0
      /\ req[p].op \in {"delete", "erase"} /\ req[p].who \in Users
  BY <1>1, <1>2, OneFirst
<1>4. PICK r : /\ r \in Requests /\ r.at = "row" /\ r.op = req[p].op /\ r.who = req[p].who
               /\ r.ids = req[p].ids /\ req' = [req EXCEPT ![p] = r]
  <2>1. req[p] \in Requests
    BY DEF FInv, TypeOK
  <2> DEFINE r == [req[p] EXCEPT !.at = "row"]
  <2>2. r \in Requests /\ r.at = "row" /\ r.op = req[p].op /\ r.who = req[p].who /\ r.ids = req[p].ids
    BY <2>1 DEF Requests
  <2>3. req' = [req EXCEPT ![p] = r]
    BY <1>1
  <2>4. QED
    BY <2>2, <2>3
<1>5. req' \in [Procs -> Requests] /\ \A q \in Procs : req'[q] = IF q = p THEN r ELSE req[q]
  BY <1>4, Others DEF FInv
<1>6. /\ disk' \in [Ids -> {"none", "partial", "whole"}]
      /\ \A j \in Ids : disk'[j] = (IF j = i THEN "none" ELSE disk[j])
  BY <1>2, <1>3 DEF FInv, TypeOK
<1>7. TypeOK'
  BY <1>1, <1>2, <1>3, <1>5, <1>6 DEF FInv, TypeOK, table
<1>8. FilesFit'
  BY <1>1, <1>6 DEF FInv, FilesFit, table
<1>9. ASSUME NEW q \in Procs PROVE UploadFits(req[q])' /\ OtherFits(req[q])'
  <2>1. CASE q = p
    <3>1. req'[q] = r /\ OtherFits(req[p])
      BY <1>5, <2>1 DEF FInv
    <3>2. First(req[q].ids)' = {i}
      BY <1>1, <1>3, <1>4, <3>1 DEF First, table
    <3>3. \A j \in r.ids : rank'[j] > 0 /\ owner'[j] = r.who
      BY <1>1, <1>3, <1>4, <3>1 DEF OtherFits, table
    <3>4. r.op = "erase" => \A j \in files' : owner'[j] = r.who => j \in r.ids \cup late'
      BY <1>1, <1>3, <1>4, <3>1 DEF OtherFits, table
    <3>5. disk'[i] = "none"
      BY <1>3, <1>6
    <3>6. QED
      BY <1>3, <1>4, <3>1, <3>2, <3>3, <3>4, <3>5 DEF UploadFits, OtherFits
  <2>2. CASE q # p
    <3>1. req'[q] = req[q] /\ req[q].ids \subseteq Ids /\ UploadFits(req[q])
      BY <1>5, <2>2 DEF FInv, TypeOK, Requests
    <3>2. \A j \in req[q].ids : owner'[j] = owner[j] /\ rank'[j] = rank[j] /\ disk'[j] \in {disk[j], "none"}
      BY <1>1, <1>6, <3>1 DEF table
    <3>3. req[q].op = "upload" => \A j \in req[q].ids : disk'[j] = disk[j]
      BY <1>3, <1>6, <3>1 DEF UploadFits
    <3>4. QED
      BY <1>1, <3>1, <3>2, <3>3, StillFits DEF table
  <2>3. QED
    BY <2>1, <2>2
<1>10. UploadsAreOwn'
  BY <1>3, <1>4, <1>5 DEF FInv, UploadsAreOwn
<1>11. \A j \in Ids : Uploading(j) => Uploading(j)'
  BY <1>3, <1>5 DEF Uploading
<1>12. ListedFilesAreWhole' /\ DownloadsAreOwnAndWhole'
  BY <1>1, <1>2, <1>6 DEF FInv, ListedFilesAreWhole, DownloadsAreOwnAndWhole, table, TypeOK
<1>13. BytesAreDiscoverable' /\ ErasedBytesAreGone'
  BY <1>1, <1>6, <1>11 DEF FInv, BytesAreDiscoverable, ErasedBytesAreGone, HasRow, table
<1>14. QED
  BY <1>7, <1>8, <1>9, <1>10, <1>12, <1>13 DEF FInv

\* Rows go whose files have no bytes, or whose account does: what is left to
\* check of a step of the request p, which becomes r.
LEMMA RowsGo ==
    ASSUME FInv, NEW p \in Procs, NEW r, r \in Requests, req' = [req EXCEPT ![p] = r],
           req[p].op # "upload", r.op # "upload", OtherFits(r)',
           users' \subseteq users, files' \subseteq files, served' = {},
           UNCHANGED <<rank, rows, disk, owner, begun, stranded, late>>,
           \A i \in files \ files' : disk[i] = "none" \/ owner[i] \notin users',
           \A i \in files : owner[i] \in users \ users' => i \in late
    PROVE  FInv'
<1>1. req' \in [Procs -> Requests] /\ \A q \in Procs : req'[q] = IF q = p THEN r ELSE req[q]
  BY Others DEF FInv
<1>2. TypeOK'
  BY <1>1 DEF FInv, TypeOK
<1>3. FilesFit'
  BY DEF FInv, FilesFit
<1>4. ASSUME NEW q \in Procs PROVE UploadFits(req[q])' /\ OtherFits(req[q])'
  <2>1. CASE q = p
    <3>1. req'[q] = r
      BY <1>1, <2>1
    <3>2. QED
      BY <3>1 DEF UploadFits, OtherFits, First
  <2>2. CASE q # p
    BY <1>1, <2>2, StillFits
  <2>3. QED
    BY <2>1, <2>2
<1>5. UploadsAreOwn'
  BY <1>1 DEF FInv, UploadsAreOwn
<1>6. \A i \in Ids : Uploading(i) => Uploading(i)'
  BY <1>1 DEF Uploading
<1>7. ListedFilesAreWhole' /\ DownloadsAreOwnAndWhole'
  BY DEF FInv, ListedFilesAreWhole, DownloadsAreOwnAndWhole
<1>8. BytesAreDiscoverable'
  BY <1>6 DEF FInv, BytesAreDiscoverable, HasRow
<1>9. ErasedBytesAreGone'
  BY <1>6 DEF FInv, ErasedBytesAreGone, BytesAreDiscoverable, HasRow
<1>10. QED
  BY <1>2, <1>3, <1>4, <1>5, <1>7, <1>8, <1>9 DEF FInv

\* The row goes, and the account's last rows with it.
LEMMA RowSteps ==
    ASSUME FInv, NEW p \in Procs, RemoveRow(p) \/ Leave(p)
    PROVE  FInv'
<1>0. req[p] \in Requests /\ UploadFits(req[p]) /\ OtherFits(req[p]) /\ req[p].ids \subseteq Ids
  BY DEF FInv, TypeOK, Requests
<1>1. ASSUME RemoveRow(p) PROVE FInv'
  <2>1. /\ req[p].at = "row" /\ files' = files \ First(req[p].ids) /\ served' = {}
        /\ UNCHANGED <<rank, rows, users, disk, owner, begun, stranded, late>>
    BY <1>1 DEF RemoveRow
  <2>2. req[p].op \in {"delete", "erase"} /\ req[p].who \in Users
        /\ \A i \in First(req[p].ids) : disk[i] = "none"
    BY <1>0, <2>1 DEF UploadFits, OtherFits
  <2>3. PICK u \in Users, k \in SUBSET Ids : u = req[p].who /\ k = req[p].ids \ First(req[p].ids)
    BY <1>0, <2>2
  <2>4. PICK r : /\ r \in Requests /\ req' = [req EXCEPT ![p] = r] /\ r.op # "upload" /\ OtherFits(r)'
    <3>1. CASE req[p].op = "delete"
      BY <1>1, <3>1, IdleFits, IdleFitsNext DEF RemoveRow, End
    <3>2. CASE req[p].op = "erase"
      <4> DEFINE r == Deleting(u, k)
      <4>1. req' = [req EXCEPT ![p] = r]
        BY <1>1, <2>3, <3>2 DEF RemoveRow
      <4>2. r \in Requests /\ r.at = (IF k = {} THEN "leave" ELSE "bytes") /\ r.op = "erase"
            /\ r.who = u /\ r.ids = k
        BY DEF Deleting, Requests
      <4> HIDE DEF r
      <4>3. \A i \in k : rank'[i] > 0 /\ owner'[i] = u
        BY <1>0, <2>1, <2>3, <3>2 DEF OtherFits
      <4>4. \A i \in files' : owner'[i] = u => i \in k \cup late'
        BY <1>0, <2>1, <2>3, <3>2 DEF OtherFits
      <4>5. OtherFits(r)'
        BY <4>2, <4>3, <4>4 DEF OtherFits
      <4>6. QED
        BY <4>1, <4>2, <4>5
    <3>3. QED
      BY <2>2, <3>1, <3>2
  <2>5. QED
    BY <2>1, <2>2, <2>4, RowsGo
<1>2. ASSUME Leave(p) PROVE FInv'
  <2>1. /\ req[p].at = "leave" /\ users' = users \ {req[p].who} /\ served' = {}
        /\ files' = {i \in files : owner[i] # req[p].who} /\ req' = [req EXCEPT ![p] = NoRequest]
        /\ UNCHANGED <<rank, rows, disk, owner, begun, stranded, late>>
    BY <1>2 DEF Leave, End
  <2>2. req[p].op = "erase" /\ req[p].ids = {}
    BY <1>0, <2>1 DEF UploadFits, OtherFits
  <2>3. \A i \in files : owner[i] = req[p].who => i \in late
    BY <1>0, <2>1, <2>2 DEF OtherFits
  <2>4. QED
    BY <2>1, <2>2, <2>3, IdleFits, IdleFitsNext, RowsGo
<1>3. QED
  BY <1>1, <1>2

-----------------------------------------------------------------------------
(* The process.                                                            *)

\* A crash drops every request and leaves its traces.
LEMMA CrashStep ==
    ASSUME FInv, Crash
    PROVE  FInv'
<1>1. /\ req' = [p \in Procs |-> NoRequest] /\ served' = {}
      /\ stranded' = stranded \cup {i \in Ids : Uploading(i)}
      /\ UNCHANGED <<users, table, disk, owner, begun, late>>
  BY DEF Crash
<1>2. req' \in [Procs -> Requests] /\ \A q \in Procs : req'[q] = NoRequest
  BY <1>1, IdleFits
<1>3. TypeOK'
  BY <1>1, <1>2 DEF FInv, TypeOK, table
<1>4. FilesFit'
  BY <1>1 DEF FInv, FilesFit, table
<1>5. ASSUME NEW q \in Procs PROVE UploadFits(req[q])' /\ OtherFits(req[q])'
  BY <1>2, IdleFits, IdleFitsNext DEF UploadFits, OtherFits
<1>6. UploadsAreOwn'
  BY <1>2, IdleFits DEF UploadsAreOwn
<1>7. ListedFilesAreWhole' /\ DownloadsAreOwnAndWhole'
  BY <1>1 DEF FInv, ListedFilesAreWhole, DownloadsAreOwnAndWhole, table
<1>8. BytesAreDiscoverable' /\ ErasedBytesAreGone'
  BY <1>1 DEF FInv, BytesAreDiscoverable, ErasedBytesAreGone, HasRow, table
<1>9. QED
  BY <1>3, <1>4, <1>5, <1>6, <1>7, <1>8 DEF FInv

\* An empty store satisfies the invariant.
LEMMA Start == Init => FInv
<1>1. SUFFICES ASSUME Init PROVE FInv
  OBVIOUS
<1>2. req \in [Procs -> Requests] /\ \A q \in Procs : req[q] = NoRequest
  BY <1>1, IdleFits DEF Init
<1>3. TypeOK
  BY <1>1, <1>2 DEF Init, TypeOK
<1>4. FilesFit
  BY <1>1 DEF Init, FilesFit
<1>5. UploadsAreOwn /\ \A q \in Procs : UploadFits(req[q]) /\ OtherFits(req[q])
  BY <1>2, IdleFits DEF UploadsAreOwn
<1>6. ListedFilesAreWhole /\ DownloadsAreOwnAndWhole
  BY <1>1 DEF Init, ListedFilesAreWhole, DownloadsAreOwnAndWhole
<1>7. BytesAreDiscoverable /\ ErasedBytesAreGone
  BY <1>1 DEF Init, BytesAreDiscoverable, ErasedBytesAreGone
<1>8. QED
  BY <1>3, <1>4, <1>5, <1>6, <1>7 DEF FInv

\* FInv is inductive: it holds of the empty store, and every operation, every
\* failure and every crash keeps it.
THEOREM Inductive == Spec => []FInv
<1>1. FInv /\ [Next]_vars => FInv'
  <2>1. SUFFICES ASSUME FInv, [Next]_vars PROVE FInv'
    OBVIOUS
  <2>2. CASE UNCHANGED vars
    BY <2>1, <2>2 DEF vars, FInv, TypeOK, FilesFit, UploadFits, OtherFits, First, UploadsAreOwn, HasRow,
       ListedFilesAreWhole, BytesAreDiscoverable, DownloadsAreOwnAndWhole, ErasedBytesAreGone, Uploading
  <2>3. ASSUME NEW p \in Procs, NEW u \in Users, NEW i \in Ids,
               Upload(p, u, i) \/ Download(p, u, i) \/ Delete(p, u, i)
        PROVE  FInv'
    BY <2>1, <2>3, UploadStep, ReadingSteps
  <2>4. ASSUME NEW p \in Procs, Copied(p) \/ CopyFails(p) \/ InsertFile(p) \/ InsertFails(p)
        PROVE  FInv'
    BY <2>1, <2>4, CopiedStep, CleanUpStep, InsertStep
  <2>5. ASSUME NEW p \in Procs, Serve(p) \/ (\E u \in Users : Erase(p, u)) \/ ListOwned(p) \/ Fail(p)
        PROVE  FInv'
    BY <2>1, <2>5, ReadingSteps
  <2>6. ASSUME NEW p \in Procs, RemoveBytes(p) \/ RemoveRow(p) \/ Leave(p) PROVE FInv'
    BY <2>1, <2>6, RemoveBytesStep, RowSteps
  <2>7. CASE Crash
    BY <2>1, <2>7, CrashStep
  <2>8. QED
    BY <2>1, <2>2, <2>3, <2>4, <2>5, <2>6, <2>7 DEF Next
<1>2. QED
  BY Start, <1>1, PTL DEF Spec

\* Every variable keeps its type.
THEOREM TypeCorrect == Spec => []TypeOK
<1>1. FInv => TypeOK
  BY DEF FInv
<1>2. QED
  BY Inductive, <1>1, PTL

\* STOR-01, 03: a file the API lists has all of its bytes, or a deletion of it
\* has begun.
THEOREM ListingIsWhole == Spec => []ListedFilesAreWhole
<1>1. FInv => ListedFilesAreWhole
  BY DEF FInv
<1>2. QED
  BY Inductive, <1>1, PTL

\* Whatever fails half-way, the bytes of an account that exists have a row to
\* find them by, unless their upload is under way or broke off.
THEOREM BytesHaveRows == Spec => []BytesAreDiscoverable
<1>1. FInv => BytesAreDiscoverable
  BY DEF FInv
<1>2. QED
  BY Inductive, <1>1, PTL

\* STOR-05, 03: a download sends the caller's own file, from its whole bytes.
THEOREM DownloadsAreRight == Spec => []DownloadsAreOwnAndWhole
<1>1. FInv => DownloadsAreOwnAndWhole
  BY DEF FInv
<1>2. QED
  BY Inductive, <1>1, PTL

\* STOR-08: the bytes of an erased account are gone, but for those of uploads
\* that raced the erasure or had been left behind.
THEOREM ErasureTakesBytes == Spec => []ErasedBytesAreGone
<1>1. FInv => ErasedBytesAreGone
  BY DEF FInv
<1>2. QED
  BY Inductive, <1>1, PTL
=============================================================================
