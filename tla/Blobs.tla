------------------------------- MODULE Blobs -------------------------------
(***************************************************************************)
(* Content-addressed storage of the uploaded files' bytes: retain, release,*)
(* read, and the sweeper that deletes what nobody holds any more.  Several *)
(* gateways work on one database and one object storage (S3).  Blob        *)
(* migration, which moves bytes between the two, is BlobMigration.         *)
(*                                                                         *)
(* Granularity.  A transaction that makes no storage request is one        *)
(* action.  One that does holds its locks over several actions, one per    *)
(* request, and may end without its COMMIT: the request is then done and   *)
(* the database unchanged.                                                 *)
(*                                                                         *)
(* A file has one content for ever.  Of an object's stored location the    *)
(* model keeps whether it is the key the gateway writes today or the URL   *)
(* that an earlier version stored: two names of the same object.  Left out *)
(* are sizes and hashes, attempts and backoff of a garbage entry, and the  *)
(* S3 slots (S3Slots).                                                     *)
(***************************************************************************)
EXTENDS Naturals, FiniteSets

CONSTANTS
    Shas,       \* contents
    Files,      \* files that are uploaded in one behaviour
    Content,    \* the content of each
    Legacy,     \* those that an earlier version stored, with a URL for location
    Uploaders,  \* upload requests at a time
    Sweepers,   \* blob sweepers, one per gateway
    Movers,     \* blob migration workers, one per gateway
    Readers,    \* readers of a file's bytes at a time
    Nobody,
    Backends,   \* where an administrator may have new blobs go
    Faults      \* what may go wrong, see below

FaultKinds == {
    "put",      \* a retain ends without its COMMIT, before or after its PUT
    "insert",   \* the insert of the file's row is refused
    "crash",    \* the gateway dies between the retain and the insert
    "reply",    \* the insert commits but its answer is lost
    "delete" }  \* a sweep or a garbage delete ends without its COMMIT

Storages == {"db", "s3"}
Locations == {"key", "url"}

Actors == Uploaders \cup Sweepers \cup Movers

ASSUME BlobAssumption ==
    /\ Content \in [Files -> Shas]
    /\ Legacy \subseteq Files
    /\ IsFiniteSet(Files)
    /\ IsFiniteSet(Uploaders)
    /\ Nobody \notin Actors
    /\ Uploaders \cap Sweepers = {}
    /\ Uploaders \cap Movers = {}
    /\ Sweepers \cap Movers = {}
    /\ Backends \subseteq Storages
    /\ Faults \subseteq FaultKinds

VARIABLES
    backend,    \* blob_storage.backend: where new blobs go
    row,        \* file_blobs
    garbage,    \* file_blob_garbage, of S3 objects, by content and location
    objects,    \* contents that have their object in S3
    file,       \* fs_files
    lock,       \* holder of the advisory lock of each content
    up,         \* what each upload request is doing
    sweep,      \* what each sweeper is doing
    read        \* what each reader is doing

blobVars == <<backend, row, garbage, objects, file, lock, up, sweep, read>>

Rows == [storage : Storages \cup {"none"}, location : Locations, refs : Nat,
         delete_after : {"null", "grace", "due"}]
NoRow == [storage |-> "none", location |-> "key", refs |-> 0, delete_after |-> "null"]

Entries == [state : {"none", "waiting", "due", "leased", "lapsed"},
            lease : Sweepers \cup {Nobody}]
NoEntry == [state |-> "none", lease |-> Nobody]
Queued  == [state |-> "waiting", lease |-> Nobody]

Uploads == [pc : {"idle", "put", "commit", "insert", "undo"},
            file : Files \cup {Nobody}, target : Storages]
NoUpload == [pc |-> "idle", file |-> Nobody, target |-> "db"]

Sweeps == [pc : {"idle", "delete", "commit", "collect", "collected"},
           sha : Shas \cup {Nobody}, location : Locations]
NoSweep == [pc |-> "idle", sha |-> Nobody, location |-> "key"]

\* sure: the file was there when the reader looked the blob's row up.
Reads == [pc : {"idle", "get", "again", "missing"}, sha : Shas \cup {Nobody},
          location : Locations, sure : BOOLEAN]
NoRead == [pc |-> "idle", sha |-> Nobody, location |-> "key", sure |-> FALSE]

BlobTypeOK ==
    /\ backend \in Storages
    /\ row \in [Shas -> Rows]
    /\ garbage \in [Shas -> [Locations -> Entries]]
    /\ objects \subseteq Shas
    /\ file \in [Files -> {"new", "coming", "stored", "gone"}]
    /\ lock \in [Shas -> Actors \cup {Nobody}]
    /\ up \in [Uploaders -> Uploads]
    /\ sweep \in [Sweepers -> Sweeps]
    /\ read \in [Readers -> Reads]

---------------------------------------------------------------------------
(* Helpers *)

StoredFiles(sha) == {f \in Files : Content[f] = sha /\ file[f] = "stored"}

\* Requests that hold a reference for a file whose row is not there (yet).
Inserting(sha) ==
    {u \in Uploaders : /\ up[u].pc \in {"insert", "undo"}
                       /\ file[up[u].file] = "coming"
                       /\ Content[up[u].file] = sha}

InS3(sha) == row[sha].storage = "s3"

\* A sweeper of garbage locks the content but not the blob's row.
Collecting(sha) == \E s \in Sweepers : sweep[s].sha = sha /\ sweep[s].pc \in {"collect", "collected"}
RowFree(sha) == lock[sha] = Nobody \/ Collecting(sha)

\* Seeded fault: a count that is zero already is lowered again.
Released_BelowZero(r) ==
    IF r.refs # 1 THEN [r EXCEPT !.refs = @ - 1]
    ELSE [r EXCEPT !.refs = 0, !.delete_after = "grace"]

\* The last reference gone, the row waits for the sweeper.
Released(r) ==
    IF r.refs > 1 THEN [r EXCEPT !.refs = @ - 1]
    ELSE [r EXCEPT !.refs = 0, !.delete_after = "grace"]

BlobInit ==
    /\ backend \in Backends
    /\ file = [f \in Files |-> IF f \in Legacy THEN "stored" ELSE "new"]
    /\ row = [sha \in Shas |->
                LET held == {f \in Legacy : Content[f] = sha} IN
                IF held = {} THEN NoRow
                ELSE [storage |-> "s3", location |-> "url", refs |-> Cardinality(held),
                      delete_after |-> "null"]]
    /\ objects = {Content[f] : f \in Legacy}
    /\ garbage = [sha \in Shas |-> [l \in Locations |-> NoEntry]]
    /\ lock = [sha \in Shas |-> Nobody]
    /\ up = [u \in Uploaders |-> NoUpload]
    /\ sweep = [s \in Sweepers |-> NoSweep]
    /\ read = [r \in Readers |-> NoRead]

---------------------------------------------------------------------------
(* Uploads: retain, then the file's row *)

\* An administrator changes where new blobs go.
Reconfigure ==
    /\ backend' \in Backends \ {backend}
    /\ UNCHANGED <<row, garbage, objects, file, lock, up, sweep, read>>

\* The bytes are written to S3 when new blobs go there, and when a released
\* row that is there is revived.
NeedsPut(sha, target) ==
    target = "s3" \/ (InS3(sha) /\ row[sha].delete_after # "null")

\* Seeded fault: a row that is revived stays released.
Retained_StaysReleased(sha, target) ==
    IF row[sha] = NoRow
    THEN [storage |-> target, location |-> "key", refs |-> 1, delete_after |-> "null"]
    ELSE [row[sha] EXCEPT !.refs = @ + 1,
                          !.location = IF InS3(sha) /\ NeedsPut(sha, target) THEN "key" ELSE @]

Retained(sha, target) ==
    IF row[sha] = NoRow
    THEN [storage |-> target, location |-> "key", refs |-> 1, delete_after |-> "null"]
    ELSE [row[sha] EXCEPT !.refs = @ + 1, !.delete_after = "null",
                          !.location = IF InS3(sha) /\ NeedsPut(sha, target) THEN "key" ELSE @]

\* Seeded fault: the object of a row that is elsewhere is not queued.
EntryAfterPut_Never(sha) == NoEntry

\* After its PUT a retain cancels the delete of the key it wrote, or queues it
\* when the row is elsewhere and the object belongs to no row.
EntryAfterPut(sha) == IF row[sha].storage = "db" THEN Queued ELSE NoEntry

\* The row of the file is written in the retain's own transaction (completion
\* of an upload) or by a statement of its own afterwards (POST /files).
FileFollows(u, f) ==
    \/ /\ file' = [file EXCEPT ![f] = "stored"]
       /\ up' = [up EXCEPT ![u] = NoUpload]
    \/ /\ file' = [file EXCEPT ![f] = "coming"]
       /\ up' = [up EXCEPT ![u] = [pc |-> "insert", file |-> f, target |-> backend]]

RetainInDb(u, f) ==
    LET sha == Content[f] IN
    /\ up[u].pc = "idle"
    /\ file[f] = "new"
    /\ lock[sha] = Nobody
    /\ ~NeedsPut(sha, backend)
    /\ row' = [row EXCEPT ![sha] = Retained(sha, backend)]
    /\ FileFollows(u, f)
    /\ UNCHANGED <<backend, garbage, objects, lock, sweep, read>>

StartRetain(u, f) ==
    LET sha == Content[f] IN
    /\ up[u].pc = "idle"
    /\ file[f] = "new"
    /\ lock[sha] = Nobody
    /\ NeedsPut(sha, backend)
    /\ lock' = [lock EXCEPT ![sha] = u]
    /\ file' = [file EXCEPT ![f] = "coming"]
    /\ up' = [up EXCEPT ![u] = [pc |-> "put", file |-> f, target |-> backend]]
    /\ UNCHANGED <<backend, row, garbage, objects, sweep, read>>

RetainPuts(u) ==
    /\ up[u].pc = "put"
    /\ objects' = objects \cup {Content[up[u].file]}
    /\ up' = [up EXCEPT ![u].pc = "commit"]
    /\ UNCHANGED <<backend, row, garbage, file, lock, sweep, read>>

CommitRetain(u) ==
    LET f == up[u].file
        sha == Content[f] IN
    /\ up[u].pc = "commit"
    /\ row' = [row EXCEPT ![sha] = Retained(sha, up[u].target)]
    /\ garbage' = [garbage EXCEPT ![sha].key = EntryAfterPut(sha)]
    /\ lock' = [lock EXCEPT ![sha] = Nobody]
    /\ FileFollows(u, f)
    /\ UNCHANGED <<backend, objects, sweep, read>>

RetainFails(u) ==
    LET f == up[u].file IN
    /\ "put" \in Faults
    /\ up[u].pc \in {"put", "commit"}
    /\ lock' = [lock EXCEPT ![Content[f]] = Nobody]
    /\ file' = [file EXCEPT ![f] = "gone"]
    /\ up' = [up EXCEPT ![u] = NoUpload]
    /\ UNCHANGED <<backend, row, garbage, objects, sweep, read>>

\* The foreign key makes the insert wait for the lock of the blob's row.
InsertFile(u) ==
    LET f == up[u].file IN
    /\ up[u].pc = "insert"
    /\ RowFree(Content[f])
    /\ row[Content[f]] # NoRow
    /\ file' = [file EXCEPT ![f] = "stored"]
    /\ \/ up' = [up EXCEPT ![u] = NoUpload]
       \/ /\ "reply" \in Faults
          /\ up' = [up EXCEPT ![u].pc = "undo"]
    /\ UNCHANGED <<backend, row, garbage, objects, lock, sweep, read>>

InsertFails(u) ==
    /\ "insert" \in Faults
    /\ up[u].pc = "insert"
    /\ up' = [up EXCEPT ![u].pc = "undo"]
    /\ UNCHANGED <<backend, row, garbage, objects, file, lock, sweep, read>>

\* The request that saw its insert fail gives its reference back.
UndoRetain(u) ==
    LET f == up[u].file
        sha == Content[f] IN
    /\ up[u].pc = "undo"
    /\ RowFree(sha)
    /\ row' = [row EXCEPT ![sha] = IF @ = NoRow THEN NoRow ELSE Released(@)]
    /\ file' = [file EXCEPT ![f] = IF @ = "coming" THEN "gone" ELSE @]
    /\ up' = [up EXCEPT ![u] = NoUpload]
    /\ UNCHANGED <<backend, garbage, objects, lock, sweep, read>>

UploadCrashes(u) ==
    LET f == up[u].file IN
    /\ "crash" \in Faults
    /\ up[u].pc \in {"insert", "undo"}
    /\ file' = [file EXCEPT ![f] = IF @ = "coming" THEN "gone" ELSE @]
    /\ up' = [up EXCEPT ![u] = NoUpload]
    /\ UNCHANGED <<backend, row, garbage, objects, lock, sweep, read>>

\* Delete of a file, by its owner or the expiry sweeper: its row and its
\* reference go in one transaction.
DeleteFile(f) ==
    LET sha == Content[f] IN
    /\ file[f] = "stored"
    /\ RowFree(sha)
    /\ file' = [file EXCEPT ![f] = "gone"]
    /\ row' = [row EXCEPT ![sha] = Released(@)]
    /\ UNCHANGED <<backend, garbage, objects, lock, up, sweep, read>>

UploadStep(u) ==
    \/ \E f \in Files : RetainInDb(u, f) \/ StartRetain(u, f)
    \/ RetainPuts(u) \/ CommitRetain(u) \/ RetainFails(u)
    \/ InsertFile(u) \/ InsertFails(u) \/ UndoRetain(u) \/ UploadCrashes(u)

---------------------------------------------------------------------------
(* Readers *)

\* A db row carries its bytes: that read is done at once and leaves no trace.
LookUp(r, f) ==
    LET sha == Content[f] IN
    /\ read[r].pc = "idle"
    /\ file[f] \in {"stored", "gone"}
    /\ row[sha].storage # "db"
    /\ read' = [read EXCEPT ![r] =
                    [pc |-> IF InS3(sha) THEN "get" ELSE "missing",
                     sha |-> sha, location |-> row[sha].location,
                     sure |-> file[f] = "stored"]]
    /\ UNCHANGED <<backend, row, garbage, objects, file, lock, up, sweep>>

Get(r) ==
    /\ read[r].pc = "get"
    /\ read' = [read EXCEPT ![r] = IF @.sha \in objects THEN NoRead ELSE [@ EXCEPT !.pc = "again"]]
    /\ UNCHANGED <<backend, row, garbage, objects, file, lock, up, sweep>>

\* Seeded fault: the row is not read once more.
LookAgain_Never(r) ==
    /\ read[r].pc = "again"
    /\ read' = [read EXCEPT ![r].pc = "missing"]
    /\ UNCHANGED <<backend, row, garbage, objects, file, lock, up, sweep>>

\* An object that is not there: the row is read once more, and followed only
\* if it names another place now.
LookAgain(r) ==
    LET sha == read[r].sha
        moved == \/ row[sha].storage = "db"
                 \/ InS3(sha) /\ row[sha].location # read[r].location /\ sha \in objects IN
    /\ read[r].pc = "again"
    /\ read' = [read EXCEPT ![r] = IF moved THEN NoRead ELSE [@ EXCEPT !.pc = "missing"]]
    /\ UNCHANGED <<backend, row, garbage, objects, file, lock, up, sweep>>

ReadRefused(r) ==
    /\ read[r].pc = "missing"
    /\ read' = [read EXCEPT ![r] = NoRead]
    /\ UNCHANGED <<backend, row, garbage, objects, file, lock, up, sweep>>

ReadStep(r) ==
    \/ \E f \in Files : LookUp(r, f)
    \/ Get(r) \/ LookAgain(r) \/ ReadRefused(r)

---------------------------------------------------------------------------
(* Time *)

\* The grace (15 minutes) is longer than a read of an object (2 minutes at
\* most) and than the time between a retain and the insert of its file's row.
Unhurried(sha) ==
    /\ \A r \in Readers : ~(read[r].pc \in {"get", "again"} /\ read[r].sha = sha)
    /\ Inserting(sha) = {}

ReleaseComesDue(sha) ==
    /\ row[sha].delete_after = "grace"
    /\ Unhurried(sha)
    /\ row' = [row EXCEPT ![sha].delete_after = "due"]
    /\ UNCHANGED <<backend, garbage, objects, file, lock, up, sweep, read>>

GarbageComesDue(sha, l) ==
    /\ garbage[sha][l].state = "waiting"
    /\ Unhurried(sha)
    /\ garbage' = [garbage EXCEPT ![sha][l].state = "due"]
    /\ UNCHANGED <<backend, row, objects, file, lock, up, sweep, read>>

\* The lease of a claimed entry lapses: its sweeper died, or is slow.
GarbageLeaseLapses(sha, l) ==
    /\ garbage[sha][l].state = "leased"
    /\ garbage' = [garbage EXCEPT ![sha][l].state = "lapsed"]
    /\ UNCHANGED <<backend, row, objects, file, lock, up, sweep, read>>

Time == \E sha \in Shas :
    \/ ReleaseComesDue(sha)
    \/ \E l \in Locations : GarbageComesDue(sha, l) \/ GarbageLeaseLapses(sha, l)

---------------------------------------------------------------------------
(* Blob sweeper: released rows *)

IsDue(sha) == row[sha].delete_after = "due" /\ row[sha].refs = 0

\* Seeded fault: the row is not looked at again under its lock.
SweepsRow_NoLock(s, sha) == sweep[s].pc = "idle" /\ IsDue(sha)

\* Found due again under the locks.
SweepsRow(s, sha) == sweep[s].pc = "idle" /\ lock[sha] = Nobody /\ IsDue(sha)

SweepDbRow(s, sha) ==
    /\ SweepsRow(s, sha)
    /\ row[sha].storage = "db"
    /\ StoredFiles(sha) = {}
    /\ row' = [row EXCEPT ![sha] = NoRow]
    /\ UNCHANGED <<backend, garbage, objects, file, lock, up, sweep, read>>

\* A file still refers to the row: the foreign key refuses its delete and the
\* count is taken anew from the files.
RepairRow(s, sha) ==
    /\ SweepsRow(s, sha)
    /\ StoredFiles(sha) # {}
    /\ row' = [row EXCEPT ![sha].refs = Cardinality(StoredFiles(sha)),
                          ![sha].delete_after = "null"]
    /\ UNCHANGED <<backend, garbage, objects, file, lock, up, sweep, read>>

StartSweep(s, sha) ==
    /\ SweepsRow(s, sha)
    /\ InS3(sha)
    /\ StoredFiles(sha) = {}
    /\ lock' = [lock EXCEPT ![sha] = s]
    /\ sweep' = [sweep EXCEPT ![s] = [NoSweep EXCEPT !.pc = "delete", !.sha = sha]]
    /\ UNCHANGED <<backend, row, garbage, objects, file, up, read>>

SweepDeletes(s) ==
    /\ sweep[s].pc = "delete"
    /\ objects' = objects \ {sweep[s].sha}
    /\ sweep' = [sweep EXCEPT ![s].pc = "commit"]
    /\ UNCHANGED <<backend, row, garbage, file, lock, up, read>>

CommitSweep(s) ==
    LET sha == sweep[s].sha IN
    /\ sweep[s].pc = "commit"
    /\ row' = [row EXCEPT ![sha] = NoRow]
    /\ lock' = [lock EXCEPT ![sha] = Nobody]
    /\ sweep' = [sweep EXCEPT ![s] = NoSweep]
    /\ UNCHANGED <<backend, garbage, objects, file, up, read>>

\* S3 cannot be addressed now (its configuration or credentials are missing):
\* the row goes and its object is left to the garbage pass.
ParkObject(s) ==
    LET sha == sweep[s].sha IN
    /\ sweep[s].pc = "delete"
    /\ row' = [row EXCEPT ![sha] = NoRow]
    /\ garbage' = [garbage EXCEPT ![sha][row[sha].location] = Queued]
    /\ lock' = [lock EXCEPT ![sha] = Nobody]
    /\ sweep' = [sweep EXCEPT ![s] = NoSweep]
    /\ UNCHANGED <<backend, objects, file, up, read>>

\* The row stays, released; a sweeper that lives puts it off.
SweepFails(s) ==
    LET sha == sweep[s].sha IN
    /\ "delete" \in Faults
    /\ sweep[s].pc \in {"delete", "commit"}
    /\ \E d \in {"grace", "due"} : row' = [row EXCEPT ![sha].delete_after = d]
    /\ lock' = [lock EXCEPT ![sha] = Nobody]
    /\ sweep' = [sweep EXCEPT ![s] = NoSweep]
    /\ UNCHANGED <<backend, garbage, objects, file, up, read>>

---------------------------------------------------------------------------
(* Blob sweeper: garbage *)

\* A transaction that holds the content's lock may hold its entries as well.
EntryFree(sha) == lock[sha] \notin Sweepers \cup Movers

ClaimGarbage(s, sha, l) ==
    /\ sweep[s].pc = "idle"
    /\ garbage[sha][l].state \in {"due", "lapsed"}
    /\ EntryFree(sha)
    /\ garbage' = [garbage EXCEPT ![sha][l] = [state |-> "leased", lease |-> s]]
    /\ UNCHANGED <<backend, row, objects, file, lock, up, sweep, read>>

\* Still this sweeper's: neither cancelled, nor queued anew, nor claimed anew.
TakesEntry(s, sha, l) ==
    /\ sweep[s].pc = "idle"
    /\ garbage[sha][l].lease = s
    /\ lock[sha] = Nobody

\* A row of the content is in S3, and its object may be the one this entry
\* names: the entry goes, the object stays.
DropEntry(s, sha, l) ==
    /\ TakesEntry(s, sha, l)
    /\ InS3(sha)
    /\ garbage' = [garbage EXCEPT ![sha][l] = NoEntry]
    /\ UNCHANGED <<backend, row, objects, file, lock, up, sweep, read>>

StartCollect(s, sha, l) ==
    /\ TakesEntry(s, sha, l)
    /\ ~InS3(sha)
    /\ lock' = [lock EXCEPT ![sha] = s]
    /\ sweep' = [sweep EXCEPT ![s] = [pc |-> "collect", sha |-> sha, location |-> l]]
    /\ UNCHANGED <<backend, row, garbage, objects, file, up, read>>

CollectDeletes(s) ==
    /\ sweep[s].pc = "collect"
    /\ objects' = objects \ {sweep[s].sha}
    /\ sweep' = [sweep EXCEPT ![s].pc = "collected"]
    /\ UNCHANGED <<backend, row, garbage, file, lock, up, read>>

\* Seeded fault: the entry that is removed is always that of the key of today.
CommitCollect_KeyOnly(s) ==
    LET sha == sweep[s].sha IN
    /\ sweep[s].pc = "collected"
    /\ garbage' = [garbage EXCEPT ![sha].key = NoEntry]
    /\ lock' = [lock EXCEPT ![sha] = Nobody]
    /\ sweep' = [sweep EXCEPT ![s] = NoSweep]
    /\ UNCHANGED <<backend, row, objects, file, up, read>>

CommitCollect(s) ==
    LET sha == sweep[s].sha IN
    /\ sweep[s].pc = "collected"
    /\ garbage' = [garbage EXCEPT ![sha][sweep[s].location] = NoEntry]
    /\ lock' = [lock EXCEPT ![sha] = Nobody]
    /\ sweep' = [sweep EXCEPT ![s] = NoSweep]
    /\ UNCHANGED <<backend, row, objects, file, up, read>>

\* The entry stays: backed off, or with the lease of a sweeper that died.
CollectFails(s) ==
    LET sha == sweep[s].sha IN
    /\ "delete" \in Faults
    /\ sweep[s].pc \in {"collect", "collected"}
    /\ \/ garbage' = [garbage EXCEPT ![sha][sweep[s].location] = Queued]
       \/ UNCHANGED garbage
    /\ lock' = [lock EXCEPT ![sha] = Nobody]
    /\ sweep' = [sweep EXCEPT ![s] = NoSweep]
    /\ UNCHANGED <<backend, row, objects, file, up, read>>

SweepStep(s) ==
    \/ \E sha \in Shas : SweepDbRow(s, sha) \/ RepairRow(s, sha) \/ StartSweep(s, sha)
    \/ SweepDeletes(s) \/ CommitSweep(s) \/ ParkObject(s) \/ SweepFails(s)
    \/ \E sha \in Shas, l \in Locations :
           ClaimGarbage(s, sha, l) \/ DropEntry(s, sha, l) \/ StartCollect(s, sha, l)
    \/ CollectDeletes(s) \/ CommitCollect(s) \/ CollectFails(s)

---------------------------------------------------------------------------

BlobNext ==
    \/ Reconfigure
    \/ \E u \in Uploaders : UploadStep(u)
    \/ \E f \in Files : DeleteFile(f)
    \/ \E r \in Readers : ReadStep(r)
    \/ Time
    \/ \E s \in Sweepers : SweepStep(s)

BlobSpec == BlobInit /\ [][BlobNext]_blobVars

---------------------------------------------------------------------------
(* Safety *)

\* The contents whose bytes their row leads to.
Kept == {sha \in Shas : row[sha].storage = "db" \/ (InS3(sha) /\ sha \in objects)}

(***************************************************************************)
(* No file loses its bytes: whatever sweeps, garbage deletes, retains and  *)
(* moves are interleaved, and wherever one of them stops half-way, the row *)
(* of a stored file's content leads to the bytes.  A released content that *)
(* is uploaded again counts from the commit of its retain.                 *)
(***************************************************************************)
FilesKeepTheirBytes == \A f \in Files : file[f] = "stored" => Content[f] \in Kept

(***************************************************************************)
(* A reader that looked its blob up while the file existed gets the bytes, *)
(* although the file may be deleted, the blob swept or moved to the other  *)
(* storage before the object is fetched.                                   *)
(***************************************************************************)
ReadersAreServed == \A r \in Readers : ~(read[r].pc = "missing" /\ read[r].sure)

\* A count that is right: one for each file and for each upload about to add
\* one, and the row released exactly when that is none.
Exact(sha) == row[sha] # NoRow =>
    /\ row[sha].refs = Cardinality(StoredFiles(sha)) + Cardinality(Inserting(sha))
    /\ row[sha].delete_after = "null" <=> row[sha].refs > 0

\* The ends of an upload that a count cannot survive: its gateway dies before
\* the insert, or it gives back a reference whose insert had committed.
LosesCount(u) ==
    \/ UploadCrashes(u)
    \/ UndoRetain(u) /\ file[up[u].file] # "coming"

(***************************************************************************)
(* A reference count goes wrong only by the death of a gateway between the *)
(* retain and the insert, or by the lost answer to an insert: no           *)
(* interleaving of uploads, deletes, repairs and sweeps, failed ones       *)
(* included, turns a right count into a wrong one.                         *)
(***************************************************************************)
CountsDriftByLossOnly == [][
    \A sha \in Shas : Exact(sha) => Exact(sha)' \/ \E u \in Uploaders : LosesCount(u)]_blobVars

\* An object in S3 that a row leads to, or that waits for its delete.
Accounted(sha) == InS3(sha) \/ \E l \in Locations : garbage[sha][l] # NoEntry

\* Nobody's object: no transaction is at work on its content either.
Stray(sha) == sha \in objects /\ ~Accounted(sha) /\ lock[sha] = Nobody

(***************************************************************************)
(* No object is forgotten in S3: one that no row leads to any more is in   *)
(* the garbage, unless a transaction is at work on its content.  Only a    *)
(* retain that ends between its PUT and its COMMIT leaves one behind.      *)
(***************************************************************************)
ObjectsStrayByLossOnly == [][
    \A sha \in Shas : Stray(sha)' => Stray(sha) \/ \E u \in Uploaders : RetainFails(u)]_blobVars

---------------------------------------------------------------------------
(* What the component promises *)

Store == INSTANCE ContentStore WITH
            status <- [f \in Files |-> IF file[f] = "coming" THEN "new" ELSE file[f]],
            kept <- Kept

(***************************************************************************)
(* Blob storage implements the content store: bytes are forgotten only     *)
(* while no file holds them, one content at a time, and a file appears     *)
(* only with its bytes.                                                    *)
(***************************************************************************)
ImplementsStore == Store!Spec

---------------------------------------------------------------------------
(* Liveness *)

\* Sweepers run for ever and come to every row, time passes (a grace waits for
\* no second reader), and no request or COMMIT fails every time it is tried.
Retries(s, sha) ==
    /\ SF_blobVars(SweepDbRow(s, sha) \/ RepairRow(s, sha) \/ StartSweep(s, sha))
    /\ SF_blobVars(SweepDeletes(s) \/ ParkObject(s))
    /\ SF_blobVars(CommitSweep(s))
    /\ SF_blobVars(\E l \in Locations : ClaimGarbage(s, sha, l))
    /\ SF_blobVars(\E l \in Locations : DropEntry(s, sha, l) \/ StartCollect(s, sha, l))
    /\ SF_blobVars(CollectDeletes(s))
    /\ SF_blobVars(CommitCollect(s))

BlobFairness ==
    /\ \A sha \in Shas :
           /\ SF_blobVars(ReleaseComesDue(sha))
           /\ \A l \in Locations : /\ SF_blobVars(GarbageComesDue(sha, l))
                                  /\ WF_blobVars(GarbageLeaseLapses(sha, l))
           /\ \A s \in Sweepers : Retries(s, sha)
    /\ \A s \in Sweepers : WF_blobVars(SweepStep(s) /\ sweep[s].pc # "idle")
    /\ \A u \in Uploaders : WF_blobVars(UploadStep(u) /\ up[u].pc # "idle")
    /\ \A r \in Readers : WF_blobVars(ReadStep(r) /\ read[r].pc # "idle")

FairBlobSpec == BlobSpec /\ BlobFairness

(***************************************************************************)
(* A released row is revived or swept, and a garbage entry is collected,   *)
(* dropped or cancelled: deletes that fail or lose their sweeper do not    *)
(* strand either.                                                          *)
(***************************************************************************)
LeftoversGo ==
    \A sha \in Shas :
        /\ row[sha].delete_after # "null" ~> row[sha].delete_after = "null"
        /\ \A l \in Locations : garbage[sha][l] # NoEntry ~> garbage[sha][l] = NoEntry
============================================================================
