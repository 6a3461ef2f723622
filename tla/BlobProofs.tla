----------------------------- MODULE BlobProofs -----------------------------
(***************************************************************************)
(* What Blobs keeps, for every number of contents, files, uploads, sweepers*)
(* and readers, and whatever fails.  The invariant says who may hold a     *)
(* content's lock, what an upload and a sweep know while they hold it, and *)
(* what a row whose object is gone can still be: released, with no file.   *)
(***************************************************************************)
EXTENDS Blobs, FiniteSetTheorems, TLAPS

\* An upload that is at work has a file, a sweep a content; each holds the lock
\* of the content as long as it makes storage requests.
Locks ==
    /\ \A u \in Uploaders :
           /\ up[u].pc # "idle" => up[u].file \in Files
           /\ up[u].pc \in {"put", "commit"} => lock[Content[up[u].file]] = u
    /\ \A s \in Sweepers :
           sweep[s].pc # "idle" => sweep[s].sha \in Shas /\ lock[sweep[s].sha] = s

\* A file is uploaded once, and it is not there before its upload is done.
UploadsSound ==
    /\ \A u \in Uploaders :
           /\ up[u].pc \in {"put", "commit", "insert"} => file[up[u].file] = "coming"
           /\ up[u].pc = "undo" => file[up[u].file] # "new"
           /\ up[u].pc = "commit" => Content[up[u].file] \in objects
    /\ \A u, v \in Uploaders :
           up[u].pc # "idle" /\ up[v].pc # "idle" /\ up[u].file = up[v].file => u = v

\* No file refers to the content, and no upload is about to make one do so.
NoFile(sha) == \A f \in Files : ~(Content[f] = sha /\ file[f] = "stored")
NoInsert(sha) ==
    \A u \in Uploaders : ~(/\ up[u].pc \in {"insert", "undo"}
                           /\ file[up[u].file] = "coming"
                           /\ Content[up[u].file] = sha)
Unused(sha) == NoFile(sha) /\ NoInsert(sha)

\* What a sweep found when it took the lock stays so until it gives it back.
SweepsSound ==
    \A s \in Sweepers :
        /\ sweep[s].pc \in {"delete", "commit"} =>
               /\ InS3(sweep[s].sha) /\ row[sweep[s].sha].delete_after # "null"
               /\ Unused(sweep[s].sha)
        /\ sweep[s].pc \in {"collect", "collected"} => ~InS3(sweep[s].sha)

\* A row that leads nowhere is released, and nothing refers to it.
RowSound(sha) ==
    /\ row[sha].storage = "none" => row[sha] = NoRow
    /\ row[sha].delete_after = "due" => NoInsert(sha)
    /\ InS3(sha) /\ sha \notin objects => row[sha].delete_after # "null" /\ Unused(sha)
    /\ row[sha].storage = "none" => NoFile(sha)

RowsSound == \A sha \in Shas : RowSound(sha)

BlobInv == BlobTypeOK /\ Locks /\ UploadsSound /\ SweepsSound /\ RowsSound

---------------------------------------------------------------------------
(* Rows and entries stay in their types. *)

LEMMA RowUpdates ==
    ASSUME NEW r \in Rows
    PROVE  /\ NoRow \in Rows
           /\ \A d \in {"null", "grace", "due"} : [r EXCEPT !.delete_after = d] \in Rows
           /\ \A n \in Nat : [r EXCEPT !.refs = n, !.delete_after = "null"] \in Rows
           /\ Released(r) \in Rows
<1>1. NoRow \in Rows
  BY DEF Rows, NoRow, Locations
<1>2. \A d \in {"null", "grace", "due"} : [r EXCEPT !.delete_after = d] \in Rows
  BY DEF Rows
<1>3. \A n \in Nat : [r EXCEPT !.refs = n, !.delete_after = "null"] \in Rows
  BY DEF Rows
<1>4. CASE r.refs > 1
  <2>1. r.refs - 1 \in Nat
    BY <1>4 DEF Rows
  <2>. QED
    BY <1>1, <1>2, <1>3, <1>4, <2>1 DEF Rows, Released
<1>5. CASE ~(r.refs > 1)
  BY <1>1, <1>2, <1>3, <1>5 DEF Rows, Released
<1>. QED
  BY <1>4, <1>5

LEMMA RetainedRow ==
    ASSUME BlobTypeOK, NEW sha \in Shas, NEW target \in Storages
    PROVE  /\ Retained(sha, target) \in Rows
           /\ Retained(sha, target).delete_after = "null"
           /\ Retained(sha, target).storage = IF row[sha] = NoRow THEN target ELSE row[sha].storage
<1>1. row[sha] \in Rows
  BY DEF BlobTypeOK
<1>2. CASE row[sha] = NoRow
  BY <1>2 DEF Retained, Rows, Storages, Locations
<1>3. CASE row[sha] # NoRow
  <2>. DEFINE at == IF InS3(sha) /\ NeedsPut(sha, target) THEN "key" ELSE row[sha].location
  <2>1. at \in Locations /\ row[sha].refs + 1 \in Nat
    BY <1>1 DEF Rows, Locations
  <2>2. Retained(sha, target) = [row[sha] EXCEPT !.refs = row[sha].refs + 1,
                                                 !.delete_after = "null", !.location = at]
    BY <1>1, <1>3 DEF Retained, Rows
  <2>. HIDE DEF at
  <2>. QED
    BY <1>1, <1>3, <2>1, <2>2 DEF Rows
<1>. QED
  BY <1>2, <1>3

LEMMA ReleasedRow ==
    ASSUME NEW r \in Rows
    PROVE  /\ Released(r).storage = r.storage
           /\ Released(r).location = r.location
           /\ Released(r).delete_after \in {r.delete_after, "grace"}
  BY DEF Released, Rows

LEMMA UploadUpdates ==
    /\ NoUpload \in Uploads
    /\ \A pc \in {"put", "insert"}, f \in Files, b \in Storages :
           [pc |-> pc, file |-> f, target |-> b] \in Uploads
    /\ \A x \in Uploads, pc \in {"commit", "undo"} : [x EXCEPT !.pc = pc] \in Uploads
  BY DEF NoUpload, Uploads, Storages

LEMMA SweepUpdates ==
    /\ NoSweep \in Sweeps
    /\ \A sha \in Shas : [NoSweep EXCEPT !.pc = "delete", !.sha = sha] \in Sweeps
    /\ \A sha \in Shas, l \in Locations : [pc |-> "collect", sha |-> sha, location |-> l] \in Sweeps
    /\ \A x \in Sweeps, pc \in {"commit", "collected"} : [x EXCEPT !.pc = pc] \in Sweeps
  BY DEF NoSweep, Sweeps, Locations

LEMMA EntryUpdates ==
    /\ NoEntry \in Entries /\ Queued \in Entries
    /\ \A sha : EntryAfterPut(sha) \in Entries
    /\ \A s \in Sweepers : [state |-> "leased", lease |-> s] \in Entries
    /\ \A e \in Entries, x \in {"due", "lapsed"} : [e EXCEPT !.state = x] \in Entries
  BY DEF NoEntry, Queued, Entries, EntryAfterPut

LEMMA GarbageTable ==
    ASSUME BlobTypeOK, NEW sha \in Shas, NEW l \in Locations, NEW e \in Entries
    PROVE  [garbage EXCEPT ![sha][l] = e] \in [Shas -> [Locations -> Entries]]
  BY DEF BlobTypeOK

---------------------------------------------------------------------------
LEMMA InitBlobInv == BlobInit => BlobInv
<1>. SUFFICES ASSUME BlobInit PROVE BlobInv
  OBVIOUS
<1>. USE BlobAssumption DEF BlobInit
<1>1. \A sha \in Shas : Cardinality({f \in Legacy : Content[f] = sha}) \in Nat
  <2>. TAKE sha \in Shas
  <2>1. IsFiniteSet({f \in Legacy : Content[f] = sha})
    BY FS_Subset
  <2>. QED
    BY <2>1, FS_CardinalityType
<1>2. \A sha \in Shas : row[sha] \in Rows
  BY <1>1 DEF Rows, NoRow, Storages, Locations
<1>3. BlobTypeOK
  BY <1>2, UploadUpdates, SweepUpdates, EntryUpdates
     DEF BlobTypeOK, Storages, Reads, NoRead, Locations, Actors
<1>4. Locks /\ UploadsSound /\ SweepsSound
  BY DEF Locks, UploadsSound, SweepsSound, NoUpload, NoSweep
<1>5. RowsSound
  <2>. SUFFICES ASSUME NEW sha \in Shas PROVE RowSound(sha)
    BY DEF RowsSound
  <2>1. CASE {f \in Legacy : Content[f] = sha} = {}
    BY <2>1 DEF RowSound, NoRow, NoFile, NoInsert, Unused, InS3, NoUpload
  <2>2. CASE {f \in Legacy : Content[f] = sha} # {}
    BY <2>2 DEF RowSound, NoRow, NoFile, NoInsert, Unused, InS3, NoUpload
  <2>. QED
    BY <2>1, <2>2
<1>. QED
  BY <1>3, <1>4, <1>5 DEF BlobInv

---------------------------------------------------------------------------
(* What a step leaves alone. *)

\* A row that is not written, for whose content no reference is added.
LEMMA RowStays ==
    ASSUME NEW sha, RowSound(sha), row'[sha] = row[sha],
           sha \in objects => sha \in objects',
           NoFile(sha) => NoFile(sha)', NoInsert(sha) => NoInsert(sha)'
    PROVE  RowSound(sha)'
  BY DEF RowSound, InS3, Unused

\* References only go.
LEMMA NoReference ==
    ASSUME NEW sha,
           \A f \in Files : file'[f] = "stored" => file[f] = "stored",
           \A u \in Uploaders :
               (up'[u].pc \in {"insert", "undo"} /\ file'[up'[u].file] = "coming") =>
                   /\ up[u].pc \in {"insert", "undo"} /\ file[up[u].file] = "coming"
                   /\ up'[u].file = up[u].file
    PROVE  /\ NoFile(sha) => NoFile(sha)'
           /\ NoInsert(sha) => NoInsert(sha)'
  BY DEF NoFile, NoInsert

\* Sweeps that are not at work on the content that a step writes.
LEMMA SweepsStay ==
    ASSUME SweepsSound, sweep' = sweep,
           \A s \in Sweepers : sweep[s].pc # "idle" =>
               /\ row'[sweep[s].sha] = row[sweep[s].sha]
               /\ NoFile(sweep[s].sha) => NoFile(sweep[s].sha)'
               /\ NoInsert(sweep[s].sha) => NoInsert(sweep[s].sha)'
    PROVE  SweepsSound'
  BY DEF SweepsSound, Unused, InS3

\* An upload that was idle and works on a new file now.
LEMMA UploadStarts ==
    ASSUME UploadsSound, NEW u \in Uploaders, NEW f \in Files,
           up[u].pc = "idle", file[f] = "new", objects' = objects,
           up'[u].pc = "idle" \/ (up'[u].pc \in {"put", "insert"} /\ up'[u].file = f
                                 /\ file'[f] = "coming"),
           \A v \in Uploaders :
               /\ v # u => up'[v] = up[v]
               /\ up[v].pc # "idle" => up[v].file \in Files
               /\ up[v].pc \in {"idle", "put", "commit", "insert", "undo"},
           \A g \in Files : g # f => file'[g] = file[g]
    PROVE  UploadsSound'
<1>1. \A v \in Uploaders : up[v].pc # "idle" => up[v].file # f /\ file'[up[v].file] = file[up[v].file]
  BY DEF UploadsSound
<1>2. \A v, x \in Uploaders :
          up'[v].pc # "idle" /\ up'[x].pc # "idle" /\ up'[v].file = up'[x].file => v = x
  BY <1>1 DEF UploadsSound
<1>3. \A v \in Uploaders :
          /\ up'[v].pc \in {"put", "commit", "insert"} => file'[up'[v].file] = "coming"
          /\ up'[v].pc = "undo" => file'[up'[v].file] # "new"
          /\ up'[v].pc = "commit" => Content[up'[v].file] \in objects'
  BY <1>1 DEF UploadsSound
<1>. QED
  BY <1>2, <1>3 DEF UploadsSound

---------------------------------------------------------------------------
(* Uploads *)

\* A retain's last step, as far as the file goes.
LEMMA FileFollowsTyped ==
    ASSUME BlobTypeOK, NEW u \in Uploaders, NEW f \in Files, FileFollows(u, f)
    PROVE  /\ file' \in [Files -> {"new", "coming", "stored", "gone"}]
           /\ up' \in [Uploaders -> Uploads]
           /\ file'[f] \in {"stored", "coming"}
           /\ \A g \in Files : g # f => file'[g] = file[g]
           /\ \A v \in Uploaders : v # u => up'[v] = up[v]
           /\ \/ up'[u] = NoUpload
              \/ /\ file'[f] = "coming"
                 /\ up'[u] = [pc |-> "insert", file |-> f, target |-> backend]
<1>1. CASE /\ file' = [file EXCEPT ![f] = "stored"]
           /\ up' = [up EXCEPT ![u] = NoUpload]
  BY <1>1, UploadUpdates DEF BlobTypeOK
<1>2. CASE /\ file' = [file EXCEPT ![f] = "coming"]
           /\ up' = [up EXCEPT ![u] = [pc |-> "insert", file |-> f, target |-> backend]]
  BY <1>2, UploadUpdates DEF BlobTypeOK
<1>. QED
  BY <1>1, <1>2 DEF FileFollows

LEMMA RetainInDbKeeps ==
    ASSUME BlobInv, NEW u \in Uploaders, NEW f \in Files, RetainInDb(u, f)
    PROVE  BlobInv'
<1>. DEFINE sha == Content[f]
<1>. USE BlobAssumption DEF BlobInv
<1>1. sha \in Shas /\ up[u].pc = "idle" /\ file[f] = "new" /\ lock[sha] = Nobody
  BY DEF RetainInDb
<1>2. /\ row' = [row EXCEPT ![sha] = Retained(sha, backend)]
      /\ UNCHANGED <<backend, garbage, objects, lock, sweep, read>>
      /\ FileFollows(u, f)
  BY DEF RetainInDb
<1>3. backend \in Storages /\ Retained(sha, backend) \in Rows
      /\ Retained(sha, backend).delete_after = "null"
      /\ Retained(sha, backend).storage = IF row[sha] = NoRow THEN backend ELSE row[sha].storage
  BY <1>1, RetainedRow DEF BlobTypeOK
<1>4. /\ file'[f] \in {"stored", "coming"} /\ \A g \in Files : g # f => file'[g] = file[g]
      /\ up'[u] = NoUpload \/ (file'[f] = "coming" /\ up'[u] = [pc |-> "insert", file |-> f, target |-> backend])
      /\ \A v \in Uploaders : v # u => up'[v] = up[v]
  BY <1>2, FileFollowsTyped
<1>5. BlobTypeOK'
  BY <1>2, <1>3, FileFollowsTyped DEF BlobTypeOK
<1>6. Locks'
  BY <1>2, <1>4 DEF Locks, NoUpload
<1>7. UploadsSound'
  <2>1. \A v \in Uploaders :
            /\ up[v].pc # "idle" => up[v].file \in Files
            /\ up[v].pc \in {"idle", "put", "commit", "insert", "undo"}
    BY DEF Locks, BlobTypeOK, Uploads
  <2>2. up'[u].pc = "idle" \/ (up'[u].pc = "insert" /\ up'[u].file = f /\ file'[f] = "coming")
    BY <1>4 DEF NoUpload
  <2>. QED
    BY <1>1, <1>2, <1>4, <2>1, <2>2, UploadStarts
<1>8. \A c \in Shas : c # sha => (NoFile(c) => NoFile(c)') /\ (NoInsert(c) => NoInsert(c)')
  BY <1>1, <1>4 DEF NoFile, NoInsert, NoUpload, Locks, UploadsSound
<1>9. SweepsSound'
  <2>1. \A s \in Sweepers : sweep[s].pc # "idle" => sweep[s].sha \in Shas /\ sweep[s].sha # sha
    BY <1>1 DEF Locks, Actors
  <2>. QED
    BY <1>2, <1>8, <2>1, SweepsStay DEF BlobTypeOK
<1>10. RowsSound'
  <2>. SUFFICES ASSUME NEW c \in Shas PROVE RowSound(c)'
    BY DEF RowsSound
  <2>1. CASE c # sha
    BY <1>2, <1>8, <2>1, RowStays DEF RowsSound, BlobTypeOK
  <2>2. CASE c = sha
    <3>1. row'[sha] = Retained(sha, backend)
      BY <1>1, <1>2 DEF BlobTypeOK
    <3>2. ~NeedsPut(sha, backend)
      BY DEF RetainInDb
    <3>3. row'[sha].storage = "s3" => sha \in objects'
      BY <1>1, <1>2, <1>3, <3>1, <3>2 DEF NeedsPut, InS3, RowsSound, RowSound, NoRow
    <3>4. row'[sha].storage # "none"
      BY <1>1, <1>3, <3>1 DEF RowsSound, RowSound, Storages
    <3>. QED
      BY <1>3, <2>2, <3>1, <3>3, <3>4 DEF RowSound, InS3
  <2>. QED
    BY <2>1, <2>2
<1>. QED
  BY <1>5, <1>6, <1>7, <1>9, <1>10

LEMMA StartRetainKeeps ==
    ASSUME BlobInv, NEW u \in Uploaders, NEW f \in Files, StartRetain(u, f)
    PROVE  BlobInv'
<1>. DEFINE sha == Content[f]
<1>. USE BlobAssumption DEF BlobInv
<1>1. /\ sha \in Shas /\ up[u].pc = "idle" /\ file[f] = "new" /\ lock[sha] = Nobody
      /\ lock' = [lock EXCEPT ![sha] = u]
      /\ file' = [file EXCEPT ![f] = "coming"]
      /\ up' = [up EXCEPT ![u] = [pc |-> "put", file |-> f, target |-> backend]]
      /\ UNCHANGED <<backend, row, garbage, objects, sweep, read>>
  BY DEF StartRetain
<1>2. BlobTypeOK'
  BY <1>1, UploadUpdates DEF BlobTypeOK, Actors
<1>3. Locks'
  BY <1>1 DEF Locks, BlobTypeOK, Actors
<1>4. UploadsSound'
  <2>1. \A v \in Uploaders :
            /\ up[v].pc # "idle" => up[v].file \in Files
            /\ up[v].pc \in {"idle", "put", "commit", "insert", "undo"}
    BY DEF Locks, BlobTypeOK, Uploads
  <2>2. /\ up'[u].pc = "put" /\ up'[u].file = f /\ file'[f] = "coming"
        /\ \A v \in Uploaders : v # u => up'[v] = up[v]
        /\ \A g \in Files : g # f => file'[g] = file[g]
    BY <1>1 DEF BlobTypeOK
  <2>. QED
    BY <1>1, <2>1, <2>2, UploadStarts
<1>5. \A c : (NoFile(c) => NoFile(c)') /\ (NoInsert(c) => NoInsert(c)')
  BY <1>1 DEF NoFile, NoInsert, BlobTypeOK, Locks, UploadsSound
<1>6. SweepsSound'
  BY <1>1, <1>5, SweepsStay
<1>7. RowsSound'
  BY <1>1, <1>5, RowStays DEF RowsSound
<1>. QED
  BY <1>2, <1>3, <1>4, <1>6, <1>7

LEMMA RetainPutsKeeps ==
    ASSUME BlobInv, NEW u \in Uploaders, RetainPuts(u)
    PROVE  BlobInv'
<1>. USE BlobAssumption DEF BlobInv
<1>1. /\ up[u].pc = "put" /\ up[u].file \in Files /\ Content[up[u].file] \in Shas
      /\ objects' = objects \cup {Content[up[u].file]}
      /\ up' = [up EXCEPT ![u].pc = "commit"]
      /\ UNCHANGED <<backend, row, garbage, file, lock, sweep, read>>
  BY DEF RetainPuts, Locks
<1>2. BlobTypeOK'
  BY <1>1, UploadUpdates DEF BlobTypeOK
<1>3. /\ up'[u].pc = "commit" /\ up'[u].file = up[u].file
      /\ \A v \in Uploaders : v # u => up'[v] = up[v]
  BY <1>1 DEF BlobTypeOK, Uploads
<1>4. Locks'
  BY <1>1, <1>3 DEF Locks
<1>5. UploadsSound'
  BY <1>1, <1>3 DEF UploadsSound
<1>6. \A c : (NoFile(c) => NoFile(c)') /\ (NoInsert(c) => NoInsert(c)')
  BY <1>1, <1>3 DEF NoFile, NoInsert
<1>7. SweepsSound'
  BY <1>1, <1>6, SweepsStay
<1>8. RowsSound'
  BY <1>1, <1>6, RowStays DEF RowsSound
<1>. QED
  BY <1>2, <1>4, <1>5, <1>7, <1>8

LEMMA CommitRetainKeeps ==
    ASSUME BlobInv, NEW u \in Uploaders, CommitRetain(u)
    PROVE  BlobInv'
<1>. DEFINE f == up[u].file
            sha == Content[f]
            target == up[u].target
<1>. USE BlobAssumption DEF BlobInv
<1>1. /\ up[u].pc = "commit" /\ f \in Files /\ sha \in Shas /\ lock[sha] = u /\ sha \in objects
      /\ file[f] = "coming" /\ target \in Storages
  BY DEF CommitRetain, Locks, UploadsSound, BlobTypeOK, Uploads
<1>2. /\ row' = [row EXCEPT ![sha] = Retained(sha, target)]
      /\ garbage' = [garbage EXCEPT ![sha]["key"] = EntryAfterPut(sha)]
      /\ lock' = [lock EXCEPT ![sha] = Nobody]
      /\ UNCHANGED <<backend, objects, sweep, read>>
      /\ FileFollows(u, f)
  BY DEF CommitRetain
<1>3. Retained(sha, target) \in Rows
      /\ Retained(sha, target).delete_after = "null"
      /\ Retained(sha, target).storage = IF row[sha] = NoRow THEN target ELSE row[sha].storage
  BY <1>1, RetainedRow
<1>4. /\ file'[f] \in {"stored", "coming"} /\ \A g \in Files : g # f => file'[g] = file[g]
      /\ up'[u] = NoUpload \/ (file'[f] = "coming" /\ up'[u] = [pc |-> "insert", file |-> f, target |-> backend])
      /\ \A v \in Uploaders : v # u => up'[v] = up[v]
  BY <1>1, <1>2, FileFollowsTyped
<1>5. BlobTypeOK'
  <2>1. row' \in [Shas -> Rows] /\ lock' \in [Shas -> Actors \cup {Nobody}]
    BY <1>1, <1>2, <1>3 DEF BlobTypeOK
  <2>2. garbage' \in [Shas -> [Locations -> Entries]]
    BY <1>1, <1>2, GarbageTable, EntryUpdates DEF Locations
  <2>3. file' \in [Files -> {"new", "coming", "stored", "gone"}] /\ up' \in [Uploaders -> Uploads]
    BY <1>1, <1>2, FileFollowsTyped
  <2>. QED
    BY <1>2, <2>1, <2>2, <2>3 DEF BlobTypeOK
<1>6. \A v \in Uploaders : v # u /\ up[v].pc # "idle" => up[v].file # f
  BY <1>1 DEF UploadsSound
<1>7. Locks'
  <2>1. \A v \in Uploaders : v # u /\ up[v].pc \in {"put", "commit"} =>
            Content[up[v].file] # sha /\ Content[up[v].file] \in Shas
    BY <1>1 DEF Locks
  <2>2. \A s \in Sweepers : sweep[s].pc # "idle" => sweep[s].sha # sha
    BY <1>1 DEF Locks, Actors
  <2>. QED
    BY <1>1, <1>2, <1>4, <2>1, <2>2 DEF Locks, NoUpload, BlobTypeOK
<1>8. UploadsSound'
  BY <1>1, <1>2, <1>4, <1>6 DEF UploadsSound, Locks, NoUpload
<1>9. \A c \in Shas : c # sha => (NoFile(c) => NoFile(c)') /\ (NoInsert(c) => NoInsert(c)')
  BY <1>1, <1>4, <1>6 DEF NoFile, NoInsert, NoUpload, Locks
<1>10. SweepsSound'
  <2>1. \A s \in Sweepers : sweep[s].pc # "idle" => sweep[s].sha \in Shas /\ sweep[s].sha # sha
    BY <1>1 DEF Locks
  <2>. QED
    BY <1>2, <1>9, <2>1, SweepsStay DEF BlobTypeOK
<1>11. RowsSound'
  <2>. SUFFICES ASSUME NEW c \in Shas PROVE RowSound(c)'
    BY DEF RowsSound
  <2>1. CASE c # sha
    BY <1>2, <1>9, <2>1, RowStays DEF RowsSound, BlobTypeOK
  <2>2. CASE c = sha
    <3>1. row'[sha] = Retained(sha, target)
      BY <1>1, <1>2 DEF BlobTypeOK
    <3>2. row'[sha].storage # "none"
      BY <1>1, <1>3, <3>1 DEF RowsSound, RowSound, Storages
    <3>. QED
      BY <1>1, <1>2, <1>3, <2>2, <3>1, <3>2 DEF RowSound, InS3
  <2>. QED
    BY <2>1, <2>2
<1>. QED
  BY <1>5, <1>7, <1>8, <1>10, <1>11

\* An upload that ends, or waits only for its reference to be given back.
LEMMA UploadEnds ==
    ASSUME UploadsSound, Locks, NEW u \in Uploaders, up[u].pc # "idle", objects' = objects,
           up'[u].pc \in {"idle", "undo"}, up'[u].pc = "undo" => up'[u].file = up[u].file,
           file'[up[u].file] = "new" => up'[u].pc = "idle",
           \A v \in Uploaders : v # u => up'[v] = up[v],
           \A g \in Files : g # up[u].file => file'[g] = file[g]
    PROVE  UploadsSound'
<1>1. \A v \in Uploaders : v # u /\ up[v].pc # "idle" => file'[up[v].file] = file[up[v].file]
  BY DEF UploadsSound, Locks
<1>2. \A v, x \in Uploaders :
          up'[v].pc # "idle" /\ up'[x].pc # "idle" /\ up'[v].file = up'[x].file => v = x
  BY DEF UploadsSound
<1>3. \A v \in Uploaders :
          /\ up'[v].pc \in {"put", "commit", "insert"} => file'[up'[v].file] = "coming"
          /\ up'[v].pc = "undo" => file'[up'[v].file] # "new"
          /\ up'[v].pc = "commit" => Content[up'[v].file] \in objects'
  BY <1>1 DEF UploadsSound
<1>. QED
  BY <1>2, <1>3 DEF UploadsSound

LEMMA RetainFailsKeeps ==
    ASSUME BlobInv, NEW u \in Uploaders, RetainFails(u)
    PROVE  BlobInv'
<1>. DEFINE f == up[u].file
            sha == Content[f]
<1>. USE BlobAssumption DEF BlobInv
<1>1. /\ up[u].pc \in {"put", "commit"} /\ f \in Files /\ sha \in Shas /\ lock[sha] = u
      /\ file[f] = "coming"
      /\ lock' = [lock EXCEPT ![sha] = Nobody]
      /\ file' = [file EXCEPT ![f] = "gone"]
      /\ up' = [up EXCEPT ![u] = NoUpload]
      /\ UNCHANGED <<backend, row, garbage, objects, sweep, read>>
  BY DEF RetainFails, Locks, UploadsSound
<1>2. BlobTypeOK'
  BY <1>1, UploadUpdates DEF BlobTypeOK
<1>3. /\ up'[u].pc = "idle"
      /\ \A v \in Uploaders : v # u => up'[v] = up[v]
      /\ file'[f] = "gone"
      /\ \A g \in Files : g # f => file'[g] = file[g]
  BY <1>1 DEF BlobTypeOK, NoUpload
<1>4. Locks'
  <2>1. \A v \in Uploaders : v # u /\ up[v].pc \in {"put", "commit"} =>
            Content[up[v].file] # sha /\ Content[up[v].file] \in Shas
    BY <1>1 DEF Locks
  <2>2. \A s \in Sweepers : sweep[s].pc # "idle" => sweep[s].sha # sha
    BY <1>1 DEF Locks, Actors
  <2>. QED
    BY <1>1, <1>3, <2>1, <2>2 DEF Locks, BlobTypeOK
<1>5. UploadsSound'
  BY <1>1, <1>3, UploadEnds
<1>6. \A c : (NoFile(c) => NoFile(c)') /\ (NoInsert(c) => NoInsert(c)')
  BY <1>1, <1>3 DEF NoFile, NoInsert, Locks, UploadsSound
<1>7. SweepsSound'
  BY <1>1, <1>6, SweepsStay
<1>8. RowsSound'
  BY <1>1, <1>6, RowStays DEF RowsSound
<1>. QED
  BY <1>2, <1>4, <1>5, <1>7, <1>8

\* A row that is free, or whose content only a sweeper of garbage has locked.
LEMMA FreeRow ==
    ASSUME BlobInv, NEW sha \in Shas, RowFree(sha), NEW s \in Sweepers,
           sweep[s].pc \in {"delete", "commit"}
    PROVE  sweep[s].sha # sha
<1>1. \A t \in Sweepers : sweep[t].pc # "idle" => lock[sweep[t].sha] = t
  BY DEF BlobInv, Locks
<1>2. s # Nobody
  BY BlobAssumption DEF Actors
<1>. QED
  BY <1>1, <1>2 DEF RowFree, Collecting

LEMMA InsertFileKeeps ==
    ASSUME BlobInv, NEW u \in Uploaders, InsertFile(u)
    PROVE  BlobInv'
<1>. DEFINE f == up[u].file
            sha == Content[f]
<1>. USE BlobAssumption DEF BlobInv
<1>1. /\ up[u].pc = "insert" /\ f \in Files /\ sha \in Shas /\ file[f] = "coming"
      /\ RowFree(sha) /\ row[sha] # NoRow
      /\ file' = [file EXCEPT ![f] = "stored"]
      /\ up' = [up EXCEPT ![u] = NoUpload] \/ up' = [up EXCEPT ![u].pc = "undo"]
      /\ UNCHANGED <<backend, row, garbage, objects, lock, sweep, read>>
  BY DEF InsertFile, Locks, UploadsSound
<1>2. BlobTypeOK'
  <2>1. CASE up' = [up EXCEPT ![u] = NoUpload]
    BY <1>1, <2>1, UploadUpdates DEF BlobTypeOK
  <2>2. CASE up' = [up EXCEPT ![u].pc = "undo"]
    BY <1>1, <2>2, UploadUpdates DEF BlobTypeOK
  <2>. QED
    BY <1>1, <2>1, <2>2
<1>3. /\ up'[u].pc = "idle" \/ (up'[u].pc = "undo" /\ up'[u].file = f)
      /\ \A v \in Uploaders : v # u => up'[v] = up[v]
      /\ file'[f] = "stored"
      /\ \A g \in Files : g # f => file'[g] = file[g]
  BY <1>1 DEF BlobTypeOK, NoUpload, Uploads
<1>4. Locks'
  BY <1>1, <1>3 DEF Locks
<1>5. UploadsSound'
  BY <1>1, <1>3, UploadEnds
<1>6. \A c \in Shas : /\ NoInsert(c) => NoInsert(c)'
                      /\ c # sha => (NoFile(c) => NoFile(c)')
  BY <1>1, <1>3 DEF NoFile, NoInsert, Locks, UploadsSound
<1>7. ~NoInsert(sha)
  BY <1>1 DEF NoInsert
<1>8. SweepsSound'
  <2>1. \A s \in Sweepers : sweep[s].pc \in {"delete", "commit"} =>
            sweep[s].sha \in Shas /\ sweep[s].sha # sha
    BY <1>1, FreeRow DEF Locks
  <2>. QED
    BY <1>1, <1>6, <2>1 DEF SweepsSound, Unused, InS3
<1>9. RowsSound'
  <2>. SUFFICES ASSUME NEW c \in Shas PROVE RowSound(c)'
    BY DEF RowsSound
  <2>1. CASE c # sha
    BY <1>1, <1>6, <2>1, RowStays DEF RowsSound
  <2>2. CASE c = sha
    BY <1>1, <1>6, <1>7, <2>2 DEF RowsSound, RowSound, Unused, InS3
  <2>. QED
    BY <2>1, <2>2
<1>. QED
  BY <1>2, <1>4, <1>5, <1>8, <1>9

LEMMA InsertFailsKeeps ==
    ASSUME BlobInv, NEW u \in Uploaders, InsertFails(u)
    PROVE  BlobInv'
<1>. USE BlobAssumption DEF BlobInv
<1>1. /\ up[u].pc = "insert" /\ up[u].file \in Files /\ file[up[u].file] = "coming"
      /\ up' = [up EXCEPT ![u].pc = "undo"]
      /\ UNCHANGED <<backend, row, garbage, objects, file, lock, sweep, read>>
  BY DEF InsertFails, Locks, UploadsSound
<1>2. BlobTypeOK'
  BY <1>1, UploadUpdates DEF BlobTypeOK
<1>3. /\ up'[u].pc = "undo" /\ up'[u].file = up[u].file
      /\ \A v \in Uploaders : v # u => up'[v] = up[v]
  BY <1>1 DEF BlobTypeOK, Uploads
<1>4. Locks'
  BY <1>1, <1>3 DEF Locks
<1>5. UploadsSound'
  BY <1>1, <1>3, UploadEnds
<1>6. \A c : (NoFile(c) => NoFile(c)') /\ (NoInsert(c) => NoInsert(c)')
  BY <1>1, <1>3 DEF NoFile, NoInsert
<1>7. SweepsSound'
  BY <1>1, <1>6, SweepsStay
<1>8. RowsSound'
  BY <1>1, <1>6, RowStays DEF RowsSound
<1>. QED
  BY <1>2, <1>4, <1>5, <1>7, <1>8

\* A reference goes with its upload or its file.
LEMMA ReferenceGoes ==
    ASSUME BlobInv, NEW sha \in Shas, RowFree(sha), row[sha] # NoRow,
           row' = [row EXCEPT ![sha] = Released(row[sha])],
           UNCHANGED <<objects, sweep>>,
           \A c : (NoFile(c) => NoFile(c)') /\ (NoInsert(c) => NoInsert(c)')
    PROVE  SweepsSound' /\ RowsSound'
<1>. USE DEF BlobInv
<1>1. /\ row'[sha] = Released(row[sha])
      /\ \A c \in Shas : c # sha => row'[c] = row[c]
      /\ row[sha] \in Rows
  BY DEF BlobTypeOK
<1>2. /\ row'[sha].storage = row[sha].storage
      /\ row'[sha].delete_after \in {row[sha].delete_after, "grace"}
  BY <1>1, ReleasedRow
<1>3. SweepsSound'
  <2>1. \A s \in Sweepers : sweep[s].pc # "idle" => sweep[s].sha \in Shas
    BY DEF Locks
  <2>2. \A s \in Sweepers : sweep[s].pc \in {"delete", "commit"} => sweep[s].sha # sha
    BY FreeRow
  <2>. QED
    BY <1>1, <1>2, <2>1, <2>2 DEF SweepsSound, Unused, InS3
<1>4. RowsSound'
  <2>. SUFFICES ASSUME NEW c \in Shas PROVE RowSound(c)'
    BY DEF RowsSound
  <2>1. CASE c # sha
    BY <1>1, <2>1, RowStays DEF RowsSound
  <2>2. CASE c = sha
    BY <1>1, <1>2, <2>2 DEF RowsSound, RowSound, Unused, InS3
  <2>. QED
    BY <2>1, <2>2
<1>. QED
  BY <1>3, <1>4

LEMMA UndoRetainKeeps ==
    ASSUME BlobInv, NEW u \in Uploaders, UndoRetain(u)
    PROVE  BlobInv'
<1>. DEFINE f == up[u].file
            sha == Content[f]
<1>. USE BlobAssumption DEF BlobInv
<1>1. /\ up[u].pc = "undo" /\ f \in Files /\ sha \in Shas /\ file[f] # "new"
      /\ RowFree(sha)
      /\ row' = [row EXCEPT ![sha] = IF row[sha] = NoRow THEN NoRow ELSE Released(row[sha])]
      /\ file' = [file EXCEPT ![f] = IF file[f] = "coming" THEN "gone" ELSE file[f]]
      /\ up' = [up EXCEPT ![u] = NoUpload]
      /\ UNCHANGED <<backend, garbage, objects, lock, sweep, read>>
  BY DEF UndoRetain, Locks, UploadsSound
<1>2. BlobTypeOK'
  <2>1. row[sha] \in Rows
    BY <1>1 DEF BlobTypeOK
  <2>2. row' \in [Shas -> Rows]
    BY <1>1, <2>1, RowUpdates DEF BlobTypeOK
  <2>. QED
    BY <1>1, <2>2, UploadUpdates DEF BlobTypeOK
<1>3. /\ up'[u].pc = "idle"
      /\ \A v \in Uploaders : v # u => up'[v] = up[v]
      /\ file'[f] \in {"gone", file[f]} /\ file'[f] # "coming"
      /\ \A g \in Files : g # f => file'[g] = file[g]
  BY <1>1 DEF BlobTypeOK, NoUpload
<1>4. Locks'
  BY <1>1, <1>3 DEF Locks
<1>5. UploadsSound'
  BY <1>1, <1>3, UploadEnds
<1>6. \A c : (NoFile(c) => NoFile(c)') /\ (NoInsert(c) => NoInsert(c)')
  BY <1>1, <1>3 DEF NoFile, NoInsert, Locks, UploadsSound
<1>7. SweepsSound' /\ RowsSound'
  <2>1. CASE row[sha] = NoRow
    <3>1. row' = row
      BY <1>1, <2>1 DEF BlobTypeOK
    <3>. QED
      BY <1>1, <1>6, <3>1, SweepsStay, RowStays DEF RowsSound
  <2>2. CASE row[sha] # NoRow
    BY <1>1, <1>6, <2>2, ReferenceGoes
  <2>. QED
    BY <2>1, <2>2
<1>. QED
  BY <1>2, <1>4, <1>5, <1>7

LEMMA UploadCrashesKeeps ==
    ASSUME BlobInv, NEW u \in Uploaders, UploadCrashes(u)
    PROVE  BlobInv'
<1>. DEFINE f == up[u].file
<1>. USE BlobAssumption DEF BlobInv
<1>1. /\ up[u].pc \in {"insert", "undo"} /\ f \in Files /\ file[f] # "new"
      /\ file' = [file EXCEPT ![f] = IF file[f] = "coming" THEN "gone" ELSE file[f]]
      /\ up' = [up EXCEPT ![u] = NoUpload]
      /\ UNCHANGED <<backend, row, garbage, objects, lock, sweep, read>>
  BY DEF UploadCrashes, Locks, UploadsSound
<1>2. BlobTypeOK'
  BY <1>1, UploadUpdates DEF BlobTypeOK
<1>3. /\ up'[u].pc = "idle"
      /\ \A v \in Uploaders : v # u => up'[v] = up[v]
      /\ file'[f] \in {"gone", file[f]} /\ file'[f] # "coming"
      /\ \A g \in Files : g # f => file'[g] = file[g]
  BY <1>1 DEF BlobTypeOK, NoUpload
<1>4. Locks'
  BY <1>1, <1>3 DEF Locks
<1>5. UploadsSound'
  BY <1>1, <1>3, UploadEnds
<1>6. \A c : (NoFile(c) => NoFile(c)') /\ (NoInsert(c) => NoInsert(c)')
  BY <1>1, <1>3 DEF NoFile, NoInsert, Locks, UploadsSound
<1>7. SweepsSound'
  BY <1>1, <1>6, SweepsStay
<1>8. RowsSound'
  BY <1>1, <1>6, RowStays DEF RowsSound
<1>. QED
  BY <1>2, <1>4, <1>5, <1>7, <1>8

LEMMA DeleteFileKeeps ==
    ASSUME BlobInv, NEW f \in Files, DeleteFile(f)
    PROVE  BlobInv'
<1>. DEFINE sha == Content[f]
<1>. USE BlobAssumption DEF BlobInv
<1>1. /\ sha \in Shas /\ file[f] = "stored" /\ RowFree(sha)
      /\ file' = [file EXCEPT ![f] = "gone"]
      /\ row' = [row EXCEPT ![sha] = Released(row[sha])]
      /\ UNCHANGED <<backend, garbage, objects, lock, up, sweep, read>>
  BY DEF DeleteFile
<1>2. row[sha] \in Rows /\ row[sha] # NoRow
  BY <1>1 DEF BlobTypeOK, RowsSound, RowSound, NoFile, NoRow
<1>3. BlobTypeOK'
  BY <1>1, <1>2, RowUpdates DEF BlobTypeOK
<1>4. file'[f] = "gone" /\ \A g \in Files : g # f => file'[g] = file[g]
  BY <1>1 DEF BlobTypeOK
<1>5. Locks'
  BY <1>1 DEF Locks
<1>6. UploadsSound'
  BY <1>1, <1>4 DEF UploadsSound, Locks, BlobTypeOK, Uploads
<1>7. \A c : (NoFile(c) => NoFile(c)') /\ (NoInsert(c) => NoInsert(c)')
  BY <1>1, <1>4 DEF NoFile, NoInsert, Locks
<1>8. SweepsSound' /\ RowsSound'
  BY <1>1, <1>2, <1>7, ReferenceGoes
<1>. QED
  BY <1>3, <1>5, <1>6, <1>8

---------------------------------------------------------------------------
(* Readers, the administrator, time *)

LEMMA ReadStepKeeps ==
    ASSUME BlobInv, NEW r \in Readers, ReadStep(r)
    PROVE  BlobInv'
<1>. USE BlobAssumption DEF BlobInv
<1>1. UNCHANGED <<backend, row, garbage, objects, file, lock, up, sweep>>
  BY DEF ReadStep, LookUp, Get, LookAgain, ReadRefused
<1>2. NoRead \in Reads
  BY DEF NoRead, Reads, Locations
<1>3. read' \in [Readers -> Reads]
  <2>1. ASSUME NEW f \in Files, LookUp(r, f) PROVE read' \in [Readers -> Reads]
    <3>1. Content[f] \in Shas /\ row[Content[f]].location \in Locations
      BY DEF BlobTypeOK, Rows
    <3>. QED
      BY <2>1, <3>1 DEF LookUp, BlobTypeOK, Reads
  <2>2. CASE Get(r)
    BY <1>2, <2>2 DEF Get, BlobTypeOK, Reads
  <2>3. CASE LookAgain(r)
    BY <1>2, <2>3 DEF LookAgain, BlobTypeOK, Reads
  <2>4. CASE ReadRefused(r)
    BY <1>2, <2>4 DEF ReadRefused, BlobTypeOK
  <2>. QED
    BY <2>1, <2>2, <2>3, <2>4 DEF ReadStep
<1>4. BlobTypeOK'
  BY <1>1, <1>3 DEF BlobTypeOK
<1>. QED
  BY <1>1, <1>4 DEF Locks, UploadsSound, SweepsSound, RowsSound, RowSound, Unused, NoFile, NoInsert, InS3

LEMMA ReconfigureKeeps ==
    ASSUME BlobInv, Reconfigure
    PROVE  BlobInv'
<1>1. BlobTypeOK'
  BY BlobAssumption DEF BlobInv, Reconfigure, BlobTypeOK
<1>. QED
  BY <1>1 DEF BlobInv, Reconfigure, Locks, UploadsSound, SweepsSound, RowsSound, RowSound, Unused,
              NoFile, NoInsert, InS3

LEMMA ReleaseComesDueKeeps ==
    ASSUME BlobInv, NEW sha \in Shas, ReleaseComesDue(sha)
    PROVE  BlobInv'
<1>. USE DEF BlobInv
<1>1. /\ row[sha].delete_after = "grace" /\ Inserting(sha) = {}
      /\ row' = [row EXCEPT ![sha] = [row[sha] EXCEPT !.delete_after = "due"]]
      /\ UNCHANGED <<backend, garbage, objects, file, lock, up, sweep, read>>
  BY DEF ReleaseComesDue, Unhurried
<1>2. NoInsert(sha)
  BY <1>1 DEF NoInsert, Inserting
<1>3. row[sha] \in Rows /\ [row[sha] EXCEPT !.delete_after = "due"] \in Rows
  BY RowUpdates DEF BlobTypeOK
<1>4. BlobTypeOK'
  BY <1>1, <1>3 DEF BlobTypeOK
<1>5. /\ row'[sha].storage = row[sha].storage /\ row'[sha].delete_after = "due"
      /\ \A c \in Shas : c # sha => row'[c] = row[c]
  BY <1>1, <1>3 DEF BlobTypeOK, Rows
<1>6. \A c : NoFile(c)' = NoFile(c) /\ NoInsert(c)' = NoInsert(c)
  BY <1>1 DEF NoFile, NoInsert
<1>7. row[sha].storage # "none"
  BY <1>1 DEF RowsSound, RowSound, NoRow
<1>8. SweepsSound'
  BY <1>1, <1>5, <1>6 DEF SweepsSound, Unused, InS3, Locks
<1>9. RowsSound'
  <2>. SUFFICES ASSUME NEW c \in Shas PROVE RowSound(c)'
    BY DEF RowsSound
  <2>1. CASE c # sha
    BY <1>1, <1>5, <1>6, <2>1, RowStays DEF RowsSound
  <2>2. CASE c = sha
    BY <1>1, <1>2, <1>5, <1>6, <1>7, <2>2 DEF RowsSound, RowSound, Unused, InS3
  <2>. QED
    BY <2>1, <2>2
<1>. QED
  BY <1>1, <1>4, <1>8, <1>9 DEF Locks, UploadsSound

\* A step that writes entries of the garbage and nothing else.
LEMMA GarbageOnly ==
    ASSUME BlobInv, garbage' \in [Shas -> [Locations -> Entries]],
           UNCHANGED <<backend, row, objects, file, lock, up, sweep, read>>
    PROVE  BlobInv'
<1>1. BlobTypeOK'
  BY DEF BlobInv, BlobTypeOK
<1>. QED
  BY <1>1 DEF BlobInv, Locks, UploadsSound, SweepsSound, RowsSound, RowSound, Unused, NoFile,
              NoInsert, InS3

LEMMA TimeKeeps ==
    ASSUME BlobInv, Time
    PROVE  BlobInv'
<1>1. ASSUME NEW sha \in Shas, NEW l \in Locations, NEW x \in {"due", "lapsed"},
             garbage' = [garbage EXCEPT ![sha][l].state = x],
             UNCHANGED <<backend, row, objects, file, lock, up, sweep, read>>
      PROVE  BlobInv'
  <2>1. garbage[sha][l] \in Entries
    BY DEF BlobInv, BlobTypeOK
  <2>2. [garbage[sha][l] EXCEPT !.state = x] \in Entries
    BY <2>1, EntryUpdates
  <2>3. garbage' = [garbage EXCEPT ![sha][l] = [garbage[sha][l] EXCEPT !.state = x]]
    BY <1>1 DEF BlobInv, BlobTypeOK
  <2>. QED
    BY <1>1, <2>2, <2>3, GarbageTable, GarbageOnly DEF BlobInv
<1>. QED
  BY <1>1, ReleaseComesDueKeeps DEF Time, GarbageComesDue, GarbageLeaseLapses

---------------------------------------------------------------------------
(* Sweepers *)

\* A content that nobody has locked, or that the sweeper itself has, is no
\* other sweeper's and no upload's.
LEMMA OwnContent ==
    ASSUME BlobInv, NEW s \in Sweepers, sweep[s].pc # "idle"
    PROVE  /\ sweep[s].sha \in Shas /\ lock[sweep[s].sha] = s
           /\ \A t \in Sweepers : t # s /\ sweep[t].pc # "idle" => sweep[t].sha # sweep[s].sha
           /\ \A u \in Uploaders : up[u].pc \in {"put", "commit"} =>
                  Content[up[u].file] # sweep[s].sha
<1>1. \A u \in Uploaders : u # s
  BY BlobAssumption
<1>. QED
  BY <1>1 DEF BlobInv, Locks

LEMMA UnlockedContent ==
    ASSUME BlobInv, NEW sha \in Shas, lock[sha] = Nobody
    PROVE  /\ \A t \in Sweepers : sweep[t].pc # "idle" => sweep[t].sha # sha
           /\ \A u \in Uploaders : up[u].pc \in {"put", "commit"} => Content[up[u].file] # sha
  BY BlobAssumption DEF BlobInv, Locks, Actors

\* A sweeper takes the lock of a content.
LEMMA SweepStarts ==
    ASSUME BlobInv, NEW s \in Sweepers, NEW sha \in Shas, lock[sha] = Nobody,
           sweep[s].pc = "idle", lock' = [lock EXCEPT ![sha] = s],
           sweep'[s].sha = sha, \A t \in Sweepers : t # s => sweep'[t] = sweep[t],
           up' = up
    PROVE  Locks' /\ lock' \in [Shas -> Actors \cup {Nobody}]
<1>1. \A u \in Uploaders : up[u].pc \in {"put", "commit"} => Content[up[u].file] \in Shas
  BY BlobAssumption DEF BlobInv, Locks
<1>2. \A c \in Shas : c # sha => lock'[c] = lock[c]
  BY DEF BlobInv, BlobTypeOK
<1>3. lock'[sha] = s /\ lock' \in [Shas -> Actors \cup {Nobody}]
  BY DEF BlobInv, BlobTypeOK, Actors
<1>4. \A u \in Uploaders : /\ up'[u].pc # "idle" => up'[u].file \in Files
                           /\ up'[u].pc \in {"put", "commit"} => lock'[Content[up'[u].file]] = u
  BY <1>1, <1>2, UnlockedContent DEF BlobInv, Locks
<1>5. \A t \in Sweepers :
          sweep'[t].pc # "idle" => sweep'[t].sha \in Shas /\ lock'[sweep'[t].sha] = t
  BY <1>2, <1>3, UnlockedContent DEF BlobInv, Locks
<1>. QED
  BY <1>3, <1>4, <1>5 DEF Locks

\* A sweeper gives it back.
LEMMA SweepEnds ==
    ASSUME BlobInv, NEW s \in Sweepers, sweep[s].pc # "idle",
           lock' = [lock EXCEPT ![sweep[s].sha] = Nobody],
           sweep' = [sweep EXCEPT ![s] = NoSweep], up' = up
    PROVE  /\ Locks' /\ lock' \in [Shas -> Actors \cup {Nobody}]
           /\ sweep' \in [Sweepers -> Sweeps]
           /\ sweep'[s].pc = "idle" /\ \A t \in Sweepers : t # s => sweep'[t] = sweep[t]
<1>1. \A u \in Uploaders : up[u].pc \in {"put", "commit"} => Content[up[u].file] \in Shas
  BY BlobAssumption DEF BlobInv, Locks
<1>2. /\ sweep' \in [Sweepers -> Sweeps] /\ lock' \in [Shas -> Actors \cup {Nobody}]
      /\ sweep'[s].pc = "idle" /\ \A t \in Sweepers : t # s => sweep'[t] = sweep[t]
      /\ \A c \in Shas : c # sweep[s].sha => lock'[c] = lock[c]
  BY SweepUpdates DEF BlobInv, BlobTypeOK, NoSweep
<1>3. \A u \in Uploaders : /\ up'[u].pc # "idle" => up'[u].file \in Files
                           /\ up'[u].pc \in {"put", "commit"} => lock'[Content[up'[u].file]] = u
  BY <1>1, <1>2, OwnContent DEF BlobInv, Locks
<1>4. \A t \in Sweepers :
          sweep'[t].pc # "idle" => sweep'[t].sha \in Shas /\ lock'[sweep'[t].sha] = t
  BY <1>2, OwnContent DEF BlobInv, Locks
<1>. QED
  BY <1>2, <1>3, <1>4 DEF Locks

\* References that a step leaves alone.
LEMMA SameReferences ==
    ASSUME UNCHANGED <<file, up>>
    PROVE  \A c : NoFile(c)' = NoFile(c) /\ NoInsert(c)' = NoInsert(c) /\ Unused(c)' = Unused(c)
  BY DEF NoFile, NoInsert, Unused

LEMMA SweepDbRowKeeps ==
    ASSUME BlobInv, NEW s \in Sweepers, NEW sha \in Shas, SweepDbRow(s, sha)
    PROVE  BlobInv'
<1>. USE DEF BlobInv
<1>1. /\ lock[sha] = Nobody /\ StoredFiles(sha) = {}
      /\ row' = [row EXCEPT ![sha] = NoRow]
      /\ UNCHANGED <<backend, garbage, objects, file, lock, up, sweep, read>>
  BY DEF SweepDbRow, SweepsRow
<1>2. BlobTypeOK' /\ row'[sha] = NoRow /\ \A c \in Shas : c # sha => row'[c] = row[c]
  <2>1. row[sha] \in Rows
    BY DEF BlobTypeOK
  <2>. QED
    BY <1>1, <2>1, RowUpdates DEF BlobTypeOK
<1>3. NoFile(sha)
  BY <1>1 DEF NoFile, StoredFiles
<1>4. SweepsSound'
  <2>1. \A t \in Sweepers : sweep[t].pc # "idle" => row'[sweep[t].sha] = row[sweep[t].sha]
    BY <1>1, <1>2, UnlockedContent DEF Locks
  <2>. QED
    BY <1>1, <2>1, SameReferences, SweepsStay
<1>5. RowsSound'
  BY <1>1, <1>2, <1>3, SameReferences DEF RowsSound, RowSound, InS3, NoRow
<1>. QED
  BY <1>1, <1>2, <1>4, <1>5 DEF Locks, UploadsSound

LEMMA RepairRowKeeps ==
    ASSUME BlobInv, NEW s \in Sweepers, NEW sha \in Shas, RepairRow(s, sha)
    PROVE  BlobInv'
<1>. DEFINE n == Cardinality(StoredFiles(sha))
<1>. USE DEF BlobInv
<1>1. /\ lock[sha] = Nobody /\ StoredFiles(sha) # {}
      /\ row' = [row EXCEPT ![sha].refs = n, ![sha].delete_after = "null"]
      /\ UNCHANGED <<backend, garbage, objects, file, lock, up, sweep, read>>
  BY DEF RepairRow, SweepsRow
<1>2. n \in Nat
  BY BlobAssumption, FS_Subset, FS_CardinalityType DEF StoredFiles
<1>3. row[sha] \in Rows /\ [row[sha] EXCEPT !.refs = n, !.delete_after = "null"] \in Rows
  BY <1>2, RowUpdates DEF BlobTypeOK
<1>. HIDE DEF n
<1>4. row' = [row EXCEPT ![sha] = [row[sha] EXCEPT !.refs = n, !.delete_after = "null"]]
  BY <1>1 DEF BlobTypeOK
<1>5. BlobTypeOK'
  BY <1>1, <1>3, <1>4 DEF BlobTypeOK
<1>6. /\ row'[sha].storage = row[sha].storage /\ row'[sha].delete_after = "null"
      /\ \A c \in Shas : c # sha => row'[c] = row[c]
  BY <1>3, <1>4 DEF BlobTypeOK, Rows
<1>7. ~NoFile(sha)
  BY <1>1 DEF NoFile, StoredFiles
<1>8. SweepsSound'
  <2>1. \A t \in Sweepers : sweep[t].pc # "idle" => row'[sweep[t].sha] = row[sweep[t].sha]
    BY <1>1, <1>6, UnlockedContent DEF Locks
  <2>. QED
    BY <1>1, <2>1, SameReferences, SweepsStay
<1>9. RowsSound'
  BY <1>1, <1>6, <1>7, SameReferences DEF RowsSound, RowSound, InS3, Unused
<1>. QED
  BY <1>1, <1>5, <1>8, <1>9 DEF Locks, UploadsSound

LEMMA StartSweepKeeps ==
    ASSUME BlobInv, NEW s \in Sweepers, NEW sha \in Shas, StartSweep(s, sha)
    PROVE  BlobInv'
<1>. USE DEF BlobInv
<1>1. /\ lock[sha] = Nobody /\ StoredFiles(sha) = {} /\ sweep[s].pc = "idle"
      /\ InS3(sha) /\ row[sha].delete_after = "due"
      /\ lock' = [lock EXCEPT ![sha] = s]
      /\ sweep' = [sweep EXCEPT ![s] = [NoSweep EXCEPT !.pc = "delete", !.sha = sha]]
      /\ UNCHANGED <<backend, row, garbage, objects, file, up, read>>
  BY DEF StartSweep, SweepsRow, IsDue
<1>2. /\ sweep'[s].pc = "delete" /\ sweep'[s].sha = sha
      /\ \A t \in Sweepers : t # s => sweep'[t] = sweep[t]
      /\ sweep' \in [Sweepers -> Sweeps]
  BY <1>1, SweepUpdates DEF BlobTypeOK, NoSweep
<1>3. Locks' /\ lock' \in [Shas -> Actors \cup {Nobody}]
  BY <1>1, <1>2, SweepStarts
<1>4. BlobTypeOK'
  BY <1>1, <1>2, <1>3 DEF BlobTypeOK
<1>5. Unused(sha)
  BY <1>1 DEF Unused, NoFile, StoredFiles, RowsSound, RowSound
<1>6. SweepsSound'
  BY <1>1, <1>2, <1>5, SameReferences DEF SweepsSound, InS3
<1>7. RowsSound'
  BY <1>1, SameReferences DEF RowsSound, RowSound, InS3
<1>. QED
  BY <1>1, <1>3, <1>4, <1>6, <1>7 DEF UploadsSound

LEMMA SweepDeletesKeeps ==
    ASSUME BlobInv, NEW s \in Sweepers, SweepDeletes(s)
    PROVE  BlobInv'
<1>. DEFINE sha == sweep[s].sha
<1>. USE DEF BlobInv
<1>1. /\ sweep[s].pc = "delete" /\ objects' = objects \ {sha}
      /\ sweep' = [sweep EXCEPT ![s].pc = "commit"]
      /\ UNCHANGED <<backend, row, garbage, file, lock, up, read>>
  BY DEF SweepDeletes
<1>2. /\ sweep'[s].pc = "commit" /\ sweep'[s].sha = sha
      /\ \A t \in Sweepers : t # s => sweep'[t] = sweep[t]
      /\ sweep' \in [Sweepers -> Sweeps]
  <2>1. sweep[s] \in Sweeps /\ [sweep[s] EXCEPT !.pc = "commit"] \in Sweeps
    BY SweepUpdates DEF BlobTypeOK
  <2>2. sweep' = [sweep EXCEPT ![s] = [sweep[s] EXCEPT !.pc = "commit"]]
    BY <1>1 DEF BlobTypeOK
  <2>. QED
    BY <2>1, <2>2 DEF BlobTypeOK, Sweeps
<1>3. BlobTypeOK'
  BY <1>1, <1>2 DEF BlobTypeOK
<1>4. Locks'
  BY <1>1, <1>2 DEF Locks
<1>5. UploadsSound'
  BY <1>1, OwnContent DEF UploadsSound
<1>6. SweepsSound'
  BY <1>1, <1>2, SameReferences DEF SweepsSound, InS3
<1>7. row[sha].delete_after # "null" /\ Unused(sha)
  BY <1>1 DEF SweepsSound
<1>8. RowsSound'
  BY <1>1, <1>7, SameReferences DEF RowsSound, RowSound, InS3
<1>. QED
  BY <1>3, <1>4, <1>5, <1>6, <1>8

\* The row of a content goes; its object may be there, or not.
LEMMA RowGoes ==
    ASSUME BlobInv, NEW s \in Sweepers, sweep[s].pc \in {"delete", "commit"},
           row' = [row EXCEPT ![sweep[s].sha] = NoRow],
           garbage' \in [Shas -> [Locations -> Entries]],
           lock' = [lock EXCEPT ![sweep[s].sha] = Nobody],
           sweep' = [sweep EXCEPT ![s] = NoSweep],
           UNCHANGED <<backend, objects, file, up, read>>
    PROVE  BlobInv'
<1>. DEFINE sha == sweep[s].sha
<1>. USE DEF BlobInv
<1>1. /\ Locks' /\ lock' \in [Shas -> Actors \cup {Nobody}]
      /\ sweep' \in [Sweepers -> Sweeps]
      /\ sweep'[s].pc = "idle" /\ \A t \in Sweepers : t # s => sweep'[t] = sweep[t]
  BY SweepEnds
<1>2. sha \in Shas /\ row[sha] \in Rows
  BY OwnContent DEF BlobTypeOK
<1>3. /\ row' \in [Shas -> Rows] /\ row'[sha] = NoRow
      /\ \A c \in Shas : c # sha => row'[c] = row[c]
  BY <1>2, RowUpdates DEF BlobTypeOK
<1>4. BlobTypeOK'
  BY <1>1, <1>3 DEF BlobTypeOK
<1>5. UploadsSound'
  BY DEF UploadsSound
<1>6. SweepsSound'
  BY <1>1, <1>3, OwnContent, SameReferences DEF SweepsSound, InS3
<1>7. NoFile(sha)
  BY DEF SweepsSound, Unused
<1>8. RowsSound'
  BY <1>3, <1>7, SameReferences DEF RowsSound, RowSound, InS3, NoRow
<1>. QED
  BY <1>1, <1>4, <1>5, <1>6, <1>8

LEMMA CommitSweepKeeps ==
    ASSUME BlobInv, NEW s \in Sweepers, CommitSweep(s)
    PROVE  BlobInv'
<1>1. garbage' \in [Shas -> [Locations -> Entries]]
  BY DEF CommitSweep, BlobInv, BlobTypeOK
<1>. QED
  BY <1>1, RowGoes DEF CommitSweep

LEMMA ParkObjectKeeps ==
    ASSUME BlobInv, NEW s \in Sweepers, ParkObject(s)
    PROVE  BlobInv'
<1>1. sweep[s].sha \in Shas /\ row[sweep[s].sha].location \in Locations
  BY OwnContent DEF ParkObject, BlobInv, BlobTypeOK, Rows
<1>2. garbage' \in [Shas -> [Locations -> Entries]]
  BY <1>1, GarbageTable, EntryUpdates DEF ParkObject, BlobInv
<1>. QED
  BY <1>2, RowGoes DEF ParkObject

LEMMA SweepFailsKeeps ==
    ASSUME BlobInv, NEW s \in Sweepers, SweepFails(s)
    PROVE  BlobInv'
<1>. DEFINE sha == sweep[s].sha
<1>. USE DEF BlobInv
<1>1. /\ sweep[s].pc \in {"delete", "commit"}
      /\ lock' = [lock EXCEPT ![sha] = Nobody]
      /\ sweep' = [sweep EXCEPT ![s] = NoSweep]
      /\ UNCHANGED <<backend, garbage, objects, file, up, read>>
  BY DEF SweepFails
<1>2. PICK d \in {"grace", "due"} : row' = [row EXCEPT ![sha].delete_after = d]
  BY DEF SweepFails
<1>3. /\ Locks' /\ lock' \in [Shas -> Actors \cup {Nobody}]
      /\ sweep' \in [Sweepers -> Sweeps]
      /\ sweep'[s].pc = "idle" /\ \A t \in Sweepers : t # s => sweep'[t] = sweep[t]
  BY <1>1, SweepEnds
<1>4. sha \in Shas /\ row[sha] \in Rows /\ [row[sha] EXCEPT !.delete_after = d] \in Rows
  BY <1>1, OwnContent, RowUpdates DEF BlobTypeOK
<1>5. row' = [row EXCEPT ![sha] = [row[sha] EXCEPT !.delete_after = d]]
  BY <1>2, <1>4 DEF BlobTypeOK
<1>6. /\ row' \in [Shas -> Rows]
      /\ row'[sha].storage = row[sha].storage /\ row'[sha].delete_after = d
      /\ \A c \in Shas : c # sha => row'[c] = row[c]
  BY <1>4, <1>5 DEF BlobTypeOK, Rows
<1>7. BlobTypeOK'
  BY <1>1, <1>3, <1>6 DEF BlobTypeOK
<1>8. UploadsSound'
  BY <1>1 DEF UploadsSound
<1>9. SweepsSound'
  BY <1>1, <1>3, <1>6, OwnContent, SameReferences DEF SweepsSound, InS3
<1>10. Unused(sha) /\ row[sha].delete_after # "null"
  BY <1>1 DEF SweepsSound
<1>11. RowsSound'
  <2>. SUFFICES ASSUME NEW c \in Shas PROVE RowSound(c)'
    BY DEF RowsSound
  <2>1. CASE c # sha
    BY <1>1, <1>6, <2>1, SameReferences, RowStays DEF RowsSound
  <2>2. CASE c = sha
    BY <1>1, <1>6, <1>10, <2>2, SameReferences DEF RowsSound, RowSound, InS3, Unused, NoRow
  <2>. QED
    BY <2>1, <2>2
<1>. QED
  BY <1>3, <1>7, <1>8, <1>9, <1>11

LEMMA StartCollectKeeps ==
    ASSUME BlobInv, NEW s \in Sweepers, NEW sha \in Shas, NEW l \in Locations,
           StartCollect(s, sha, l)
    PROVE  BlobInv'
<1>. USE DEF BlobInv
<1>1. /\ lock[sha] = Nobody /\ ~InS3(sha) /\ sweep[s].pc = "idle"
      /\ lock' = [lock EXCEPT ![sha] = s]
      /\ sweep' = [sweep EXCEPT ![s] = [pc |-> "collect", sha |-> sha, location |-> l]]
      /\ UNCHANGED <<backend, row, garbage, objects, file, up, read>>
  BY DEF StartCollect, TakesEntry
<1>2. /\ sweep'[s].pc = "collect" /\ sweep'[s].sha = sha
      /\ \A t \in Sweepers : t # s => sweep'[t] = sweep[t]
      /\ sweep' \in [Sweepers -> Sweeps]
  BY <1>1, SweepUpdates DEF BlobTypeOK
<1>3. Locks' /\ lock' \in [Shas -> Actors \cup {Nobody}]
  BY <1>1, <1>2, SweepStarts
<1>4. BlobTypeOK'
  BY <1>1, <1>2, <1>3 DEF BlobTypeOK
<1>5. SweepsSound'
  BY <1>1, <1>2, SameReferences DEF SweepsSound, InS3
<1>6. RowsSound'
  BY <1>1, SameReferences DEF RowsSound, RowSound, InS3
<1>. QED
  BY <1>1, <1>3, <1>4, <1>5, <1>6 DEF UploadsSound

LEMMA CollectDeletesKeeps ==
    ASSUME BlobInv, NEW s \in Sweepers, CollectDeletes(s)
    PROVE  BlobInv'
<1>. DEFINE sha == sweep[s].sha
<1>. USE DEF BlobInv
<1>1. /\ sweep[s].pc = "collect" /\ objects' = objects \ {sha}
      /\ sweep' = [sweep EXCEPT ![s].pc = "collected"]
      /\ UNCHANGED <<backend, row, garbage, file, lock, up, read>>
  BY DEF CollectDeletes
<1>2. /\ sweep'[s].pc = "collected" /\ sweep'[s].sha = sha
      /\ \A t \in Sweepers : t # s => sweep'[t] = sweep[t]
      /\ sweep' \in [Sweepers -> Sweeps]
  <2>1. sweep[s] \in Sweeps /\ [sweep[s] EXCEPT !.pc = "collected"] \in Sweeps
    BY SweepUpdates DEF BlobTypeOK
  <2>2. sweep' = [sweep EXCEPT ![s] = [sweep[s] EXCEPT !.pc = "collected"]]
    BY <1>1 DEF BlobTypeOK
  <2>. QED
    BY <2>1, <2>2 DEF BlobTypeOK, Sweeps
<1>3. BlobTypeOK'
  BY <1>1, <1>2 DEF BlobTypeOK
<1>4. Locks'
  BY <1>1, <1>2 DEF Locks
<1>5. UploadsSound'
  BY <1>1, OwnContent DEF UploadsSound
<1>6. SweepsSound'
  BY <1>1, <1>2, SameReferences DEF SweepsSound, InS3
<1>7. ~InS3(sha)
  BY <1>1 DEF SweepsSound
<1>8. RowsSound'
  BY <1>1, <1>7, SameReferences DEF RowsSound, RowSound, InS3
<1>. QED
  BY <1>3, <1>4, <1>5, <1>6, <1>8

\* Collected, or not: the entry goes or stays.
LEMMA CollectEnds ==
    ASSUME BlobInv, NEW s \in Sweepers, CommitCollect(s) \/ CollectFails(s)
    PROVE  BlobInv'
<1>. DEFINE sha == sweep[s].sha
<1>. USE DEF BlobInv
<1>1. /\ sweep[s].pc \in {"collect", "collected"}
      /\ lock' = [lock EXCEPT ![sha] = Nobody]
      /\ sweep' = [sweep EXCEPT ![s] = NoSweep]
      /\ UNCHANGED <<backend, row, objects, file, up, read>>
  BY DEF CommitCollect, CollectFails
<1>2. /\ Locks' /\ lock' \in [Shas -> Actors \cup {Nobody}]
      /\ sweep' \in [Sweepers -> Sweeps]
      /\ sweep'[s].pc = "idle" /\ \A t \in Sweepers : t # s => sweep'[t] = sweep[t]
  BY <1>1, SweepEnds
<1>3. garbage' \in [Shas -> [Locations -> Entries]]
  <2>1. sha \in Shas /\ sweep[s].location \in Locations
    BY <1>1, OwnContent DEF BlobTypeOK, Sweeps
  <2>2. CASE UNCHANGED garbage
    BY <2>2 DEF BlobTypeOK
  <2>3. CASE garbage' = [garbage EXCEPT ![sha][sweep[s].location] = NoEntry]
    BY <2>1, <2>3, GarbageTable, EntryUpdates
  <2>4. CASE garbage' = [garbage EXCEPT ![sha][sweep[s].location] = Queued]
    BY <2>1, <2>4, GarbageTable, EntryUpdates
  <2>. QED
    BY <2>2, <2>3, <2>4 DEF CommitCollect, CollectFails
<1>4. BlobTypeOK'
  BY <1>1, <1>2, <1>3 DEF BlobTypeOK
<1>5. UploadsSound'
  BY <1>1 DEF UploadsSound
<1>6. SweepsSound'
  BY <1>1, <1>2, SameReferences DEF SweepsSound, InS3
<1>7. RowsSound'
  BY <1>1, SameReferences DEF RowsSound, RowSound, InS3
<1>. QED
  BY <1>2, <1>4, <1>5, <1>6, <1>7

LEMMA EntryStepKeeps ==
    ASSUME BlobInv, NEW s \in Sweepers, NEW sha \in Shas, NEW l \in Locations,
           ClaimGarbage(s, sha, l) \/ DropEntry(s, sha, l)
    PROVE  BlobInv'
<1>1. garbage' \in [Shas -> [Locations -> Entries]]
  BY GarbageTable, EntryUpdates DEF ClaimGarbage, DropEntry, BlobInv
<1>. QED
  BY <1>1, GarbageOnly DEF ClaimGarbage, DropEntry

---------------------------------------------------------------------------
LEMMA BlobNextKeeps == BlobInv /\ [BlobNext]_blobVars => BlobInv'
<1>. SUFFICES ASSUME BlobInv, [BlobNext]_blobVars PROVE BlobInv'
  OBVIOUS
<1>1. ASSUME NEW u \in Uploaders, UploadStep(u) PROVE BlobInv'
  BY <1>1, RetainInDbKeeps, StartRetainKeeps, RetainPutsKeeps, CommitRetainKeeps, RetainFailsKeeps,
     InsertFileKeeps, InsertFailsKeeps, UndoRetainKeeps, UploadCrashesKeeps DEF UploadStep
<1>2. ASSUME NEW f \in Files, DeleteFile(f) PROVE BlobInv'
  BY <1>2, DeleteFileKeeps
<1>3. ASSUME NEW r \in Readers, ReadStep(r) PROVE BlobInv'
  BY <1>3, ReadStepKeeps
<1>4. ASSUME NEW s \in Sweepers, SweepStep(s) PROVE BlobInv'
  BY <1>4, SweepDbRowKeeps, RepairRowKeeps, StartSweepKeeps, SweepDeletesKeeps, CommitSweepKeeps,
     ParkObjectKeeps, SweepFailsKeeps, EntryStepKeeps, StartCollectKeeps, CollectDeletesKeeps,
     CollectEnds DEF SweepStep
<1>5. CASE UNCHANGED blobVars
  BY <1>5 DEF blobVars, BlobInv, BlobTypeOK, Locks, UploadsSound, SweepsSound, RowsSound, RowSound,
              Unused, NoFile, NoInsert, InS3
<1>. QED
  BY <1>1, <1>2, <1>3, <1>4, <1>5, ReconfigureKeeps, TimeKeeps DEF BlobNext

\* A stored file's row is there, and if it is in S3 so is its object.
LEMMA BytesAreThere == BlobInv => FilesKeepTheirBytes
<1>. SUFFICES ASSUME BlobInv, NEW f \in Files, file[f] = "stored"
              PROVE  Content[f] \in Kept
  BY DEF FilesKeepTheirBytes
<1>1. Content[f] \in Shas /\ row[Content[f]].storage \in {"none", "db", "s3"}
  BY BlobAssumption DEF BlobInv, BlobTypeOK, Rows, Storages
<1>2. RowSound(Content[f]) /\ ~NoFile(Content[f])
  BY <1>1 DEF BlobInv, RowsSound, NoFile
<1>. QED
  BY <1>1, <1>2 DEF RowSound, Kept, InS3, Unused

(***************************************************************************)
(* No file loses its bytes, for any number of files that share a content,  *)
(* of uploads and of sweepers, and whichever requests, COMMITs and         *)
(* gateways fail (blobStore.ts, blobSweeper.ts).                           *)
(***************************************************************************)
THEOREM BytesStay == BlobSpec => []FilesKeepTheirBytes
  BY InitBlobInv, BlobNextKeeps, BytesAreThere, PTL DEF BlobSpec

(***************************************************************************)
(* Rows, garbage, locks and requests are typed in every reachable state:   *)
(* in particular no interleaving of releases takes a count below zero.     *)
(***************************************************************************)
THEOREM BlobsTyped == BlobSpec => []BlobTypeOK
<1>1. BlobInv => BlobTypeOK
  BY DEF BlobInv
<1>. QED
  BY <1>1, InitBlobInv, BlobNextKeeps, PTL DEF BlobSpec

---------------------------------------------------------------------------
(* Refinement of ContentStore *)

\* What ContentStore sees of the files.
Status == [f \in Files |-> IF file[f] = "coming" THEN "new" ELSE file[f]]

StoreStep == Store!Next \/ UNCHANGED <<Status, Kept>>

LEMMA StorePuts ==
    ASSUME BlobTypeOK, NEW f \in Files, file[f] \in {"new", "coming"},
           file' = [file EXCEPT ![f] = "stored"], Kept' = Kept \cup {Content[f]}
    PROVE  StoreStep
<1>1. Status[f] = "new" /\ Status' = [Status EXCEPT ![f] = "stored"]
  BY DEF BlobTypeOK, Status
<1>. QED
  BY <1>1 DEF StoreStep, Status, Store!Next, Store!Put

LEMMA StoreRemoves ==
    ASSUME BlobTypeOK, NEW f \in Files, file[f] # "gone",
           file' = [file EXCEPT ![f] = "gone"], Kept' = Kept
    PROVE  StoreStep
<1>1. Status[f] \in {"new", "stored"} /\ Status' = [Status EXCEPT ![f] = "gone"]
  BY DEF BlobTypeOK, Status
<1>. QED
  BY <1>1 DEF StoreStep, Status, Store!Next, Store!Remove

LEMMA StoreKeeps ==
    ASSUME NEW sha \in Shas, Status' = Status, Kept' \in {Kept, Kept \cup {sha}}
    PROVE  StoreStep
  BY DEF StoreStep, Status, Store!Next, Store!Keep

LEMMA StoreForgets ==
    ASSUME NEW sha \in Shas, NoFile(sha), Status' = Status, Kept' = Kept \ {sha}
    PROVE  StoreStep
<1>1. {f \in Files : Content[f] = sha /\ Status[f] = "stored"} = {}
  BY DEF NoFile, Status
<1>. QED
  BY <1>1 DEF StoreStep, Status, Store!Next, Store!Forget, Store!Held

\* What is kept changes with the storage of a row, or with its object.
LEMMA KeptStays ==
    ASSUME \A c \in Shas : /\ row'[c].storage = row[c].storage
                           /\ InS3(c) => (c \in objects' <=> c \in objects)
    PROVE  Kept' = Kept
  BY DEF Kept, InS3

LEMMA KeptGrows ==
    ASSUME NEW sha \in Shas, sha \in Kept', objects' = objects,
           \A c \in Shas : c # sha => row'[c] = row[c]
    PROVE  Kept' = Kept \cup {sha}
  BY DEF Kept, InS3

LEMMA KeptShrinks ==
    ASSUME NEW sha \in Shas, sha \notin Kept', objects' \subseteq objects,
           \A c \in Shas : c # sha => row'[c] = row[c] /\ (c \in objects' <=> c \in objects)
    PROVE  Kept' = Kept \ {sha}
  BY DEF Kept, InS3

\* The end of a retain, in either transaction.
LEMMA RetainImplements ==
    ASSUME BlobInv, BlobInv', NEW u \in Uploaders, NEW f \in Files,
           NEW target \in Storages, file[f] \in {"new", "coming"},
           row' = [row EXCEPT ![Content[f]] = Retained(Content[f], target)],
           objects' = objects, FileFollows(u, f)
    PROVE  StoreStep
<1>. DEFINE sha == Content[f]
<1>1. sha \in Shas /\ BlobTypeOK
  BY BlobAssumption DEF BlobInv
<1>2. /\ row'[sha] = Retained(sha, target)
      /\ \A c \in Shas : c # sha => row'[c] = row[c]
  BY <1>1 DEF BlobTypeOK
<1>3. /\ row'[sha].delete_after = "null"
      /\ row'[sha].storage = IF row[sha] = NoRow THEN target ELSE row[sha].storage
  BY <1>1, <1>2, RetainedRow
<1>4. row'[sha].storage \in Storages
  BY <1>1, <1>3 DEF BlobInv, BlobTypeOK, Rows, RowsSound, RowSound
<1>5. sha \in Kept'
  BY <1>1, <1>3, <1>4 DEF BlobInv, RowsSound, RowSound, Kept, InS3, Storages
<1>6. Kept' = Kept \cup {sha}
  BY <1>1, <1>2, <1>5, KeptGrows
<1>7. CASE file' = [file EXCEPT ![f] = "stored"]
  BY <1>1, <1>6, <1>7, StorePuts
<1>8. CASE file' = [file EXCEPT ![f] = "coming"]
  <2>1. Status' = Status
    BY <1>1, <1>8 DEF Status, BlobTypeOK
  <2>. QED
    BY <1>1, <1>6, <2>1, StoreKeeps
<1>. QED
  BY <1>7, <1>8 DEF FileFollows

\* An upload that ends without its file, or had it before.
LEMMA EndImplements ==
    ASSUME BlobInv, NEW f \in Files,
           file' = [file EXCEPT ![f] = IF file[f] = "coming" THEN "gone" ELSE file[f]],
           Kept' = Kept
    PROVE  StoreStep
<1>1. CASE file[f] = "coming"
  BY <1>1, StoreRemoves DEF BlobInv
<1>2. CASE file[f] # "coming"
  <2>1. file' = file
    BY <1>2 DEF BlobInv, BlobTypeOK
  <2>. QED
    BY <2>1 DEF StoreStep, Status
<1>. QED
  BY <1>1, <1>2

\* A released row stays where it is.
LEMMA ReleaseKeeps ==
    ASSUME BlobInv, NEW sha \in Shas, objects' = objects,
           row' = [row EXCEPT ![sha] = Released(row[sha])] \/ row' = row
    PROVE  Kept' = Kept
<1>1. row[sha] \in Rows /\ row \in [Shas -> Rows]
  BY DEF BlobInv, BlobTypeOK
<1>2. \A c \in Shas : row'[c].storage = row[c].storage
  BY <1>1, ReleasedRow
<1>. QED
  BY <1>2, KeptStays

LEMMA UploadImplements ==
    ASSUME BlobInv, BlobInv', NEW u \in Uploaders, UploadStep(u)
    PROVE  StoreStep
<1>. USE BlobAssumption
<1>1. ASSUME NEW f \in Files, RetainInDb(u, f) PROVE StoreStep
  BY <1>1, RetainImplements DEF RetainInDb, BlobInv, BlobTypeOK
<1>2. ASSUME NEW f \in Files, StartRetain(u, f) PROVE StoreStep
  <2>1. Status' = Status
    BY <1>2 DEF StartRetain, Status, BlobInv, BlobTypeOK
  <2>2. Kept' = Kept
    BY <1>2 DEF StartRetain, Kept, InS3
  <2>. QED
    BY <2>1, <2>2 DEF StoreStep
<1>3. CASE RetainPuts(u)
  <2>1. Content[up[u].file] \in Shas
    BY <1>3 DEF RetainPuts, BlobInv, Locks
  <2>2. Kept' \in {Kept, Kept \cup {Content[up[u].file]}}
    BY <1>3, <2>1 DEF RetainPuts, Kept, InS3
  <2>3. Status' = Status
    BY <1>3 DEF RetainPuts, Status
  <2>. QED
    BY <2>1, <2>2, <2>3, StoreKeeps
<1>4. CASE CommitRetain(u)
  <2>1. /\ up[u].file \in Files /\ file[up[u].file] = "coming" /\ up[u].target \in Storages
    BY <1>4 DEF CommitRetain, BlobInv, Locks, UploadsSound, BlobTypeOK, Uploads
  <2>. QED
    BY <1>4, <2>1, RetainImplements DEF CommitRetain
<1>5. CASE RetainFails(u)
  <2>1. up[u].file \in Files /\ file[up[u].file] = "coming"
    BY <1>5 DEF RetainFails, BlobInv, Locks, UploadsSound
  <2>2. Kept' = Kept
    BY <1>5 DEF RetainFails, Kept, InS3
  <2>. QED
    BY <1>5, <2>1, <2>2, StoreRemoves DEF RetainFails, BlobInv
<1>6. CASE InsertFile(u)
  <2>1. up[u].file \in Files /\ file[up[u].file] = "coming"
    BY <1>6 DEF InsertFile, BlobInv, Locks, UploadsSound
  <2>2. file' = [file EXCEPT ![up[u].file] = "stored"]
    BY <1>6 DEF InsertFile
  <2>3. file'[up[u].file] = "stored"
    BY <2>1, <2>2 DEF BlobInv, BlobTypeOK
  <2>4. FilesKeepTheirBytes'
    BY BytesAreThere, PTL
  <2>5. Content[up[u].file] \in Kept'
    BY <2>1, <2>3, <2>4 DEF FilesKeepTheirBytes
  <2>6. Kept' = Kept
    BY <1>6 DEF InsertFile, Kept, InS3
  <2>. QED
    BY <2>1, <2>2, <2>5, <2>6, StorePuts DEF BlobInv
<1>7. CASE InsertFails(u)
  BY <1>7 DEF InsertFails, StoreStep, Status, Kept, InS3
<1>8. CASE UndoRetain(u)
  <2>1. up[u].file \in Files /\ Content[up[u].file] \in Shas
    BY <1>8 DEF UndoRetain, BlobInv, Locks
  <2>2. \/ row' = [row EXCEPT ![Content[up[u].file]] = Released(row[Content[up[u].file]])]
        \/ row' = row
    BY <1>8 DEF UndoRetain, BlobInv, BlobTypeOK
  <2>3. Kept' = Kept
    BY <1>8, <2>1, <2>2, ReleaseKeeps DEF UndoRetain
  <2>. QED
    BY <1>8, <2>1, <2>3, EndImplements DEF UndoRetain
<1>9. CASE UploadCrashes(u)
  <2>1. up[u].file \in Files
    BY <1>9 DEF UploadCrashes, BlobInv, Locks
  <2>2. Kept' = Kept
    BY <1>9 DEF UploadCrashes, Kept, InS3
  <2>. QED
    BY <1>9, <2>1, <2>2, EndImplements DEF UploadCrashes
<1>. QED
  BY <1>1, <1>2, <1>3, <1>4, <1>5, <1>6, <1>7, <1>8, <1>9 DEF UploadStep

LEMMA SweepImplements ==
    ASSUME BlobInv, BlobInv', NEW s \in Sweepers, SweepStep(s)
    PROVE  StoreStep
<1>1. CASE UNCHANGED file
  <2>. Status' = Status
    BY <1>1 DEF Status
  <2>1. ASSUME NEW sha \in Shas, SweepDbRow(s, sha) PROVE StoreStep
    <3>1. row' = [row EXCEPT ![sha] = NoRow] /\ objects' = objects /\ NoFile(sha)
      BY <2>1 DEF SweepDbRow, NoFile, StoredFiles
    <3>2. row'[sha] = NoRow /\ \A c \in Shas : c # sha => row'[c] = row[c]
      BY <3>1 DEF BlobInv, BlobTypeOK
    <3>3. Kept' = Kept \ {sha}
      <4>1. sha \notin Kept'
        BY <3>2 DEF Kept, InS3, NoRow
      <4>. QED
        BY <3>1, <3>2, <4>1, KeptShrinks
    <3>. QED
      BY <3>1, <3>3, StoreForgets
  <2>2. ASSUME NEW sha \in Shas, RepairRow(s, sha) PROVE StoreStep
    <3>1. objects' = objects /\ \A c \in Shas : row'[c].storage = row[c].storage
      BY <2>2 DEF RepairRow, BlobInv, BlobTypeOK, Rows
    <3>. QED
      BY <3>1, KeptStays DEF StoreStep
  <2>3. ASSUME UNCHANGED <<row, objects>> PROVE StoreStep
    BY <2>3 DEF StoreStep, Kept, InS3
  <2>4. CASE SweepDeletes(s)
    <3>. DEFINE sha == sweep[s].sha
    <3>1. /\ sha \in Shas /\ NoFile(sha) /\ objects' = objects \ {sha} /\ row' = row
          /\ row[sha].storage # "db"
      BY <2>4, OwnContent DEF SweepDeletes, BlobInv, SweepsSound, Unused, InS3
    <3>2. sha \notin Kept'
      BY <3>1 DEF Kept, InS3
    <3>3. Kept' = Kept \ {sha}
      BY <3>1, <3>2, KeptShrinks
    <3>. QED
      BY <3>1, <3>3, StoreForgets
  <2>5. CASE CommitSweep(s) \/ ParkObject(s)
    <3>. DEFINE sha == sweep[s].sha
    <3>1. /\ sha \in Shas /\ NoFile(sha) /\ objects' = objects
          /\ row' = [row EXCEPT ![sha] = NoRow]
      BY <2>5, OwnContent DEF CommitSweep, ParkObject, BlobInv, SweepsSound, Unused
    <3>2. row'[sha] = NoRow /\ \A c \in Shas : c # sha => row'[c] = row[c]
      BY <3>1 DEF BlobInv, BlobTypeOK
    <3>3. sha \notin Kept'
      BY <3>2 DEF Kept, InS3, NoRow
    <3>4. Kept' = Kept \ {sha}
      BY <3>1, <3>2, <3>3, KeptShrinks
    <3>. QED
      BY <3>1, <3>4, StoreForgets
  <2>6. CASE SweepFails(s)
    <3>1. objects' = objects /\ \A c \in Shas : row'[c].storage = row[c].storage
      BY <2>6 DEF SweepFails, BlobInv, BlobTypeOK, Rows
    <3>. QED
      BY <3>1, KeptStays DEF StoreStep
  <2>7. CASE CollectDeletes(s)
    <3>1. /\ \A c \in Shas : InS3(c) => (c \in objects' <=> c \in objects)
          /\ row' = row
      BY <2>7 DEF CollectDeletes, BlobInv, SweepsSound
    <3>. QED
      BY <3>1, KeptStays DEF StoreStep
  <2>. QED
    BY <2>1, <2>2, <2>3, <2>4, <2>5, <2>6, <2>7
       DEF SweepStep, StartSweep, ClaimGarbage, DropEntry, StartCollect, CommitCollect, CollectFails
<1>2. UNCHANGED file
  BY DEF SweepStep, SweepDbRow, RepairRow, StartSweep, SweepDeletes, CommitSweep, ParkObject,
         SweepFails, ClaimGarbage, DropEntry, StartCollect, CollectDeletes, CommitCollect,
         CollectFails
<1>. QED
  BY <1>1, <1>2

LEMMA BlobStepImplements == BlobInv /\ BlobInv' /\ [BlobNext]_blobVars => StoreStep
<1>. SUFFICES ASSUME BlobInv, BlobInv', [BlobNext]_blobVars PROVE StoreStep
  OBVIOUS
<1>1. ASSUME NEW u \in Uploaders, UploadStep(u) PROVE StoreStep
  BY <1>1, UploadImplements
<1>2. ASSUME NEW s \in Sweepers, SweepStep(s) PROVE StoreStep
  BY <1>2, SweepImplements
<1>3. ASSUME NEW f \in Files, DeleteFile(f) PROVE StoreStep
  <2>1. Content[f] \in Shas
    BY BlobAssumption
  <2>2. Kept' = Kept
    BY <1>3, <2>1, ReleaseKeeps DEF DeleteFile
  <2>. QED
    BY <1>3, <2>2, StoreRemoves DEF DeleteFile, BlobInv
<1>4. ASSUME UNCHANGED <<row, objects, file>> PROVE StoreStep
  BY <1>4 DEF StoreStep, Status, Kept, InS3
<1>5. ASSUME NEW r \in Readers, ReadStep(r) PROVE StoreStep
  BY <1>4, <1>5 DEF ReadStep, LookUp, Get, LookAgain, ReadRefused
<1>6. CASE Time
  <2>1. ASSUME NEW sha \in Shas, ReleaseComesDue(sha) PROVE StoreStep
    <3>1. objects' = objects /\ \A c \in Shas : row'[c].storage = row[c].storage
      BY <2>1 DEF ReleaseComesDue, BlobInv, BlobTypeOK, Rows
    <3>2. Status' = Status
      BY <2>1 DEF ReleaseComesDue, Status
    <3>. QED
      BY <3>1, <3>2, KeptStays DEF StoreStep
  <2>. QED
    BY <1>4, <1>6, <2>1 DEF Time, GarbageComesDue, GarbageLeaseLapses
<1>. QED
  BY <1>1, <1>2, <1>3, <1>4, <1>5, <1>6 DEF BlobNext, Reconfigure, blobVars

LEMMA InitImplements == BlobInit => Store!Init
<1>. SUFFICES ASSUME BlobInit PROVE Store!Init
  OBVIOUS
<1>1. FilesKeepTheirBytes
  BY InitBlobInv, BytesAreThere
<1>2. Kept \subseteq Shas
  BY DEF Kept
<1>. QED
  BY <1>1, <1>2 DEF Store!Init, FilesKeepTheirBytes, BlobInit

(***************************************************************************)
(* Blob storage implements ContentStore: every step of an upload, a delete,*)
(* a sweep or a collect puts a file with its bytes, removes one, keeps     *)
(* bytes, forgets bytes that no file holds, or does not show.              *)
(***************************************************************************)
THEOREM BlobsImplementStore == BlobSpec => ImplementsStore
<1>1. BlobInv /\ BlobInv' /\ [BlobNext]_blobVars =>
          [Store!Next]_<<[f \in Files |-> IF file[f] = "coming" THEN "new" ELSE file[f]], Kept>>
  BY BlobStepImplements DEF StoreStep, Status
<1>. QED
  BY <1>1, InitImplements, InitBlobInv, BlobNextKeeps, PTL DEF BlobSpec, ImplementsStore, Store!Spec

---------------------------------------------------------------------------
(***************************************************************************)
(* Reference counts.  A step gives the row of a content one reference more *)
(* or less, or none, and does the same to what refers to it: the files and *)
(* the uploads that are about to make one refer to it.                     *)
(***************************************************************************)
\* What is about to refer to a content keeps its row.
Rowless(c) == row[c] = NoRow => Inserting(c) = {}

CountSafe(c) == Rowless(c)' /\ (Exact(c) => Exact(c)')

LEMMA References ==
    ASSUME NEW c
    PROVE  /\ IsFiniteSet(StoredFiles(c)) /\ Cardinality(StoredFiles(c)) \in Nat
           /\ IsFiniteSet(Inserting(c)) /\ Cardinality(Inserting(c)) \in Nat
<1>1. IsFiniteSet(StoredFiles(c))
  BY BlobAssumption, FS_Subset DEF StoredFiles
<1>2. IsFiniteSet(Inserting(c))
  BY BlobAssumption, FS_Subset DEF Inserting
<1>. QED
  BY <1>1, <1>2, FS_CardinalityType

LEMMA CountStays ==
    ASSUME NEW c, Rowless(c),
           StoredFiles(c)' = StoredFiles(c), Inserting(c)' = Inserting(c),
           row'[c] = NoRow => row[c] = NoRow \/ Inserting(c) = {},
           row'[c] # NoRow => /\ row[c] # NoRow /\ row'[c].refs = row[c].refs
                              /\ row'[c].delete_after = "null" <=> row[c].delete_after = "null"
    PROVE  CountSafe(c)
<1>1. Rowless(c)'
  BY DEF Rowless
<1>2. Cardinality(StoredFiles(c)') = Cardinality(StoredFiles(c))
  OBVIOUS
<1>3. Cardinality(Inserting(c)') = Cardinality(Inserting(c))
  OBVIOUS
<1>4. Exact(c) => Exact(c)'
  BY <1>2, <1>3 DEF Exact
<1>. QED
  BY <1>1, <1>4 DEF CountSafe

\* One more: a file, or an upload whose file comes.
LEMMA CountGains ==
    ASSUME BlobInv, NEW c \in Shas, NEW target \in Storages, Rowless(c),
           row'[c] = Retained(c, target), NEW x,
           \/ /\ x \notin StoredFiles(c) /\ StoredFiles(c)' = StoredFiles(c) \cup {x}
              /\ Inserting(c)' = Inserting(c)
           \/ /\ x \notin Inserting(c) /\ Inserting(c)' = Inserting(c) \cup {x}
              /\ StoredFiles(c)' = StoredFiles(c)
    PROVE  CountSafe(c)
<1>. DEFINE n == Cardinality(StoredFiles(c)) + Cardinality(Inserting(c))
<1>1. row[c] \in Rows /\ row'[c].delete_after = "null"
  BY RetainedRow DEF BlobInv, BlobTypeOK
<1>2. row'[c].refs = IF row[c] = NoRow THEN 1 ELSE row[c].refs + 1
  BY <1>1 DEF Retained, Rows
<1>3. row'[c].refs > 0 /\ row'[c] # NoRow
  BY <1>1, <1>2 DEF Rows, NoRow
<1>4. Cardinality(StoredFiles(c)') + Cardinality(Inserting(c)') = n + 1
  <2>1. \/ /\ Cardinality(StoredFiles(c)') = Cardinality(StoredFiles(c)) + 1
           /\ Cardinality(Inserting(c)') = Cardinality(Inserting(c))
        \/ /\ Cardinality(Inserting(c)') = Cardinality(Inserting(c)) + 1
           /\ Cardinality(StoredFiles(c)') = Cardinality(StoredFiles(c))
    BY References, FS_AddElement
  <2>. QED
    BY <2>1, References
<1>5. row[c] = NoRow => n = 0
  <2>1. row[c] = NoRow => StoredFiles(c) = {} /\ Inserting(c) = {}
    BY DEF BlobInv, RowsSound, RowSound, NoRow, NoFile, StoredFiles, Rowless
  <2>2. Cardinality({}) = 0
    BY FS_EmptySet
  <2>. QED
    BY <2>1, <2>2
<1>6. Exact(c) => row'[c].refs = n + 1
  BY <1>2, <1>5 DEF Exact
<1>. HIDE DEF n
<1>7. Exact(c) => Exact(c)'
  BY <1>1, <1>3, <1>4, <1>6 DEF Exact
<1>. QED
  BY <1>3, <1>7 DEF CountSafe, Rowless

\* One less.
LEMMA CountLoses ==
    ASSUME BlobInv, NEW c \in Shas, row[c] # NoRow, row'[c] = Released(row[c]), NEW x,
           \/ /\ x \in StoredFiles(c) /\ StoredFiles(c)' = StoredFiles(c) \ {x}
              /\ Inserting(c)' = Inserting(c)
           \/ /\ x \in Inserting(c) /\ Inserting(c)' = Inserting(c) \ {x}
              /\ StoredFiles(c)' = StoredFiles(c)
    PROVE  CountSafe(c)
<1>. DEFINE n == Cardinality(StoredFiles(c)) + Cardinality(Inserting(c))
<1>1. row[c] \in Rows /\ row'[c].storage = row[c].storage
  BY ReleasedRow DEF BlobInv, BlobTypeOK
<1>2. row[c].storage # "none"
  BY DEF BlobInv, RowsSound, RowSound
<1>3. row'[c] # NoRow
  BY <1>1, <1>2 DEF NoRow
<1>4. /\ Cardinality(StoredFiles(c)') + Cardinality(Inserting(c)') = n - 1
      /\ n \in Nat /\ n > 0
  <2>1. \A S : IsFiniteSet(S) /\ x \in S => Cardinality(S) # 0
    BY FS_EmptySet
  <2>2. Cardinality(StoredFiles(c)) > 0 \/ Cardinality(Inserting(c)) > 0
    BY <2>1, References
  <2>3. \/ /\ Cardinality(StoredFiles(c)') = Cardinality(StoredFiles(c)) - 1
           /\ Cardinality(Inserting(c)') = Cardinality(Inserting(c))
        \/ /\ Cardinality(Inserting(c)') = Cardinality(Inserting(c)) - 1
           /\ Cardinality(StoredFiles(c)') = Cardinality(StoredFiles(c))
    BY References, FS_RemoveElement
  <2>. QED
    BY <2>2, <2>3, References
<1>5. Exact(c) => row[c].refs = n /\ row[c].delete_after = "null"
  BY <1>4 DEF Exact
<1>. HIDE DEF n
<1>6. Exact(c) => row'[c].refs = n - 1 /\ (row'[c].delete_after = "null" <=> n - 1 > 0)
  BY <1>1, <1>4, <1>5 DEF Released, Rows
<1>7. Exact(c) => Exact(c)'
  BY <1>4, <1>6 DEF Exact
<1>. QED
  BY <1>3, <1>7 DEF CountSafe, Rowless

\* The upload's reference becomes its file's.
LEMMA CountMoves ==
    ASSUME NEW c, Rowless(c), row'[c] = row[c], NEW u, NEW f,
           u \in Inserting(c), Inserting(c)' = Inserting(c) \ {u},
           f \notin StoredFiles(c), StoredFiles(c)' = StoredFiles(c) \cup {f}
    PROVE  CountSafe(c)
<1>1. Cardinality(Inserting(c)') = Cardinality(Inserting(c)) - 1
  BY References, FS_RemoveElement
<1>2. Cardinality(StoredFiles(c)') = Cardinality(StoredFiles(c)) + 1
  BY References, FS_AddElement
<1>3. Cardinality(Inserting(c)') + Cardinality(StoredFiles(c)')
        = Cardinality(Inserting(c)) + Cardinality(StoredFiles(c))
  BY <1>1, <1>2, References
<1>4. Exact(c) => Exact(c)'
  BY <1>1, <1>2, References DEF Exact
<1>. QED
  BY <1>4 DEF CountSafe, Rowless

\* What an upload's step on its file does to the references.
LEMMA UploadSets ==
    ASSUME BlobInv, NEW u \in Uploaders, NEW f \in Files, NEW c,
           \A v \in Uploaders : v # u /\ up[v].pc # "idle" => up[v].file # f,
           up[u].pc = "idle" \/ up[u].file = f,
           up'[u].pc = "idle" \/ up'[u].file = f,
           \A v \in Uploaders : v # u => up'[v] = up[v],
           \A g \in Files : g # f => file'[g] = file[g]
    PROVE  /\ f \in StoredFiles(c) <=> Content[f] = c /\ file[f] = "stored"
           /\ StoredFiles(c)' = IF Content[f] = c /\ file'[f] = "stored"
                                THEN StoredFiles(c) \cup {f} ELSE StoredFiles(c) \ {f}
           /\ u \in Inserting(c) <=>
                  up[u].pc \in {"insert", "undo"} /\ file[f] = "coming" /\ Content[f] = c
           /\ Inserting(c)' =
                  IF up'[u].pc \in {"insert", "undo"} /\ file'[f] = "coming" /\ Content[f] = c
                  THEN Inserting(c) \cup {u} ELSE Inserting(c) \ {u}
<1>1. \A v \in Uploaders : up[v].pc # "idle" => up[v].file \in Files
  BY DEF BlobInv, Locks
<1>2. \A v \in Uploaders : v # u => (v \in Inserting(c)' <=> v \in Inserting(c))
  BY <1>1 DEF Inserting
<1>3. u \in Inserting(c)' <=>
          up'[u].pc \in {"insert", "undo"} /\ file'[f] = "coming" /\ Content[f] = c
  BY DEF Inserting
<1>4. u \in Inserting(c) <=>
          up[u].pc \in {"insert", "undo"} /\ file[f] = "coming" /\ Content[f] = c
  BY DEF Inserting
<1>5. Inserting(c) \subseteq Uploaders /\ Inserting(c)' \subseteq Uploaders
  BY DEF Inserting
<1>6. \A g \in Files : g # f => (g \in StoredFiles(c)' <=> g \in StoredFiles(c))
  BY DEF StoredFiles
<1>7. f \in StoredFiles(c)' <=> Content[f] = c /\ file'[f] = "stored"
  BY DEF StoredFiles
<1>8. f \in StoredFiles(c) <=> Content[f] = c /\ file[f] = "stored"
  BY DEF StoredFiles
<1>9. StoredFiles(c) \subseteq Files /\ StoredFiles(c)' \subseteq Files
  BY DEF StoredFiles
<1>. QED
  BY <1>2, <1>3, <1>4, <1>5, <1>6, <1>7, <1>8, <1>9

LEMMA NothingChanges == \A S, x : (x \notin S => S \ {x} = S) /\ (x \in S => S \cup {x} = S)
  OBVIOUS

\* A file has one upload.
LEMMA OneUpload ==
    ASSUME BlobInv, NEW u \in Uploaders, NEW f \in Files,
           \/ up[u].pc = "idle" /\ file[f] = "new"
           \/ up[u].pc # "idle" /\ up[u].file = f
    PROVE  \A v \in Uploaders : v # u /\ up[v].pc # "idle" => up[v].file # f
<1>1. \A v \in Uploaders : up[v].pc \in {"idle", "put", "commit", "insert", "undo"}
  BY DEF BlobInv, BlobTypeOK, Uploads
<1>. QED
  BY <1>1 DEF BlobInv, UploadsSound

\* A step on the row, the file and the upload of one content leaves the others.
LEMMA OtherContents ==
    ASSUME BlobInv, NEW u \in Uploaders, NEW f \in Files, NEW c \in Shas, Rowless(c),
           c # Content[f], row'[c] = row[c],
           \A v \in Uploaders : v # u /\ up[v].pc # "idle" => up[v].file # f,
           up[u].pc = "idle" \/ up[u].file = f,
           up'[u].pc = "idle" \/ up'[u].file = f,
           \A v \in Uploaders : v # u => up'[v] = up[v],
           \A g \in Files : g # f => file'[g] = file[g]
    PROVE  CountSafe(c)
<1>1. StoredFiles(c)' = StoredFiles(c) /\ Inserting(c)' = Inserting(c)
  BY UploadSets
<1>. QED
  BY <1>1, CountStays

\* A retain that ends with its row: RetainInDb and CommitRetain.
LEMMA RetainCounts ==
    ASSUME BlobInv, NEW u \in Uploaders, NEW f \in Files, NEW c \in Shas, Rowless(c),
           NEW target \in Storages, row' = [row EXCEPT ![Content[f]] = Retained(Content[f], target)],
           FileFollows(u, f),
           \/ up[u].pc = "idle" /\ file[f] = "new"
           \/ up[u].pc = "commit" /\ up[u].file = f
    PROVE  CountSafe(c)
<1>1. /\ file'[f] \in {"stored", "coming"}
      /\ \A g \in Files : g # f => file'[g] = file[g]
      /\ \A v \in Uploaders : v # u => up'[v] = up[v]
  BY FileFollowsTyped DEF BlobInv
<1>2. \/ up'[u].pc = "idle" /\ file'[f] = "stored"
      \/ up'[u].pc = "insert" /\ up'[u].file = f /\ file'[f] = "coming"
  BY DEF FileFollows, BlobInv, BlobTypeOK, NoUpload
<1>3. \A v \in Uploaders : v # u /\ up[v].pc # "idle" => up[v].file # f
  BY OneUpload
<1>4. file[f] # "stored" /\ up[u].pc \notin {"insert", "undo"}
  BY DEF BlobInv, UploadsSound
<1>5. \A h \in Shas : row'[h] = IF h = Content[f] THEN Retained(h, target) ELSE row[h]
  BY DEF BlobInv, BlobTypeOK
<1>6. CASE c # Content[f]
  BY <1>1, <1>2, <1>3, <1>5, <1>6, OtherContents
<1>7. CASE c = Content[f]
  <2>1. /\ f \notin StoredFiles(c) /\ u \notin Inserting(c)
        /\ \/ StoredFiles(c)' = StoredFiles(c) \cup {f} /\ Inserting(c)' = Inserting(c)
           \/ StoredFiles(c)' = StoredFiles(c) /\ Inserting(c)' = Inserting(c) \cup {u}
    <3>1. /\ up[u].pc = "idle" \/ up[u].file = f
          /\ up'[u].pc = "idle" \/ up'[u].file = f
      BY <1>2
    <3>2. f \notin StoredFiles(c) /\ u \notin Inserting(c)
      BY <1>1, <1>3, <1>4, <3>1, UploadSets
    <3>3. /\ StoredFiles(c)' = IF Content[f] = c /\ file'[f] = "stored"
                               THEN StoredFiles(c) \cup {f} ELSE StoredFiles(c) \ {f}
          /\ Inserting(c)' =
                 IF up'[u].pc \in {"insert", "undo"} /\ file'[f] = "coming" /\ Content[f] = c
                 THEN Inserting(c) \cup {u} ELSE Inserting(c) \ {u}
      BY <1>1, <1>3, <3>1, UploadSets
    <3>4. StoredFiles(c) \ {f} = StoredFiles(c) /\ Inserting(c) \ {u} = Inserting(c)
      BY <3>2, NothingChanges
    <3>5. CASE up'[u].pc = "idle" /\ file'[f] = "stored"
      <4>1. /\ StoredFiles(c)' = StoredFiles(c) \cup {f}
            /\ Inserting(c)' = Inserting(c) \ {u}
        BY <1>7, <3>3, <3>5
      <4>. QED
        BY <3>2, <3>4, <4>1
    <3>6. CASE up'[u].pc = "insert" /\ file'[f] = "coming"
      <4>1. /\ StoredFiles(c)' = StoredFiles(c) \ {f}
            /\ Inserting(c)' = Inserting(c) \cup {u}
        BY <1>7, <3>3, <3>6
      <4>. QED
        BY <3>2, <3>4, <4>1
    <3>. QED
      BY <1>2, <3>5, <3>6
  <2>2. row'[c] = Retained(c, target)
    BY <1>5, <1>7
  <2>. QED
    BY <2>1, <2>2, CountGains
<1>. QED
  BY <1>6, <1>7

\* An upload's step that leaves all rows.
LEMMA UploadCounts ==
    ASSUME BlobInv, NEW u \in Uploaders, NEW c \in Shas, Rowless(c),
           \/ \E f \in Files : StartRetain(u, f)
           \/ RetainPuts(u) \/ RetainFails(u) \/ InsertFails(u) \/ InsertFile(u)
    PROVE  CountSafe(c)
<1>0. row' = row
  BY DEF StartRetain, RetainPuts, RetainFails, InsertFails, InsertFile
<1>1. ASSUME NEW f \in Files,
             \/ up[u].pc = "idle" /\ file[f] = "new"
             \/ up[u].pc # "idle" /\ up[u].file = f,
             up'[u].pc = "idle" \/ up'[u].file = f,
             \A v \in Uploaders : v # u => up'[v] = up[v],
             \A g \in Files : g # f => file'[g] = file[g],
             file[f] # "stored", file'[f] # "stored",
             up[u].pc \in {"insert", "undo"} /\ file[f] = "coming"
               <=> up'[u].pc \in {"insert", "undo"} /\ file'[f] = "coming"
      PROVE  CountSafe(c)
  <2>2. StoredFiles(c)' = StoredFiles(c) /\ Inserting(c)' = Inserting(c)
    <3>1. /\ up[u].pc = "idle" \/ up[u].file = f
          /\ \A v \in Uploaders : v # u /\ up[v].pc # "idle" => up[v].file # f
      BY <1>1, OneUpload
    <3>2. f \notin StoredFiles(c) /\ StoredFiles(c)' = StoredFiles(c) \ {f}
      BY <1>1, <3>1, UploadSets
    <3>3. /\ u \in Inserting(c) <=>
                 up[u].pc \in {"insert", "undo"} /\ file[f] = "coming" /\ Content[f] = c
          /\ Inserting(c)' =
                 IF up'[u].pc \in {"insert", "undo"} /\ file'[f] = "coming" /\ Content[f] = c
                 THEN Inserting(c) \cup {u} ELSE Inserting(c) \ {u}
      BY <1>1, <3>1, UploadSets
    <3>4. Inserting(c)' = IF u \in Inserting(c) THEN Inserting(c) \cup {u} ELSE Inserting(c) \ {u}
      BY <1>1, <3>3
    <3>. QED
      BY <3>2, <3>4, NothingChanges
  <2>. QED
    BY <1>0, <2>2, CountStays
<1>2. ASSUME NEW f \in Files, StartRetain(u, f) PROVE CountSafe(c)
  <2>1. /\ up[u].pc = "idle" /\ file[f] = "new" /\ file'[f] = "coming"
        /\ \A g \in Files : g # f => file'[g] = file[g]
        /\ up'[u].pc = "put" /\ up'[u].file = f
        /\ \A v \in Uploaders : v # u => up'[v] = up[v]
    BY <1>2 DEF StartRetain, BlobInv, BlobTypeOK
  <2>. QED
    BY <1>1, <2>1
<1>3. up[u].pc # "idle" => up[u].file \in Files /\ up[u] \in Uploads
  BY DEF BlobInv, Locks, BlobTypeOK
<1>5. CASE RetainPuts(u)
  <2>. DEFINE f == up[u].file
  <2>1. /\ up[u].pc = "put" /\ up'[u].pc = "commit" /\ up'[u].file = f /\ file' = file
        /\ \A v \in Uploaders : v # u => up'[v] = up[v]
    BY <1>3, <1>5 DEF RetainPuts, BlobInv, BlobTypeOK, Uploads
  <2>2. f \in Files /\ file[f] = "coming"
    BY <1>3, <2>1 DEF BlobInv, UploadsSound
  <2>. HIDE DEF f
  <2>. QED
    BY <1>1, <2>1, <2>2 DEF f
<1>6. CASE RetainFails(u)
  <2>. DEFINE f == up[u].file
  <2>1. /\ up[u].pc \in {"put", "commit"} /\ up'[u].pc = "idle"
        /\ file' = [file EXCEPT ![f] = "gone"]
        /\ \A v \in Uploaders : v # u => up'[v] = up[v]
    BY <1>6 DEF RetainFails, BlobInv, BlobTypeOK, NoUpload
  <2>2. f \in Files /\ file[f] = "coming"
    BY <1>3, <2>1 DEF BlobInv, UploadsSound
  <2>3. up[u].pc # "idle" /\ up[u].pc \notin {"insert", "undo"} /\ up[u].file = f
    BY <2>1
  <2>. HIDE DEF f
  <2>4. file'[f] = "gone" /\ \A g \in Files : g # f => file'[g] = file[g]
    BY <2>1, <2>2 DEF BlobInv, BlobTypeOK
  <2>. QED
    BY <1>1, <2>1, <2>2, <2>3, <2>4
<1>7. CASE InsertFails(u)
  <2>. DEFINE f == up[u].file
  <2>1. /\ up[u].pc = "insert" /\ up'[u].pc = "undo" /\ up'[u].file = f /\ file' = file
        /\ \A v \in Uploaders : v # u => up'[v] = up[v]
    BY <1>3, <1>7 DEF InsertFails, BlobInv, BlobTypeOK, Uploads
  <2>2. f \in Files /\ file[f] = "coming"
    BY <1>3, <2>1 DEF BlobInv, UploadsSound
  <2>. HIDE DEF f
  <2>. QED
    BY <1>1, <2>1, <2>2 DEF f
<1>8. CASE InsertFile(u)
  <2>. DEFINE f == up[u].file
  <2>1. /\ up[u].pc = "insert" /\ file' = [file EXCEPT ![f] = "stored"]
        /\ up'[u].pc = "idle" \/ up'[u].file = f
        /\ \A v \in Uploaders : v # u => up'[v] = up[v]
    BY <1>3, <1>8 DEF InsertFile, BlobInv, BlobTypeOK, Uploads, NoUpload
  <2>2. f \in Files /\ file[f] = "coming"
    BY <1>3, <2>1 DEF BlobInv, UploadsSound
  <2>3. file'[f] = "stored" /\ \A g \in Files : g # f => file'[g] = file[g]
    BY <2>1, <2>2 DEF BlobInv, BlobTypeOK
  <2>4. \A v \in Uploaders : v # u /\ up[v].pc # "idle" => up[v].file # f
    BY <2>1, <2>2, OneUpload
  <2>. HIDE DEF f
  <2>5. CASE Content[f] # c
    BY <1>0, <2>1, <2>2, <2>3, <2>4, <2>5, OtherContents DEF f
  <2>6. CASE Content[f] = c
    <3>1. /\ u \in Inserting(c) /\ Inserting(c)' = Inserting(c) \ {u}
          /\ f \notin StoredFiles(c) /\ StoredFiles(c)' = StoredFiles(c) \cup {f}
      BY <2>1, <2>2, <2>3, <2>4, <2>6, UploadSets DEF f
    <3>. QED
      BY <1>0, <3>1, CountMoves
  <2>. QED
    BY <2>5, <2>6
<1>. QED
  BY <1>2, <1>5, <1>6, <1>7, <1>8

\* The reference given back was this upload's, as long as its file is not there.
LEMMA UndoCounts ==
    ASSUME BlobInv, NEW u \in Uploaders, NEW c \in Shas, Rowless(c), UndoRetain(u)
    PROVE  Rowless(c)' /\ (Exact(c) => Exact(c)' \/ LosesCount(u))
<1>. DEFINE f == up[u].file
<1>1. /\ up[u].pc = "undo" /\ f \in Files /\ file[f] # "new"
      /\ file' = [file EXCEPT ![f] = IF file[f] = "coming" THEN "gone" ELSE file[f]]
      /\ up'[u].pc = "idle"
      /\ \A v \in Uploaders : v # u => up'[v] = up[v]
  BY DEF UndoRetain, BlobInv, BlobTypeOK, NoUpload, Locks, UploadsSound
<1>2. /\ file'[f] = IF file[f] = "coming" THEN "gone" ELSE file[f]
      /\ \A g \in Files : g # f => file'[g] = file[g]
  BY <1>1 DEF BlobInv, BlobTypeOK
<1>3. \A v \in Uploaders : v # u /\ up[v].pc # "idle" => up[v].file # f
  BY <1>1, OneUpload
<1>4. \A h \in Shas : row'[h] = IF h = Content[f] /\ row[h] # NoRow THEN Released(row[h]) ELSE row[h]
  BY DEF UndoRetain, BlobInv, BlobTypeOK
<1>5. file[f] # "coming" => LosesCount(u)
  BY DEF LosesCount
<1>. HIDE DEF f
<1>6. CASE c # Content[f]
  <2>1. CountSafe(c)
    BY <1>1, <1>2, <1>3, <1>4, <1>6, OtherContents DEF f
  <2>. QED
    BY <2>1 DEF CountSafe
<1>7. CASE c = Content[f] /\ file[f] = "coming"
  <2>1. /\ u \in Inserting(c) /\ Inserting(c)' = Inserting(c) \ {u}
        /\ StoredFiles(c)' = StoredFiles(c)
    <3>1. up[u].file = f
      BY DEF f
    <3>2. /\ u \in Inserting(c) /\ Inserting(c)' = Inserting(c) \ {u}
          /\ f \notin StoredFiles(c) /\ StoredFiles(c)' = StoredFiles(c) \ {f}
      BY <1>1, <1>2, <1>3, <1>7, <3>1, UploadSets
    <3>. QED
      BY <3>2, NothingChanges
  <2>2. row[c] # NoRow /\ row'[c] = Released(row[c])
    BY <1>4, <1>7, <2>1 DEF Rowless
  <2>3. CountSafe(c)
    BY <2>1, <2>2, CountLoses
  <2>. QED
    BY <2>3 DEF CountSafe
<1>8. CASE c = Content[f] /\ file[f] # "coming"
  <2>1. u \notin Inserting(c) /\ Inserting(c)' = Inserting(c) \ {u}
    BY <1>1, <1>2, <1>3, <1>8, UploadSets DEF f
  <2>2. row'[c] = NoRow => row[c] = NoRow
    <3>1. CASE row[c] # NoRow
      <4>1. row[c] \in Rows /\ row[c].storage # "none"
        BY <3>1 DEF BlobInv, BlobTypeOK, RowsSound, RowSound
      <4>2. row'[c].storage = row[c].storage
        BY <1>4, <4>1, ReleasedRow
      <4>. QED
        BY <4>1, <4>2 DEF NoRow
    <3>. QED
      BY <3>1
  <2>. QED
    BY <1>5, <1>8, <2>1, <2>2 DEF Rowless
<1>. QED
  BY <1>6, <1>7, <1>8

LEMMA DeleteCounts ==
    ASSUME BlobInv, NEW f \in Files, NEW c \in Shas, Rowless(c), DeleteFile(f)
    PROVE  CountSafe(c)
<1>1. /\ file[f] = "stored" /\ file' = [file EXCEPT ![f] = "gone"] /\ up' = up
      /\ row' = [row EXCEPT ![Content[f]] = Released(row[Content[f]])]
  BY DEF DeleteFile, BlobInv, BlobTypeOK
<1>2. \A g \in Files : file'[g] = IF g = f THEN "gone" ELSE file[g]
  BY <1>1 DEF BlobInv, BlobTypeOK
<1>3. Inserting(c)' = Inserting(c)
  <2>1. \A v \in Uploaders : up[v].pc # "idle" => up[v].file \in Files
    BY DEF BlobInv, Locks
  <2>. QED
    BY <1>1, <1>2, <2>1 DEF Inserting
<1>4. StoredFiles(c)' = IF Content[f] = c THEN StoredFiles(c) \ {f} ELSE StoredFiles(c)
  BY <1>1, <1>2 DEF StoredFiles
<1>5. CASE Content[f] # c
  <2>1. row'[c] = row[c]
    BY <1>1, <1>5 DEF BlobInv, BlobTypeOK
  <2>. QED
    BY <1>3, <1>4, <1>5, <2>1, CountStays
<1>6. CASE Content[f] = c
  <2>1. row'[c] = Released(row[c])
    BY <1>1, <1>6 DEF BlobInv, BlobTypeOK
  <2>2. row[c] # NoRow
    BY <1>1, <1>6 DEF BlobInv, RowsSound, RowSound, NoFile, NoRow
  <2>3. f \in StoredFiles(c)
    BY <1>1, <1>6 DEF StoredFiles
  <2>. QED
    BY <1>3, <1>4, <1>6, <2>1, <2>2, <2>3, CountLoses
<1>. QED
  BY <1>5, <1>6

\* A step on a row alone, its content's or another one.
LEMMA RowCounts ==
    ASSUME BlobInv, NEW c \in Shas, Rowless(c), file' = file, up' = up,
           NEW sha \in Shas, NEW r, row' = [row EXCEPT ![sha] = r],
           \/ r = NoRow /\ NoInsert(sha)
           \/ /\ r # NoRow /\ row[sha] # NoRow /\ r.refs = row[sha].refs
              /\ r.delete_after = "null" <=> row[sha].delete_after = "null"
    PROVE  CountSafe(c)
<1>1. StoredFiles(c)' = StoredFiles(c) /\ Inserting(c)' = Inserting(c)
  BY DEF StoredFiles, Inserting
<1>2. row'[c] = IF c = sha THEN r ELSE row[c]
  BY DEF BlobInv, BlobTypeOK
<1>3. NoInsert(sha) => Inserting(sha) = {}
  BY DEF NoInsert, Inserting
<1>4. row'[c] = NoRow => row[c] = NoRow \/ Inserting(c) = {}
  BY <1>2, <1>3
<1>5. row'[c] # NoRow => /\ row[c] # NoRow /\ row'[c].refs = row[c].refs
                         /\ row'[c].delete_after = "null" <=> row[c].delete_after = "null"
  BY <1>2
<1>. QED
  BY <1>1, <1>4, <1>5, CountStays

\* The count taken anew is right: a row that is due has no upload.
LEMMA RepairCounts ==
    ASSUME BlobInv, NEW s \in Sweepers, NEW sha \in Shas, NEW c \in Shas, Rowless(c),
           RepairRow(s, sha)
    PROVE  CountSafe(c)
<1>1. /\ row[sha].delete_after = "due" /\ StoredFiles(sha) # {} /\ file' = file /\ up' = up
      /\ row' = [row EXCEPT ![sha].refs = Cardinality(StoredFiles(sha)),
                            ![sha].delete_after = "null"]
  BY DEF RepairRow, SweepsRow, IsDue
<1>2. StoredFiles(c)' = StoredFiles(c) /\ Inserting(c)' = Inserting(c)
  BY <1>1 DEF StoredFiles, Inserting
<1>3. CASE c # sha
  <2>1. row'[c] = row[c]
    BY <1>1, <1>3 DEF BlobInv, BlobTypeOK
  <2>. QED
    BY <1>2, <2>1, CountStays
<1>4. CASE c = sha
  <2>1. /\ row'[c].refs = Cardinality(StoredFiles(c)) /\ row'[c].delete_after = "null"
    BY <1>1, <1>4 DEF BlobInv, BlobTypeOK, Rows
  <2>2. Inserting(c) = {}
    BY <1>1, <1>4 DEF BlobInv, RowsSound, RowSound, NoInsert, Inserting
  <2>3. /\ Cardinality(Inserting(c)') = 0 /\ Cardinality(StoredFiles(c)') = Cardinality(StoredFiles(c))
        /\ Cardinality(StoredFiles(c)) \in Nat /\ Cardinality(StoredFiles(c)) # 0
    BY <1>1, <1>2, <1>4, <2>2, References, FS_EmptySet
  <2>4. Exact(c)'
    BY <2>1, <2>3 DEF Exact
  <2>. QED
    BY <1>2, <2>2, <2>4 DEF CountSafe, Rowless
<1>. QED
  BY <1>3, <1>4

LEMMA SweepCounts ==
    ASSUME BlobInv, NEW s \in Sweepers, NEW c \in Shas, Rowless(c), SweepStep(s)
    PROVE  CountSafe(c)
<1>1. ASSUME row' = row, file' = file, up' = up PROVE CountSafe(c)
  BY <1>1, CountStays DEF StoredFiles, Inserting
<1>2. ASSUME NEW sha \in Shas, SweepDbRow(s, sha) PROVE CountSafe(c)
  <2>1. NoInsert(sha)
    BY <1>2 DEF SweepDbRow, SweepsRow, IsDue, BlobInv, RowsSound, RowSound
  <2>. QED
    BY <1>2, <2>1, RowCounts DEF SweepDbRow
<1>3. ASSUME sweep[s].pc \in {"delete", "commit"}
      PROVE  /\ sweep[s].sha \in Shas /\ NoInsert(sweep[s].sha) /\ InS3(sweep[s].sha)
             /\ row[sweep[s].sha].delete_after # "null"
  BY <1>3 DEF BlobInv, Locks, SweepsSound, Unused
<1>4. CASE CommitSweep(s) \/ ParkObject(s)
  BY <1>3, <1>4, RowCounts DEF CommitSweep, ParkObject
<1>5. CASE SweepFails(s)
  <2>. DEFINE sha == sweep[s].sha
  <2>1. PICK d \in {"grace", "due"} : row' = [row EXCEPT ![sha].delete_after = d]
    BY <1>5 DEF SweepFails
  <2>2. sha \in Shas /\ InS3(sha) /\ row[sha].delete_after # "null" /\ row[sha] \in Rows
    BY <1>3, <1>5 DEF SweepFails, BlobInv, BlobTypeOK
  <2>. DEFINE r == [row[sha] EXCEPT !.delete_after = d]
  <2>3. /\ row' = [row EXCEPT ![sha] = r]
        /\ r.refs = row[sha].refs /\ r.delete_after # "null"
        /\ r # NoRow /\ row[sha] # NoRow
    BY <2>1, <2>2 DEF Rows, NoRow, InS3, BlobInv, BlobTypeOK
  <2>4. file' = file /\ up' = up
    BY <1>5 DEF SweepFails
  <2>. HIDE DEF r, sha
  <2>. QED
    BY <2>2, <2>3, <2>4, RowCounts
<1>6. ASSUME NEW sha \in Shas, RepairRow(s, sha) PROVE CountSafe(c)
  BY <1>6, RepairCounts
<1>. QED
  BY <1>1, <1>2, <1>4, <1>5, <1>6
     DEF SweepStep, StartSweep, SweepDeletes, ClaimGarbage, DropEntry, StartCollect,
         CollectDeletes, CommitCollect, CollectFails

LEMMA TimeCounts ==
    ASSUME BlobInv, NEW c \in Shas, Rowless(c), Time
    PROVE  CountSafe(c)
<1>1. ASSUME NEW sha \in Shas, ReleaseComesDue(sha) PROVE CountSafe(c)
  <2>. DEFINE r == [row[sha] EXCEPT !.delete_after = "due"]
  <2>1. row[sha].delete_after = "grace" /\ row[sha] \in Rows
    BY <1>1 DEF ReleaseComesDue, BlobInv, BlobTypeOK
  <2>2. /\ row' = [row EXCEPT ![sha] = r]
        /\ r.refs = row[sha].refs /\ r.delete_after # "null"
        /\ r # NoRow /\ row[sha] # NoRow
    BY <1>1, <2>1 DEF ReleaseComesDue, Rows, NoRow
  <2>3. file' = file /\ up' = up
    BY <1>1 DEF ReleaseComesDue
  <2>. HIDE DEF r
  <2>. QED
    BY <2>1, <2>2, <2>3, RowCounts
<1>2. ASSUME row' = row, file' = file, up' = up PROVE CountSafe(c)
  BY <1>2, CountStays DEF StoredFiles, Inserting
<1>. QED
  BY <1>1, <1>2 DEF Time, GarbageComesDue, GarbageLeaseLapses

\* A gateway that dies takes its reference along, the row keeps the count.
LEMMA CrashCounts ==
    ASSUME BlobInv, NEW u \in Uploaders, NEW c \in Shas, Rowless(c), UploadCrashes(u)
    PROVE  Rowless(c)' /\ LosesCount(u)
<1>1. /\ row' = row /\ up' = [up EXCEPT ![u] = NoUpload]
      /\ \A f \in Files : file'[f] = "coming" => file[f] = "coming"
      /\ \A v \in Uploaders : up[v].pc # "idle" => up[v].file \in Files
  BY DEF UploadCrashes, BlobInv, BlobTypeOK, Locks
<1>2. \A v \in Uploaders : up'[v] = IF v = u THEN NoUpload ELSE up[v]
  BY <1>1 DEF BlobInv, BlobTypeOK
<1>3. Inserting(c)' \subseteq Inserting(c)
  BY <1>1, <1>2 DEF Inserting, NoUpload
<1>. QED
  BY <1>1, <1>3 DEF Rowless, LosesCount

CountsHold == BlobInv /\ \A c \in Shas : Rowless(c)

CountStep == \A c \in Shas : Exact(c) => Exact(c)' \/ \E u \in Uploaders : LosesCount(u)

LEMMA NextCounts == CountsHold /\ [BlobNext]_blobVars => CountsHold' /\ CountStep
<1>. SUFFICES ASSUME CountsHold, [BlobNext]_blobVars, NEW c \in Shas
              PROVE  Rowless(c)' /\ (Exact(c) => Exact(c)' \/ \E u \in Uploaders : LosesCount(u))
  BY BlobNextKeeps DEF CountsHold, CountStep
<1>. USE DEF CountsHold
<1>1. ASSUME row' = row, file' = file, up' = up PROVE CountSafe(c)
  BY <1>1, CountStays DEF StoredFiles, Inserting
<1>2. ASSUME NEW u \in Uploaders, UploadStep(u)
      PROVE  Rowless(c)' /\ (Exact(c) => Exact(c)' \/ LosesCount(u))
  <2>1. ASSUME NEW f \in Files, RetainInDb(u, f) PROVE CountSafe(c)
    <3>1. /\ backend \in Storages /\ up[u].pc = "idle" /\ file[f] = "new"
          /\ row' = [row EXCEPT ![Content[f]] = Retained(Content[f], backend)]
          /\ FileFollows(u, f)
      BY <2>1 DEF RetainInDb, BlobInv, BlobTypeOK
    <3>. QED
      BY <3>1, RetainCounts
  <2>2. ASSUME CommitRetain(u) PROVE CountSafe(c)
    <3>1. /\ up[u].pc = "commit" /\ up[u].target \in Storages /\ up[u].file \in Files
          /\ row' = [row EXCEPT ![Content[up[u].file]] =
                         Retained(Content[up[u].file], up[u].target)]
          /\ FileFollows(u, up[u].file)
      BY <2>2 DEF CommitRetain, BlobInv, BlobTypeOK, Locks, Uploads
    <3>. QED
      BY <3>1, RetainCounts
  <2>3. CASE CountSafe(c)
    BY <2>3 DEF CountSafe
  <2>. QED
    BY <1>2, <2>1, <2>2, <2>3, UploadCounts, UndoCounts, CrashCounts DEF UploadStep
<1>3. ASSUME NEW f \in Files, DeleteFile(f) PROVE CountSafe(c)
  BY <1>3, DeleteCounts
<1>4. CASE Time
  BY <1>4, TimeCounts DEF CountSafe
<1>5. ASSUME NEW s \in Sweepers, SweepStep(s) PROVE CountSafe(c)
  BY <1>5, SweepCounts
<1>6. CASE Reconfigure \/ \E r \in Readers : ReadStep(r)
  BY <1>1, <1>6 DEF CountSafe, Reconfigure, ReadStep, LookUp, Get, LookAgain, ReadRefused
<1>7. CASE UNCHANGED blobVars
  BY <1>1, <1>7 DEF CountSafe, blobVars
<1>. QED
  BY <1>2, <1>3, <1>4, <1>5, <1>6, <1>7 DEF BlobNext, CountSafe

LEMMA InitCounts == BlobInit => CountsHold
  BY InitBlobInv DEF CountsHold, BlobInit, Rowless, Inserting, NoUpload

(***************************************************************************)
(* Only the death of a gateway between retain and insert, or a reference   *)
(* given back for an insert that had committed, turns a right count wrong. *)
(***************************************************************************)
THEOREM CountsDrift == BlobSpec => CountsDriftByLossOnly
<1>1. CountsHold /\ [BlobNext]_blobVars => CountsHold'
  BY NextCounts
<1>2. CountsHold /\ [BlobNext]_blobVars =>
          [\A sha \in Shas : Exact(sha) => Exact(sha)' \/ \E u \in Uploaders : LosesCount(u)]_blobVars
  BY NextCounts DEF CountStep
<1>. QED
  BY <1>1, <1>2, InitCounts, PTL DEF BlobSpec, CountsDriftByLossOnly

---------------------------------------------------------------------------
(***************************************************************************)
(* Stray objects.  Who holds a content's lock accounts for its object: a   *)
(* collected object still has its entry, and a PUT is for a row that is or *)
(* will be in S3, or for one in the database, which then gets an entry.    *)
(***************************************************************************)
AccountsFor(c) ==
    /\ \A s \in Sweepers : sweep[s].sha = c /\ sweep[s].pc \in {"collect", "collected"} =>
           garbage[c][sweep[s].location] # NoEntry
    /\ \A u \in Uploaders :
           up[u].pc \in {"put", "commit"} /\ Content[up[u].file] = c =>
               up[u].target = "s3" \/ InS3(c)

\* A row or an entry goes although the object is there again.
GoesEarly(c) ==
    c \in objects /\ \E s \in Sweepers : sweep[s].sha = c /\ (CommitSweep(s) \/ CommitCollect(s))

StraySafe(c) == AccountsFor(c)' /\ (Stray(c)' => Stray(c) \/ GoesEarly(c))

\* A content that a step does not touch, but for an entry that gains a state.
LEMMA StrayStays ==
    ASSUME NEW c, AccountsFor(c),
           InS3(c)' <=> InS3(c), c \in objects' <=> c \in objects, lock'[c] = lock[c],
           \A l \in Locations : garbage'[c][l] = NoEntry => garbage[c][l] = NoEntry,
           \A s \in Sweepers : /\ sweep[s].location \in Locations
                               /\ sweep'[s].pc # "idle" /\ sweep'[s].sha = c => sweep'[s] = sweep[s],
           \A u \in Uploaders : up'[u].pc \in {"put", "commit"} /\ Content[up'[u].file] = c =>
               /\ up[u].pc \in {"put", "commit"}
               /\ up'[u].file = up[u].file /\ up'[u].target = up[u].target
    PROVE  StraySafe(c)
<1>1. AccountsFor(c)'
  BY DEF AccountsFor
<1>2. Stray(c)' => Stray(c)
  BY DEF Stray, Accounted
<1>. QED
  BY <1>1, <1>2 DEF StraySafe

LEMMA Unheld ==
    ASSUME BlobInv', NEW z \in Shas, lock'[z] = Nobody
    PROVE  AccountsFor(z)'
<1>1. \A s \in Sweepers : s # Nobody
  BY BlobAssumption DEF Actors
<1>2. \A u \in Uploaders : u # Nobody
  BY BlobAssumption DEF Actors
<1>. QED
  BY <1>1, <1>2 DEF BlobInv, Locks, AccountsFor

LEMMA HeldByUpload ==
    ASSUME BlobInv', NEW z \in Shas, NEW u \in Uploaders, lock'[z] = u,
           up'[u].target = "s3" \/ InS3(z)'
    PROVE  StraySafe(z)
<1>1. u # Nobody /\ \A s \in Sweepers : s # u
  BY BlobAssumption DEF Actors
<1>2. AccountsFor(z)'
  BY <1>1 DEF BlobInv, Locks, AccountsFor
<1>. QED
  BY <1>1, <1>2 DEF StraySafe, Stray

LEMMA HeldBySweep ==
    ASSUME BlobInv', NEW z \in Shas, NEW s \in Sweepers, lock'[z] = s,
           sweep'[s].sha = z /\ sweep'[s].pc \in {"collect", "collected"} =>
               garbage'[z][sweep'[s].location] # NoEntry
    PROVE  StraySafe(z)
<1>1. s # Nobody /\ \A u \in Uploaders : s # u
  BY BlobAssumption DEF Actors
<1>2. AccountsFor(z)'
  BY <1>1 DEF BlobInv, Locks, AccountsFor
<1>. QED
  BY <1>1, <1>2 DEF StraySafe, Stray

\* A step that makes no storage request and takes no lock.
LEMMA QuietStray ==
    ASSUME BlobInv, NEW c \in Shas, AccountsFor(c),
           InS3(c)' <=> InS3(c), objects' = objects, lock' = lock, sweep' = sweep,
           \A l \in Locations : garbage'[c][l] = NoEntry => garbage[c][l] = NoEntry,
           \A u \in Uploaders : up'[u].pc \in {"put", "commit"} => up'[u] = up[u]
    PROVE  StraySafe(c)
<1>1. \A s \in Sweepers : sweep[s].location \in Locations
  BY DEF BlobInv, BlobTypeOK, Sweeps
<1>. QED
  BY <1>1, StrayStays

\* A released or retained row stays where it is.
LEMMA SameStorage ==
    ASSUME BlobInv, NEW sha \in Shas, NEW r, row' = [row EXCEPT ![sha] = r],
           r.storage = "s3" <=> row[sha].storage = "s3"
    PROVE  \A c \in Shas : InS3(c)' <=> InS3(c)
  BY DEF BlobInv, BlobTypeOK, InS3

LEMMA UploadStray ==
    ASSUME BlobInv, BlobInv', NEW c \in Shas, AccountsFor(c), NEW u \in Uploaders,
           UploadStep(u)
    PROVE  StraySafe(c) \/ (RetainFails(u) /\ AccountsFor(c)')
<1>. USE DEF BlobInv, BlobTypeOK
<1>1. ASSUME NEW f \in Files, RetainInDb(u, f) PROVE StraySafe(c)
  <2>1. /\ Content[f] \in Shas /\ backend \in Storages /\ ~NeedsPut(Content[f], backend)
        /\ row' = [row EXCEPT ![Content[f]] = Retained(Content[f], backend)]
        /\ UNCHANGED <<garbage, objects, lock, sweep>> /\ FileFollows(u, f)
    BY <1>1, BlobAssumption DEF RetainInDb
  <2>2. Retained(Content[f], backend).storage = "s3" <=> row[Content[f]].storage = "s3"
    BY <2>1, RetainedRow DEF NeedsPut, NoRow, Storages
  <2>3. \A v \in Uploaders : up'[v].pc \in {"put", "commit"} => up'[v] = up[v]
    BY <2>1, FileFollowsTyped DEF NoUpload
  <2>. QED
    BY <2>1, <2>2, <2>3, SameStorage, QuietStray
<1>2. ASSUME NEW f \in Files, StartRetain(u, f) PROVE StraySafe(c)
  <2>1. /\ Content[f] \in Shas /\ NeedsPut(Content[f], backend)
        /\ lock' = [lock EXCEPT ![Content[f]] = u]
        /\ up' = [up EXCEPT ![u] = [pc |-> "put", file |-> f, target |-> backend]]
        /\ UNCHANGED <<row, garbage, objects, sweep>>
    BY <1>2, BlobAssumption DEF StartRetain
  <2>2. CASE c = Content[f]
    BY <2>1, <2>2, HeldByUpload DEF NeedsPut, InS3
  <2>3. CASE c # Content[f]
    BY <2>1, <2>3, StrayStays DEF InS3, Sweeps
  <2>. QED
    BY <2>2, <2>3
<1>3. ASSUME up[u].pc \in {"put", "commit"}
      PROVE  /\ up[u].file \in Files /\ Content[up[u].file] \in Shas
             /\ lock[Content[up[u].file]] = u
             /\ c = Content[up[u].file] => up[u].target = "s3" \/ InS3(c)
  BY <1>3, BlobAssumption DEF Locks, AccountsFor
<1>4. CASE RetainPuts(u)
  <2>. DEFINE z == Content[up[u].file]
  <2>1. /\ up[u].pc = "put" /\ objects' = objects \cup {z} /\ z \in Shas /\ lock[z] = u
        /\ \A v \in Uploaders : up'[v].file = up[v].file /\ up'[v].target = up[v].target
        /\ \A v \in Uploaders : v # u => up'[v] = up[v]
        /\ UNCHANGED <<row, garbage, lock, sweep>>
    BY <1>3, <1>4 DEF RetainPuts, Uploads
  <2>2. CASE c = z
    BY <1>3, <2>1, <2>2, HeldByUpload DEF InS3
  <2>3. CASE c # z
    BY <2>1, <2>3, StrayStays DEF InS3, Sweeps
  <2>. QED
    BY <2>2, <2>3
<1>5. ASSUME CommitRetain(u) \/ RetainFails(u)
      PROVE  /\ \A v \in Uploaders : up'[v].pc \in {"put", "commit"} => up'[v] = up[v]
             /\ lock' = [lock EXCEPT ![Content[up[u].file]] = Nobody]
             /\ up[u].pc \in {"put", "commit"} /\ UNCHANGED <<objects, sweep>>
  BY <1>3, <1>5, FileFollowsTyped DEF CommitRetain, RetainFails, NoUpload
<1>6. CASE CommitRetain(u)
  <2>. DEFINE z == Content[up[u].file]
              r == Retained(z, up[u].target)
  <2>1. /\ z \in Shas /\ up[u].target \in Storages /\ row[z] \in Rows
        /\ row' = [row EXCEPT ![z] = r]
        /\ garbage' = [garbage EXCEPT ![z].key = EntryAfterPut(z)]
    BY <1>3, <1>5, <1>6 DEF CommitRetain, Uploads
  <2>2. r.storage = IF row[z] = NoRow THEN up[u].target ELSE row[z].storage
    BY <2>1, RetainedRow
  <2>3. /\ row'[z] = r /\ \A h \in Shas : h # z => row'[h] = row[h]
        /\ garbage'[z].key = EntryAfterPut(z)
        /\ \A h \in Shas : h # z => garbage'[h] = garbage[h]
    BY <2>1 DEF Locations
  <2>. HIDE DEF r
  <2>4. CASE c = z
    <3>1. row[z].storage = "none" => row[z] = NoRow
      BY <2>1 DEF RowsSound, RowSound
    <3>2. row[z] = NoRow => up[u].target = "s3"
      BY <1>3, <1>5, <1>6, <2>4 DEF InS3, NoRow
    <3>3. row'[c].storage = "s3" \/ garbage'[c].key = Queued
      BY <2>1, <2>2, <2>3, <2>4, <3>1, <3>2 DEF InS3, EntryAfterPut, Rows, Storages
    <3>4. ~Stray(c)'
      BY <3>3 DEF Stray, Accounted, InS3, Queued, NoEntry, Locations
    <3>5. lock'[c] = Nobody
      BY <1>5, <1>6, <2>1, <2>4
    <3>. QED
      BY <3>4, <3>5, Unheld DEF StraySafe
  <2>5. CASE c # z
    <3>1. lock'[c] = lock[c] /\ (InS3(c)' <=> InS3(c)) /\ garbage'[c] = garbage[c]
      BY <1>5, <1>6, <2>3, <2>5 DEF InS3
    <3>. QED
      BY <1>5, <1>6, <3>1, StrayStays DEF Sweeps
  <2>. QED
    BY <2>4, <2>5
<1>7. ASSUME RetainFails(u) PROVE AccountsFor(c)'
  <2>. DEFINE z == Content[up[u].file]
  <2>1. z \in Shas /\ UNCHANGED <<row, garbage>>
    BY <1>3, <1>5, <1>7 DEF RetainFails
  <2>2. CASE c = z
    BY <1>5, <1>7, <2>1, <2>2, Unheld
  <2>3. CASE c # z
    <3>1. lock'[c] = lock[c] /\ (InS3(c)' <=> InS3(c)) /\ garbage'[c] = garbage[c]
      BY <1>5, <1>7, <2>1, <2>3 DEF InS3
    <3>2. StraySafe(c)
      BY <1>5, <1>7, <3>1, StrayStays DEF Sweeps
    <3>. QED
      BY <3>2 DEF StraySafe
  <2>. QED
    BY <2>2, <2>3
<1>8. CASE InsertFile(u) \/ InsertFails(u) \/ UploadCrashes(u)
  <2>1. /\ \A v \in Uploaders : up'[v].pc \in {"put", "commit"} => up'[v] = up[v]
        /\ UNCHANGED <<row, garbage, objects, lock, sweep>>
    BY <1>8 DEF InsertFile, InsertFails, UploadCrashes, NoUpload, Uploads
  <2>. QED
    BY <2>1, QuietStray DEF InS3
<1>9. CASE UndoRetain(u)
  <2>. DEFINE z == Content[up[u].file]
              r == IF row[z] = NoRow THEN NoRow ELSE Released(row[z])
  <2>1. /\ z \in Shas /\ row[z] \in Rows /\ row' = [row EXCEPT ![z] = r]
        /\ \A v \in Uploaders : up'[v].pc \in {"put", "commit"} => up'[v] = up[v]
        /\ UNCHANGED <<garbage, objects, lock, sweep>>
    BY <1>9, BlobAssumption DEF UndoRetain, NoUpload, Locks
  <2>2. r.storage = row[z].storage
    BY <2>1, ReleasedRow
  <2>. HIDE DEF r
  <2>. QED
    BY <2>1, <2>2, SameStorage, QuietStray
<1>. QED
  BY <1>1, <1>2, <1>4, <1>6, <1>7, <1>8, <1>9 DEF UploadStep

\* What a sweep at work knows of its content, and what the end of one leaves.
LEMMA SweepFrame ==
    ASSUME BlobInv, NEW c \in Shas, AccountsFor(c), NEW s \in Sweepers, NEW z,
           c # z, sweep[s].pc # "idle" => sweep[s].sha = z,
           sweep'[s].pc # "idle" => sweep'[s].sha = z,
           \A t \in Sweepers : t # s => sweep'[t] = sweep[t],
           up' = up, row'[c] = row[c], garbage'[c] = garbage[c], lock'[c] = lock[c],
           c \in objects' <=> c \in objects
    PROVE  StraySafe(c)
<1>1. \A t \in Sweepers : /\ sweep[t].location \in Locations
                          /\ sweep'[t].pc # "idle" /\ sweep'[t].sha = c => sweep'[t] = sweep[t]
  BY DEF BlobInv, BlobTypeOK, Sweeps
<1>. QED
  BY <1>1, StrayStays DEF InS3

LEMMA SweepBegins ==
    ASSUME BlobInv, BlobInv', NEW c \in Shas, AccountsFor(c), NEW s \in Sweepers, NEW z \in Shas,
           StartSweep(s, z) \/ \E l \in Locations : StartCollect(s, z, l)
    PROVE  StraySafe(c)
<1>. USE DEF BlobInv, BlobTypeOK
<1>1. /\ lock' = [lock EXCEPT ![z] = s] /\ sweep[s].pc = "idle" /\ sweep'[s].sha = z
      /\ \A t \in Sweepers : t # s => sweep'[t] = sweep[t]
      /\ UNCHANGED <<row, garbage, objects, up>>
  <2>1. CASE StartSweep(s, z)
    BY <2>1 DEF StartSweep, SweepsRow, NoSweep
  <2>2. ASSUME NEW l \in Locations, StartCollect(s, z, l)
        PROVE  /\ lock' = [lock EXCEPT ![z] = s] /\ sweep[s].pc = "idle" /\ sweep'[s].sha = z
               /\ \A t \in Sweepers : t # s => sweep'[t] = sweep[t]
               /\ UNCHANGED <<row, garbage, objects, up>>
    BY <2>2 DEF StartCollect, TakesEntry
  <2>. QED
    BY <2>1, <2>2
<1>2. CASE c # z
  BY <1>1, <1>2, SweepFrame
<1>3. CASE c = z
  <2>1. \A l \in Locations : garbage[z][l].lease = s => garbage[z][l] # NoEntry
    BY BlobAssumption DEF NoEntry, Actors
  <2>2. \/ sweep'[s].pc = "delete"
        \/ sweep'[s].pc = "collect" /\ garbage[z][sweep'[s].location] # NoEntry
    <3>1. CASE StartSweep(s, z)
      BY <3>1 DEF StartSweep, NoSweep
    <3>2. ASSUME NEW l \in Locations, StartCollect(s, z, l)
          PROVE  sweep'[s].pc = "collect" /\ garbage[z][sweep'[s].location] # NoEntry
      BY <2>1, <3>2 DEF StartCollect, TakesEntry
    <3>. QED
      BY <3>1, <3>2
  <2>. QED
    BY <1>1, <1>3, <2>2, HeldBySweep
<1>. QED
  BY <1>2, <1>3

LEMMA SweepGoesOn ==
    ASSUME BlobInv, BlobInv', NEW c \in Shas, AccountsFor(c), NEW s \in Sweepers,
           SweepDeletes(s) \/ CollectDeletes(s)
    PROVE  StraySafe(c)
<1>. USE DEF BlobInv, BlobTypeOK
<1>1. /\ sweep[s].pc \in {"delete", "collect"} /\ objects' = objects \ {sweep[s].sha}
      /\ sweep'[s].pc = IF sweep[s].pc = "delete" THEN "commit" ELSE "collected"
      /\ sweep'[s].sha = sweep[s].sha /\ sweep'[s].location = sweep[s].location
      /\ \A t \in Sweepers : t # s => sweep'[t] = sweep[t]
      /\ UNCHANGED <<row, garbage, lock, up>>
  BY DEF SweepDeletes, CollectDeletes, Sweeps
<1>2. sweep[s].sha \in Shas /\ lock[sweep[s].sha] = s
  BY <1>1, OwnContent
<1>3. CASE c # sweep[s].sha
  BY <1>1, <1>3, SweepFrame
<1>4. CASE c = sweep[s].sha
  BY <1>1, <1>2, <1>4, HeldBySweep DEF AccountsFor
<1>. QED
  BY <1>3, <1>4

LEMMA SweepIsOver ==
    ASSUME BlobInv, BlobInv', NEW c \in Shas, AccountsFor(c), NEW s \in Sweepers,
           \/ CommitSweep(s) \/ ParkObject(s) \/ SweepFails(s)
           \/ CommitCollect(s) \/ CollectFails(s)
    PROVE  StraySafe(c)
<1>. USE DEF BlobInv, BlobTypeOK
<1>1. /\ sweep[s].pc # "idle" /\ lock' = [lock EXCEPT ![sweep[s].sha] = Nobody]
      /\ sweep' = [sweep EXCEPT ![s] = NoSweep] /\ UNCHANGED <<objects, up>>
  BY DEF CommitSweep, ParkObject, SweepFails, CommitCollect, CollectFails
<1>2. sweep[s].sha \in Shas /\ lock[sweep[s].sha] = s /\ row[sweep[s].sha] \in Rows
      /\ sweep[s].location \in Locations
  BY <1>1, OwnContent DEF Sweeps
<1>3. CASE c # sweep[s].sha
  <2>1. row'[c] = row[c] /\ garbage'[c] = garbage[c]
    BY <1>2, <1>3 DEF CommitSweep, ParkObject, SweepFails, CommitCollect, CollectFails
  <2>2. sweep'[s].pc = "idle" /\ \A t \in Sweepers : t # s => sweep'[t] = sweep[t]
    BY <1>1 DEF NoSweep
  <2>3. lock'[c] = lock[c]
    BY <1>1, <1>3
  <2>. QED
    BY <1>1, <1>3, <2>1, <2>2, <2>3, SweepFrame
<1>4. CASE c = sweep[s].sha
  <2>1. ASSUME CommitSweep(s) \/ CommitCollect(s) PROVE Stray(c)' => GoesEarly(c)
    BY <1>1, <1>4, <2>1 DEF Stray, GoesEarly
  <2>2. ASSUME ParkObject(s) PROVE Stray(c)' => Stray(c)
    <3>1. row[c].location \in Locations /\ garbage'[c][row[c].location] = Queued
      BY <1>2, <1>4, <2>2 DEF ParkObject, Rows
    <3>. QED
      BY <3>1 DEF Stray, Accounted, Queued, NoEntry
  <2>3. ASSUME SweepFails(s) PROVE Stray(c)' => Stray(c)
    <3>1. row[c].storage = "s3"
      BY <1>4, <2>3 DEF SweepFails, SweepsSound, InS3
    <3>2. row'[c].storage = "s3"
      BY <1>2, <1>4, <2>3, <3>1 DEF SweepFails, Rows
    <3>. QED
      BY <3>2 DEF Stray, Accounted, InS3
  <2>4. ASSUME CollectFails(s) PROVE Stray(c)' => Stray(c)
    <3>1. garbage[c][sweep[s].location] # NoEntry
      BY <1>4, <2>4 DEF CollectFails, AccountsFor
    <3>2. \/ garbage'[c][sweep[s].location] = Queued
          \/ garbage' = garbage
      BY <1>2, <1>4, <2>4 DEF CollectFails
    <3>3. garbage'[c][sweep[s].location] # NoEntry
      BY <3>1, <3>2 DEF Queued, NoEntry
    <3>. QED
      BY <1>2, <3>3 DEF Stray, Accounted
  <2>5. Stray(c)' => Stray(c) \/ GoesEarly(c)
    BY <2>1, <2>2, <2>3, <2>4
  <2>6. lock'[c] = Nobody
    BY <1>1, <1>2, <1>4
  <2>. QED
    BY <2>5, <2>6, Unheld DEF StraySafe
<1>. QED
  BY <1>3, <1>4

LEMMA SweepStray ==
    ASSUME BlobInv, BlobInv', NEW c \in Shas, AccountsFor(c), NEW s \in Sweepers, SweepStep(s)
    PROVE  StraySafe(c)
<1>. USE DEF BlobInv, BlobTypeOK
<1>1. ASSUME NEW z \in Shas, SweepDbRow(s, z) \/ RepairRow(s, z) PROVE StraySafe(c)
  <2>1. InS3(c)' <=> InS3(c)
    <3>1. CASE SweepDbRow(s, z)
      BY <3>1, SameStorage DEF SweepDbRow, NoRow
    <3>2. CASE RepairRow(s, z)
      <4>. DEFINE r == [row[z] EXCEPT !.refs = Cardinality(StoredFiles(z)),
                                      !.delete_after = "null"]
      <4>1. row \in [Shas -> Rows] /\ row[z] \in Rows
        OBVIOUS
      <4>2. row' = [row EXCEPT ![z].refs = Cardinality(StoredFiles(z)), ![z].delete_after = "null"]
        BY <3>2 DEF RepairRow
      <4>3. row' = [row EXCEPT ![z] = r]
        BY <4>1, <4>2
      <4>4. r.storage = row[z].storage
        BY <4>1 DEF Rows
      <4>. HIDE DEF r
      <4>. QED
        BY <4>3, <4>4, SameStorage
    <3>. QED
      BY <1>1, <3>1, <3>2
  <2>2. UNCHANGED <<objects, lock, sweep, garbage, up>>
    BY <1>1 DEF SweepDbRow, RepairRow
  <2>. QED
    BY <2>1, <2>2, QuietStray
<1>2. ASSUME NEW z \in Shas, NEW l \in Locations, ClaimGarbage(s, z, l) PROVE StraySafe(c)
  <2>1. \A k \in Locations : garbage'[c][k] = NoEntry => garbage[c][k] = NoEntry
    BY <1>2 DEF ClaimGarbage, NoEntry
  <2>2. UNCHANGED <<row, objects, lock, sweep, up>>
    BY <1>2 DEF ClaimGarbage
  <2>. QED
    BY <2>1, <2>2, QuietStray DEF InS3
<1>3. ASSUME NEW z \in Shas, NEW l \in Locations, DropEntry(s, z, l) PROVE StraySafe(c)
  <2>1. /\ InS3(z) /\ lock[z] = Nobody /\ garbage' = [garbage EXCEPT ![z][l] = NoEntry]
        /\ UNCHANGED <<row, objects, lock, sweep, up>>
    BY <1>3 DEF DropEntry, TakesEntry
  <2>2. CASE c # z
    BY <2>1, <2>2, QuietStray DEF InS3
  <2>3. CASE c = z
    BY <2>1, <2>3, Unheld DEF StraySafe, Stray, Accounted, InS3
  <2>. QED
    BY <2>2, <2>3
<1>. QED
  BY <1>1, <1>2, <1>3, SweepBegins, SweepGoesOn, SweepIsOver DEF SweepStep

LEMMA OtherStray ==
    ASSUME BlobInv, NEW c \in Shas, AccountsFor(c),
           \/ Reconfigure \/ Time \/ UNCHANGED blobVars
           \/ \E f \in Files : DeleteFile(f)
           \/ \E r \in Readers : ReadStep(r)
    PROVE  StraySafe(c)
<1>. USE DEF BlobInv, BlobTypeOK
<1>1. UNCHANGED <<objects, lock, sweep, up>>
  BY DEF Reconfigure, Time, ReleaseComesDue, GarbageComesDue, GarbageLeaseLapses, blobVars,
         DeleteFile, ReadStep, LookUp, Get, LookAgain, ReadRefused
<1>2. \A l \in Locations : garbage'[c][l] = NoEntry => garbage[c][l] = NoEntry
  <2>1. ASSUME NEW z \in Shas, NEW k \in Locations, NEW x \in {"due", "lapsed"},
               garbage[z][k].state # "none", garbage' = [garbage EXCEPT ![z][k].state = x],
               NEW l \in Locations, garbage'[c][l] = NoEntry
        PROVE  garbage[c][l] = NoEntry
    BY <2>1 DEF NoEntry, Entries
  <2>2. CASE garbage' = garbage
    BY <2>2
  <2>. QED
    BY <2>1, <2>2 DEF Reconfigure, Time, ReleaseComesDue, GarbageComesDue, GarbageLeaseLapses,
         blobVars, DeleteFile, ReadStep, LookUp, Get, LookAgain, ReadRefused
<1>3. InS3(c)' <=> InS3(c)
  <2>1. ASSUME NEW f \in Files, DeleteFile(f) PROVE InS3(c)' <=> InS3(c)
    <3>1. Content[f] \in Shas /\ row' = [row EXCEPT ![Content[f]] = Released(row[Content[f]])]
      BY <2>1, BlobAssumption DEF DeleteFile
    <3>2. row[Content[f]] \in Rows
      BY <3>1
    <3>. QED
      BY <3>1, <3>2, ReleasedRow, SameStorage
  <2>2. ASSUME NEW z \in Shas, ReleaseComesDue(z) PROVE InS3(c)' <=> InS3(c)
    BY <2>2 DEF ReleaseComesDue, InS3, Rows
  <2>3. CASE row' = row
    BY <2>3 DEF InS3
  <2>. QED
    BY <2>1, <2>2, <2>3 DEF Reconfigure, Time, GarbageComesDue, GarbageLeaseLapses,
         blobVars, ReadStep, LookUp, Get, LookAgain, ReadRefused
<1>. QED
  BY <1>1, <1>2, <1>3, QuietStray

AllAccount == BlobInv /\ \A c \in Shas : AccountsFor(c)

LEMMA NextStray ==
    AllAccount /\ [BlobNext]_blobVars =>
        /\ AllAccount'
        /\ \A c \in Shas :
               Stray(c)' => Stray(c) \/ GoesEarly(c) \/ \E u \in Uploaders : RetainFails(u)
<1>. SUFFICES ASSUME AllAccount, [BlobNext]_blobVars, NEW c \in Shas
              PROVE  StraySafe(c) \/ (AccountsFor(c)' /\ \E u \in Uploaders : RetainFails(u))
  BY BlobNextKeeps DEF AllAccount, StraySafe
<1>1. BlobInv' /\ BlobInv /\ AccountsFor(c)
  BY BlobNextKeeps DEF AllAccount
<1>. QED
  BY <1>1, UploadStray, SweepStray, OtherStray DEF BlobNext

LEMMA InitStray == BlobInit => AllAccount
  BY InitBlobInv DEF AllAccount, AccountsFor, BlobInit, NoUpload, NoSweep

\* What a sweeper has deleted stays away until its row or entry is gone.
Deleted(c) ==
    \A s \in Sweepers : sweep[s].sha = c /\ sweep[s].pc \in {"commit", "collected"} =>
        c \notin objects

\* Only a retain puts an object, and only a reader's step is seen by a reader.
LEMMA OneWrites ==
    ASSUME [BlobNext]_blobVars
    PROVE  /\ objects' \subseteq objects \/ \E u \in Uploaders : RetainPuts(u)
           /\ read' = read \/ \E r \in Readers : ReadStep(r)
<1>. DEFINE Quiet == objects' \subseteq objects /\ read' = read
<1>1. ASSUME NEW u \in Uploaders, UploadStep(u) PROVE read' = read /\ (Quiet \/ RetainPuts(u))
  BY <1>1 DEF UploadStep, RetainInDb, StartRetain, RetainPuts, CommitRetain, RetainFails,
              InsertFile, InsertFails, UndoRetain, UploadCrashes
<1>2. ASSUME NEW s \in Sweepers, SweepStep(s) PROVE Quiet
  BY <1>2 DEF SweepStep, SweepDbRow, RepairRow, StartSweep, SweepDeletes, CommitSweep, ParkObject,
              SweepFails, ClaimGarbage, DropEntry, StartCollect, CollectDeletes, CommitCollect,
              CollectFails
<1>3. ASSUME NEW r \in Readers, ReadStep(r) PROVE objects' = objects
  BY <1>3 DEF ReadStep, LookUp, Get, LookAgain, ReadRefused
<1>4. ASSUME NEW f \in Files, DeleteFile(f) PROVE Quiet
  BY <1>4 DEF DeleteFile
<1>5. CASE Time \/ Reconfigure \/ UNCHANGED blobVars
  BY <1>5 DEF Time, ReleaseComesDue, GarbageComesDue, GarbageLeaseLapses, Reconfigure, blobVars
<1>. QED
  BY <1>1, <1>2, <1>3, <1>4, <1>5 DEF BlobNext

LEMMA NextDeletes ==
    BlobInv /\ [BlobNext]_blobVars /\ (\A c \in Shas : Deleted(c)) => \A c \in Shas : Deleted(c)'
<1>. SUFFICES ASSUME BlobInv, [BlobNext]_blobVars, \A c \in Shas : Deleted(c), NEW c \in Shas,
                     NEW s \in Sweepers, sweep'[s].sha = c, sweep'[s].pc \in {"commit", "collected"}
              PROVE  c \notin objects'
  BY DEF Deleted
<1>. USE DEF BlobInv, BlobTypeOK
<1>1. CASE sweep'[s] = sweep[s]
  <2>1. c \notin objects /\ lock[c] = s
    BY <1>1 DEF Deleted, Locks
  <2>2. ASSUME NEW u \in Uploaders, RetainPuts(u) PROVE Content[up[u].file] # c
    BY <2>1, <2>2, BlobAssumption DEF RetainPuts, Locks
  <2>3. objects' \subseteq objects \/ \E u \in Uploaders : RetainPuts(u)
    BY OneWrites
  <2>. QED
    BY <2>1, <2>2, <2>3 DEF RetainPuts
<1>2. CASE sweep'[s] # sweep[s]
  <2>1. PICK t \in Sweepers : SweepStep(t)
    BY <1>2 DEF BlobNext, Reconfigure, UploadStep, RetainInDb, StartRetain, RetainPuts,
           CommitRetain, RetainFails, InsertFile, InsertFails, UndoRetain, UploadCrashes,
           DeleteFile, ReadStep, LookUp, Get, LookAgain, ReadRefused, Time, ReleaseComesDue,
           GarbageComesDue, GarbageLeaseLapses, blobVars
  <2>2. SweepDeletes(t) \/ CollectDeletes(t)
    <3>1. sweep' # sweep /\ ~ sweep'[s].pc \in {"idle", "delete", "collect"}
      BY <1>2
    <3>2. ASSUME NEW sha \in Shas, StartSweep(t, sha) PROVE FALSE
      BY <1>2, <3>1, <3>2 DEF StartSweep, NoSweep
    <3>3. ASSUME NEW sha \in Shas, NEW l \in Locations, StartCollect(t, sha, l) PROVE FALSE
      BY <1>2, <3>1, <3>3 DEF StartCollect
    <3>4. CASE sweep' = [sweep EXCEPT ![t] = NoSweep]
      BY <1>2, <3>1, <3>4 DEF NoSweep
    <3>. QED
      BY <2>1, <3>1, <3>2, <3>3, <3>4 DEF SweepStep, SweepDbRow, RepairRow, CommitSweep, ParkObject,
             SweepFails, ClaimGarbage, DropEntry, CommitCollect, CollectFails
  <2>3. /\ objects' = objects \ {sweep[t].sha} /\ sweep[t] \in Sweeps
        /\ sweep' = [sweep EXCEPT ![t].pc = "commit"] \/ sweep' = [sweep EXCEPT ![t].pc = "collected"]
    BY <2>2 DEF SweepDeletes, CollectDeletes
  <2>4. t = s
    BY <1>2, <2>3
  <2>5. sweep'[t].sha = sweep[t].sha
    BY <2>3 DEF Sweeps
  <2>. QED
    BY <2>3, <2>4, <2>5
<1>. QED
  BY <1>1, <1>2

(***************************************************************************)
(* Only a retain that ends between its PUT and its COMMIT leaves an object *)
(* in S3 that no row and no garbage entry accounts for.                    *)
(***************************************************************************)
THEOREM ObjectsStray == BlobSpec => ObjectsStrayByLossOnly
<1>. DEFINE I == AllAccount /\ \A c \in Shas : Deleted(c)
<1>1. BlobInit => I
  BY InitStray DEF Deleted, BlobInit, NoSweep
<1>2. I /\ [BlobNext]_blobVars => I'
  BY NextStray, NextDeletes DEF AllAccount
<1>3. I /\ [BlobNext]_blobVars =>
          [\A sha \in Shas :
               Stray(sha)' => Stray(sha) \/ \E u \in Uploaders : RetainFails(u)]_blobVars
  <2>1. (\A c \in Shas : Deleted(c)) => \A c \in Shas : ~GoesEarly(c)
    BY DEF Deleted, GoesEarly, CommitSweep, CommitCollect
  <2>. QED
    BY <2>1, NextStray
<1>. HIDE DEF I
<1>. QED
  BY <1>1, <1>2, <1>3, PTL DEF BlobSpec, ObjectsStrayByLossOnly

---------------------------------------------------------------------------
LEMMA DelayedRow ==
    ASSUME BlobInv, NEW c \in Shas, NEW sha, NEW d,
           row' = [row EXCEPT ![sha].delete_after = d]
    PROVE  row'[c].storage = row[c].storage
<1>1. row[c] \in Rows /\ row \in [Shas -> Rows]
  BY DEF BlobInv, BlobTypeOK
<1>2. row'[c] = row[c] \/ row'[c] = [row[c] EXCEPT !.delete_after = d]
  BY <1>1
<1>. QED
  BY <1>1, <1>2 DEF Rows

\* An upload or a sweep takes no lock from a loop, and moves no blob.
LEMMA BlobStepFrame ==
    ASSUME BlobInv, [BlobNext]_blobVars, NEW c \in Shas
    PROVE  /\ lock[c] \in Movers => lock'[c] = lock[c]
           /\ row[c] # NoRow /\ row'[c] # NoRow => row'[c].storage = row[c].storage
<1>. USE BlobAssumption DEF BlobInv
<1>. DEFINE Frame == /\ lock[c] \in Movers => lock'[c] = lock[c]
                     /\ row[c] # NoRow /\ row'[c] # NoRow => row'[c].storage = row[c].storage
<1>0. row[c] \in Rows /\ Nobody \notin Movers
  BY DEF BlobTypeOK, Actors
<1>1. ASSUME NEW u \in Uploaders, UploadStep(u) PROVE Frame
  <2>0. u \notin Movers
    OBVIOUS
  <2>1. ASSUME NEW f \in Files, RetainInDb(u, f) PROVE Frame
    <3>1. backend \in Storages /\ Content[f] \in Shas
      BY DEF BlobTypeOK
    <3>. QED
      BY <2>1, <3>1, RetainedRow DEF RetainInDb, BlobTypeOK
  <2>2. ASSUME NEW f \in Files, StartRetain(u, f) PROVE Frame
    BY <1>0, <2>2 DEF StartRetain, BlobTypeOK
  <2>3. CASE CommitRetain(u)
    <3>1. /\ Content[up[u].file] \in Shas /\ up[u].target \in Storages
          /\ lock[Content[up[u].file]] = u
      BY <2>3 DEF CommitRetain, Locks, BlobTypeOK, Uploads
    <3>. QED
      BY <2>0, <2>3, <3>1, RetainedRow DEF CommitRetain, BlobTypeOK
  <2>4. CASE RetainFails(u)
    <3>1. Content[up[u].file] \in Shas /\ lock[Content[up[u].file]] = u
      BY <2>4 DEF RetainFails, Locks
    <3>. QED
      BY <2>0, <2>4, <3>1 DEF RetainFails, BlobTypeOK
  <2>5. CASE UndoRetain(u)
    BY <1>0, <2>5, ReleasedRow DEF UndoRetain, BlobTypeOK
  <2>. QED
    BY <1>1, <2>1, <2>2, <2>3, <2>4, <2>5
       DEF UploadStep, RetainPuts, InsertFile, InsertFails, UploadCrashes
<1>2. ASSUME NEW f \in Files, DeleteFile(f) PROVE Frame
  BY <1>0, <1>2, ReleasedRow DEF DeleteFile, BlobTypeOK
<1>3. ASSUME NEW s \in Sweepers, SweepStep(s) PROVE Frame
  <2>0. s \notin Movers
    OBVIOUS
  <2>1. ASSUME NEW sha \in Shas, SweepDbRow(s, sha) \/ RepairRow(s, sha) PROVE Frame
    <3>1. CASE row' = [row EXCEPT ![sha] = NoRow] /\ lock' = lock
      BY <3>1 DEF BlobTypeOK
    <3>2. CASE RepairRow(s, sha)
      <4>1. row'[c].storage = row[c].storage /\ lock' = lock
        BY <1>0, <3>2 DEF RepairRow, BlobTypeOK, Rows
      <4>. QED
        BY <4>1
    <3>. QED
      BY <2>1, <3>1, <3>2 DEF SweepDbRow
  <2>2. ASSUME NEW sha \in Shas, StartSweep(s, sha) PROVE Frame
    BY <1>0, <2>2 DEF StartSweep, SweepsRow, BlobTypeOK
  <2>3. ASSUME NEW sha \in Shas, NEW l \in Locations, StartCollect(s, sha, l) PROVE Frame
    BY <1>0, <2>3 DEF StartCollect, TakesEntry, BlobTypeOK
  <2>4. CASE CommitSweep(s) \/ ParkObject(s) \/ SweepFails(s) \/ CommitCollect(s) \/ CollectFails(s)
    <3>1. sweep[s].sha \in Shas /\ lock[sweep[s].sha] = s
      BY <2>4, OwnContent DEF CommitSweep, ParkObject, SweepFails, CommitCollect, CollectFails
    <3>2. lock' = [lock EXCEPT ![sweep[s].sha] = Nobody]
      BY <2>4 DEF CommitSweep, ParkObject, SweepFails, CommitCollect, CollectFails
    <3>3. \/ row' = [row EXCEPT ![sweep[s].sha] = NoRow]
          \/ \E d \in {"grace", "due"} : row' = [row EXCEPT ![sweep[s].sha].delete_after = d]
          \/ row' = row
      BY <2>4 DEF CommitSweep, ParkObject, SweepFails, CommitCollect, CollectFails
    <3>4. lock[c] \in Movers => lock'[c] = lock[c]
      BY <2>0, <3>1, <3>2 DEF BlobTypeOK
    <3>5. CASE row' = [row EXCEPT ![sweep[s].sha] = NoRow]
      BY <3>1, <3>4, <3>5 DEF BlobTypeOK
    <3>6. CASE \E d \in {"grace", "due"} : row' = [row EXCEPT ![sweep[s].sha].delete_after = d]
      <4>1. row'[c].storage = row[c].storage
        BY <3>6, DelayedRow
      <4>. QED
        BY <3>4, <4>1
    <3>. QED
      BY <3>3, <3>4, <3>5, <3>6
  <2>. QED
    BY <1>3, <2>1, <2>2, <2>3, <2>4
       DEF SweepStep, SweepDeletes, ClaimGarbage, DropEntry, CollectDeletes
<1>4. ASSUME NEW r \in Readers, ReadStep(r) PROVE Frame
  BY <1>4 DEF ReadStep, LookUp, Get, LookAgain, ReadRefused
<1>5. CASE Time
  <2>1. ASSUME NEW sha \in Shas, ReleaseComesDue(sha) PROVE Frame
    <3>1. row'[c].storage = row[c].storage /\ lock' = lock
      BY <2>1, DelayedRow DEF ReleaseComesDue
    <3>. QED
      BY <3>1
  <2>. QED
    BY <1>5, <2>1 DEF Time, GarbageComesDue, GarbageLeaseLapses
<1>6. CASE UNCHANGED blobVars \/ Reconfigure
  BY <1>6 DEF blobVars, Reconfigure
<1>. QED
  BY <1>1, <1>2, <1>3, <1>4, <1>5, <1>6 DEF BlobNext

---------------------------------------------------------------------------
(***************************************************************************)
(* Readers.  What a reader was sent to while its file existed stays until  *)
(* it has it: the row is swept only after a grace, and the grace of a row  *)
(* that was due begins again when its last file goes.                      *)
(***************************************************************************)
\* A row that waits for the sweeper has no references, by its own count.
CountedOut(c) == row[c].delete_after # "null" => row[c].refs = 0

\* The row leads to the bytes, and no sweeper may take it, nor the object that it names.
Safe(c) ==
    /\ c \in Kept
    /\ row[c].delete_after = "due" => ~NoFile(c)
    /\ \A s \in Sweepers : sweep[s].pc \in {"delete", "commit"} => sweep[s].sha # c

ReaderSound(r) == read[r].sure /\ read[r].pc \in {"get", "again"} => Safe(read[r].sha)

ReadInv ==
    /\ \A c \in Shas : CountedOut(c)
    /\ \A r \in Readers : ReaderSound(r)

\* The next row of a content, in three words.
LEMMA RowsCounted ==
    ASSUME BlobInv, NEW c \in Shas, CountedOut(c), row[c] # NoRow
    PROVE  /\ \A target \in Storages :
                  /\ Retained(c, target).delete_after = "null"
                  /\ Retained(c, target).storage = row[c].storage
           /\ Released(row[c]).storage = row[c].storage
           /\ Released(row[c]).delete_after # "due"
           /\ Released(row[c]).delete_after # "null" => Released(row[c]).refs = 0
<1>1. row[c] \in Rows
  BY DEF BlobInv, BlobTypeOK
<1>2. row[c].refs > 1 => row[c].delete_after = "null"
  BY <1>1 DEF CountedOut, Rows
<1>. QED
  BY <1>1, <1>2, RetainedRow DEF BlobInv, Released, Rows

\* Somebody fetches the object of the content.
Reading(c) == \E r \in Readers : read[r].pc \in {"get", "again"} /\ read[r].sha = c

SweepsOf(c) == {s \in Sweepers : sweep[s].pc \in {"delete", "commit"} /\ sweep[s].sha = c}

\* A step at one content, other than a reader's.
LEMMA ReadersStay ==
    ASSUME BlobInv, ReadInv, read' = read, NEW z \in Shas,
           \A c \in Shas : c # z =>
               /\ row'[c] = row[c]
               /\ c \in objects => c \in objects'
               /\ NoFile(c)' => NoFile(c)
               /\ SweepsOf(c)' \subseteq SweepsOf(c),
           CountedOut(z)', Safe(z) /\ Reading(z) => Safe(z)'
    PROVE  ReadInv'
<1>1. \A c \in Shas : CountedOut(c)'
  BY DEF ReadInv, CountedOut
<1>2. ASSUME NEW c \in Shas, Safe(c), Reading(c) PROVE Safe(c)'
  BY <1>2 DEF Safe, SweepsOf, Kept, InS3
<1>3. ASSUME NEW r \in Readers, read[r].sure, read[r].pc \in {"get", "again"}
      PROVE  Safe(read[r].sha)'
  <2>1. Safe(read[r].sha) /\ read[r].sha \in Shas
    BY <1>3 DEF ReadInv, ReaderSound, Safe, Kept
  <2>. QED
    BY <1>2, <1>3, <2>1 DEF Reading
<1>. QED
  BY <1>1, <1>3 DEF ReadInv, ReaderSound

\* Any content will do for a step that writes no row.
LEMMA ReadersQuiet ==
    ASSUME BlobInv, ReadInv, read' = read, row' = row, objects \subseteq objects',
           \A f \in Files : file[f] = "stored" => file'[f] = "stored",
           \A c \in Shas : SweepsOf(c)' \subseteq SweepsOf(c)
    PROVE  ReadInv'
<1>1. \A c \in Shas : CountedOut(c)' /\ (Safe(c) => Safe(c)')
  BY DEF ReadInv, CountedOut, Safe, SweepsOf, Kept, InS3, NoFile
<1>2. \A r \in Readers : ReaderSound(r)'
  <2>. TAKE r \in Readers
  <2>1. Safe(read[r].sha) => read[r].sha \in Shas
    BY DEF Safe, Kept
  <2>. QED
    BY <1>1, <2>1 DEF ReadInv, ReaderSound
<1>. QED
  BY <1>1, <1>2 DEF ReadInv

\* A retain or a release.
LEMMA ReferenceReads ==
    ASSUME BlobInv, ReadInv, read' = read, sweep' = sweep, objects' = objects,
           NEW z \in Shas, NEW r, row' = [row EXCEPT ![z] = r],
           \/ \E target \in Storages : r = Retained(z, target)
           \/ row[z] # NoRow /\ r = Released(row[z])
           \/ row[z] = NoRow /\ r = NoRow,
           \A f \in Files : Content[f] # z /\ file[f] = "stored" => file'[f] = "stored"
    PROVE  ReadInv'
<1>1. row'[z] = r /\ \A c \in Shas : c # z => row'[c] = row[c]
  BY DEF BlobInv, BlobTypeOK
<1>2. r.delete_after # "null" => r.refs = 0
  BY RowsCounted, RetainedRow DEF BlobInv, ReadInv, NoRow
<1>3. row[z].storage \in Storages => r.storage = row[z].storage /\ r.delete_after # "due"
  BY RowsCounted DEF ReadInv, NoRow, Storages
<1>4. Safe(z) => Safe(z)'
  BY <1>1, <1>3 DEF Safe, Kept, InS3, Storages
<1>5. \A c \in Shas : c # z => (NoFile(c)' => NoFile(c)) /\ SweepsOf(c)' \subseteq SweepsOf(c)
  BY DEF NoFile, SweepsOf
<1>6. CountedOut(z)'
  BY <1>1, <1>2 DEF CountedOut
<1>. QED
  BY <1>1, <1>4, <1>5, <1>6, ReadersStay

LEMMA UploadReads ==
    ASSUME BlobInv, ReadInv, NEW u \in Uploaders, UploadStep(u)
    PROVE  ReadInv'
<1>. USE BlobAssumption
<1>0. up[u].pc # "idle" => up[u].file \in Files /\ Content[up[u].file] \in Shas
  BY DEF BlobInv, Locks
<1>1. ASSUME NEW f \in Files, RetainInDb(u, f) PROVE ReadInv'
  <2>1. /\ backend \in Storages /\ Content[f] \in Shas
        /\ row' = [row EXCEPT ![Content[f]] = Retained(Content[f], backend)]
        /\ UNCHANGED <<read, sweep, objects>> /\ FileFollows(u, f)
    BY <1>1 DEF RetainInDb, BlobInv, BlobTypeOK
  <2>2. \A g \in Files : g # f => file'[g] = file[g]
    BY <2>1, FileFollowsTyped DEF BlobInv
  <2>. QED
    BY <2>1, <2>2, ReferenceReads
<1>2. CASE CommitRetain(u)
  <2>. DEFINE f == up[u].file
  <2>1. /\ f \in Files /\ Content[f] \in Shas /\ up[u].target \in Storages
        /\ row' = [row EXCEPT ![Content[f]] = Retained(Content[f], up[u].target)]
        /\ UNCHANGED <<read, sweep, objects>> /\ FileFollows(u, f)
    BY <1>0, <1>2 DEF CommitRetain, BlobInv, BlobTypeOK, Uploads
  <2>2. \A g \in Files : g # f => file'[g] = file[g]
    BY <2>1, FileFollowsTyped DEF BlobInv
  <2>. HIDE DEF f
  <2>. QED
    BY <2>1, <2>2, ReferenceReads
<1>3. CASE UndoRetain(u)
  <2>. DEFINE f == up[u].file
              r == IF row[Content[f]] = NoRow THEN NoRow ELSE Released(row[Content[f]])
  <2>1. /\ f \in Files /\ Content[f] \in Shas
        /\ row' = [row EXCEPT ![Content[f]] = r]
        /\ UNCHANGED <<read, sweep, objects>>
        /\ \A g \in Files : file[g] = "stored" => file'[g] = "stored"
    BY <1>0, <1>3 DEF UndoRetain, BlobInv, BlobTypeOK
  <2>2. \/ row[Content[f]] # NoRow /\ r = Released(row[Content[f]])
        \/ row[Content[f]] = NoRow /\ r = NoRow
    OBVIOUS
  <2>. HIDE DEF f, r
  <2>. QED
    BY <2>1, <2>2, ReferenceReads
<1>4. CASE \/ \E f \in Files : StartRetain(u, f)
           \/ RetainPuts(u) \/ RetainFails(u) \/ InsertFile(u) \/ InsertFails(u) \/ UploadCrashes(u)
  <2>1. UNCHANGED <<row, read, sweep>> /\ objects \subseteq objects'
    BY <1>4 DEF StartRetain, RetainPuts, RetainFails, InsertFile, InsertFails, UploadCrashes
  <2>2. \A g \in Files : file[g] = "stored" => file'[g] = "stored"
    <3>1. up[u].pc \in {"put", "commit"} => file[up[u].file] # "stored"
      BY DEF BlobInv, UploadsSound
    <3>. QED
      BY <1>4, <3>1 DEF StartRetain, RetainPuts, RetainFails, InsertFile, InsertFails,
                        UploadCrashes, BlobInv, BlobTypeOK
  <2>. QED
    BY <2>1, <2>2, ReadersQuiet DEF SweepsOf
<1>. QED
  BY <1>1, <1>2, <1>3, <1>4 DEF UploadStep

LEMMA DeleteReads ==
    ASSUME BlobInv, ReadInv, NEW f \in Files, DeleteFile(f)
    PROVE  ReadInv'
<1>1. /\ Content[f] \in Shas /\ file[f] = "stored" /\ file' = [file EXCEPT ![f] = "gone"]
      /\ row' = [row EXCEPT ![Content[f]] = Released(row[Content[f]])]
      /\ UNCHANGED <<objects, sweep, read>>
  BY BlobAssumption DEF DeleteFile
<1>2. row[Content[f]] # NoRow
  BY <1>1 DEF BlobInv, RowsSound, RowSound, NoFile, NoRow
<1>3. \A g \in Files : g # f => file'[g] = file[g]
  BY <1>1 DEF BlobInv, BlobTypeOK
<1>. QED
  BY <1>1, <1>2, <1>3, ReferenceReads

LEMMA SweepReads ==
    ASSUME BlobInv, ReadInv, NEW s \in Sweepers, SweepStep(s)
    PROVE  ReadInv'
<1>. USE DEF BlobInv, BlobTypeOK
<1>1. file' = file /\ read' = read
  BY DEF SweepStep, SweepDbRow, RepairRow, StartSweep, SweepDeletes, CommitSweep, ParkObject,
       SweepFails, ClaimGarbage, DropEntry, StartCollect, CollectDeletes, CommitCollect, CollectFails
<1>2. \A c : NoFile(c)' <=> NoFile(c)
  BY <1>1 DEF NoFile
\* A content that is not safe is none of a sure reader's.
<1>3. ASSUME NEW z \in Shas, ~Safe(z), CountedOut(z)',
             \A c \in Shas : c # z => row'[c] = row[c] /\ (c \in objects => c \in objects'),
             \A c \in Shas : c # z => SweepsOf(c)' \subseteq SweepsOf(c)
      PROVE  ReadInv'
  BY <1>1, <1>2, <1>3, ReadersStay
<1>4. ASSUME NEW z \in Shas, SweepDbRow(s, z) PROVE ReadInv'
  <2>1. ~Safe(z) /\ row' = [row EXCEPT ![z] = NoRow] /\ UNCHANGED <<objects, sweep>>
    BY <1>4 DEF SweepDbRow, SweepsRow, IsDue, StoredFiles, NoFile, Safe
  <2>2. row'[z] = NoRow /\ \A c \in Shas : c # z => row'[c] = row[c]
    BY <2>1
  <2>. QED
    BY <1>3, <2>1, <2>2 DEF CountedOut, NoRow, SweepsOf
<1>5. ASSUME NEW z \in Shas, RepairRow(s, z) PROVE ReadInv'
  <2>1. /\ UNCHANGED <<objects, sweep>>
        /\ row' = [row EXCEPT ![z].refs = Cardinality(StoredFiles(z)), ![z].delete_after = "null"]
    BY <1>5 DEF RepairRow
  <2>2. /\ row'[z].storage = row[z].storage /\ row'[z].delete_after = "null"
        /\ \A c \in Shas : c # z => row'[c] = row[c]
    BY <2>1 DEF Rows
  <2>3. CountedOut(z)' /\ (Safe(z) => Safe(z)')
    BY <2>1, <2>2 DEF CountedOut, Safe, Kept, InS3
  <2>. QED
    BY <1>1, <1>2, <2>1, <2>2, <2>3, ReadersStay DEF SweepsOf
<1>6. ASSUME NEW z \in Shas, StartSweep(s, z) PROVE ReadInv'
  <2>1. /\ row[z].delete_after = "due" /\ NoFile(z) /\ UNCHANGED <<objects, row>>
        /\ \A t \in Sweepers : t # s => sweep'[t] = sweep[t]
        /\ sweep'[s].sha = z
    BY <1>6 DEF StartSweep, SweepsRow, IsDue, StoredFiles, NoFile, NoSweep
  <2>2. ~Safe(z)
    BY <2>1 DEF Safe
  <2>3. CountedOut(z)'
    BY <2>1 DEF ReadInv, CountedOut
  <2>. QED
    BY <1>3, <2>1, <2>2, <2>3 DEF SweepsOf
<1>7. CASE SweepDeletes(s) \/ CollectDeletes(s)
  <2>1. /\ sweep[s].pc \in {"delete", "collect"} /\ objects' = objects \ {sweep[s].sha}
        /\ row' = row /\ sweep'[s].sha = sweep[s].sha
        /\ \A t \in Sweepers : t # s => sweep'[t] = sweep[t]
    BY <1>7 DEF SweepDeletes, CollectDeletes, Sweeps
  <2>2. PICK z \in Shas : z = sweep[s].sha
    BY <2>1, OwnContent
  <2>3. Safe(z) => Safe(z)'
    <3>1. CASE sweep[s].pc = "delete"
      BY <2>2, <3>1 DEF Safe
    <3>2. CASE sweep[s].pc = "collect"
      <4>1. ~InS3(z) /\ CollectDeletes(s)
        BY <1>7, <2>2, <3>2 DEF SweepsSound, SweepDeletes
      <4>2. sweep'[s].pc = "collected"
        BY <4>1 DEF CollectDeletes, Sweeps
      <4>. QED
        BY <1>2, <2>1, <4>1, <4>2 DEF Safe, Kept, InS3
    <3>. QED
      BY <2>1, <3>1, <3>2
  <2>4. CountedOut(z)'
    BY <2>1 DEF CountedOut, ReadInv
  <2>5. \A c \in Shas : c # z => SweepsOf(c)' \subseteq SweepsOf(c)
    BY <2>1, <2>2 DEF SweepsOf
  <2>6. \A c \in Shas : c # z => row'[c] = row[c] /\ (c \in objects => c \in objects')
    BY <2>1, <2>2
  <2>. QED
    BY <1>1, <1>2, <2>3, <2>4, <2>5, <2>6, ReadersStay
<1>8. CASE \/ CommitSweep(s) \/ ParkObject(s) \/ SweepFails(s)
  <2>1. /\ sweep[s].pc \in {"delete", "commit"} /\ objects' = objects
        /\ sweep' = [sweep EXCEPT ![s] = NoSweep]
        /\ \/ row' = [row EXCEPT ![sweep[s].sha] = NoRow]
           \/ \E d \in {"grace", "due"} : row' = [row EXCEPT ![sweep[s].sha].delete_after = d]
    BY <1>8 DEF CommitSweep, ParkObject, SweepFails
  <2>2. PICK z \in Shas : z = sweep[s].sha
    BY <2>1, OwnContent
  <2>3. ~Safe(z) /\ row[z].refs = 0
    BY <2>1, <2>2 DEF Safe, SweepsSound, ReadInv, CountedOut
  <2>4. /\ row'[z].refs = 0
        /\ \A c \in Shas : c # z => row'[c] = row[c]
    BY <2>1, <2>2, <2>3 DEF NoRow, Rows
  <2>5. \A c \in Shas : c # z => SweepsOf(c)' \subseteq SweepsOf(c)
    BY <2>1 DEF SweepsOf, NoSweep
  <2>. QED
    BY <1>3, <2>1, <2>3, <2>4, <2>5 DEF CountedOut
<1>9. CASE \/ \E z \in Shas, l \in Locations :
                  ClaimGarbage(s, z, l) \/ DropEntry(s, z, l) \/ StartCollect(s, z, l)
           \/ CommitCollect(s) \/ CollectFails(s)
  <2>1. /\ UNCHANGED <<row, objects>>
        /\ \A t \in Sweepers : sweep'[t] = sweep[t] \/ sweep'[t].pc \in {"idle", "collect"}
    BY <1>9 DEF ClaimGarbage, DropEntry, StartCollect, CommitCollect, CollectFails, NoSweep
  <2>. QED
    BY <1>1, <2>1, ReadersQuiet DEF SweepsOf
<1>. QED
  BY <1>4, <1>5, <1>6, <1>7, <1>8, <1>9 DEF SweepStep

LEMMA TimeReads ==
    ASSUME BlobInv, ReadInv, Time
    PROVE  ReadInv'
<1>1. ASSUME NEW z \in Shas, ReleaseComesDue(z) PROVE ReadInv'
  <2>1. /\ row[z].delete_after = "grace" /\ ~Reading(z)
        /\ row' = [row EXCEPT ![z].delete_after = "due"]
        /\ UNCHANGED <<objects, file, sweep, read>>
    BY <1>1 DEF ReleaseComesDue, Unhurried, Reading
  <2>2. /\ row'[z].refs = row[z].refs
        /\ \A c \in Shas : c # z => row'[c] = row[c]
    BY <2>1 DEF BlobInv, BlobTypeOK, Rows
  <2>3. CountedOut(z)'
    BY <2>1, <2>2 DEF CountedOut, ReadInv
  <2>. QED
    BY <2>1, <2>2, <2>3, ReadersStay DEF NoFile, SweepsOf
<1>2. ASSUME UNCHANGED <<row, objects, file, sweep, read>> PROVE ReadInv'
  BY <1>2, ReadersQuiet DEF SweepsOf
<1>. QED
  BY <1>1, <1>2 DEF Time, GarbageComesDue, GarbageLeaseLapses

LEMMA ReaderReads ==
    ASSUME BlobInv, ReadInv, NEW r \in Readers, ReadStep(r)
    PROVE  ReadInv'
<1>. USE DEF BlobInv, BlobTypeOK
<1>1. /\ UNCHANGED <<row, objects, file, sweep>>
      /\ \A q \in Readers : q # r => read'[q] = read[q]
  BY DEF ReadStep, LookUp, Get, LookAgain, ReadRefused
<1>2. \A c : (Safe(c)' <=> Safe(c)) /\ (CountedOut(c)' <=> CountedOut(c))
  BY <1>1 DEF Safe, CountedOut, Kept, InS3, NoFile
<1>3. ASSUME NEW f \in Files, LookUp(r, f), read'[r].sure
      PROVE  read'[r].pc = "get" /\ Safe(read'[r].sha)
  <2>. DEFINE c == Content[f]
  <2>1. /\ c \in Shas /\ file[f] = "stored" /\ row[c].storage # "db"
        /\ read'[r].pc = (IF InS3(c) THEN "get" ELSE "missing") /\ read'[r].sha = c
    BY <1>3, BlobAssumption DEF LookUp
  <2>2. ~NoFile(c)
    BY <2>1 DEF NoFile
  <2>3. InS3(c) /\ c \in objects
    BY <2>1, <2>2 DEF RowsSound, RowSound, Unused, InS3, Rows, Storages
  <2>4. \A s \in Sweepers : sweep[s].pc \in {"delete", "commit"} => sweep[s].sha # c
    BY <2>2 DEF SweepsSound, Unused
  <2>. QED
    BY <2>1, <2>2, <2>3, <2>4 DEF Safe, Kept
<1>4. ASSUME Get(r) \/ LookAgain(r) \/ ReadRefused(r), read'[r].sure,
             read'[r].pc \in {"get", "again"}
      PROVE  Safe(read'[r].sha)
  <2>1. /\ read[r] \in Reads /\ read[r].sure /\ read[r].pc \in {"get", "again"}
        /\ read'[r].sha = read[r].sha
    BY <1>4 DEF Get, LookAgain, ReadRefused, NoRead, Reads
  <2>. QED
    BY <2>1 DEF ReadInv, ReaderSound
<1>5. read'[r].sure /\ read'[r].pc \in {"get", "again"} => Safe(read'[r].sha)
  BY <1>3, <1>4 DEF ReadStep
<1>6. ReaderSound(r)'
  <2>1. Safe(read'[r].sha) => Safe(read[r].sha)'
    BY <1>1 DEF Safe, Kept, InS3, NoFile
  <2>. QED
    BY <1>5, <2>1 DEF ReaderSound
<1>7. \A q \in Readers : q # r => ReaderSound(q)'
  <2>1. \A q \in Readers : q # r => (Safe(read[q].sha) => Safe(read[q].sha)')
    BY <1>1 DEF Safe, Kept, InS3, NoFile
  <2>. QED
    BY <1>1, <2>1 DEF ReaderSound, ReadInv
<1>. QED
  BY <1>2, <1>6, <1>7 DEF ReadInv

LEMMA NextReads == BlobInv /\ ReadInv /\ [BlobNext]_blobVars => ReadInv'
<1>. SUFFICES ASSUME BlobInv, ReadInv, [BlobNext]_blobVars PROVE ReadInv'
  OBVIOUS
<1>1. CASE Reconfigure \/ UNCHANGED blobVars
  BY <1>1, ReadersQuiet DEF Reconfigure, blobVars, SweepsOf
<1>. QED
  BY <1>1, UploadReads, DeleteReads, SweepReads, TimeReads, ReaderReads DEF BlobNext

LEMMA InitReads == BlobInit => ReadInv
  BY DEF BlobInit, ReadInv, CountedOut, ReaderSound, NoRow, NoRead

\* Who makes no step of a reader finds what he read as it was; a safe row stays where it is.
LEMMA ReadersWait ==
    ASSUME BlobInv, BlobInv', ReadInv, ReadInv', [BlobNext]_blobVars, NEW r \in Readers, ~ReadStep(r)
    PROVE  /\ read'[r] = read[r]
           /\ read[r].sure /\ read[r].pc \in {"get", "again"} =>
                  row'[read[r].sha].storage = row[read[r].sha].storage
<1>1. read'[r] = read[r]
  <2>1. ASSUME NEW q \in Readers, ReadStep(q) PROVE read'[r] = read[r]
    BY <2>1 DEF ReadStep, LookUp, Get, LookAgain, ReadRefused, BlobInv, BlobTypeOK
  <2>. QED
    BY <2>1, OneWrites
<1>2. ASSUME read[r].sure, read[r].pc \in {"get", "again"}
      PROVE  row'[read[r].sha].storage = row[read[r].sha].storage
  <2>1. read[r].sha \in Kept /\ read'[r].sha \in Kept'
    BY <1>1, <1>2 DEF ReadInv, ReaderSound, Safe
  <2>2. read[r].sha \in Shas /\ row[read[r].sha] # NoRow /\ row'[read[r].sha] # NoRow
    BY <1>1, <2>1 DEF Kept, InS3, NoRow
  <2>. QED
    BY <2>2, BlobStepFrame
<1>. QED
  BY <1>1, <1>2

\* While nothing is moved, a reader is sent to S3 and finds the object there.
Served(r) ==
    read[r].sure => /\ read[r].pc \in {"idle", "get"}
                    /\ read[r].pc = "get" => InS3(read[r].sha)

LEMMA ReadServed ==
    ASSUME BlobInv, ReadInv, NEW r \in Readers, Served(r), ReadStep(r)
    PROVE  Served(r)'
<1>. USE DEF BlobInv, BlobTypeOK
<1>1. row' = row
  BY DEF ReadStep, LookUp, Get, LookAgain, ReadRefused
<1>2. ASSUME NEW f \in Files, LookUp(r, f) PROVE Served(r)'
  <2>1. /\ row[Content[f]].storage # "db" /\ Content[f] \in Shas
        /\ read'[r].sure => file[f] = "stored"
        /\ read'[r].pc = (IF InS3(Content[f]) THEN "get" ELSE "missing")
        /\ read'[r].sha = Content[f]
    BY <1>2, BlobAssumption DEF LookUp
  <2>2. file[f] = "stored" => InS3(Content[f])
    BY <2>1 DEF RowsSound, RowSound, NoFile, Rows, Storages, InS3
  <2>. QED
    BY <1>1, <2>1, <2>2 DEF Served, InS3
<1>3. CASE Get(r) \/ LookAgain(r) \/ ReadRefused(r)
  <2>1. read[r] \in Reads
    OBVIOUS
  <2>2. read[r].sure /\ read[r].pc = "get" => read[r].sha \in objects
    BY DEF Served, ReadInv, ReaderSound, Safe, Kept, InS3
  <2>3. ~NoRead.sure
    BY DEF NoRead
  <2>4. ASSUME Get(r) PROVE ~read'[r].sure
    <3>. DEFINE again == [read[r] EXCEPT !.pc = "again"]
    <3>1. read'[r] = (IF read[r].sha \in objects THEN NoRead ELSE again) /\ read[r].pc = "get"
      BY <2>4 DEF Get
    <3>2. again.sure = read[r].sure
      BY <2>1 DEF Reads
    <3>. HIDE DEF again
    <3>. QED
      BY <2>2, <2>3, <3>1, <3>2
  <2>5. ASSUME LookAgain(r) PROVE ~read'[r].sure
    <3>. DEFINE missing == [read[r] EXCEPT !.pc = "missing"]
    <3>1. (read'[r] = NoRead \/ read'[r] = missing) /\ read[r].pc = "again"
      BY <2>5 DEF LookAgain
    <3>2. missing.sure = read[r].sure
      BY <2>1 DEF Reads
    <3>. HIDE DEF missing
    <3>. QED
      BY <2>3, <3>1, <3>2 DEF Served
  <2>6. ASSUME ReadRefused(r) PROVE ~read'[r].sure
    BY <2>3, <2>6 DEF ReadRefused
  <2>7. ~read'[r].sure
    BY <1>3, <2>4, <2>5, <2>6
  <2>. QED
    BY <2>7 DEF Served
<1>. QED
  BY <1>2, <1>3 DEF ReadStep

(***************************************************************************)
(* While nothing is moved, who looked a blob up while its file existed     *)
(* gets the bytes, whatever is deleted and swept before the object is      *)
(* fetched.                                                                *)
(***************************************************************************)
THEOREM ReadersServed == BlobSpec => []ReadersAreServed
<1>. DEFINE I == BlobInv /\ ReadInv /\ \A r \in Readers : Served(r)
<1>1. BlobInit => I
  BY InitBlobInv, InitReads DEF BlobInit, Served, NoRead
<1>2. I /\ [BlobNext]_blobVars => I'
  <2>. SUFFICES ASSUME I, [BlobNext]_blobVars PROVE I'
    OBVIOUS
  <2>1. BlobInv' /\ ReadInv'
    BY BlobNextKeeps, NextReads
  <2>2. ASSUME NEW r \in Readers PROVE Served(r)'
    <3>1. CASE ~ReadStep(r)
      BY <2>1, <3>1, ReadersWait DEF Served, InS3
    <3>. QED
      BY <3>1, ReadServed
  <2>. QED
    BY <2>1, <2>2
<1>3. I => ReadersAreServed
  BY DEF Served, ReadersAreServed
<1>. HIDE DEF I
<1>. QED
  BY <1>1, <1>2, <1>3, PTL DEF BlobSpec
=============================================================================
