------------------------------ MODULE StoreDb ------------------------------
(***************************************************************************)
(* The tables of one vector store that the file-search subsystem keeps in  *)
(* Postgres, and what each worker loop of a gateway remembers between two  *)
(* statements.  No action here: Ingest, StoreOps and Reembed hold those,   *)
(* FileSearch composes them.                                               *)
(*                                                                         *)
(* Granularity.  One action is one database transaction (or one            *)
(* autocommitted statement); everything a gateway does between two of them *)
(* is a separate step, so whatever it read may be stale when it is used.   *)
(*                                                                         *)
(* A recipe is what a generation of chunks is made with: an embedding      *)
(* model and a chunking setting.  A re-embed changes the model and a       *)
(* re-chunk the setting; a file's own strategy, which overrides the        *)
(* setting for that file, is left out.                                     *)
(***************************************************************************)
EXTENDS Naturals, FiniteSets

CONSTANTS
    Files,        \* the uploaded files that can be attached
    Batches,      \* the file batches that can be created
    Workers,      \* the worker loops of all gateways
    Models,       \* embedding models
    Settings,     \* chunking settings
    Model0,       \* the model and the setting the store was created with
    Setting0,
    NoBatch, NoRecipe, NoFile,
    MaxRetries,   \* ingestion.maxRetries
    MaxStale,     \* MAX_STALE_COMMITS
    MaxMemory,    \* MAX_MEMORY_HANDBACKS
    MaxBusy,      \* bound: statements that a busy database pool refuses in one behaviour
    MaxAdmitted,  \* bound: attach requests between their checks and their insert
    MaxJobs       \* bound: re-embed jobs started in one behaviour

Recipes == Models \X Settings
Recipe0 == <<Model0, Setting0>>

ASSUME ConstantsAssumption ==
    /\ Model0 \in Models
    /\ Setting0 \in Settings
    /\ NoBatch \notin Batches
    /\ NoRecipe \notin Recipes
    /\ NoFile \notin Files
    /\ MaxRetries \in Nat \ {0}
    /\ MaxStale \in Nat \ {0}
    /\ MaxMemory \in Nat
    /\ MaxBusy \in Nat
    /\ MaxAdmitted \in Nat
    /\ MaxJobs \in Nat

Generations == 0..MaxJobs   \* every switch adds one
Jobs == 1..MaxJobs          \* in creation order: a larger number was created later

VARIABLES
    store,    \* the vector_stores row
    member,   \* vector_store_files, one row per attached file
    chunks,   \* vector_store_chunks: the recipe of a file's chunks per generation
    batch,    \* vector_store_batches with its fs_jobs row (kind file_batch)
    job,      \* fs_jobs rows of kind reembed_store
    item,     \* fs_reembed_items
    worker,   \* the worker loops
    admitted, \* attach requests past the HTTP layer's checks, not yet inserted
    busy      \* hand-backs and failed polls on a busy pool so far (bounded by MaxBusy)

vars == <<store, member, chunks, batch, job, item, worker, admitted, busy>>

MemberStatus == {"absent", "in_progress", "completed", "failed", "cancelled"}

(***************************************************************************)
(* A lease is claimed_at as the claim reads it: "none" is NULL, "held" is  *)
(* younger than the lease (or backdated by a hand-back and not yet due),   *)
(* "lapsed" is older.                                                      *)
(***************************************************************************)
Lease == {"none", "held", "lapsed"}

\* last_error as far as the code reads it back: its kind and memory_handbacks.
Cause == {"none", "error", "model_unavailable"}

Attempts == 0..MaxRetries
Handbacks == 0..(MaxMemory + 1)   \* one more than the limit stands for all above it

Members ==
    [status : MemberStatus, attempts : Attempts, lease : Lease,
     batch : Batches \cup {NoBatch}, cause : Cause, memory : Handbacks]

NoMember ==
    [status |-> "absent", attempts |-> 0, lease |-> "none",
     batch |-> NoBatch, cause |-> "none", memory |-> 0]

Stores ==
    [status : {"live", "expired", "deleted"}, gen : Generations,
     recipe : Recipes, due : BOOLEAN]

\* started_at, a time the listings show, is left out.
\* state: "creating" and "discarding" are createBatch in flight, todo its members left.
BatchRows ==
    [state : {"unused", "creating", "discarding", "created", "gone"},
     cancel : BOOLEAN, job : {"none", "running", "finished"}, todo : SUBSET Files]

\* state folds finished_at, error and cancel_requested; "gone" is a deleted row.
JobRows ==
    [state : {"unused", "running", "switched", "failed", "cancelled", "gone"},
     recipe : Recipes, gen : Generations, rechunk : BOOLEAN]

ItemStatus == {"absent", "in_progress", "completed", "failed", "cancelled"}

Items ==
    [status : ItemStatus, attempts : Attempts, lease : Lease,
     memory : Handbacks]

NoItem == [status |-> "absent", attempts |-> 0, lease |-> "none", memory |-> 0]
OpenItem == [NoItem EXCEPT !.status = "in_progress"]

PCs == {"down", "idle", "loading", "cancelling", "working", "exhausted",
        "reloading", "polled", "item", "embedding", "stop_finalize", "stop_only",
        "finalize", "reaped"}

WorkerRows ==
    [pc : PCs, file : Files \cup {NoFile}, batch : Batches \cup {NoBatch},
     have : SUBSET Recipes, tries : 0..MaxStale, job : Jobs \cup {0}, gen : Generations]

Idle == [pc |-> "idle", file |-> NoFile, batch |-> NoBatch, have |-> {},
         tries |-> 0, job |-> 0, gen |-> 0]

NoChunks == [g \in Generations |-> NoRecipe]

TypeOK ==
    /\ store \in Stores
    /\ member \in [Files -> Members]
    /\ chunks \in [Files -> [Generations -> Recipes \cup {NoRecipe}]]
    /\ batch \in [Batches -> BatchRows]
    /\ job \in [Jobs -> JobRows]
    /\ item \in [Jobs -> [Files -> Items]]
    /\ worker \in [Workers -> WorkerRows]
    /\ admitted \subseteq Files
    /\ busy \in 0..MaxBusy

\* A store as createStore leaves it: no file, no batch, no job.
Init ==
    /\ store = [status |-> "live", gen |-> 0, recipe |-> Recipe0, due |-> FALSE]
    /\ member = [f \in Files |-> NoMember]
    /\ chunks = [f \in Files |-> NoChunks]
    /\ batch = [b \in Batches |-> [state |-> "unused", cancel |-> FALSE, job |-> "none",
                                   todo |-> {}]]
    /\ job = [j \in Jobs |-> [state |-> "unused", recipe |-> Recipe0, gen |-> 0,
                              rechunk |-> FALSE]]
    /\ item = [j \in Jobs |-> [f \in Files |-> NoItem]]
    /\ worker = [w \in Workers |-> Idle]
    /\ admitted = {}
    /\ busy = 0

---------------------------------------------------------------------------
(* Predicates and updates the components share. *)

Exists == store.status # "deleted"

Attached(f) == member[f].status # "absent"
Open(f) == member[f].status = "in_progress"
Completed(f) == member[f].status = "completed"

OpenMembers(m, b) == {f \in Files : m[f].batch = b /\ m[f].status = "in_progress"}

\* The unfinished re-embed of the store, which the unique index makes the only one.
Running(j) == job[j].state = "running"
OpenItems(j) == {f \in Files : item[j][f].status = "in_progress"}

(***************************************************************************)
(* settleFinishedIfTerminal for each batch of B, after the members became  *)
(* m: an unfinished job with no member in progress is finished.  The code  *)
(* locks the job row first, so the check sees every committed member.      *)
(***************************************************************************)
Settled(m, B) ==
    [b \in Batches |->
        IF b \in B /\ batch[b].job = "running" /\ OpenMembers(m, b) = {}
        THEN [batch[b] EXCEPT !.job = "finished"]
        ELSE batch[b]]

\* Seeded fault: the job is left finished.
Reopened_Never(B) == batch

\* finished_at = NULL for the jobs of the batches in B.
Reopened(B) ==
    [b \in Batches |->
        IF b \in B /\ batch[b].job = "finished"
        THEN [batch[b] EXCEPT !.job = "running"]
        ELSE batch[b]]

\* REOPEN_SQL: in progress again with a fresh budget, no error, no lease.
Fresh(row) == [NoMember EXCEPT !.status = "in_progress", !.batch = row.batch]

\* Whether a claim query may take the row: leased to nobody, or the lease ran out.
Free(row) == row.lease # "held"

\* Seeded fault: attempts - 1 without GREATEST.
Lower_Unclamped(n) == n - 1

Lower(n) == IF n = 0 THEN 0 ELSE n - 1   \* GREATEST(attempts - 1, 0)

\* memory_handbacks after one more: every value past the limit acts alike.
NextMemory(n) == IF n > MaxMemory THEN n ELSE n + 1
============================================================================
