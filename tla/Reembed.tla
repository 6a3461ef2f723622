------------------------------ MODULE Reembed ------------------------------
(***************************************************************************)
(* Re-embedding and re-chunking a store: a job, one work item per          *)
(* completed file, a second generation of chunks written beside the active *)
(* one, and the switch that makes it the active one.                       *)
(*                                                                         *)
(* Every change of a job's state holds the store row FOR UPDATE, so it is  *)
(* one action; the workers' reads, commits and failures of an item lie     *)
(* between those.                                                          *)
(***************************************************************************)
EXTENDS StoreDb

JobExists(j) == job[j].state \notin {"unused", "gone"}

\* Seeded fault: only the older generations go.
KeepOnly_Newer(g) ==
    [f \in Files |-> [h \in Generations |-> IF h < g THEN NoRecipe ELSE chunks[f][h]]]

\* Other generations of chunks than g go.
KeepOnly(g) == [f \in Files |-> [h \in Generations |-> IF h = g THEN chunks[f][h] ELSE NoRecipe]]
DropGeneration(g) == [f \in Files |-> [chunks[f] EXCEPT ![g] = NoRecipe]]

SetItems(j, F, row) == [item EXCEPT ![j] = [f \in Files |-> IF f \in F THEN row ELSE @[f]]]

\* Seeded fault: a claimed item is left to its worker.
CloseItems_Unclaimed(j, status) ==
    [item EXCEPT ![j] = [f \in Files |->
        IF @[f].status = "in_progress" /\ @[f].lease = "none"
        THEN [@[f] EXCEPT !.status = status] ELSE @[f]]]

\* The open items of a job end, without a lease.
CloseItems(j, status) ==
    [item EXCEPT ![j] = [f \in Files |->
        IF @[f].status = "in_progress"
        THEN [@[f] EXCEPT !.status = status, !.lease = "none"] ELSE @[f]]]

---------------------------------------------------------------------------
(***************************************************************************)
(* startReembed, startRechunk and startReextract under the store lock:     *)
(* refused for an expired store and while another runs.  A re-embed needs  *)
(* another model; a re-chunk keeps the model and may keep the setting, to  *)
(* fill missing contexts.  A re-extract keeps both and needs a completed   *)
(* file; the failed files it queues again are RetryFile's, one by one.     *)
(* insertStoreJob drops what an earlier job left in other generations.     *)
(***************************************************************************)
StartJob(j, recipe, rechunk) ==
    /\ store.status = "live"
    /\ job[j].state = "unused" /\ \A k \in Jobs : k < j => job[k].state # "unused"
    /\ \A k \in Jobs : ~Running(k)
    /\ chunks' = KeepOnly(store.gen)
    /\ job' = [job EXCEPT ![j] = [state |-> "running", recipe |-> recipe,
                                  gen |-> store.gen + 1, rechunk |-> rechunk]]
    /\ item' = SetItems(j, {f \in Files : Completed(f)}, OpenItem)
    /\ UNCHANGED <<store, member, batch, worker, admitted, busy>>

StartReembed(j) ==
    \E m \in Models \ {store.recipe[1]} : StartJob(j, <<m, store.recipe[2]>>, FALSE)

StartRechunk(j) ==
    \E s \in Settings : StartJob(j, <<store.recipe[1], s>>, TRUE)

\* Its items copy the chunks of a file that needs no new reading: the same recipe.
StartReextract(j) ==
    /\ \E f \in Files : Completed(f)
    /\ StartJob(j, store.recipe, TRUE)

\* Seeded fault: a job that an older one came before counts as superseded too.
Superseded_ByAny(j) == (\E k \in Jobs \ {j} : JobExists(k)) \/ job[j].gen # store.gen + 1

\* isSuperseded: the store moved on past the job.
Superseded(j) ==
    \/ \E k \in Jobs \ {j} : JobExists(k) /\ (Running(k) \/ k > j)
    \/ job[j].gen # store.gen + 1

(***************************************************************************)
(* cancelStoreJob: a job that switched or was cancelled stays.  The target *)
(* generation of a superseded job belongs to somebody else by now.         *)
(***************************************************************************)
CancelStoreJob(j) ==
    /\ Exists
    /\ job[j].state \in {"running", "failed"}
    /\ item' = CloseItems(j, "cancelled")
    /\ chunks' = IF Superseded(j) THEN chunks ELSE DropGeneration(job[j].gen)
    /\ job' = [job EXCEPT ![j].state = "cancelled"]
    /\ UNCHANGED <<store, member, batch, worker, admitted, busy>>

\* retryStoreJob: the failed items open again and the job runs on.
RetryStoreJob(j) ==
    LET again == {f \in Files : item[j][f].status = "failed"} IN
    /\ store.status = "live"
    /\ job[j].state = "failed"
    /\ ~Superseded(j)
    /\ again # {}
    /\ item' = SetItems(j, again, OpenItem)
    /\ job' = [job EXCEPT ![j].state = "running"]
    /\ UNCHANGED <<store, member, chunks, batch, worker, admitted, busy>>

---------------------------------------------------------------------------
(***************************************************************************)
(* finalizeJob: everything is read again under the store lock, so a caller *)
(* may come at any time.  One action per outcome.                          *)
(***************************************************************************)
FinalizeExpired(j) ==
    /\ Running(j) /\ store.status = "expired"
    /\ item' = CloseItems(j, "cancelled")
    /\ chunks' = IF job[j].gen = store.gen THEN chunks ELSE DropGeneration(job[j].gen)
    /\ job' = [job EXCEPT ![j].state = "failed"]
    /\ UNCHANGED <<store, member, batch>>

\* Nothing is left to end by this call: the job has ended, or an item is still open.
FinalizeNothing(j) ==
    /\ ~Running(j) \/ (store.status = "live" /\ OpenItems(j) # {})
    /\ UNCHANGED <<store, member, chunks, batch, job, item>>

\* Seeded faults: an open item does not hold the switch back; nor does a failed one.
Ending_OpenIgnored(j) == Running(j) /\ store.status = "live"
FailedItems_Ignored(j) == {}

Ending(j) == Running(j) /\ store.status = "live" /\ OpenItems(j) = {}
FailedItems(j) == {f \in Files : item[j][f].status = "failed"}

\* The target generation is kept: a retry continues where it stopped.
FinalizeFailed(j) ==
    /\ Ending(j) /\ FailedItems(j) # {}
    /\ job' = [job EXCEPT ![j].state = "failed"]
    /\ UNCHANGED <<store, member, chunks, batch, item>>

\* Completed files without an item, and items whose chunks a re-embed did not copy.
Missing(j) == {f \in Files : Completed(f) /\ item[j][f].status = "absent"}
Mismatched(j) ==
    {f \in Files : /\ ~job[j].rechunk /\ item[j][f].status # "absent"
                   /\ (chunks[f][store.gen] = NoRecipe) # (chunks[f][job[j].gen] = NoRecipe)}

FinalizeReopen(j) ==
    /\ Ending(j) /\ FailedItems(j) = {}
    /\ Missing(j) \cup Mismatched(j) # {}
    /\ item' = SetItems(j, Missing(j) \cup Mismatched(j), OpenItem)
    /\ UNCHANGED <<store, member, chunks, batch, job>>

\* Files that failed because the old model was not served: they ingest again.
Requeued == {f \in Files : member[f].status = "failed" /\ member[f].cause = "model_unavailable"}

Switch(j) ==
    /\ Ending(j) /\ FailedItems(j) = {} /\ Missing(j) \cup Mismatched(j) = {}
    /\ store' = [store EXCEPT !.gen = job[j].gen, !.recipe = job[j].recipe]
    /\ chunks' = KeepOnly(job[j].gen)
    /\ member' = [f \in Files |-> IF f \in Requeued THEN Fresh(member[f]) ELSE member[f]]
    /\ batch' = Reopened({member[f].batch : f \in Requeued} \ {NoBatch})
    /\ job' = [job EXCEPT ![j].state = "switched"]
    /\ UNCHANGED item

FinalizeJob(j) ==
    /\ \/ FinalizeNothing(j)
       \/ FinalizeExpired(j)
       \/ FinalizeFailed(j)
       \/ FinalizeReopen(j)
       \/ Switch(j)
    /\ UNCHANGED <<admitted, busy>>

\* The handler that started a job without items, and the job sweeper of any gateway.
FinalizeElsewhere(j) ==
    /\ Running(j) /\ OpenItems(j) = {}
    /\ FinalizeJob(j)
    /\ UNCHANGED worker
============================================================================
