---------------------------- MODULE ReembedQueue ---------------------------
(***************************************************************************)
(* The second queue of the worker loops: re-embed items, tried when no     *)
(* file waits.  An item is leased like a file, and its lease names no      *)
(* holder either.                                                          *)
(***************************************************************************)
EXTENDS Reembed

To(w, row) == worker' = [worker EXCEPT ![w] = row]

ItemZombies ==
    {p \in Jobs \X Files : LET i == item[p[1]][p[2]] IN
        i.status = "in_progress" /\ i.attempts >= MaxRetries /\ Free(i)}

\* A cancelled or finished job's items cannot be claimed.
ClaimableItems ==
    {p \in Jobs \X Files : LET i == item[p[1]][p[2]] IN
        Running(p[1]) /\ i.status = "in_progress" /\ i.attempts < MaxRetries /\ Free(i)}

\* reapReembedZombies: the items fail, then their job is finalized.
ReapItems(w) ==
    /\ worker[w].pc = "polled"
    /\ ItemZombies # {}
    /\ item' = [j \in Jobs |-> [f \in Files |->
                  IF <<j, f>> \in ItemZombies
                  THEN [item[j][f] EXCEPT !.status = "failed", !.lease = "none", !.memory = 0]
                  ELSE item[j][f]]]
    /\ \E p \in ItemZombies : To(w, [Idle EXCEPT !.pc = "reaped", !.job = p[1]])
    /\ UNCHANGED <<store, member, chunks, batch, job, admitted, busy>>

ClaimItem(w, j, f) ==
    /\ worker[w].pc = "polled"
    /\ <<j, f>> \in ClaimableItems
    /\ item' = [item EXCEPT ![j][f] =
                  [@ EXCEPT !.lease = "held", !.attempts = item[j][f].attempts + 1]]
    /\ To(w, [Idle EXCEPT !.pc = "item", !.job = j, !.file = f])
    /\ UNCHANGED <<store, member, chunks, batch, job, admitted, busy>>

\* Seeded fault: a job whose items are all gone is passed over.
IdleJobs_WithItems ==
    {j \in Jobs : /\ Running(j) /\ OpenItems(j) = {}
                  /\ \E f \in Files : item[j][f].status # "absent"}

\* settleIdleReembedJobs: jobs with nothing open, each then finalized on its own.
\* The loop comes here when the item claim found nothing or threw.
IdleJobs == {j \in Jobs : Running(j) /\ OpenItems(j) = {}}

SettleIdle(w) ==
    /\ worker[w].pc = "polled"
    /\ \/ ItemZombies = {} /\ ClaimableItems = {} /\ UNCHANGED busy
       \/ ItemZombies \cup ClaimableItems # {} /\ busy < MaxBusy /\ busy' = busy + 1
    /\ \/ IdleJobs = {} /\ To(w, Idle)
       \/ \E j \in IdleJobs : To(w, [Idle EXCEPT !.pc = "finalize", !.job = j])
    /\ UNCHANGED <<store, member, chunks, batch, job, item, admitted>>

\* The item's row, its job's and the store's, then the chunks of the active generation.
ReadItem(w) ==
    LET j == worker[w].job
        f == worker[w].file
        current == item[j][f].status = "in_progress" /\ Running(j) IN
    /\ worker[w].pc = "item"
    /\ \/ ~current /\ To(w, Idle)
       \/ current /\ To(w, [worker[w] EXCEPT !.pc = "embedding", !.gen = store.gen])
    /\ UNCHANGED <<store, member, chunks, batch, job, item, admitted, busy>>

---------------------------------------------------------------------------
(***************************************************************************)
(* commitItem, under the store FOR SHARE.  A store that switched since the *)
(* item was read, an ended job and an ended item are skipped; a file that  *)
(* is no longer completed loses its item.                                  *)
(***************************************************************************)
SameGeneration(w) == Exists /\ store.gen = worker[w].gen

DropItem(w) ==
    LET j == worker[w].job
        f == worker[w].file IN
    /\ worker[w].pc = "embedding"
    /\ SameGeneration(w) /\ ~Completed(f)
    /\ item' = [item EXCEPT ![j][f] = IF @.status = "in_progress" THEN NoItem ELSE @]
    /\ To(w, Idle)
    /\ UNCHANGED <<store, member, chunks, batch, job, admitted, busy>>

MayCommitItem(w) ==
    /\ SameGeneration(w) /\ Completed(worker[w].file)
    /\ Running(worker[w].job)
    /\ item[worker[w].job][worker[w].file].status = "in_progress"

SkipItem(w) ==
    /\ worker[w].pc = "embedding"
    /\ ~MayCommitItem(w)
    /\ SameGeneration(w) => Completed(worker[w].file)
    /\ To(w, Idle)
    /\ UNCHANGED <<store, member, chunks, batch, job, item, admitted, busy>>

CommitItem(w) ==
    LET j == worker[w].job
        f == worker[w].file IN
    /\ worker[w].pc = "embedding"
    /\ MayCommitItem(w)
    /\ chunks' = [chunks EXCEPT ![f][job[j].gen] = job[j].recipe]
    /\ item' = [item EXCEPT ![j][f] = [@ EXCEPT !.status = "completed", !.lease = "none",
                                                !.memory = 0]]
    /\ To(w, IF OpenItems(j) = {f} THEN [Idle EXCEPT !.pc = "finalize", !.job = j] ELSE Idle)
    /\ UNCHANGED <<store, member, batch, job, admitted, busy>>

---------------------------------------------------------------------------
(***************************************************************************)
(* handleItemFailure: one guarded update of the item, then, when the model *)
(* is not served, failOpenRechunkItems, then finalizeJob for an item that  *)
(* failed.  Three statements, with other steps between them.               *)
(***************************************************************************)
\* The update; a crash after it leaves a job that only the idle loops end.
ItemFails(w, permanent, memory, unserved) ==
    LET j == worker[w].job
        f == worker[w].file
        open == item[j][f].status = "in_progress"
        ends == permanent \/ item[j][f].attempts >= MaxRetries
        failed == open /\ ends IN
    /\ item' = IF open
               THEN [item EXCEPT ![j][f] =
                         [@ EXCEPT !.status = IF ends THEN "failed" ELSE "in_progress",
                                   !.lease = "none", !.memory = memory]]
               ELSE item
    /\ To(w, IF unserved
             THEN [Idle EXCEPT !.pc = IF failed THEN "stop_finalize" ELSE "stop_only", !.job = j]
             ELSE IF failed THEN [Idle EXCEPT !.pc = "finalize", !.job = j] ELSE Idle)

HandleItemFailure(w) ==
    /\ worker[w].pc = "embedding"
    /\ \/ ItemFails(w, FALSE, 0, FALSE)   \* transient
       \/ ItemFails(w, TRUE, 0, FALSE)    \* no retry can mend it
       \/ ItemFails(w, TRUE, 0, TRUE)     \* the target model is not served
    /\ UNCHANGED <<store, member, chunks, batch, job, admitted, busy>>

\* A re-chunk whose model is not served stops at once; a re-embed is left as it was.
FailOpenRechunkItems(w) ==
    LET j == worker[w].job IN
    /\ worker[w].pc \in {"stop_finalize", "stop_only"}
    /\ item' = IF JobExists(j) /\ job[j].rechunk THEN CloseItems(j, "failed") ELSE item
    /\ To(w, IF worker[w].pc = "stop_finalize" THEN [Idle EXCEPT !.pc = "finalize", !.job = j]
             ELSE Idle)
    /\ UNCHANGED <<store, member, chunks, batch, job, admitted, busy>>

\* The attempt goes back and the lease is backdated, if the item is still open.
GiveBack(j, f, memory) ==
    item' = IF item[j][f].status = "in_progress"
            THEN [item EXCEPT ![j][f] =
                    [@ EXCEPT !.attempts = Lower(item[j][f].attempts), !.lease = "held",
                              !.memory = memory]]
            ELSE item

HandBackItem(w) ==
    LET j == worker[w].job
        f == worker[w].file IN
    /\ worker[w].pc \in {"item", "embedding"}
    /\ busy < MaxBusy
    /\ busy' = busy + 1
    /\ GiveBack(j, f, item[j][f].memory)
    /\ To(w, Idle)
    /\ UNCHANGED <<store, member, chunks, batch, job, admitted>>

ItemMemoryTimeout(w) ==
    LET j == worker[w].job
        f == worker[w].file
        n == NextMemory(item[j][f].memory) IN
    /\ worker[w].pc = "embedding"
    /\ \/ n <= MaxMemory /\ GiveBack(j, f, n) /\ To(w, Idle)
       \/ n > MaxMemory /\ ItemFails(w, FALSE, n, FALSE)
    /\ UNCHANGED <<store, member, chunks, batch, job, admitted, busy>>

\* After the last item, a failed one, an idle poll, or (back to the claim) a reaped zombie.
Finalize(w) ==
    /\ worker[w].pc \in {"finalize", "reaped"}
    /\ FinalizeJob(worker[w].job)
    /\ To(w, IF worker[w].pc = "reaped" THEN [Idle EXCEPT !.pc = "polled"] ELSE Idle)

ItemLeaseLapses(j, f) ==
    /\ item[j][f].lease = "held"
    /\ item' = [item EXCEPT ![j][f].lease = "lapsed"]
    /\ UNCHANGED <<store, member, chunks, batch, job, worker, admitted, busy>>

---------------------------------------------------------------------------
(***************************************************************************)
(* The job sweeper.  Jobs finish in the order they started (the unique     *)
(* index lets one run at a time), so the history loses the oldest first.   *)
(***************************************************************************)
SweepReembedJob(j) ==
    /\ job[j].state \in {"switched", "failed", "cancelled"}
    /\ \A k \in Jobs : k < j => job[k].state = "gone"
    /\ job' = [job EXCEPT ![j].state = "gone"]
    /\ item' = SetItems(j, Files, NoItem)
    /\ UNCHANGED <<store, member, chunks, batch, worker, admitted, busy>>

\* No job that was not cancelled targets the generation.
Untargeted(g) ==
    \A j \in Jobs : JobExists(j) /\ job[j].gen = g => job[j].state = "cancelled"

\* Seeded fault: the active generation is not kept apart.
Orphaned_AnyGeneration(g) == Exists /\ Untargeted(g)

Orphaned(g) == Exists /\ g # store.gen /\ Untargeted(g)

\* Seeded fault: only generations below the active one are looked for.
DropOrphanedChunks_Older(f, g) ==
    /\ Orphaned(g) /\ g < store.gen
    /\ chunks[f][g] # NoRecipe
    /\ chunks' = [chunks EXCEPT ![f][g] = NoRecipe]
    /\ UNCHANGED <<store, member, batch, job, item, worker, admitted, busy>>

\* dropOrphanedGenerations, one bounded delete under the store lock at a time.
DropOrphanedChunks(f, g) ==
    /\ Orphaned(g)
    /\ chunks[f][g] # NoRecipe
    /\ chunks' = [chunks EXCEPT ![f][g] = NoRecipe]
    /\ UNCHANGED <<store, member, batch, job, item, worker, admitted, busy>>

ReembedStep(w) ==
    \/ ReapItems(w)
    \/ \E j \in Jobs, f \in Files : ClaimItem(w, j, f)
    \/ SettleIdle(w)
    \/ ReadItem(w)
    \/ DropItem(w)
    \/ SkipItem(w)
    \/ CommitItem(w)
    \/ HandleItemFailure(w)
    \/ FailOpenRechunkItems(w)
    \/ HandBackItem(w)
    \/ ItemMemoryTimeout(w)
    \/ Finalize(w)

ReembedUserStep ==
    \E j \in Jobs :
        \/ StartReembed(j)
        \/ StartRechunk(j)
        \/ StartReextract(j)
        \/ CancelStoreJob(j)
        \/ RetryStoreJob(j)

ReembedSweeperStep ==
    \/ \E j \in Jobs : FinalizeElsewhere(j)
    \/ \E j \in Jobs : SweepReembedJob(j)
    \/ \E f \in Files, g \in Generations : DropOrphanedChunks(f, g)
============================================================================
