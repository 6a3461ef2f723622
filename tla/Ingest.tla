------------------------------- MODULE Ingest -------------------------------
(***************************************************************************)
(* The ingestion queue: a vector_store_files row in progress is a job.  A  *)
(* worker loop claims it under a lease, reads its context, embeds it, and  *)
(* commits or fails it, each in a transaction of its own.  A lease names   *)
(* no holder: after it lapses a second worker may claim the row while the  *)
(* first is still working, and both will try to end it.                    *)
(***************************************************************************)
EXTENDS StoreDb

Goto(w, pc) == worker' = [worker EXCEPT ![w].pc = pc]
Stop(w) == worker' = [worker EXCEPT ![w] = Idle]

\* Seeded fault: only rows handed back count, not those whose lease ran out.
Zombies_Unleased ==
    {f \in Files : Open(f) /\ member[f].attempts >= MaxRetries /\ member[f].lease = "none"}

(***************************************************************************)
(* reapZombies: rows whose budget is spent and whose lease is not live     *)
(* fail, and their batches' jobs are settled in the same transaction.      *)
(* claimNext runs it before every claim; with no zombie it does nothing.   *)
(***************************************************************************)
Zombies == {f \in Files : Open(f) /\ member[f].attempts >= MaxRetries /\ Free(member[f])}

ReapZombies(w) ==
    /\ worker[w].pc = "idle"
    /\ Zombies # {}
    /\ member' = [f \in Files |->
                    IF f \in Zombies
                    THEN [member[f] EXCEPT !.status = "failed", !.lease = "none",
                                           !.cause = "error", !.memory = 0]
                    ELSE member[f]]
    /\ batch' = Settled(member', {member[f].batch : f \in Zombies} \ {NoBatch})
    /\ UNCHANGED <<store, chunks, job, item, worker, admitted, busy>>

Claimable == {f \in Files : Open(f) /\ Free(member[f]) /\ member[f].attempts < MaxRetries}

(***************************************************************************)
(* claimNext.  SKIP LOCKED lets a claim pass over the oldest row, so any   *)
(* claimable row may be taken.  This is the only place attempts grows.     *)
(* markStartedIfNeeded, which follows, stamps a time nothing here reads.   *)
(***************************************************************************)
ClaimNext(w, f) ==
    /\ worker[w].pc = "idle"
    /\ f \in Claimable
    /\ member' = [member EXCEPT ![f] =
                    [@ EXCEPT !.lease = "held", !.attempts = member[f].attempts + 1]]
    /\ worker' = [worker EXCEPT ![w] =
                    [Idle EXCEPT !.pc = "loading", !.file = f]]
    /\ UNCHANGED <<store, chunks, batch, job, item, admitted, busy>>

\* claimNext found nothing, or threw: either way the loop turns to the re-embed queue.
PollEmpty(w) ==
    /\ worker[w].pc = "idle"
    /\ \/ Zombies \cup Claimable = {} /\ UNCHANGED busy
       \/ Zombies \cup Claimable # {} /\ busy < MaxBusy /\ busy' = busy + 1
    /\ Goto(w, "polled")
    /\ UNCHANGED <<store, member, chunks, batch, job, item, admitted>>

(***************************************************************************)
(* What loadContext says to prepare: the store's recipe, and the target of *)
(* a running re-embed.                                                     *)
(***************************************************************************)
Needed == {store.recipe} \cup {job[j].recipe : j \in {k \in Jobs : Running(k)}}

Batched(f) == member[f].batch # NoBatch
CancelRequested(f) == Batched(f) /\ batch[member[f].batch].cancel

(***************************************************************************)
(* processOne's first read.  A row that is no longer in progress ends the  *)
(* attempt; a cancelled batch is stopped as a whole; otherwise every       *)
(* needed recipe is prepared and embedded.                                 *)
(***************************************************************************)
LoadContext(w) ==
    LET f == worker[w].file IN
    /\ worker[w].pc = "loading"
    /\ \/ ~Open(f) /\ Stop(w)
       \/ /\ Open(f) /\ CancelRequested(f)
          /\ worker' = [worker EXCEPT ![w] = [@ EXCEPT !.pc = "cancelling", !.batch = member[f].batch]]
       \/ /\ Open(f) /\ ~CancelRequested(f)
          /\ worker' = [worker EXCEPT ![w] =
                          [@ EXCEPT !.pc = "working", !.have = Needed, !.tries = 1]]
    /\ UNCHANGED <<store, member, chunks, batch, job, item, admitted, busy>>

\* The read after a stale commit: it does not look at the cancel latch again.
ReloadContext(w) ==
    LET f == worker[w].file IN
    /\ worker[w].pc = "reloading"
    /\ \/ ~Open(f) /\ Stop(w)
       \/ /\ Open(f)
          /\ worker' = [worker EXCEPT ![w] =
                          [@ EXCEPT !.pc = "working", !.have = worker[w].have \cup Needed]]
    /\ UNCHANGED <<store, member, chunks, batch, job, item, admitted, busy>>

\* cancelRemainingBatchFiles: every member still in progress, and the job settled.
CancelRemaining(w) ==
    LET b == worker[w].batch
        stopped == OpenMembers(member, b) IN
    /\ worker[w].pc = "cancelling"
    /\ member' = [f \in Files |->
                    IF f \in stopped
                    THEN [member[f] EXCEPT !.status = "cancelled", !.lease = "none"]
                    ELSE member[f]]
    /\ batch' = Settled(member', {b})
    /\ Stop(w)
    /\ UNCHANGED <<store, chunks, job, item, admitted, busy>>

---------------------------------------------------------------------------
(***************************************************************************)
(* commitChunkSets.  The store row is held FOR SHARE and the member row    *)
(* FOR UPDATE, so store, job and member are read as of the commit: the     *)
(* active generation takes the store's recipe and a running re-embed's     *)
(* target generation the job's recipe.                                     *)
(***************************************************************************)
\* Seeded fault: the row exists, whatever its status.
MayCommit_AnyStatus(f) == Exists /\ Attached(f)

MayCommit(f) == Exists /\ Open(f)

CommitSkipped(w) ==
    /\ worker[w].pc = "working"
    /\ ~MayCommit(worker[w].file)
    /\ Stop(w)
    /\ UNCHANGED <<store, member, chunks, batch, job, item, admitted, busy>>

CommitStale(w) ==
    /\ worker[w].pc = "working"
    /\ MayCommit(worker[w].file)
    /\ ~(Needed \subseteq worker[w].have)
    /\ IF worker[w].tries < MaxStale
       THEN worker' = [worker EXCEPT ![w] =
                          [@ EXCEPT !.pc = "reloading", !.tries = worker[w].tries + 1]]
       ELSE Goto(w, "exhausted")
    /\ UNCHANGED <<store, member, chunks, batch, job, item, admitted, busy>>

Written(f) ==
    [g \in Generations |->
        IF g = store.gen THEN store.recipe
        ELSE IF \E j \in Jobs : Running(j) /\ job[j].gen = g
             THEN job[CHOOSE j \in Jobs : Running(j) /\ job[j].gen = g].recipe
             ELSE chunks[f][g]]

CommitChunks(w) ==
    LET f == worker[w].file IN
    /\ worker[w].pc = "working"
    /\ MayCommit(f)
    /\ Needed \subseteq worker[w].have
    /\ chunks' = [chunks EXCEPT ![f] = Written(f)]
    /\ member' = [member EXCEPT ![f] = [@ EXCEPT !.status = "completed", !.lease = "none",
                                                 !.cause = "none", !.memory = 0]]
    /\ batch' = Settled(member', {member[f].batch} \ {NoBatch})
    /\ item' = [j \in Jobs |->
                  IF Running(j)
                  THEN [item[j] EXCEPT ![f] = [@ EXCEPT !.status = "completed",
                                                        !.lease = "none", !.memory = 0]]
                  ELSE item[j]]
    /\ Stop(w)
    /\ UNCHANGED <<store, job, admitted, busy>>

---------------------------------------------------------------------------
\* Seeded fault: the update does not look at the status.
FailMember_Unguarded(f, permanent, cause, memory) ==
    LET ends == permanent \/ member[f].attempts >= MaxRetries IN
    /\ member' = IF Attached(f)
                 THEN [member EXCEPT ![f] =
                         [@ EXCEPT !.status = IF ends THEN "failed" ELSE "in_progress",
                                   !.lease = "none", !.cause = cause, !.memory = memory]]
                 ELSE member
    /\ UNCHANGED batch

(***************************************************************************)
(* handleFailure.  One guarded update: a row another transaction took out  *)
(* of in_progress is left alone.  A permanent failure, or the last attempt *)
(* of the budget, fails the row and settles its batch's job; any other     *)
(* failure frees it at once.                                               *)
(***************************************************************************)
FailMember(f, permanent, cause, memory) ==
    LET ends == permanent \/ member[f].attempts >= MaxRetries IN
    /\ member' = IF Open(f)
                 THEN [member EXCEPT ![f] =
                         [@ EXCEPT !.status = IF ends THEN "failed" ELSE "in_progress",
                                   !.lease = "none", !.cause = cause, !.memory = memory]]
                 ELSE member
    /\ batch' = IF Open(f) /\ ends
                THEN Settled(member', {member[f].batch} \ {NoBatch})
                ELSE batch

HandleFailure(w) ==
    LET f == worker[w].file IN
    /\ \/ /\ worker[w].pc \in {"working", "reloading", "exhausted"}
          /\ FailMember(f, FALSE, "error", 0)
       \/ /\ worker[w].pc = "working"
          /\ \E cause \in {"error", "model_unavailable"} : FailMember(f, TRUE, cause, 0)
    /\ Stop(w)
    /\ UNCHANGED <<store, chunks, job, item, admitted, busy>>

\* handBackBusy's update: the attempt is returned and the lease backdated.
HandBack(f, memory) ==
    member' = IF Open(f)
              THEN [member EXCEPT ![f] =
                      [@ EXCEPT !.attempts = Lower(member[f].attempts), !.lease = "held",
                                !.cause = "error", !.memory = memory]]
              ELSE member

\* A busy pool at any statement of the attempt, or a stopping worker; the count is kept.
HandBackBusy(w) ==
    LET f == worker[w].file IN
    /\ worker[w].pc \in {"loading", "cancelling", "reloading", "working"}
    /\ busy < MaxBusy
    /\ busy' = busy + 1
    /\ HandBack(f, member[f].memory)
    /\ Stop(w)
    /\ UNCHANGED <<store, chunks, batch, job, item, admitted>>

(***************************************************************************)
(* The memory budget stayed full until the wait's deadline: handed back    *)
(* MaxMemory times, after that the attempt is spent like any failure.      *)
(***************************************************************************)
MemoryTimeout(w) ==
    LET f == worker[w].file
        n == NextMemory(member[f].memory) IN
    /\ worker[w].pc = "working"
    /\ \/ n <= MaxMemory /\ HandBack(f, n) /\ UNCHANGED batch
       \/ n > MaxMemory /\ FailMember(f, FALSE, "error", n)
    /\ Stop(w)
    /\ UNCHANGED <<store, chunks, job, item, admitted, busy>>

---------------------------------------------------------------------------
(***************************************************************************)
(* A gateway dies, or a statement outside the attempt's own error handling *)
(* throws and the loop starts over: what the loop remembered is lost, what *)
(* it claimed stays leased.                                                *)
(***************************************************************************)
Crash(w) ==
    /\ worker[w].pc \notin {"idle", "down"}
    /\ worker' = [worker EXCEPT ![w] = [Idle EXCEPT !.pc = "down"]]
    /\ UNCHANGED <<store, member, chunks, batch, job, item, admitted, busy>>

\* A step of its own, so that a crash is no step that a loop takes by itself.
Restart(w) ==
    /\ worker[w].pc = "down"
    /\ Stop(w)
    /\ UNCHANGED <<store, member, chunks, batch, job, item, admitted, busy>>

\* LEASE_MINUTES passed since the claim, or BUSY_RETRY_SECONDS since the hand-back.
LeaseLapses(f) ==
    /\ member[f].lease = "held"
    /\ member' = [member EXCEPT ![f].lease = "lapsed"]
    /\ UNCHANGED <<store, chunks, batch, job, item, worker, admitted, busy>>

IngestStep(w) ==
    \/ Restart(w)
    \/ ReapZombies(w)
    \/ \E f \in Files : ClaimNext(w, f)
    \/ PollEmpty(w)
    \/ LoadContext(w)
    \/ ReloadContext(w)
    \/ CancelRemaining(w)
    \/ CommitSkipped(w)
    \/ CommitStale(w)
    \/ CommitChunks(w)
    \/ HandleFailure(w)
    \/ HandBackBusy(w)
    \/ MemoryTimeout(w)
============================================================================
