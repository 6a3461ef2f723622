----------------------------- MODULE StoreOps ------------------------------
(***************************************************************************)
(* What the HTTP handlers and the sweepers do to a store, its files and    *)
(* its batches.  Each action is one transaction under the store's row lock *)
(* (or one statement); the batch handler runs several, with the workers    *)
(* and the sweepers between them.                                          *)
(***************************************************************************)
EXTENDS StoreDb

\* Seeded fault: the chunks stay.
Detach_KeepsChunks(F) ==
    /\ member' = [f \in Files |-> IF f \in F THEN NoMember ELSE member[f]]
    /\ item' = [j \in Jobs |-> [f \in Files |-> IF f \in F THEN NoItem ELSE item[j][f]]]
    /\ UNCHANGED chunks

\* Rows, chunks and work items of the files of F go, as every detach removes them.
Detach(F) ==
    /\ member' = [f \in Files |-> IF f \in F THEN NoMember ELSE member[f]]
    /\ chunks' = [f \in Files |-> IF f \in F THEN NoChunks ELSE chunks[f]]
    /\ item' = [j \in Jobs |-> [f \in Files |-> IF f \in F THEN NoItem ELSE item[j][f]]]

\* The INSERT of attachFile: a first attempt, claimed by nobody.
NewMember(b) == [NoMember EXCEPT !.status = "in_progress", !.batch = b]

\* last_active_at and expires_at slide; the status of an expired store stays.
Touched == [store EXCEPT !.due = FALSE]

---------------------------------------------------------------------------
(***************************************************************************)
(* POST /vector_stores/{id}/files.  The handler checks that the store is   *)
(* live in a statement of its own; attachFile's transaction comes later    *)
(* and checks nothing but the keys (23505, 23503).  AttachAtOnce is a      *)
(* request with nothing between the two; the others wait in admitted.      *)
(***************************************************************************)
Insert(f) ==
    \/ /\ Exists /\ ~Attached(f)
       /\ member' = [member EXCEPT ![f] = NewMember(NoBatch)]
       /\ store' = Touched
    \/ /\ ~Exists \/ Attached(f)
       /\ UNCHANGED <<member, store>>

AttachAtOnce(f) ==
    /\ store.status = "live"
    /\ Insert(f)
    /\ UNCHANGED <<chunks, batch, job, item, worker, admitted, busy>>

AdmitAttach(f) ==
    /\ store.status = "live"
    /\ f \notin admitted /\ Cardinality(admitted) < MaxAdmitted
    /\ admitted' = admitted \cup {f}
    /\ UNCHANGED <<store, member, chunks, batch, job, item, worker, busy>>

AttachFile(f) ==
    /\ f \in admitted
    /\ admitted' = admitted \ {f}
    /\ Insert(f)
    /\ UNCHANGED <<chunks, batch, job, item, worker, busy>>

\* The last in_progress member of a batch may go here: its job stays unfinished.
DeleteStoreFile(f) ==
    /\ Exists /\ Attached(f)
    /\ Detach({f})
    /\ store' = Touched
    /\ UNCHANGED <<batch, job, worker, admitted, busy>>

\* ON DELETE CASCADE takes the store's batches, jobs and items along.
DeleteStoreCascade ==
    /\ Exists
    /\ Detach(Files)
    /\ store' = [store EXCEPT !.status = "deleted", !.due = FALSE]
    /\ batch' = [b \in Batches |->
                   IF batch[b].state = "unused" THEN batch[b]
                   ELSE [batch[b] EXCEPT !.job = "none", !.cancel = FALSE,
                            !.state = IF @ = "created" THEN "gone" ELSE @]]
    /\ job' = [j \in Jobs |-> IF job[j].state = "unused" THEN job[j]
                              ELSE [job[j] EXCEPT !.state = "gone"]]
    /\ UNCHANGED <<worker, admitted, busy>>

---------------------------------------------------------------------------
\* expires_at passes.  Any touch slides it forward again.
ExpiryDue ==
    /\ store.status = "live" /\ ~store.due
    /\ store' = [store EXCEPT !.due = TRUE]
    /\ UNCHANGED <<member, chunks, batch, job, item, worker, admitted, busy>>

\* A search or another use of the store.
TouchStoreActivity ==
    /\ Exists /\ store.due
    /\ store' = Touched
    /\ UNCHANGED <<member, chunks, batch, job, item, worker, admitted, busy>>

\* Another expires_after: the deadline moves either way, the status of an expired store stays.
ModifyVectorStore ==
    /\ Exists
    /\ \E due \in BOOLEAN : due # store.due /\ store' = [store EXCEPT !.due = due]
    /\ UNCHANGED <<member, chunks, batch, job, item, worker, admitted, busy>>

(***************************************************************************)
(* sweepOneStore, deadline and status read again under the lock: the       *)
(* files and chunks go, the open items are cancelled, and the row stays.   *)
(***************************************************************************)
SweepOneStore ==
    /\ store.due /\ store.status = "live"
    /\ store' = [store EXCEPT !.status = "expired"]
    /\ member' = [f \in Files |-> NoMember]
    /\ chunks' = [f \in Files |-> NoChunks]
    /\ item' = [j \in Jobs |-> [f \in Files |->
                  IF item[j][f].status = "in_progress"
                  THEN [item[j][f] EXCEPT !.status = "cancelled", !.lease = "none"]
                  ELSE item[j][f]]]
    /\ UNCHANGED <<batch, job, worker, admitted, busy>>

---------------------------------------------------------------------------
(***************************************************************************)
(* createBatch: the batch row, its job row, then one transaction per       *)
(* member.  The handler's own checks and the INSERT of the batch row are   *)
(* one step here: expiry between them is expiry right after.               *)
(***************************************************************************)
CreateBatch(b, F) ==
    /\ store.status = "live"
    /\ batch[b].state = "unused"
    /\ F # {} /\ \A f \in F : ~Attached(f)
    /\ batch' = [batch EXCEPT ![b] = [@ EXCEPT !.state = "creating", !.todo = F]]
    /\ UNCHANGED <<store, member, chunks, job, item, worker, admitted, busy>>

CreateBatchJob(b) ==
    /\ batch[b].state = "creating" /\ batch[b].job = "none"
    /\ Exists
    /\ batch' = [batch EXCEPT ![b].job = "running"]
    /\ UNCHANGED <<store, member, chunks, job, item, worker, admitted, busy>>

\* A job the worker settled meanwhile is reopened with the member that joins it.
AttachMember(b, f) ==
    /\ batch[b].state = "creating" /\ f \in batch[b].todo /\ batch[b].job # "none"
    /\ Exists /\ ~Attached(f)
    /\ member' = [member EXCEPT ![f] = NewMember(b)]
    /\ store' = Touched
    /\ batch' = [Reopened({b}) EXCEPT ![b] =
                     [@ EXCEPT !.todo = batch[b].todo \ {f},
                               !.state = IF batch[b].todo = {f} THEN "created" ELSE "creating"]]
    /\ UNCHANGED <<chunks, job, item, worker, admitted, busy>>

\* Any statement of createBatch fails: a file attached meanwhile, the store or file gone.
CreateFails(b) ==
    /\ batch[b].state = "creating"
    /\ batch' = [batch EXCEPT ![b].state = "discarding"]
    /\ UNCHANGED <<store, member, chunks, job, item, worker, admitted, busy>>

DiscardPartialBatch(b) ==
    /\ batch[b].state = "discarding"
    /\ Detach({f \in Files : Attached(f) /\ member[f].batch = b})
    /\ batch' = [batch EXCEPT ![b] = [state |-> "gone", cancel |-> FALSE,
                                      job |-> "none", todo |-> {}]]
    /\ UNCHANGED <<store, job, worker, admitted, busy>>

\* The gateway dies, or the discard fails and is only logged: what was attached stays.
CreatorStops(b) ==
    /\ batch[b].state \in {"creating", "discarding"}
    /\ batch' = [batch EXCEPT ![b] = [@ EXCEPT !.state = IF Exists THEN "created" ELSE "gone",
                                             !.todo = {}]]
    /\ UNCHANGED <<store, member, chunks, job, item, worker, admitted, busy>>

BatchRowExists(b) == Exists /\ batch[b].state \in {"creating", "discarding", "created"}

\* A latch: the members are the workers' to end.
RequestBatchCancel(b) ==
    /\ BatchRowExists(b) /\ ~batch[b].cancel
    /\ batch' = [batch EXCEPT ![b].cancel = TRUE]
    /\ UNCHANGED <<store, member, chunks, job, item, worker, admitted, busy>>

---------------------------------------------------------------------------
(***************************************************************************)
(* The retries.  inStoreTransaction refuses a store that is expired or     *)
(* gone; batchRefusal refuses a batch that still runs or was cancelled.    *)
(***************************************************************************)
BatchRefused(b) == OpenMembers(member, b) # {} \/ batch[b].cancel

Failed(f) == member[f].status = "failed"

RetryJob(b) ==
    LET again == {f \in Files : member[f].batch = b /\ Failed(f)} IN
    /\ store.status = "live"
    /\ batch[b].job # "none"
    /\ ~BatchRefused(b)
    /\ again # {}
    /\ member' = [f \in Files |-> IF f \in again THEN Fresh(member[f]) ELSE member[f]]
    /\ batch' = Reopened({b})
    /\ UNCHANGED <<store, chunks, job, item, worker, admitted, busy>>

RetryFile(f) ==
    LET b == member[f].batch IN
    /\ store.status = "live"
    /\ Failed(f)
    /\ b # NoBatch => ~BatchRefused(b)
    /\ member' = [member EXCEPT ![f] = Fresh(@)]
    /\ batch' = Reopened({b} \ {NoBatch})
    /\ UNCHANGED <<store, chunks, job, item, worker, admitted, busy>>

---------------------------------------------------------------------------
\* Seeded fault: a batch whose members are all gone is passed over.
SettleOrphanedBatchJob_HasMembers(b) ==
    /\ batch[b].job = "running"
    /\ OpenMembers(member, b) = {} /\ \E f \in Files : member[f].batch = b
    /\ batch' = Settled(member, {b})
    /\ UNCHANGED <<store, member, chunks, job, item, worker, admitted, busy>>

(***************************************************************************)
(* The job sweeper's orphans: an unfinished batch job without a member in  *)
(* progress, read again under the job's lock.  The grace for a batch still *)
(* being created is shorter than a slow creation, so it is no guard here.  *)
(***************************************************************************)
SettleOrphanedBatchJob(b) ==
    /\ batch[b].job = "running"
    /\ OpenMembers(member, b) = {}
    /\ batch' = Settled(member, {b})
    /\ UNCHANGED <<store, member, chunks, job, item, worker, admitted, busy>>

\* Thirty days later only the finished job row goes; batch and members stay.
SweepBatchJob(b) ==
    /\ batch[b].state = "created" /\ batch[b].job = "finished"
    /\ batch' = [batch EXCEPT ![b].job = "none"]
    /\ UNCHANGED <<store, member, chunks, job, item, worker, admitted, busy>>

\* What users and time do; the rest are the system's own steps.
UserStep ==
    \/ \E f \in Files : AttachAtOnce(f)
    \/ \E f \in Files : AdmitAttach(f)
    \/ \E f \in Files : DeleteStoreFile(f)
    \/ DeleteStoreCascade
    \/ ExpiryDue
    \/ TouchStoreActivity
    \/ ModifyVectorStore
    \/ \E b \in Batches, F \in SUBSET Files : CreateBatch(b, F)
    \/ \E b \in Batches : RequestBatchCancel(b)
    \/ \E b \in Batches : RetryJob(b)
    \/ \E f \in Files : RetryFile(f)

HandlerStep ==
    \/ \E f \in Files : AttachFile(f)
    \/ \E b \in Batches : CreateBatchJob(b)
    \/ \E b \in Batches, f \in Files : AttachMember(b, f)
    \/ \E b \in Batches : CreateFails(b)
    \/ \E b \in Batches : DiscardPartialBatch(b)
    \/ \E b \in Batches : CreatorStops(b)

SweeperStep ==
    \/ SweepOneStore
    \/ \E b \in Batches : SettleOrphanedBatchJob(b)
    \/ \E b \in Batches : SweepBatchJob(b)
============================================================================
