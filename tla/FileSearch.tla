----------------------------- MODULE FileSearch ----------------------------
(***************************************************************************)
(* The file-search subsystem around one vector store: the handlers, the    *)
(* sweepers and the worker loops of every gateway over one database.       *)
(***************************************************************************)
EXTENDS Ingest, StoreOps, ReembedQueue

WorkerStep(w) == IngestStep(w) \/ ReembedStep(w)

Users == UserStep \/ ReembedUserStep

System ==
    \/ \E w \in Workers : WorkerStep(w)
    \/ HandlerStep
    \/ SweeperStep
    \/ ReembedSweeperStep
    \/ \E f \in Files : LeaseLapses(f)
    \/ \E j \in Jobs, f \in Files : ItemLeaseLapses(j, f)

Crashes == \E w \in Workers : Crash(w)

Next == System \/ Users \/ Crashes

Spec == Init /\ [][Next]_vars

---------------------------------------------------------------------------
(* Safety *)

(***************************************************************************)
(* A completed file of a store that answers is searchable: its chunks in   *)
(* the generation the search reads are made with the store's own model and *)
(* setting, whatever re-embeds ran, failed or switched around its commit.  *)
(***************************************************************************)
CompletedIsSearchable ==
    \A f \in Files : Completed(f) => chunks[f][store.gen] = store.recipe

(***************************************************************************)
(* Nothing of a file that is not completed is in any generation: no detach,*)
(* expiry, discard or cancel racing a commit leaves orphaned chunks.       *)
(***************************************************************************)
ChunksBelongToCompleted ==
    \A f \in Files, g \in Generations : chunks[f][g] # NoRecipe => Completed(f)

(***************************************************************************)
(* A completed work item is backed by the file's chunks in the job's       *)
(* target generation, made with the job's recipe, as long as the job may   *)
(* still switch: the count of items is what the switch relies on.          *)
(***************************************************************************)
CompletedItemIsWritten ==
    \A j \in Jobs, f \in Files :
        /\ item[j][f].status = "completed"
        /\ store.status = "live"
        /\ Running(j) \/ (job[j].state = "failed" /\ ~Superseded(j))
        => Completed(f) /\ chunks[f][job[j].gen] = job[j].recipe

(***************************************************************************)
(* All chunks of one generation are made with one recipe: a job that       *)
(* reuses the number of an abandoned generation inherits nothing from it.  *)
(***************************************************************************)
GenerationIsUniform ==
    \A g \in Generations : Cardinality({chunks[f][g] : f \in Files} \ {NoRecipe}) <= 1

(***************************************************************************)
(* A cancelled job leaves no chunks that nobody else accounts for, however *)
(* its items' commits and its successors fall around the cancel.           *)
(***************************************************************************)
CancelLeavesNothing ==
    \A j \in Jobs : job[j].state = "cancelled" /\ Orphaned(job[j].gen)
        => \A f \in Files : chunks[f][job[j].gen] = NoRecipe

\* The unique index, and retry and start agreeing on it: one re-embed runs at a time.
OneReembedRuns ==
    \A j, k \in Jobs : Running(j) /\ Running(k) => j = k

(***************************************************************************)
(* A batch job is finished only while no member of it is in progress: no   *)
(* retry, late attach or requeue leaves a finished job with open work.     *)
(***************************************************************************)
FinishedBatchIsDone ==
    \A b \in Batches : batch[b].job = "finished" => OpenMembers(member, b) = {}

(***************************************************************************)
(* A job that ended has no open item: nobody would ever end that item.     *)
(***************************************************************************)
EndedJobHasNoOpenItem ==
    \A j \in Jobs : ~Running(j) => OpenItems(j) = {}

---------------------------------------------------------------------------
(* Action properties *)

\* Once completed a file stays completed until it is detached: no late worker undoes it.
CompletedIsFinal ==
    [][\A f \in Files : Completed(f) => member'[f].status \in {"completed", "absent"}]_vars

\* A cancelled member is the user's decision: no retry and no late commit takes it back.
CancelledIsFinal ==
    [][\A f \in Files : member[f].status = "cancelled" =>
         member'[f].status \in {"cancelled", "absent"}]_vars

(***************************************************************************)
(* The switch loses no file: a file that was searchable before it is       *)
(* searchable after it, in the new generation.                             *)
(***************************************************************************)
SwitchLosesNoFile ==
    [][store'.gen # store.gen =>
         /\ store'.gen = store.gen + 1
         /\ \A f \in Files : chunks[f][store.gen] # NoRecipe =>
                chunks'[f][store'.gen] = store'.recipe]_vars

(***************************************************************************)
(* Only user actions, an expiry and a switch take chunks out of the        *)
(* generation the store answers from.                                      *)
(***************************************************************************)
ActiveChunksStay ==
    [][\A f \in Files :
         /\ store'.status = "live" /\ store'.gen = store.gen
         /\ chunks[f][store.gen] # NoRecipe
         /\ chunks'[f][store.gen] = NoRecipe
         => ~Attached(f)']_vars

---------------------------------------------------------------------------
(* What the sources claim and the code does not keep *)

(***************************************************************************)
(* storeValidation.ts: expired is terminal, "Terminal status with no       *)
(* revival keeps the sweeper's reclamation permanent".  An attach admitted *)
(* before the sweep inserts its row after it.                              *)
(***************************************************************************)
ExpiredHoldsNothing ==
    store.status = "expired" => \A f \in Files : chunks[f] = NoChunks

(***************************************************************************)
(* ingestWorker.ts: a member of a cancelled batch that already reached     *)
(* failed keeps that status.  A switch queues it again.                    *)
(***************************************************************************)
CancelKeepsFailed ==
    [][\A f \in Files : member[f].status = "failed" /\ CancelRequested(f) =>
         member'[f].status \in {"failed", "absent"}]_vars

---------------------------------------------------------------------------
(***************************************************************************)
(* Liveness.  A worker loop of a running gateway keeps going, a started    *)
(* request handler takes its next step, the sweepers' timers fire, and     *)
(* time passes for every lease.  Users stop asking at some point and       *)
(* gateways stop crashing; neither is ever forced.                         *)
(***************************************************************************)
Fairness ==
    /\ \A w \in Workers : WF_vars(WorkerStep(w))
    /\ WF_vars(HandlerStep)
    /\ WF_vars(SweepOneStore)
    /\ \A f \in Files : WF_vars(LeaseLapses(f))
    /\ \A j \in Jobs, f \in Files : WF_vars(ItemLeaseLapses(j, f))
    /\ \A b \in Batches : WF_vars(SettleOrphanedBatchJob(b))
    /\ \A f \in Files, g \in Generations : WF_vars(DropOrphanedChunks(f, g))

Quiet == <>[][~(Users \/ Crashes)]_vars

FairSpec == Spec /\ Fairness /\ Quiet

\* No file waits in the queue forever.
FileSettles == \A f \in Files : Open(f) ~> ~Open(f)

\* Neither does a batch's job, whether its members end, are detached or expire.
BatchSettles == \A b \in Batches : batch[b].job = "running" ~> batch[b].job # "running"

\* A re-embed ends: it switches, fails, is cancelled, or goes with its store.
JobEnds == \A j \in Jobs : Running(j) ~> ~Running(j)

\* Chunks of a generation nobody will read do not stay.
OrphansGo ==
    \A g \in Generations :
        Orphaned(g) /\ (\E f \in Files : chunks[f][g] # NoRecipe)
        ~> ~Orphaned(g) \/ \A f \in Files : chunks[f][g] = NoRecipe
============================================================================
