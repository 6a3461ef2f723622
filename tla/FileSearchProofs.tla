-------------------------- MODULE FileSearchProofs --------------------------
(***************************************************************************)
(* Type correctness of the whole system, and what may happen to a file's   *)
(* row and to the job of its batch, for every number of files, batches,    *)
(* workers, models and jobs.                                               *)
(*                                                                         *)
(* First come facts about the rows of StoreDb that the proofs about the    *)
(* actions cite: which updates keep a row in its type, and what a worker's *)
(* position says about the fields that go with it.                         *)
(***************************************************************************)
EXTENDS FileSearch, TLAPS

\* The numbers that rows start with, and the steps that keep them in range.
LEMMA Zeros ==
    /\ 0 \in Attempts /\ 0 \in Handbacks /\ 0 \in Generations
    /\ 0 \in 0..MaxStale /\ 1 \in 0..MaxStale /\ 0 \in 0..MaxBusy
  BY ConstantsAssumption DEF Attempts, Handbacks, Generations

\* A claim stays within the budget it checked, a hand-back at or above zero.
LEMMA AttemptSteps ==
    ASSUME NEW n \in Attempts
    PROVE  (n < MaxRetries => n + 1 \in Attempts) /\ Lower(n) \in Attempts
  BY ConstantsAssumption DEF Attempts, Lower

LEMMA MemorySteps ==
    ASSUME NEW n \in Handbacks
    PROVE  NextMemory(n) \in Handbacks
  BY ConstantsAssumption DEF Handbacks, NextMemory

LEMMA RecipeOfStore == Recipe0 \in Recipes
  BY ConstantsAssumption DEF Recipe0, Recipes

---------------------------------------------------------------------------
(* Updates of one row, in the forms the actions use. *)

LEMMA MemberRows ==
    /\ NoMember \in Members
    /\ \A b \in Batches \cup {NoBatch} :
           [NoMember EXCEPT !.status = "in_progress", !.batch = b] \in Members
    /\ \A m \in Members : Fresh(m) \in Members
  BY Zeros DEF NoMember, Members, MemberStatus, Lease, Cause, Fresh

LEMMA MemberUpdates ==
    ASSUME NEW m \in Members
    PROVE  /\ \A s \in MemberStatus, c \in Cause, n \in Handbacks :
                  [m EXCEPT !.status = s, !.lease = "none", !.cause = c, !.memory = n] \in Members
           /\ \A s \in MemberStatus : [m EXCEPT !.status = s, !.lease = "none"] \in Members
           /\ \A n \in Attempts : [m EXCEPT !.lease = "held", !.attempts = n] \in Members
           /\ \A n \in Attempts, k \in Handbacks :
                  [m EXCEPT !.attempts = n, !.lease = "held", !.cause = "error",
                            !.memory = k] \in Members
           /\ [m EXCEPT !.lease = "lapsed"] \in Members
  BY DEF Members, Lease, Cause

LEMMA ItemRows == NoItem \in Items /\ OpenItem \in Items
  BY Zeros DEF NoItem, OpenItem, Items, ItemStatus, Lease

LEMMA ItemUpdates ==
    ASSUME NEW i \in Items
    PROVE  /\ \A s \in ItemStatus, n \in Handbacks :
                  [i EXCEPT !.status = s, !.lease = "none", !.memory = n] \in Items
           /\ \A s \in ItemStatus : [i EXCEPT !.status = s, !.lease = "none"] \in Items
           /\ \A n \in Attempts : [i EXCEPT !.lease = "held", !.attempts = n] \in Items
           /\ \A n \in Attempts, k \in Handbacks :
                  [i EXCEPT !.attempts = n, !.lease = "held", !.memory = k] \in Items
           /\ [i EXCEPT !.lease = "lapsed"] \in Items
  BY DEF Items, Lease

LEMMA StoreUpdates ==
    ASSUME NEW s \in Stores
    PROVE  /\ \A d \in BOOLEAN : [s EXCEPT !.due = d] \in Stores
           /\ [s EXCEPT !.status = "expired"] \in Stores
           /\ [s EXCEPT !.status = "deleted", !.due = FALSE] \in Stores
           /\ \A g \in Generations, r \in Recipes :
                  [s EXCEPT !.gen = g, !.recipe = r] \in Stores
  BY DEF Stores

LEMMA JobUpdates ==
    ASSUME NEW r \in JobRows
    PROVE  \A s \in {"unused", "running", "switched", "failed", "cancelled", "gone"} :
               /\ [r EXCEPT !.state = s] \in JobRows
               /\ [r EXCEPT !.state = s].gen = r.gen
               /\ [r EXCEPT !.state = s].state = s
  BY DEF JobRows

LEMMA BatchUpdates ==
    ASSUME NEW r \in BatchRows
    PROVE  /\ \A s \in {"creating", "discarding", "created", "gone"}, F \in SUBSET Files :
                  [r EXCEPT !.state = s, !.todo = F] \in BatchRows
           /\ \A s \in {"creating", "discarding", "created", "gone"}, F \in SUBSET Files :
                  [r EXCEPT !.todo = F, !.state = s] \in BatchRows
           /\ \A s \in {"creating", "discarding", "created", "gone"} :
                  /\ [r EXCEPT !.state = s] \in BatchRows
                  /\ [r EXCEPT !.job = "none", !.cancel = FALSE, !.state = s] \in BatchRows
           /\ \A k \in {"none", "running"} : [r EXCEPT !.job = k] \in BatchRows
           /\ [r EXCEPT !.cancel = TRUE] \in BatchRows
  BY DEF BatchRows

\* Both updates of batch rows return a table of batch rows.
LEMMA BatchTables ==
    ASSUME batch \in [Batches -> BatchRows], NEW m, NEW B
    PROVE  /\ Settled(m, B) \in [Batches -> BatchRows]
           /\ Reopened(B) \in [Batches -> BatchRows]
  BY DEF Settled, Reopened, BatchRows

LEMMA ItemTable ==
    ASSUME item \in [Jobs -> [Files -> Items]], NEW j \in Jobs, NEW f \in Files, NEW row \in Items
    PROVE  [item EXCEPT ![j][f] = row] \in [Jobs -> [Files -> Items]]
  OBVIOUS

---------------------------------------------------------------------------
(***************************************************************************)
(* A worker holds what its position needs: a file while it works on one, a *)
(* batch while it cancels one, a job while it works for one.               *)
(***************************************************************************)
Sound(row) ==
    /\ row.pc \in {"loading", "cancelling", "working", "exhausted", "reloading",
                   "item", "embedding"} => row.file \in Files
    /\ row.pc = "cancelling" => row.batch \in Batches
    /\ row.pc \in {"item", "embedding", "stop_finalize", "stop_only", "finalize",
                   "reaped"} => row.job \in Jobs

SoundRows == {row \in WorkerRows : Sound(row)}

LEMMA IdleIsSound == Idle \in SoundRows
<1>1. Idle \in WorkerRows
  BY Zeros DEF Idle, WorkerRows, PCs
<1>. QED
  BY <1>1 DEF SoundRows, Sound, Idle

\* The rows that a worker starts an item of work with.
LEMMA StartRows ==
    /\ \A f \in Files : [Idle EXCEPT !.pc = "loading", !.file = f] \in SoundRows
    /\ \A j \in Jobs, f \in Files :
           [Idle EXCEPT !.pc = "item", !.job = j, !.file = f] \in SoundRows
    /\ \A j \in Jobs, pc \in {"finalize", "reaped", "stop_finalize", "stop_only"} :
           [Idle EXCEPT !.pc = pc, !.job = j] \in SoundRows
    /\ \A pc \in {"polled", "down"} : [Idle EXCEPT !.pc = pc] \in SoundRows
<1>1. Idle \in WorkerRows
  BY IdleIsSound DEF SoundRows
<1>2. \A f \in Files : [Idle EXCEPT !.pc = "loading", !.file = f] \in SoundRows
  BY <1>1 DEF SoundRows, Sound, WorkerRows, PCs
<1>3. \A j \in Jobs, f \in Files :
          [Idle EXCEPT !.pc = "item", !.job = j, !.file = f] \in SoundRows
  BY <1>1 DEF SoundRows, Sound, WorkerRows, PCs
<1>4. \A j \in Jobs, pc \in {"finalize", "reaped", "stop_finalize", "stop_only"} :
          [Idle EXCEPT !.pc = pc, !.job = j] \in SoundRows
  BY <1>1 DEF SoundRows, Sound, WorkerRows, PCs
<1>5. \A pc \in {"polled", "down"} : [Idle EXCEPT !.pc = pc] \in SoundRows
  BY <1>1 DEF SoundRows, Sound, WorkerRows, PCs
<1>. QED
  BY <1>2, <1>3, <1>4, <1>5

\* The rows that it goes on with.
LEMMA NextRows ==
    ASSUME NEW row \in SoundRows
    PROVE  /\ [row EXCEPT !.pc = "polled"] \in SoundRows
           /\ row.pc = "loading" => \A b \in Batches :
                  [row EXCEPT !.pc = "cancelling", !.batch = b] \in SoundRows
           /\ row.pc = "loading" => \A R \in SUBSET Recipes :
                  [row EXCEPT !.pc = "working", !.have = R, !.tries = 1] \in SoundRows
           /\ row.pc = "reloading" => \A R \in SUBSET Recipes :
                  [row EXCEPT !.pc = "working", !.have = R] \in SoundRows
           /\ row.pc = "working" => \A n \in 0..MaxStale :
                  [row EXCEPT !.pc = "reloading", !.tries = n] \in SoundRows
           /\ row.pc = "working" => [row EXCEPT !.pc = "exhausted"] \in SoundRows
           /\ row.pc = "item" => \A g \in Generations :
                  [row EXCEPT !.pc = "embedding", !.gen = g] \in SoundRows
<1>1. row \in WorkerRows /\ Sound(row)
  BY DEF SoundRows
<1>. QED
  BY <1>1, Zeros DEF SoundRows, Sound, WorkerRows, PCs

---------------------------------------------------------------------------
(***************************************************************************)
(* Why a new job finds a free generation: a job that has not been created  *)
(* yet is numbered above every created one and above the generation the    *)
(* store answers from, and no job targets a generation above its number.   *)
(***************************************************************************)
JobOrder ==
    /\ \A j \in Jobs : job[j].gen <= j
    /\ \A j \in Jobs : job[j].state = "unused" => store.gen < j
    /\ \A j, k \in Jobs : job[j].state = "unused" /\ job[k].state # "unused" => k < j

TypeInv ==
    /\ TypeOK
    /\ JobOrder
    /\ worker \in [Workers -> SoundRows]

LEMMA InitTypeInv == Init => TypeInv
<1>. SUFFICES ASSUME Init PROVE TypeInv
  OBVIOUS
<1>1. store \in Stores
  BY Zeros, RecipeOfStore DEF Init, Stores
<1>2. member \in [Files -> Members] /\ item \in [Jobs -> [Files -> Items]]
  BY MemberRows, ItemRows DEF Init
<1>3. chunks \in [Files -> [Generations -> Recipes \cup {NoRecipe}]]
  BY DEF Init, NoChunks
<1>4. batch \in [Batches -> BatchRows]
  BY DEF Init, BatchRows
<1>5. job \in [Jobs -> JobRows]
  BY Zeros, RecipeOfStore DEF Init, JobRows
<1>6. worker \in [Workers -> SoundRows]
  BY IdleIsSound DEF Init
<1>7. worker \in [Workers -> WorkerRows]
  BY <1>6 DEF SoundRows
<1>8. admitted \subseteq Files /\ busy \in 0..MaxBusy
  BY Zeros DEF Init
<1>9. JobOrder
  BY DEF Init, JobOrder, Jobs
<1>. QED
  BY <1>1, <1>2, <1>3, <1>4, <1>5, <1>6, <1>7, <1>8, <1>9 DEF TypeInv, TypeOK

\* The order of jobs speaks of nothing but the jobs and the active generation.
LEMMA JobOrderStable ==
    ASSUME JobOrder, job' = job, store'.gen = store.gen
    PROVE  JobOrder'
  BY DEF JobOrder

\* Nor does a job's end or its return disturb it.
LEMMA JobOrderKept ==
    ASSUME JobOrder, store'.gen = store.gen,
           \A j \in Jobs : /\ job'[j].gen = job[j].gen
                           /\ job'[j].state = "unused" <=> job[j].state = "unused"
    PROVE  JobOrder'
  BY DEF JobOrder

LEMMA WorkerTable ==
    ASSUME worker \in [Workers -> SoundRows], NEW w \in Workers, NEW row \in SoundRows,
           worker' = [worker EXCEPT ![w] = row]
    PROVE  worker' \in [Workers -> SoundRows] /\ worker' \in [Workers -> WorkerRows]
  BY DEF SoundRows

LEMMA NeededTyped == TypeOK => Needed \in SUBSET Recipes
  BY DEF TypeOK, Needed, Stores, JobRows

LEMMA WrittenTyped ==
    ASSUME TypeOK, NEW f \in Files
    PROVE  Written(f) \in [Generations -> Recipes \cup {NoRecipe}]
<1>1. \A j \in Jobs : job[j].recipe \in Recipes
  BY DEF TypeOK, JobRows
<1>2. store.recipe \in Recipes
  BY DEF TypeOK, Stores
<1>3. \A g \in Generations : (\E j \in Jobs : Running(j) /\ job[j].gen = g)
        => (CHOOSE j \in Jobs : Running(j) /\ job[j].gen = g) \in Jobs
  OBVIOUS
<1>. QED
  BY <1>1, <1>2, <1>3 DEF TypeOK, Written

\* failMember: the row and the batch's job stay in their types.
LEMMA FailMemberTyped ==
    ASSUME TypeOK, NEW f \in Files, NEW permanent \in BOOLEAN, NEW c \in Cause,
           NEW n \in Handbacks, FailMember(f, permanent, c, n)
    PROVE  member' \in [Files -> Members] /\ batch' \in [Batches -> BatchRows]
<1>1. member' \in [Files -> Members]
  <2>. DEFINE s == IF permanent \/ member[f].attempts >= MaxRetries THEN "failed" ELSE "in_progress"
  <2>1. s \in MemberStatus /\ member[f] \in Members
    BY DEF TypeOK, MemberStatus
  <2>2. [member[f] EXCEPT !.status = s, !.lease = "none", !.cause = c, !.memory = n] \in Members
    BY <2>1, MemberUpdates
  <2>. QED
    BY <2>2 DEF FailMember, TypeOK
<1>2. batch' \in [Batches -> BatchRows]
  BY BatchTables DEF FailMember, TypeOK
<1>. QED
  BY <1>1, <1>2

LEMMA HandBackTyped ==
    ASSUME TypeOK, NEW f \in Files, NEW n \in Handbacks, HandBack(f, n)
    PROVE  member' \in [Files -> Members]
<1>1. member[f] \in Members /\ Lower(member[f].attempts) \in Attempts
  BY AttemptSteps DEF TypeOK, Members
<1>. DEFINE row == [member[f] EXCEPT !.attempts = Lower(member[f].attempts), !.lease = "held",
                                    !.cause = "error", !.memory = n]
<1>2. row \in Members
  BY <1>1, MemberUpdates
<1>3. member' = IF Open(f) THEN [member EXCEPT ![f] = row] ELSE member
  BY DEF HandBack
<1>. HIDE DEF row
<1>. QED
  BY <1>2, <1>3 DEF TypeOK

LEMMA IngestKeepsTypeInv ==
    ASSUME TypeInv, NEW w \in Workers, IngestStep(w)
    PROVE  TypeInv'
<1>. USE DEF TypeInv
<1>0. /\ worker[w] \in SoundRows
      /\ worker[w].pc \in {"loading", "cancelling", "working", "exhausted", "reloading"}
           => worker[w].file \in Files
      /\ worker[w].pc = "cancelling" => worker[w].batch \in Batches
      /\ worker[w].tries \in 0..MaxStale /\ worker[w].have \in SUBSET Recipes
  BY DEF SoundRows, Sound, WorkerRows
<1>1. CASE ReapZombies(w)
  <2>1. member' \in [Files -> Members]
    BY <1>1, MemberUpdates, Zeros DEF ReapZombies, TypeOK, MemberStatus, Cause
  <2>2. batch' \in [Batches -> BatchRows]
    BY <1>1, BatchTables DEF ReapZombies, TypeOK
  <2>. QED
    BY <1>1, <2>1, <2>2, JobOrderStable DEF ReapZombies, TypeOK
<1>2. ASSUME NEW f \in Files, ClaimNext(w, f) PROVE TypeInv'
  <2>1. member' \in [Files -> Members]
    <3>1. member[f] \in Members /\ member[f].attempts + 1 \in Attempts
      BY <1>2, AttemptSteps DEF ClaimNext, Claimable, TypeOK, Members
    <3>2. [member[f] EXCEPT !.lease = "held", !.attempts = member[f].attempts + 1] \in Members
      BY <3>1, MemberUpdates
    <3>. QED
      BY <1>2, <3>2 DEF ClaimNext, TypeOK
  <2>2. worker' \in [Workers -> SoundRows] /\ worker' \in [Workers -> WorkerRows]
    BY <1>2, StartRows, WorkerTable DEF ClaimNext
  <2>. QED
    BY <1>2, <2>1, <2>2, JobOrderStable DEF ClaimNext, TypeOK
<1>3. CASE PollEmpty(w)
  <2>1. worker' \in [Workers -> SoundRows] /\ worker' \in [Workers -> WorkerRows]
    BY <1>0, <1>3, NextRows, WorkerTable DEF PollEmpty, Goto
  <2>2. busy' \in 0..MaxBusy
    BY <1>3, ConstantsAssumption DEF PollEmpty, TypeOK
  <2>. QED
    BY <1>3, <2>1, <2>2, JobOrderStable DEF PollEmpty, TypeOK
<1>4. CASE LoadContext(w)
  <2>1. worker' \in [Workers -> SoundRows] /\ worker' \in [Workers -> WorkerRows]
    <3>1. CASE Stop(w)
      BY <3>1, IdleIsSound, WorkerTable DEF Stop
    <3>2. CASE /\ CancelRequested(worker[w].file)
               /\ worker' = [worker EXCEPT ![w] =
                     [@ EXCEPT !.pc = "cancelling", !.batch = member[worker[w].file].batch]]
      <4>1. member[worker[w].file].batch \in Batches
        BY <1>0, <1>4, <3>2 DEF LoadContext, CancelRequested, Batched, TypeOK, Members
      <4>. QED
        BY <1>0, <1>4, <3>2, <4>1, NextRows, WorkerTable DEF LoadContext
    <3>3. CASE worker' = [worker EXCEPT ![w] =
                     [@ EXCEPT !.pc = "working", !.have = Needed, !.tries = 1]]
      BY <1>0, <1>4, <3>3, NeededTyped, NextRows, WorkerTable DEF LoadContext
    <3>. QED
      BY <1>4, <3>1, <3>2, <3>3 DEF LoadContext
  <2>. QED
    BY <1>4, <2>1, JobOrderStable DEF LoadContext, TypeOK
<1>5. CASE ReloadContext(w)
  <2>1. worker' \in [Workers -> SoundRows] /\ worker' \in [Workers -> WorkerRows]
    <3>1. CASE Stop(w)
      BY <3>1, IdleIsSound, WorkerTable DEF Stop
    <3>2. CASE worker' = [worker EXCEPT ![w] =
                     [@ EXCEPT !.pc = "working", !.have = worker[w].have \cup Needed]]
      <4>1. worker[w].have \cup Needed \in SUBSET Recipes
        BY <1>0, NeededTyped
      <4>2. [worker[w] EXCEPT !.pc = "working", !.have = worker[w].have \cup Needed] \in SoundRows
        BY <1>0, <1>5, <4>1, NextRows DEF ReloadContext
      <4>. QED
        BY <3>2, <4>2, WorkerTable
    <3>. QED
      BY <1>5, <3>1, <3>2 DEF ReloadContext
  <2>. QED
    BY <1>5, <2>1, JobOrderStable DEF ReloadContext, TypeOK
<1>6. CASE CancelRemaining(w)
  <2>1. member' \in [Files -> Members]
    BY <1>6, MemberUpdates DEF CancelRemaining, TypeOK, MemberStatus
  <2>2. batch' \in [Batches -> BatchRows]
    BY <1>6, BatchTables DEF CancelRemaining, TypeOK
  <2>3. worker' \in [Workers -> SoundRows] /\ worker' \in [Workers -> WorkerRows]
    BY <1>6, IdleIsSound, WorkerTable DEF CancelRemaining, Stop
  <2>. QED
    BY <1>6, <2>1, <2>2, <2>3, JobOrderStable DEF CancelRemaining, TypeOK
<1>7. CASE CommitSkipped(w)
  <2>1. worker' \in [Workers -> SoundRows] /\ worker' \in [Workers -> WorkerRows]
    BY <1>7, IdleIsSound, WorkerTable DEF CommitSkipped, Stop
  <2>. QED
    BY <1>7, <2>1, JobOrderStable DEF CommitSkipped, TypeOK
<1>8. CASE CommitStale(w)
  <2>1. worker' \in [Workers -> SoundRows] /\ worker' \in [Workers -> WorkerRows]
    <3>1. CASE /\ worker[w].tries < MaxStale
               /\ worker' = [worker EXCEPT ![w] = [@ EXCEPT !.pc = "reloading", !.tries = worker[w].tries + 1]]
      <4>1. worker[w].tries + 1 \in 0..MaxStale
        BY <1>0, <3>1, ConstantsAssumption
      <4>2. [worker[w] EXCEPT !.pc = "reloading", !.tries = worker[w].tries + 1] \in SoundRows
        BY <1>0, <1>8, <4>1, NextRows DEF CommitStale
      <4>. QED
        BY <3>1, <4>2, WorkerTable
    <3>2. CASE Goto(w, "exhausted")
      BY <1>0, <1>8, <3>2, NextRows, WorkerTable DEF CommitStale, Goto
    <3>. QED
      BY <1>8, <3>1, <3>2 DEF CommitStale
  <2>. QED
    BY <1>8, <2>1, JobOrderStable DEF CommitStale, TypeOK
<1>9. CASE CommitChunks(w)
  <2>0. worker[w].file \in Files
    BY <1>0, <1>9 DEF CommitChunks
  <2>1. member' \in [Files -> Members]
    BY <1>9, <2>0, MemberUpdates, Zeros DEF CommitChunks, TypeOK, MemberStatus, Cause
  <2>2. chunks' \in [Files -> [Generations -> Recipes \cup {NoRecipe}]]
    BY <1>9, <2>0, WrittenTyped DEF CommitChunks, TypeOK
  <2>3. batch' \in [Batches -> BatchRows]
    BY <1>9, BatchTables DEF CommitChunks, TypeOK
  <2>4. item' \in [Jobs -> [Files -> Items]]
    <3>1. \A i \in Items :
            [i EXCEPT !.status = "completed", !.lease = "none", !.memory = 0] \in Items
      BY ItemUpdates, Zeros DEF ItemStatus
    <3>2. ASSUME NEW j \in Jobs
          PROVE  /\ item[j] \in [Files -> Items]
                 /\ [item[j] EXCEPT ![worker[w].file] =
                       [@ EXCEPT !.status = "completed", !.lease = "none", !.memory = 0]]
                    \in [Files -> Items]
      <4>. DEFINE row == [item[j][worker[w].file] EXCEPT !.status = "completed",
                                                         !.lease = "none", !.memory = 0]
      <4>1. item[j] \in [Files -> Items]
        BY DEF TypeOK
      <4>2. row \in Items
        BY <2>0, <3>1, <4>1
      <4>. HIDE DEF row
      <4>3. [item[j] EXCEPT ![worker[w].file] = row] \in [Files -> Items]
        BY <2>0, <4>1, <4>2
      <4>. QED
        BY <4>1, <4>3 DEF row
    <3>3. item' = [j \in Jobs |->
                     IF Running(j)
                     THEN [item[j] EXCEPT ![worker[w].file] =
                             [@ EXCEPT !.status = "completed", !.lease = "none", !.memory = 0]]
                     ELSE item[j]]
      BY <1>9 DEF CommitChunks
    <3>. QED
      BY <3>2, <3>3
  <2>5. worker' \in [Workers -> SoundRows] /\ worker' \in [Workers -> WorkerRows]
    BY <1>9, IdleIsSound, WorkerTable DEF CommitChunks, Stop
  <2>. QED
    BY <1>9, <2>1, <2>2, <2>3, <2>4, <2>5, JobOrderStable DEF CommitChunks, TypeOK
<1>10. CASE HandleFailure(w)
  <2>0. worker[w].file \in Files
    BY <1>0, <1>10 DEF HandleFailure
  <2>1. member' \in [Files -> Members] /\ batch' \in [Batches -> BatchRows]
    BY <1>10, <2>0, FailMemberTyped, Zeros DEF HandleFailure, Cause
  <2>2. worker' \in [Workers -> SoundRows] /\ worker' \in [Workers -> WorkerRows]
    BY <1>10, IdleIsSound, WorkerTable DEF HandleFailure, Stop
  <2>. QED
    BY <1>10, <2>1, <2>2, JobOrderStable DEF HandleFailure, TypeOK
<1>11. CASE HandBackBusy(w)
  <2>0. worker[w].file \in Files
    BY <1>0, <1>11 DEF HandBackBusy
  <2>1. member' \in [Files -> Members]
    BY <1>11, <2>0, HandBackTyped DEF HandBackBusy, TypeOK, Members
  <2>2. worker' \in [Workers -> SoundRows] /\ worker' \in [Workers -> WorkerRows]
    BY <1>11, IdleIsSound, WorkerTable DEF HandBackBusy, Stop
  <2>3. busy' \in 0..MaxBusy
    BY <1>11, ConstantsAssumption DEF HandBackBusy, TypeOK
  <2>. QED
    BY <1>11, <2>1, <2>2, <2>3, JobOrderStable DEF HandBackBusy, TypeOK
<1>12. CASE MemoryTimeout(w)
  <2>0. worker[w].file \in Files
    BY <1>0, <1>12 DEF MemoryTimeout
  <2>1. NextMemory(member[worker[w].file].memory) \in Handbacks
    BY <2>0, MemorySteps DEF TypeOK, Members
  <2>2. member' \in [Files -> Members] /\ batch' \in [Batches -> BatchRows]
    BY <1>12, <2>0, <2>1, HandBackTyped, FailMemberTyped DEF MemoryTimeout, Cause, TypeOK
  <2>3. worker' \in [Workers -> SoundRows] /\ worker' \in [Workers -> WorkerRows]
    BY <1>12, IdleIsSound, WorkerTable DEF MemoryTimeout, Stop
  <2>. QED
    BY <1>12, <2>2, <2>3, JobOrderStable DEF MemoryTimeout, TypeOK
<1>13. CASE Restart(w)
  <2>1. worker' \in [Workers -> SoundRows] /\ worker' \in [Workers -> WorkerRows]
    BY <1>13, IdleIsSound, WorkerTable DEF Restart, Stop
  <2>. QED
    BY <1>13, <2>1, JobOrderStable DEF Restart, TypeOK
<1>. QED
  BY <1>1, <1>2, <1>3, <1>4, <1>5, <1>6, <1>7, <1>8, <1>9, <1>10, <1>11, <1>12, <1>13 DEF IngestStep

---------------------------------------------------------------------------
LEMMA DetachTyped ==
    ASSUME TypeOK, NEW F, Detach(F)
    PROVE  /\ member' \in [Files -> Members]
           /\ chunks' \in [Files -> [Generations -> Recipes \cup {NoRecipe}]]
           /\ item' \in [Jobs -> [Files -> Items]]
<1>1. NoChunks \in [Generations -> Recipes \cup {NoRecipe}]
  BY DEF NoChunks
<1>. QED
  BY <1>1, MemberRows, ItemRows DEF Detach, TypeOK

LEMMA TouchedTyped == TypeOK => Touched \in Stores /\ Touched.gen = store.gen
  BY StoreUpdates DEF TypeOK, Touched, Stores

LEMMA InsertTyped ==
    ASSUME TypeOK, NEW f \in Files, Insert(f)
    PROVE  member' \in [Files -> Members] /\ store' \in Stores /\ store'.gen = store.gen
<1>1. NewMember(NoBatch) \in Members
  BY MemberRows DEF NewMember
<1>. QED
  BY <1>1, TouchedTyped DEF Insert, TypeOK

LEMMA UserStepKeepsTypeInv ==
    ASSUME TypeInv, UserStep
    PROVE  TypeInv'
<1>. USE DEF TypeInv
<1>1. ASSUME NEW f \in Files, AttachAtOnce(f) PROVE TypeInv'
  BY <1>1, InsertTyped, JobOrderStable DEF AttachAtOnce, TypeOK
<1>2. ASSUME NEW f \in Files, AdmitAttach(f) PROVE TypeInv'
  BY <1>2, JobOrderStable DEF AdmitAttach, TypeOK
<1>3. ASSUME NEW f \in Files, DeleteStoreFile(f) PROVE TypeInv'
  BY <1>3, DetachTyped, TouchedTyped, JobOrderStable DEF DeleteStoreFile, TypeOK
<1>4. CASE DeleteStoreCascade
  <2>1. /\ member' \in [Files -> Members]
        /\ chunks' \in [Files -> [Generations -> Recipes \cup {NoRecipe}]]
        /\ item' \in [Jobs -> [Files -> Items]]
    BY <1>4, DetachTyped DEF DeleteStoreCascade
  <2>2. store' \in Stores /\ store'.gen = store.gen
    BY <1>4, StoreUpdates DEF DeleteStoreCascade, TypeOK, Stores
  <2>3. batch' \in [Batches -> BatchRows]
    <3>1. \A b \in Batches : batch[b] \in BatchRows
      BY DEF TypeOK
    <3>2. ASSUME NEW b \in Batches
          PROVE  [batch[b] EXCEPT !.job = "none", !.cancel = FALSE,
                     !.state = IF batch[b].state = "created" THEN "gone" ELSE batch[b].state]
                 \in BatchRows
      BY <3>1 DEF BatchRows
    <3>. QED
      BY <1>4, <3>1, <3>2 DEF DeleteStoreCascade
  <2>4. /\ job' \in [Jobs -> JobRows]
        /\ \A j \in Jobs : /\ job'[j].gen = job[j].gen
                           /\ job'[j].state = "unused" <=> job[j].state = "unused"
    BY <1>4, JobUpdates DEF DeleteStoreCascade, TypeOK
  <2>. QED
    BY <1>4, <2>1, <2>2, <2>3, <2>4, JobOrderKept DEF DeleteStoreCascade, TypeOK
<1>5. CASE ExpiryDue \/ ModifyVectorStore
  <2>1. store' \in Stores
    <3>1. CASE ExpiryDue
      BY <3>1, StoreUpdates DEF ExpiryDue, TypeOK
    <3>2. CASE ModifyVectorStore
      BY <3>2, StoreUpdates DEF ModifyVectorStore, TypeOK
    <3>. QED
      BY <1>5, <3>1, <3>2
  <2>2. store'.gen = store.gen
    BY <1>5 DEF ExpiryDue, ModifyVectorStore, TypeOK, Stores
  <2>. QED
    BY <1>5, <2>1, <2>2, JobOrderStable DEF ExpiryDue, ModifyVectorStore, TypeOK
<1>6. CASE TouchStoreActivity
  BY <1>6, TouchedTyped, JobOrderStable DEF TouchStoreActivity, TypeOK
<1>7. ASSUME NEW b \in Batches, NEW F \in SUBSET Files, CreateBatch(b, F) PROVE TypeInv'
  <2>1. batch' \in [Batches -> BatchRows]
    BY <1>7, BatchUpdates DEF CreateBatch, TypeOK
  <2>. QED
    BY <1>7, <2>1, JobOrderStable DEF CreateBatch, TypeOK
<1>8. ASSUME NEW b \in Batches, RequestBatchCancel(b) PROVE TypeInv'
  <2>1. batch' \in [Batches -> BatchRows]
    BY <1>8, BatchUpdates DEF RequestBatchCancel, TypeOK
  <2>. QED
    BY <1>8, <2>1, JobOrderStable DEF RequestBatchCancel, TypeOK
<1>9. ASSUME NEW b \in Batches, RetryJob(b) PROVE TypeInv'
  <2>1. member' \in [Files -> Members] /\ batch' \in [Batches -> BatchRows]
    BY <1>9, MemberRows, BatchTables DEF RetryJob, TypeOK
  <2>. QED
    BY <1>9, <2>1, JobOrderStable DEF RetryJob, TypeOK
<1>10. ASSUME NEW f \in Files, RetryFile(f) PROVE TypeInv'
  <2>1. member' \in [Files -> Members] /\ batch' \in [Batches -> BatchRows]
    BY <1>10, MemberRows, BatchTables DEF RetryFile, TypeOK
  <2>. QED
    BY <1>10, <2>1, JobOrderStable DEF RetryFile, TypeOK
<1>. QED
  BY <1>1, <1>2, <1>3, <1>4, <1>5, <1>6, <1>7, <1>8, <1>9, <1>10 DEF UserStep

LEMMA HandlerStepKeepsTypeInv ==
    ASSUME TypeInv, HandlerStep
    PROVE  TypeInv'
<1>. USE DEF TypeInv
<1>1. ASSUME NEW f \in Files, AttachFile(f) PROVE TypeInv'
  BY <1>1, InsertTyped, JobOrderStable DEF AttachFile, TypeOK
<1>2. ASSUME NEW b \in Batches, CreateBatchJob(b) PROVE TypeInv'
  <2>1. batch' \in [Batches -> BatchRows]
    BY <1>2, BatchUpdates DEF CreateBatchJob, TypeOK
  <2>. QED
    BY <1>2, <2>1, JobOrderStable DEF CreateBatchJob, TypeOK
<1>3. ASSUME NEW b \in Batches, NEW f \in Files, AttachMember(b, f) PROVE TypeInv'
  <2>1. member' \in [Files -> Members]
    BY <1>3, MemberRows DEF AttachMember, NewMember, TypeOK
  <2>2. batch' \in [Batches -> BatchRows]
    <3>1. Reopened({b}) \in [Batches -> BatchRows] /\ batch[b].todo \in SUBSET Files
      BY BatchTables DEF TypeOK, BatchRows
    <3>2. [Reopened({b})[b] EXCEPT !.todo = batch[b].todo \ {f},
              !.state = IF batch[b].todo = {f} THEN "created" ELSE "creating"] \in BatchRows
      BY <3>1, BatchUpdates
    <3>. QED
      BY <1>3, <3>1, <3>2 DEF AttachMember
  <2>. QED
    BY <1>3, <2>1, <2>2, TouchedTyped, JobOrderStable DEF AttachMember, TypeOK
<1>4. ASSUME NEW b \in Batches, CreateFails(b) PROVE TypeInv'
  <2>1. batch' \in [Batches -> BatchRows]
    BY <1>4, BatchUpdates DEF CreateFails, TypeOK
  <2>. QED
    BY <1>4, <2>1, JobOrderStable DEF CreateFails, TypeOK
<1>5. ASSUME NEW b \in Batches, DiscardPartialBatch(b) PROVE TypeInv'
  <2>1. batch' \in [Batches -> BatchRows]
    BY <1>5 DEF DiscardPartialBatch, TypeOK, BatchRows
  <2>. QED
    BY <1>5, <2>1, DetachTyped, JobOrderStable DEF DiscardPartialBatch, TypeOK
<1>6. ASSUME NEW b \in Batches, CreatorStops(b) PROVE TypeInv'
  <2>1. batch' \in [Batches -> BatchRows]
    BY <1>6, BatchUpdates DEF CreatorStops, TypeOK
  <2>. QED
    BY <1>6, <2>1, JobOrderStable DEF CreatorStops, TypeOK
<1>. QED
  BY <1>1, <1>2, <1>3, <1>4, <1>5, <1>6 DEF HandlerStep

LEMMA SweeperStepKeepsTypeInv ==
    ASSUME TypeInv, SweeperStep
    PROVE  TypeInv'
<1>. USE DEF TypeInv
<1>1. CASE SweepOneStore
  <2>1. store' \in Stores /\ store'.gen = store.gen
    BY <1>1, StoreUpdates DEF SweepOneStore, TypeOK, Stores
  <2>2. member' \in [Files -> Members]
    BY <1>1, MemberRows DEF SweepOneStore
  <2>3. chunks' \in [Files -> [Generations -> Recipes \cup {NoRecipe}]]
    BY <1>1 DEF SweepOneStore, NoChunks
  <2>4. item' \in [Jobs -> [Files -> Items]]
    BY <1>1, ItemUpdates DEF SweepOneStore, TypeOK, ItemStatus
  <2>. QED
    BY <1>1, <2>1, <2>2, <2>3, <2>4, JobOrderStable DEF SweepOneStore, TypeOK
<1>2. ASSUME NEW b \in Batches, SettleOrphanedBatchJob(b) PROVE TypeInv'
  BY <1>2, BatchTables, JobOrderStable DEF SettleOrphanedBatchJob, TypeOK
<1>3. ASSUME NEW b \in Batches, SweepBatchJob(b) PROVE TypeInv'
  <2>1. batch' \in [Batches -> BatchRows]
    BY <1>3, BatchUpdates DEF SweepBatchJob, TypeOK
  <2>. QED
    BY <1>3, <2>1, JobOrderStable DEF SweepBatchJob, TypeOK
<1>. QED
  BY <1>1, <1>2, <1>3 DEF SweeperStep

---------------------------------------------------------------------------
LEMMA DropTyped ==
    ASSUME TypeOK, NEW g
    PROVE  /\ KeepOnly(g) \in [Files -> [Generations -> Recipes \cup {NoRecipe}]]
           /\ DropGeneration(g) \in [Files -> [Generations -> Recipes \cup {NoRecipe}]]
  BY DEF TypeOK, KeepOnly, DropGeneration

LEMMA SetItemsTyped ==
    ASSUME TypeOK, NEW j \in Jobs, NEW F, NEW row \in Items
    PROVE  SetItems(j, F, row) \in [Jobs -> [Files -> Items]]
  BY DEF TypeOK, SetItems

LEMMA CloseItemsTyped ==
    ASSUME TypeOK, NEW j \in Jobs, NEW s \in ItemStatus
    PROVE  CloseItems(j, s) \in [Jobs -> [Files -> Items]]
<1>1. \A f \in Files : item[j][f] \in Items
  BY DEF TypeOK
<1>2. \A f \in Files : [item[j][f] EXCEPT !.status = s, !.lease = "none"] \in Items
  BY <1>1, ItemUpdates
<1>. QED
  BY <1>1, <1>2 DEF TypeOK, CloseItems

\* A job's end or its return: the row is typed, and the order of jobs is as it was.
LEMMA JobChange ==
    ASSUME TypeInv, NEW j \in Jobs, NEW s \in {"running", "switched", "failed", "cancelled", "gone"},
           job[j].state # "unused", job' = [job EXCEPT ![j].state = s]
    PROVE  /\ job' \in [Jobs -> JobRows]
           /\ \A k \in Jobs : /\ job'[k].gen = job[k].gen
                              /\ job'[k].state = "unused" <=> job[k].state = "unused"
<1>1. job \in [Jobs -> JobRows] /\ job[j] \in JobRows
  BY DEF TypeInv, TypeOK
<1>. DEFINE row == [job[j] EXCEPT !.state = s]
<1>2. row \in JobRows /\ row.gen = job[j].gen /\ row.state = s
  BY <1>1 DEF JobRows
<1>3. job' = [job EXCEPT ![j] = row]
  OBVIOUS
<1>. HIDE DEF row
<1>. QED
  BY <1>1, <1>2, <1>3

\* What a created job starts with: no job is above it and its generation is within bounds.
LEMMA StartJobKeepsTypeInv ==
    ASSUME TypeInv, NEW j \in Jobs, NEW recipe \in Recipes, NEW rechunk \in BOOLEAN,
           StartJob(j, recipe, rechunk)
    PROVE  TypeInv'
<1>. USE DEF TypeInv
<1>1. store.gen \in Nat /\ store.gen < j /\ store.gen + 1 \in Generations
  BY ConstantsAssumption DEF StartJob, JobOrder, TypeOK, Stores, Generations, Jobs
<1>2. job' \in [Jobs -> JobRows]
  <2>1. [state |-> "running", recipe |-> recipe, gen |-> store.gen + 1, rechunk |-> rechunk]
            \in JobRows
    BY <1>1 DEF JobRows
  <2>. QED
    BY <2>1 DEF StartJob, TypeOK
<1>3. /\ job'[j].gen = store.gen + 1 /\ job'[j].state = "running"
      /\ \A k \in Jobs : k # j => job'[k] = job[k]
  BY DEF StartJob, TypeOK
<1>4. JobOrder'
  <2>0. store' = store /\ \A k \in Jobs : k \in Nat
    BY DEF StartJob, Jobs
  <2>1. \A k \in Jobs : job'[k].gen <= k
    BY <1>1, <1>3, <2>0 DEF JobOrder, Jobs
  <2>2. \A k \in Jobs : job'[k].state = "unused" => store'.gen < k
    BY <1>3, <2>0 DEF JobOrder
  <2>3. ASSUME NEW k \in Jobs, NEW l \in Jobs, job'[k].state = "unused", job'[l].state # "unused"
        PROVE  l < k
    <3>1. k # j /\ job[k].state = "unused"
      BY <1>3, <2>3
    <3>2. CASE l = j
      BY <3>1, <3>2, <2>0 DEF StartJob
    <3>3. CASE l # j
      BY <1>3, <2>3, <3>1, <3>3 DEF JobOrder
    <3>. QED
      BY <3>2, <3>3
  <2>. QED
    BY <2>1, <2>2, <2>3 DEF JobOrder
<1>5. item' \in [Jobs -> [Files -> Items]]
  BY SetItemsTyped, ItemRows DEF StartJob
<1>6. chunks' \in [Files -> [Generations -> Recipes \cup {NoRecipe}]]
  BY DropTyped DEF StartJob
<1>. QED
  BY <1>2, <1>4, <1>5, <1>6 DEF StartJob, TypeOK

LEMMA SwitchTyped ==
    ASSUME TypeInv, NEW j \in Jobs, Switch(j)
    PROVE  /\ store' \in Stores /\ member' \in [Files -> Members] /\ job' \in [Jobs -> JobRows]
           /\ chunks' \in [Files -> [Generations -> Recipes \cup {NoRecipe}]]
           /\ batch' \in [Batches -> BatchRows] /\ item' \in [Jobs -> [Files -> Items]]
           /\ JobOrder'
<1>. USE DEF TypeInv
<1>0. job[j] \in JobRows /\ job[j].gen \in Generations /\ job[j].recipe \in Recipes
  BY DEF TypeOK, JobRows
<1>1. store' \in Stores /\ store'.gen = job[j].gen
  BY <1>0, StoreUpdates DEF Switch, TypeOK, Stores
<1>2. member' \in [Files -> Members]
  BY MemberRows DEF Switch, TypeOK
<1>3. batch' \in [Batches -> BatchRows]
  BY BatchTables DEF Switch, TypeOK
<1>4. /\ job' \in [Jobs -> JobRows]
      /\ \A k \in Jobs : /\ job'[k].gen = job[k].gen
                         /\ job'[k].state = "unused" <=> job[k].state = "unused"
  BY JobChange DEF Switch, Ending, Running
<1>5. JobOrder'
  <2>1. \A k \in Jobs : job[k].state = "unused" => job[j].gen <= j /\ j < k
    BY DEF Switch, Ending, Running, JobOrder
  <2>2. \A k \in Jobs : job[k].state = "unused" => job[j].gen < k
    BY <1>0, <2>1 DEF Generations, Jobs
  <2>. QED
    BY <1>1, <1>4, <2>2 DEF JobOrder
<1>6. chunks' \in [Files -> [Generations -> Recipes \cup {NoRecipe}]]
  BY DropTyped DEF Switch
<1>. QED
  BY <1>1, <1>2, <1>3, <1>4, <1>5, <1>6 DEF Switch, TypeOK

LEMMA FinalizeTyped ==
    ASSUME TypeInv, NEW j \in Jobs, FinalizeJob(j)
    PROVE  /\ store' \in Stores /\ member' \in [Files -> Members] /\ job' \in [Jobs -> JobRows]
           /\ chunks' \in [Files -> [Generations -> Recipes \cup {NoRecipe}]]
           /\ batch' \in [Batches -> BatchRows] /\ item' \in [Jobs -> [Files -> Items]]
           /\ JobOrder'
<1>. USE DEF TypeInv
<1>1. CASE FinalizeNothing(j)
  BY <1>1, JobOrderStable DEF FinalizeNothing, TypeOK
<1>2. CASE FinalizeExpired(j)
  BY <1>2, CloseItemsTyped, DropTyped, JobChange, JobOrderKept
     DEF FinalizeExpired, Running, TypeOK, ItemStatus
<1>3. CASE FinalizeFailed(j)
  BY <1>3, JobChange, JobOrderKept DEF FinalizeFailed, Ending, Running, TypeOK
<1>4. CASE FinalizeReopen(j)
  BY <1>4, SetItemsTyped, ItemRows, JobOrderStable DEF FinalizeReopen, TypeOK
<1>5. CASE Switch(j)
  BY <1>5, SwitchTyped
<1>. QED
  BY <1>1, <1>2, <1>3, <1>4, <1>5 DEF FinalizeJob

LEMMA ReembedUserStepKeepsTypeInv ==
    ASSUME TypeInv, ReembedUserStep
    PROVE  TypeInv'
<1>. USE DEF TypeInv
<1>0. store.recipe[1] \in Models /\ store.recipe[2] \in Settings
  BY DEF TypeOK, Stores, Recipes
<1>1. ASSUME NEW j \in Jobs, StartReembed(j) PROVE TypeInv'
  BY <1>0, <1>1, StartJobKeepsTypeInv DEF StartReembed, Recipes
<1>2. ASSUME NEW j \in Jobs, StartRechunk(j) PROVE TypeInv'
  BY <1>0, <1>2, StartJobKeepsTypeInv DEF StartRechunk, Recipes
<1>3. ASSUME NEW j \in Jobs, CancelStoreJob(j) PROVE TypeInv'
  <2>1. /\ job' \in [Jobs -> JobRows]
        /\ \A k \in Jobs : /\ job'[k].gen = job[k].gen
                           /\ job'[k].state = "unused" <=> job[k].state = "unused"
    BY <1>3, JobChange DEF CancelStoreJob
  <2>. QED
    BY <1>3, <2>1, CloseItemsTyped, DropTyped, JobOrderKept DEF CancelStoreJob, TypeOK, ItemStatus
<1>4. ASSUME NEW j \in Jobs, RetryStoreJob(j) PROVE TypeInv'
  <2>1. /\ job' \in [Jobs -> JobRows]
        /\ \A k \in Jobs : /\ job'[k].gen = job[k].gen
                           /\ job'[k].state = "unused" <=> job[k].state = "unused"
    BY <1>4, JobChange DEF RetryStoreJob
  <2>. QED
    BY <1>4, <2>1, SetItemsTyped, ItemRows, JobOrderKept DEF RetryStoreJob, TypeOK
<1>5. ASSUME NEW j \in Jobs, StartReextract(j) PROVE TypeInv'
  BY <1>5, StartJobKeepsTypeInv DEF StartReextract, TypeOK, Stores
<1>. QED
  BY <1>1, <1>2, <1>3, <1>4, <1>5 DEF ReembedUserStep

LEMMA ReembedSweeperStepKeepsTypeInv ==
    ASSUME TypeInv, ReembedSweeperStep
    PROVE  TypeInv'
<1>. USE DEF TypeInv
<1>1. ASSUME NEW j \in Jobs, FinalizeElsewhere(j) PROVE TypeInv'
  <2>1. UNCHANGED <<admitted, busy, worker>> /\ FinalizeJob(j)
    BY <1>1 DEF FinalizeElsewhere, FinalizeJob
  <2>. QED
    BY <2>1, FinalizeTyped DEF TypeOK
<1>2. ASSUME NEW j \in Jobs, SweepReembedJob(j) PROVE TypeInv'
  <2>1. /\ job' \in [Jobs -> JobRows]
        /\ \A k \in Jobs : /\ job'[k].gen = job[k].gen
                           /\ job'[k].state = "unused" <=> job[k].state = "unused"
    BY <1>2, JobChange DEF SweepReembedJob
  <2>. QED
    BY <1>2, <2>1, SetItemsTyped, ItemRows, JobOrderKept DEF SweepReembedJob, TypeOK
<1>3. ASSUME NEW f \in Files, NEW g \in Generations, DropOrphanedChunks(f, g) PROVE TypeInv'
  <2>1. chunks' \in [Files -> [Generations -> Recipes \cup {NoRecipe}]]
    BY <1>3 DEF DropOrphanedChunks, TypeOK
  <2>. QED
    BY <1>3, <2>1, JobOrderStable DEF DropOrphanedChunks, TypeOK
<1>. QED
  BY <1>1, <1>2, <1>3 DEF ReembedSweeperStep

---------------------------------------------------------------------------
\* The update of an item that failed, and the worker's next position.
LEMMA ItemFailsTyped ==
    ASSUME TypeInv, NEW w \in Workers, NEW permanent \in BOOLEAN, NEW n \in Handbacks,
           NEW unserved \in BOOLEAN, ItemFails(w, permanent, n, unserved),
           worker[w].job \in Jobs, worker[w].file \in Files
    PROVE  /\ item' \in [Jobs -> [Files -> Items]]
           /\ worker' \in [Workers -> SoundRows] /\ worker' \in [Workers -> WorkerRows]
<1>. USE DEF TypeInv
<1>. DEFINE j == worker[w].job
            f == worker[w].file
            ends == permanent \/ item[j][f].attempts >= MaxRetries
            failed == item[j][f].status = "in_progress" /\ ends
            s == IF ends THEN "failed" ELSE "in_progress"
            row == [item[j][f] EXCEPT !.status = s, !.lease = "none", !.memory = n]
            next == IF unserved
                    THEN [Idle EXCEPT !.pc = IF failed THEN "stop_finalize" ELSE "stop_only",
                                      !.job = j]
                    ELSE IF failed THEN [Idle EXCEPT !.pc = "finalize", !.job = j] ELSE Idle
<1>1. item' = IF item[j][f].status = "in_progress"
              THEN [item EXCEPT ![j][f] = row] ELSE item
  BY DEF ItemFails
<1>2. row \in Items
  <2>1. item[j][f] \in Items /\ s \in ItemStatus
    BY DEF TypeOK, ItemStatus
  <2>. QED
    BY <2>1, ItemUpdates
<1>3. worker' = [worker EXCEPT ![w] = next]
  BY DEF ItemFails, To
<1>4. next \in SoundRows
  BY StartRows, IdleIsSound
<1>. HIDE DEF j, f, ends, failed, s, row, next
<1>5. j \in Jobs /\ f \in Files
  BY DEF j, f
<1>6. item' \in [Jobs -> [Files -> Items]]
  BY <1>1, <1>2, <1>5, ItemTable DEF TypeOK
<1>. QED
  BY <1>3, <1>4, <1>6, WorkerTable

\* An item handed back keeps its type.
LEMMA GiveBackTyped ==
    ASSUME TypeOK, NEW j \in Jobs, NEW f \in Files, NEW n \in Handbacks, GiveBack(j, f, n)
    PROVE  item' \in [Jobs -> [Files -> Items]]
<1>. DEFINE row == [item[j][f] EXCEPT !.attempts = Lower(item[j][f].attempts), !.lease = "held",
                                     !.memory = n]
<1>1. row \in Items
  <2>1. item[j][f] \in Items /\ Lower(item[j][f].attempts) \in Attempts
    BY AttemptSteps DEF TypeOK, Items
  <2>. QED
    BY <2>1, ItemUpdates
<1>2. item' = IF item[j][f].status = "in_progress" THEN [item EXCEPT ![j][f] = row] ELSE item
  BY DEF GiveBack
<1>. HIDE DEF row
<1>. QED
  BY <1>1, <1>2, ItemTable DEF TypeOK

\* The steps of a worker on re-embed items keep the type invariant, one case per action.
LEMMA ReembedStepKeepsTypeInv ==
    ASSUME TypeInv, NEW w \in Workers, ReembedStep(w)
    PROVE  TypeInv'
<1>. USE DEF TypeInv
<1>0. /\ worker[w] \in SoundRows
      /\ worker[w].pc \in {"item", "embedding"} => worker[w].file \in Files
      /\ worker[w].pc \in {"item", "embedding", "stop_finalize", "stop_only", "finalize",
                           "reaped"} => worker[w].job \in Jobs
  BY DEF SoundRows, Sound
<1>a. \A j \in Jobs, f \in Files :
        item[j][f] \in Items /\ item[j][f].attempts \in Attempts /\ item[j][f].memory \in Handbacks
  BY DEF TypeOK, Items
<1>1. CASE ReapItems(w)
  <2>1. item' \in [Jobs -> [Files -> Items]]
    <3>1. \A j \in Jobs, f \in Files :
            [item[j][f] EXCEPT !.status = "failed", !.lease = "none", !.memory = 0] \in Items
      BY <1>a, ItemUpdates, Zeros DEF ItemStatus
    <3>. QED
      BY <1>1, <1>a, <3>1 DEF ReapItems
  <2>2. PICK p \in ItemZombies : To(w, [Idle EXCEPT !.pc = "reaped", !.job = p[1]])
    BY <1>1 DEF ReapItems
  <2>3. p[1] \in Jobs
    BY <2>2 DEF ItemZombies
  <2>4. [Idle EXCEPT !.pc = "reaped", !.job = p[1]] \in SoundRows
    BY <2>3, StartRows
  <2>5. worker' \in [Workers -> SoundRows] /\ worker' \in [Workers -> WorkerRows]
    BY <2>2, <2>4, WorkerTable DEF To
  <2>. QED
    BY <1>1, <2>1, <2>5, JobOrderStable DEF ReapItems, TypeOK
<1>2. ASSUME NEW j \in Jobs, NEW f \in Files, ClaimItem(w, j, f) PROVE TypeInv'
  <2>1. item' \in [Jobs -> [Files -> Items]]
    <3>1. item[j][f].attempts + 1 \in Attempts
      BY <1>2, <1>a, AttemptSteps DEF ClaimItem, ClaimableItems
    <3>. DEFINE row == [item[j][f] EXCEPT !.lease = "held", !.attempts = item[j][f].attempts + 1]
    <3>2. row \in Items
      BY <3>1, <1>a, ItemUpdates
    <3>3. item' = [item EXCEPT ![j][f] = row]
      BY <1>2 DEF ClaimItem
    <3>. HIDE DEF row
    <3>. QED
      BY <3>2, <3>3, ItemTable DEF TypeOK
  <2>2. worker' \in [Workers -> SoundRows] /\ worker' \in [Workers -> WorkerRows]
    BY <1>2, StartRows, WorkerTable DEF ClaimItem, To
  <2>. QED
    BY <1>2, <2>1, <2>2, JobOrderStable DEF ClaimItem, TypeOK
<1>3. CASE SettleIdle(w)
  <2>1. worker' \in [Workers -> SoundRows] /\ worker' \in [Workers -> WorkerRows]
    BY <1>3, StartRows, IdleIsSound, WorkerTable DEF SettleIdle, To, IdleJobs
  <2>2. busy' \in 0..MaxBusy
    <3>1. busy' = busy \/ (busy < MaxBusy /\ busy' = busy + 1)
      BY <1>3 DEF SettleIdle
    <3>. QED
      BY <3>1, ConstantsAssumption DEF TypeOK
  <2>. QED
    BY <1>3, <2>1, <2>2, JobOrderStable DEF SettleIdle, TypeOK
<1>4. CASE ReadItem(w)
  <2>1. worker' \in [Workers -> SoundRows] /\ worker' \in [Workers -> WorkerRows]
    <3>1. store.gen \in Generations
      BY DEF TypeOK, Stores
    <3>2. worker[w].pc = "item" => [worker[w] EXCEPT !.pc = "embedding", !.gen = store.gen] \in SoundRows
      BY <1>0, <3>1, NextRows
    <3>. QED
      BY <1>4, <3>2, IdleIsSound, WorkerTable DEF ReadItem, To
  <2>. QED
    BY <1>4, <2>1, JobOrderStable DEF ReadItem, TypeOK
<1>5. CASE DropItem(w)
  <2>1. worker[w].job \in Jobs /\ worker[w].file \in Files
    BY <1>0, <1>5 DEF DropItem
  <2>2. item' \in [Jobs -> [Files -> Items]]
    <3>. DEFINE old == item[worker[w].job][worker[w].file]
                row == IF old.status = "in_progress" THEN NoItem ELSE old
    <3>1. row \in Items
      BY <2>1, <1>a, ItemRows
    <3>2. item' = [item EXCEPT ![worker[w].job][worker[w].file] = row]
      BY <1>5 DEF DropItem
    <3>. HIDE DEF old, row
    <3>. QED
      BY <2>1, <3>1, <3>2, ItemTable DEF TypeOK
  <2>3. worker' \in [Workers -> SoundRows] /\ worker' \in [Workers -> WorkerRows]
    BY <1>5, IdleIsSound, WorkerTable DEF DropItem, To
  <2>. QED
    BY <1>5, <2>2, <2>3, JobOrderStable DEF DropItem, TypeOK
<1>6. CASE SkipItem(w)
  <2>1. worker' \in [Workers -> SoundRows] /\ worker' \in [Workers -> WorkerRows]
    BY <1>6, IdleIsSound, WorkerTable DEF SkipItem, To
  <2>. QED
    BY <1>6, <2>1, JobOrderStable DEF SkipItem, TypeOK
<1>7. CASE CommitItem(w)
  <2>1. worker[w].job \in Jobs /\ worker[w].file \in Files
    BY <1>0, <1>7 DEF CommitItem
  <2>2. item' \in [Jobs -> [Files -> Items]]
    <3>. DEFINE old == item[worker[w].job][worker[w].file]
                row == [old EXCEPT !.status = "completed", !.lease = "none", !.memory = 0]
    <3>1. row \in Items
      BY <2>1, <1>a, ItemUpdates, Zeros DEF ItemStatus
    <3>2. item' = [item EXCEPT ![worker[w].job][worker[w].file] = row]
      BY <1>7 DEF CommitItem
    <3>. HIDE DEF old, row
    <3>. QED
      BY <2>1, <3>1, <3>2, ItemTable DEF TypeOK
  <2>3. worker' \in [Workers -> SoundRows] /\ worker' \in [Workers -> WorkerRows]
    BY <1>7, <2>1, StartRows, IdleIsSound, WorkerTable DEF CommitItem, To
  <2>4. chunks' \in [Files -> [Generations -> Recipes \cup {NoRecipe}]]
    <3>1. job[worker[w].job].recipe \in Recipes
      BY <2>1 DEF TypeOK, JobRows
    <3>. QED
      BY <1>7, <2>1, <3>1 DEF CommitItem, TypeOK
  <2>. QED
    BY <1>7, <2>2, <2>3, <2>4, JobOrderStable DEF CommitItem, TypeOK
<1>8. CASE HandleItemFailure(w)
  <2>1. worker[w].job \in Jobs /\ worker[w].file \in Files
    BY <1>0, <1>8 DEF HandleItemFailure
  <2>2. /\ item' \in [Jobs -> [Files -> Items]]
        /\ worker' \in [Workers -> SoundRows] /\ worker' \in [Workers -> WorkerRows]
    BY <1>8, <2>1, ItemFailsTyped, Zeros DEF HandleItemFailure
  <2>. QED
    BY <1>8, <2>2, JobOrderStable DEF HandleItemFailure, TypeOK
<1>9. CASE FailOpenRechunkItems(w)
  <2>1. worker[w].job \in Jobs
    BY <1>0, <1>9 DEF FailOpenRechunkItems
  <2>2. item' \in [Jobs -> [Files -> Items]]
    BY <1>9, <2>1, CloseItemsTyped DEF FailOpenRechunkItems, ItemStatus, TypeOK
  <2>3. worker' \in [Workers -> SoundRows] /\ worker' \in [Workers -> WorkerRows]
    BY <1>9, <2>1, StartRows, IdleIsSound, WorkerTable DEF FailOpenRechunkItems, To
  <2>. QED
    BY <1>9, <2>2, <2>3, JobOrderStable DEF FailOpenRechunkItems, TypeOK
<1>10. CASE HandBackItem(w)
  <2>1. worker[w].job \in Jobs /\ worker[w].file \in Files
    BY <1>0, <1>10 DEF HandBackItem
  <2>2. item' \in [Jobs -> [Files -> Items]]
    BY <1>10, <1>a, <2>1, GiveBackTyped DEF HandBackItem
  <2>3. worker' \in [Workers -> SoundRows] /\ worker' \in [Workers -> WorkerRows]
    BY <1>10, IdleIsSound, WorkerTable DEF HandBackItem, To
  <2>4. busy' \in 0..MaxBusy
    BY <1>10, ConstantsAssumption DEF HandBackItem, TypeOK
  <2>. QED
    BY <1>10, <2>2, <2>3, <2>4, JobOrderStable DEF HandBackItem, TypeOK
<1>11. CASE ItemMemoryTimeout(w)
  <2>1. worker[w].job \in Jobs /\ worker[w].file \in Files
    BY <1>0, <1>11 DEF ItemMemoryTimeout
  <2>. DEFINE n == NextMemory(item[worker[w].job][worker[w].file].memory)
  <2>2. n \in Handbacks
    BY <2>1, <1>a, MemorySteps
  <2>. HIDE DEF n
  <2>3. CASE GiveBack(worker[w].job, worker[w].file, n) /\ To(w, Idle)
    BY <1>11, <2>1, <2>2, <2>3, GiveBackTyped, IdleIsSound, WorkerTable, JobOrderStable
       DEF ItemMemoryTimeout, To, TypeOK
  <2>4. CASE ItemFails(w, FALSE, n, FALSE)
    <3>1. /\ item' \in [Jobs -> [Files -> Items]]
          /\ worker' \in [Workers -> SoundRows] /\ worker' \in [Workers -> WorkerRows]
      BY <2>1, <2>2, <2>4, ItemFailsTyped
    <3>. QED
      BY <1>11, <3>1, JobOrderStable DEF ItemMemoryTimeout, TypeOK
  <2>. QED
    BY <1>11, <2>3, <2>4 DEF ItemMemoryTimeout, n
<1>12. CASE Finalize(w)
  <2>1. worker[w].job \in Jobs /\ FinalizeJob(worker[w].job)
    BY <1>0, <1>12 DEF Finalize
  <2>2. worker' \in [Workers -> SoundRows] /\ worker' \in [Workers -> WorkerRows]
    BY <1>12, StartRows, IdleIsSound, WorkerTable DEF Finalize, To
  <2>3. UNCHANGED <<admitted, busy>>
    BY <2>1 DEF FinalizeJob
  <2>. QED
    BY <2>1, <2>2, <2>3, FinalizeTyped DEF TypeOK
<1>. QED
  BY <1>1, <1>2, <1>3, <1>4, <1>5, <1>6, <1>7, <1>8, <1>9, <1>10, <1>11, <1>12 DEF ReembedStep

---------------------------------------------------------------------------
\* A crash and the passing of time.
LEMMA CrashKeepsTypeInv ==
    ASSUME TypeInv, NEW w \in Workers, Crash(w)
    PROVE  TypeInv'
<1>1. worker' \in [Workers -> SoundRows] /\ worker' \in [Workers -> WorkerRows]
  BY StartRows, WorkerTable DEF Crash, TypeInv
<1>. QED
  BY <1>1, JobOrderStable DEF Crash, TypeInv, TypeOK

LEMMA LapseKeepsTypeInv ==
    ASSUME TypeInv, (\E f \in Files : LeaseLapses(f)) \/ (\E j \in Jobs, f \in Files : ItemLeaseLapses(j, f))
    PROVE  TypeInv'
<1>. USE DEF TypeInv
<1>1. ASSUME NEW f \in Files, LeaseLapses(f) PROVE TypeInv'
  <2>1. [member[f] EXCEPT !.lease = "lapsed"] \in Members
    <3>1. member[f] \in Members
      BY DEF TypeOK
    <3>. QED
      BY <3>1, MemberUpdates
  <2>2. member' \in [Files -> Members]
    BY <1>1, <2>1 DEF LeaseLapses, TypeOK
  <2>. QED
    BY <1>1, <2>2, JobOrderStable DEF LeaseLapses, TypeOK
<1>2. ASSUME NEW j \in Jobs, NEW f \in Files, ItemLeaseLapses(j, f) PROVE TypeInv'
  <2>1. [item[j][f] EXCEPT !.lease = "lapsed"] \in Items
    <3>1. item[j][f] \in Items
      BY DEF TypeOK
    <3>. QED
      BY <3>1, ItemUpdates
  <2>2. item' \in [Jobs -> [Files -> Items]]
    BY <1>2, <2>1, ItemTable DEF ItemLeaseLapses, TypeOK
  <2>. QED
    BY <1>2, <2>2, JobOrderStable DEF ItemLeaseLapses, TypeOK
<1>. QED
  BY <1>1, <1>2

LEMMA NextKeepsTypeInv == TypeInv /\ [Next]_vars => TypeInv'
<1>. SUFFICES ASSUME TypeInv, [Next]_vars PROVE TypeInv'
  OBVIOUS
<1>1. ASSUME NEW w \in Workers, WorkerStep(w) PROVE TypeInv'
  BY <1>1, IngestKeepsTypeInv, ReembedStepKeepsTypeInv DEF WorkerStep
<1>2. CASE HandlerStep
  BY <1>2, HandlerStepKeepsTypeInv
<1>3. CASE SweeperStep
  BY <1>3, SweeperStepKeepsTypeInv
<1>4. CASE ReembedSweeperStep
  BY <1>4, ReembedSweeperStepKeepsTypeInv
<1>5. CASE (\E f \in Files : LeaseLapses(f)) \/ (\E j \in Jobs, f \in Files : ItemLeaseLapses(j, f))
  BY <1>5, LapseKeepsTypeInv
<1>6. CASE UserStep
  BY <1>6, UserStepKeepsTypeInv
<1>7. CASE ReembedUserStep
  BY <1>7, ReembedUserStepKeepsTypeInv
<1>8. ASSUME NEW w \in Workers, Crash(w) PROVE TypeInv'
  BY <1>8, CrashKeepsTypeInv
<1>9. CASE UNCHANGED vars
  BY <1>9, JobOrderStable DEF vars, TypeInv, TypeOK
<1>. QED
  BY <1>1, <1>2, <1>3, <1>4, <1>5, <1>6, <1>7, <1>8, <1>9 DEF Next, System, Users, Crashes

(***************************************************************************)
(* Every reachable state of the tables and of the worker loops is typed:   *)
(* in particular no claim, hand-back or retry takes attempts out of        *)
(* 0..MaxRetries, and no start of a job runs out of generations, in any    *)
(* interleaving of workers, handlers and sweepers (StoreDb, all tables).   *)
(***************************************************************************)
THEOREM TypeCorrect == Spec => []TypeOK
<1>1. Init => TypeInv
  BY InitTypeInv
<1>2. TypeInv /\ [Next]_vars => TypeInv'
  BY NextKeepsTypeInv
<1>3. TypeInv => TypeOK
  BY DEF TypeInv
<1>. QED
  BY <1>1, <1>2, <1>3, PTL DEF Spec

---------------------------------------------------------------------------
(***************************************************************************)
(* What may happen to a file's row, and to the job of the batch that it    *)
(* belongs to.  A worker whose lease lapsed goes on as if nothing had      *)
(* happened, so it is the guard of each update, and nothing the worker     *)
(* remembers, that these rest on.                                          *)
(***************************************************************************)
(***************************************************************************)
(* The life of a row: it is ended only while it is in progress, it comes   *)
(* back only after it failed, and it may be detached at any time.          *)
(***************************************************************************)
LifeStep(f) ==
    \/ member'[f].status = member[f].status
    \/ member[f].status \in {"absent", "in_progress"}
    \/ member'[f].status = "absent"
    \/ member[f].status = "failed" /\ member'[f].status = "in_progress"

\* No row is new in progress, and none in progress changes its batch.
NothingOpens ==
    \A f \in Files : member'[f].status = "in_progress" =>
        member[f].status = "in_progress" /\ member'[f].batch = member[f].batch

\* Why a batch's finished job stays right: what finishes it looks at its members.
BatchStep ==
    \A b \in Batches : batch'[b].job = "finished" =>
        \/ OpenMembers(member', b) = {}
        \/ /\ batch[b].job = "finished"
           /\ OpenMembers(member', b) \subseteq OpenMembers(member, b)

Life == (\A f \in Files : LifeStep(f)) /\ BatchStep

---------------------------------------------------------------------------
\* Both updates of the batch rows, read by their outcome.
LEMMA SettledJob ==
    ASSUME TypeOK, NEW m, NEW B, NEW b \in Batches, Settled(m, B)[b].job = "finished"
    PROVE  OpenMembers(m, b) = {} \/ batch[b].job = "finished"
  BY DEF Settled, TypeOK, BatchRows

LEMMA ReopenedJob ==
    ASSUME TypeOK, NEW B, NEW b \in Batches, Reopened(B)[b].job = "finished"
    PROVE  b \notin B /\ batch[b].job = "finished"
  BY DEF Reopened, TypeOK, BatchRows

\* A step that opens nothing, and finishes a batch only by settling it.
LEMMA QuietStep ==
    ASSUME TypeOK, NothingOpens,
           \A b \in Batches : batch'[b].job = "finished" =>
               batch[b].job = "finished" \/ OpenMembers(member', b) = {}
    PROVE  BatchStep
  BY DEF BatchStep, NothingOpens, OpenMembers

LEMMA SettlingStep ==
    ASSUME TypeOK, NothingOpens, NEW B, batch' = Settled(member', B)
    PROVE  BatchStep
  BY QuietStep, SettledJob

LEMMA NoMemberStep ==
    ASSUME TypeOK, member' = member,
           \A b \in Batches : batch'[b].job = "finished" =>
               batch[b].job = "finished" \/ OpenMembers(member', b) = {}
    PROVE  Life
  BY QuietStep DEF Life, LifeStep, NothingOpens

\* The updates of a row that a worker makes: none touches a row that is not in progress.
LEMMA FailMemberLife ==
    ASSUME TypeOK, NEW f \in Files, NEW permanent \in BOOLEAN, NEW c, NEW n,
           FailMember(f, permanent, c, n)
    PROVE  Life
<1>1. \A g \in Files : LifeStep(g)
  BY DEF FailMember, TypeOK, Members, LifeStep, Open
<1>2. NothingOpens
  BY DEF FailMember, TypeOK, Members, NothingOpens, Open
<1>3. BatchStep
  <2>1. CASE batch' = batch
    BY <1>2, <2>1, QuietStep
  <2>2. CASE batch' = Settled(member', {member[f].batch} \ {NoBatch})
    BY <1>2, <2>2, SettlingStep
  <2>. QED
    BY <2>1, <2>2 DEF FailMember
<1>. QED
  BY <1>1, <1>3 DEF Life

LEMMA HandBackLife ==
    ASSUME TypeOK, NEW f \in Files, NEW n, HandBack(f, n), batch' = batch
    PROVE  Life
<1>1. \A g \in Files : LifeStep(g)
  BY DEF HandBack, TypeOK, Members, LifeStep, Open
<1>2. NothingOpens
  BY DEF HandBack, TypeOK, Members, NothingOpens, Open
<1>. QED
  BY <1>1, <1>2, QuietStep DEF Life

LEMMA IngestLife ==
    ASSUME TypeInv, NEW w \in Workers, IngestStep(w)
    PROVE  Life
<1>. USE DEF TypeInv
<1>0. worker[w].pc \in {"loading", "cancelling", "working", "exhausted", "reloading"}
          => worker[w].file \in Files
  BY DEF SoundRows, Sound
<1>1. CASE ReapZombies(w)
  <2>1. \A f \in Files : LifeStep(f)
    BY <1>1 DEF ReapZombies, TypeOK, Members, LifeStep, Zombies, Open
  <2>2. NothingOpens
    BY <1>1 DEF ReapZombies, TypeOK, Members, NothingOpens
  <2>. QED
    BY <1>1, <2>1, <2>2, SettlingStep DEF ReapZombies, Life
<1>2. ASSUME NEW f \in Files, ClaimNext(w, f) PROVE Life
  <2>1. \A g \in Files : LifeStep(g)
    BY <1>2 DEF ClaimNext, TypeOK, Members, LifeStep
  <2>2. NothingOpens
    BY <1>2 DEF ClaimNext, TypeOK, Members, NothingOpens
  <2>. QED
    BY <1>2, <2>1, <2>2, QuietStep DEF ClaimNext, Life
<1>3. CASE PollEmpty(w)
  BY <1>3, NoMemberStep DEF PollEmpty
<1>4. CASE LoadContext(w)
  BY <1>4, NoMemberStep DEF LoadContext
<1>5. CASE ReloadContext(w)
  BY <1>5, NoMemberStep DEF ReloadContext
<1>6. CASE CancelRemaining(w)
  <2>1. \A f \in Files : LifeStep(f)
    BY <1>6 DEF CancelRemaining, TypeOK, Members, LifeStep, OpenMembers
  <2>2. NothingOpens
    BY <1>6 DEF CancelRemaining, TypeOK, Members, NothingOpens
  <2>. QED
    BY <1>6, <2>1, <2>2, SettlingStep DEF CancelRemaining, Life
<1>7. CASE CommitSkipped(w)
  BY <1>7, NoMemberStep DEF CommitSkipped
<1>8. CASE CommitStale(w)
  BY <1>8, NoMemberStep DEF CommitStale
<1>9. CASE CommitChunks(w)
  <2>. DEFINE f == worker[w].file
  <2>0. /\ \A g \in Files : g # f => member'[g] = member[g]
        /\ member[f].status = "in_progress"
        /\ f \in Files => member'[f].status = "completed"
    BY <1>9 DEF CommitChunks, MayCommit, Open, TypeOK, Members
  <2>. HIDE DEF f
  <2>1. \A g \in Files : LifeStep(g)
    BY <2>0 DEF LifeStep
  <2>2. NothingOpens
    BY <2>0 DEF NothingOpens
  <2>. QED
    BY <1>9, <2>1, <2>2, SettlingStep DEF CommitChunks, Life
<1>10. CASE HandleFailure(w)
  BY <1>0, <1>10, FailMemberLife DEF HandleFailure
<1>11. CASE HandBackBusy(w)
  BY <1>0, <1>11, HandBackLife DEF HandBackBusy
<1>12. CASE MemoryTimeout(w)
  BY <1>0, <1>12, HandBackLife, FailMemberLife DEF MemoryTimeout
<1>13. CASE Restart(w)
  BY <1>13, NoMemberStep DEF Restart
<1>. QED
  BY <1>1, <1>2, <1>3, <1>4, <1>5, <1>6, <1>7, <1>8, <1>9, <1>10, <1>11, <1>12, <1>13 DEF IngestStep

---------------------------------------------------------------------------
\* A detach opens nothing.
LEMMA DetachLife ==
    ASSUME TypeOK, NEW F, Detach(F)
    PROVE  (\A f \in Files : LifeStep(f)) /\ NothingOpens
<1>1. \A f \in Files : member'[f] = NoMember \/ member'[f] = member[f]
  BY DEF Detach
<1>2. NoMember.status = "absent"
  BY DEF NoMember
<1>. QED
  BY <1>1, <1>2 DEF LifeStep, NothingOpens

\* An attach without a batch opens a row that no batch counts.
LEMMA InsertLife ==
    ASSUME TypeOK, NEW f \in Files, Insert(f), batch' = batch
    PROVE  Life
<1>1. \A g \in Files : LifeStep(g)
  BY DEF Insert, TypeOK, Members, LifeStep, Attached
<1>2. \A b \in Batches : OpenMembers(member', b) \subseteq OpenMembers(member, b)
  <2>1. \A g \in Files : member'[g] = member[g] \/ member'[g].batch = NoBatch
    BY DEF Insert, TypeOK, NewMember, NoMember
  <2>. QED
    BY <2>1, ConstantsAssumption DEF OpenMembers
<1>. QED
  BY <1>1, <1>2 DEF Life, BatchStep

LEMMA UserLife ==
    ASSUME TypeInv, UserStep
    PROVE  Life
<1>. USE DEF TypeInv
<1>1. ASSUME NEW f \in Files, AttachAtOnce(f) PROVE Life
  BY <1>1, InsertLife DEF AttachAtOnce
<1>2. ASSUME NEW f \in Files, AdmitAttach(f) PROVE Life
  BY <1>2, NoMemberStep DEF AdmitAttach
<1>3. ASSUME NEW f \in Files, DeleteStoreFile(f) PROVE Life
  BY <1>3, DetachLife, QuietStep DEF DeleteStoreFile, Life
<1>4. CASE DeleteStoreCascade
  <2>1. \A b \in Batches : batch'[b].job = "finished" => batch[b].job = "finished"
    BY <1>4 DEF DeleteStoreCascade, TypeOK, BatchRows
  <2>. QED
    BY <1>4, <2>1, DetachLife, QuietStep DEF DeleteStoreCascade, Life
<1>5. CASE ExpiryDue \/ TouchStoreActivity \/ ModifyVectorStore
  BY <1>5, NoMemberStep DEF ExpiryDue, TouchStoreActivity, ModifyVectorStore
<1>6. ASSUME NEW b \in Batches, NEW F \in SUBSET Files, CreateBatch(b, F) PROVE Life
  <2>1. \A c \in Batches : batch'[c].job = batch[c].job
    BY <1>6 DEF CreateBatch, TypeOK, BatchRows
  <2>. QED
    BY <1>6, <2>1, NoMemberStep DEF CreateBatch
<1>7. ASSUME NEW b \in Batches, RequestBatchCancel(b) PROVE Life
  <2>1. \A c \in Batches : batch'[c].job = batch[c].job
    BY <1>7 DEF RequestBatchCancel, TypeOK, BatchRows
  <2>. QED
    BY <1>7, <2>1, NoMemberStep DEF RequestBatchCancel
<1>8. ASSUME NEW b \in Batches, RetryJob(b) PROVE Life
  <2>1. \A f \in Files : LifeStep(f)
    BY <1>8 DEF RetryJob, TypeOK, Members, LifeStep, Failed, Fresh, NoMember
  <2>2. \A c \in Batches : c # b => OpenMembers(member', c) \subseteq OpenMembers(member, c)
    BY <1>8 DEF RetryJob, TypeOK, Members, OpenMembers, Fresh, NoMember
  <2>3. \A c \in Batches : batch'[c].job = "finished" => c # b /\ batch[c].job = "finished"
    BY <1>8, ReopenedJob DEF RetryJob
  <2>. QED
    BY <2>1, <2>2, <2>3 DEF Life, BatchStep
<1>9. ASSUME NEW f \in Files, RetryFile(f) PROVE Life
  <2>1. \A g \in Files : LifeStep(g)
    BY <1>9 DEF RetryFile, TypeOK, Members, LifeStep, Failed, Fresh, NoMember
  <2>2. \A c \in Batches : c # member[f].batch
          => OpenMembers(member', c) \subseteq OpenMembers(member, c)
    BY <1>9 DEF RetryFile, TypeOK, Members, OpenMembers, Fresh, NoMember
  <2>3. \A c \in Batches : batch'[c].job = "finished"
          => c # member[f].batch /\ batch[c].job = "finished"
    BY <1>9, ReopenedJob, ConstantsAssumption DEF RetryFile
  <2>. QED
    BY <2>1, <2>2, <2>3 DEF Life, BatchStep
<1>. QED
  BY <1>1, <1>2, <1>3, <1>4, <1>5, <1>6, <1>7, <1>8, <1>9 DEF UserStep

\* A member that joins reopens its batch's job, if the workers settled it meanwhile.
LEMMA AttachMemberLife ==
    ASSUME TypeInv, NEW b \in Batches, NEW f \in Files, AttachMember(b, f)
    PROVE  Life
<1>. USE DEF TypeInv
<1>1. \A g \in Files : LifeStep(g)
  BY DEF AttachMember, TypeOK, Members, LifeStep, Attached
<1>2. \A c \in Batches : c # b => OpenMembers(member', c) \subseteq OpenMembers(member, c)
  BY DEF AttachMember, TypeOK, Members, OpenMembers, NewMember, NoMember
<1>3. \A c \in Batches : batch'[c].job = Reopened({b})[c].job
  <2>1. Reopened({b}) \in [Batches -> BatchRows]
    BY BatchTables DEF TypeOK
  <2>. DEFINE R == Reopened({b})
              s == IF batch[b].todo = {f} THEN "created" ELSE "creating"
              T == batch[b].todo \ {f}
  <2>2. batch' = [R EXCEPT ![b] = [R[b] EXCEPT !.todo = T, !.state = s]]
    BY DEF AttachMember
  <2>. HIDE DEF R, s, T
  <2>3. R \in [Batches -> BatchRows]
    BY <2>1 DEF R
  <2>4. \A c \in Batches : batch'[c].job = R[c].job
    BY <2>2, <2>3 DEF BatchRows
  <2>. QED
    BY <2>4 DEF R
<1>4. \A c \in Batches : batch'[c].job = "finished" => c # b /\ batch[c].job = "finished"
  BY <1>3, ReopenedJob
<1>. QED
  BY <1>1, <1>2, <1>4 DEF Life, BatchStep

LEMMA HandlerLife ==
    ASSUME TypeInv, HandlerStep
    PROVE  Life
<1>. USE DEF TypeInv
<1>1. ASSUME NEW f \in Files, AttachFile(f) PROVE Life
  BY <1>1, InsertLife DEF AttachFile
<1>2. ASSUME NEW b \in Batches, CreateBatchJob(b) PROVE Life
  <2>1. \A c \in Batches : batch'[c].job = "finished" => batch[c].job = "finished"
    BY <1>2 DEF CreateBatchJob, TypeOK, BatchRows
  <2>. QED
    BY <1>2, <2>1, NoMemberStep DEF CreateBatchJob
<1>3. ASSUME NEW b \in Batches, NEW f \in Files, AttachMember(b, f) PROVE Life
  BY <1>3, AttachMemberLife
<1>4. ASSUME NEW b \in Batches, CreateFails(b) PROVE Life
  <2>1. \A c \in Batches : batch'[c].job = batch[c].job
    BY <1>4 DEF CreateFails, TypeOK, BatchRows
  <2>. QED
    BY <1>4, <2>1, NoMemberStep DEF CreateFails
<1>5. ASSUME NEW b \in Batches, DiscardPartialBatch(b) PROVE Life
  <2>1. \A c \in Batches : batch'[c].job = "finished" => batch[c].job = "finished"
    BY <1>5 DEF DiscardPartialBatch, TypeOK, BatchRows
  <2>. QED
    BY <1>5, <2>1, DetachLife, QuietStep DEF DiscardPartialBatch, Life
<1>6. ASSUME NEW b \in Batches, CreatorStops(b) PROVE Life
  <2>1. \A c \in Batches : batch'[c].job = batch[c].job
    BY <1>6 DEF CreatorStops, TypeOK, BatchRows
  <2>. QED
    BY <1>6, <2>1, NoMemberStep DEF CreatorStops
<1>. QED
  BY <1>1, <1>2, <1>3, <1>4, <1>5, <1>6 DEF HandlerStep

LEMMA SweeperLife ==
    ASSUME TypeInv, SweeperStep
    PROVE  Life
<1>. USE DEF TypeInv
<1>1. CASE SweepOneStore
  <2>1. \A f \in Files : member'[f] = NoMember
    BY <1>1 DEF SweepOneStore
  <2>2. (\A f \in Files : LifeStep(f)) /\ NothingOpens
    BY <2>1 DEF LifeStep, NothingOpens, NoMember
  <2>. QED
    BY <1>1, <2>2, QuietStep DEF SweepOneStore, Life
<1>2. ASSUME NEW b \in Batches, SettleOrphanedBatchJob(b) PROVE Life
  BY <1>2, NoMemberStep, SettledJob DEF SettleOrphanedBatchJob
<1>3. ASSUME NEW b \in Batches, SweepBatchJob(b) PROVE Life
  <2>1. \A c \in Batches : batch'[c].job = "finished" => batch[c].job = "finished"
    BY <1>3 DEF SweepBatchJob, TypeOK, BatchRows
  <2>. QED
    BY <1>3, <2>1, NoMemberStep DEF SweepBatchJob
<1>. QED
  BY <1>1, <1>2, <1>3 DEF SweeperStep

---------------------------------------------------------------------------
\* A switch queues failed members again, and reopens the jobs of their batches.
LEMMA FinalizeLife ==
    ASSUME TypeInv, NEW j \in Jobs, FinalizeJob(j)
    PROVE  Life
<1>. USE DEF TypeInv
<1>1. CASE FinalizeNothing(j) \/ FinalizeExpired(j) \/ FinalizeFailed(j) \/ FinalizeReopen(j)
  BY <1>1, NoMemberStep DEF FinalizeNothing, FinalizeExpired, FinalizeFailed, FinalizeReopen
<1>2. CASE Switch(j)
  <2>1. \A f \in Files : LifeStep(f)
    BY <1>2 DEF Switch, TypeOK, Members, LifeStep, Requeued, Fresh, NoMember
  <2>. DEFINE B == {member[f].batch : f \in Requeued} \ {NoBatch}
  <2>2. \A c \in Batches : c \notin B => OpenMembers(member', c) \subseteq OpenMembers(member, c)
    <3>1. \A f \in Files : f \notin Requeued => member'[f] = member[f]
      BY <1>2 DEF Switch
    <3>2. \A f \in Requeued : member'[f].batch = member[f].batch
      BY <1>2 DEF Switch, Fresh, NoMember, Requeued
    <3>. QED
      BY <3>1, <3>2, ConstantsAssumption DEF OpenMembers
  <2>3. \A c \in Batches : batch'[c].job = "finished" => c \notin B /\ batch[c].job = "finished"
    <3>1. batch' = Reopened(B)
      BY <1>2 DEF Switch
    <3>. QED
      BY <3>1, ReopenedJob
  <2>. QED
    BY <2>1, <2>2, <2>3 DEF Life, BatchStep
<1>. QED
  BY <1>1, <1>2 DEF FinalizeJob

\* Nothing else that a re-embed does changes a row or a batch.
LEMMA ReembedLife ==
    ASSUME TypeInv,
           \/ \E w \in Workers : ReembedStep(w)
           \/ ReembedUserStep
           \/ ReembedSweeperStep
    PROVE  Life
<1>. USE DEF TypeInv
<1>1. CASE UNCHANGED <<member, batch>>
  BY <1>1, NoMemberStep
<1>2. ASSUME NEW w \in Workers, ReembedStep(w) PROVE Life
  <2>1. CASE Finalize(w)
    <3>1. worker[w].job \in Jobs /\ FinalizeJob(worker[w].job)
      BY <2>1 DEF Finalize, SoundRows, Sound
    <3>. QED
      BY <3>1, FinalizeLife
  <2>2. CASE ~Finalize(w)
    BY <1>1, <1>2, <2>2
       DEF ReembedStep, ReapItems, ClaimItem, SettleIdle, ReadItem, DropItem, SkipItem, CommitItem,
           HandleItemFailure, FailOpenRechunkItems, HandBackItem, ItemMemoryTimeout
  <2>. QED
    BY <2>1, <2>2
<1>3. CASE ReembedUserStep
  BY <1>1, <1>3
     DEF ReembedUserStep, StartReembed, StartRechunk, StartReextract, StartJob, CancelStoreJob,
         RetryStoreJob
<1>4. CASE ReembedSweeperStep
  <2>1. ASSUME NEW j \in Jobs, FinalizeElsewhere(j) PROVE Life
    BY <2>1, FinalizeLife DEF FinalizeElsewhere
  <2>2. CASE (\E j \in Jobs : SweepReembedJob(j))
             \/ \E f \in Files, g \in Generations : DropOrphanedChunks(f, g)
    BY <1>1, <2>2 DEF SweepReembedJob, DropOrphanedChunks
  <2>. QED
    BY <1>4, <2>1, <2>2 DEF ReembedSweeperStep
<1>. QED
  BY <1>2, <1>3, <1>4

---------------------------------------------------------------------------
LEMMA LapseLife ==
    ASSUME TypeInv, (\E f \in Files : LeaseLapses(f)) \/ (\E j \in Jobs, f \in Files : ItemLeaseLapses(j, f))
    PROVE  Life
<1>. USE DEF TypeInv
<1>1. ASSUME NEW f \in Files, LeaseLapses(f) PROVE Life
  <2>1. \A g \in Files : member'[g].status = member[g].status /\ member'[g].batch = member[g].batch
    BY <1>1 DEF LeaseLapses, TypeOK, Members
  <2>2. (\A g \in Files : LifeStep(g)) /\ NothingOpens
    BY <2>1 DEF LifeStep, NothingOpens
  <2>. QED
    BY <1>1, <2>2, QuietStep DEF LeaseLapses, Life
<1>2. ASSUME NEW j \in Jobs, NEW f \in Files, ItemLeaseLapses(j, f) PROVE Life
  BY <1>2, NoMemberStep DEF ItemLeaseLapses
<1>. QED
  BY <1>1, <1>2

LEMMA NextLife == TypeInv /\ [Next]_vars => Life
<1>. SUFFICES ASSUME TypeInv, [Next]_vars PROVE Life
  OBVIOUS
<1>. USE DEF TypeInv
<1>1. ASSUME NEW w \in Workers, IngestStep(w) PROVE Life
  BY <1>1, IngestLife
<1>2. CASE HandlerStep
  BY <1>2, HandlerLife
<1>3. CASE SweeperStep
  BY <1>3, SweeperLife
<1>4. CASE UserStep
  BY <1>4, UserLife
<1>5. CASE (\E w \in Workers : ReembedStep(w)) \/ ReembedUserStep \/ ReembedSweeperStep
  BY <1>5, ReembedLife
<1>6. CASE (\E f \in Files : LeaseLapses(f)) \/ (\E j \in Jobs, f \in Files : ItemLeaseLapses(j, f))
  BY <1>6, LapseLife
<1>7. ASSUME NEW w \in Workers, Crash(w) PROVE Life
  BY <1>7, NoMemberStep DEF Crash
<1>8. CASE UNCHANGED vars
  BY <1>8, NoMemberStep DEF vars
<1>. QED
  BY <1>1, <1>2, <1>3, <1>4, <1>5, <1>6, <1>7, <1>8 DEF Next, System, Users, Crashes, WorkerStep

---------------------------------------------------------------------------
(***************************************************************************)
(* Once completed a file stays completed until it is detached: whatever a  *)
(* worker whose lease lapsed, a retry, a cancel or a switch does to it     *)
(* (the status guards of handleFailure, handBackBusy, commitChunkSets,     *)
(* cancelRemainingBatchFiles and of REOPEN_SQL's callers).                 *)
(***************************************************************************)
THEOREM CompletedFinal == Spec => CompletedIsFinal
<1>1. Init => TypeInv
  BY InitTypeInv
<1>2. TypeInv /\ [Next]_vars => TypeInv'
  BY NextKeepsTypeInv
<1>3. TypeInv /\ [Next]_vars =>
        [\A f \in Files : Completed(f) => member'[f].status \in {"completed", "absent"}]_vars
  BY NextLife DEF Life, LifeStep, Completed
<1>. QED
  BY <1>1, <1>2, <1>3, PTL DEF Spec, CompletedIsFinal

(***************************************************************************)
(* A cancelled member is never taken back, neither by a retry of its batch *)
(* or file nor by the late commit of a worker that was embedding it        *)
(* (cancelRemainingBatchFiles, retryJob, retryFile, finalizeJob).          *)
(***************************************************************************)
THEOREM CancelledFinal == Spec => CancelledIsFinal
<1>1. Init => TypeInv
  BY InitTypeInv
<1>2. TypeInv /\ [Next]_vars => TypeInv'
  BY NextKeepsTypeInv
<1>3. TypeInv /\ [Next]_vars =>
        [\A f \in Files : member[f].status = "cancelled" =>
             member'[f].status \in {"cancelled", "absent"}]_vars
  BY NextLife DEF Life, LifeStep
<1>. QED
  BY <1>1, <1>2, <1>3, PTL DEF Spec, CancelledIsFinal

(***************************************************************************)
(* A batch's job is finished only while none of its members is in          *)
(* progress, for any number of batches and members: every transaction that *)
(* opens a member of a finished batch reopens its job, and every one that  *)
(* finishes a job has looked at the members after its own update           *)
(* (settleFinishedIfTerminal, attachFile, retryJob, retryFile, finalizeJob).*)
(***************************************************************************)
THEOREM FinishedBatches == Spec => []FinishedBatchIsDone
<1>1. Init => TypeInv /\ FinishedBatchIsDone
  BY InitTypeInv DEF Init, FinishedBatchIsDone
<1>2. TypeInv /\ FinishedBatchIsDone /\ [Next]_vars => TypeInv' /\ FinishedBatchIsDone'
  <2>1. TypeInv /\ [Next]_vars => TypeInv' /\ BatchStep
    BY NextKeepsTypeInv, NextLife DEF Life
  <2>2. FinishedBatchIsDone /\ BatchStep => FinishedBatchIsDone'
    BY DEF FinishedBatchIsDone, BatchStep, OpenMembers
  <2>. QED
    BY <2>1, <2>2
<1>. QED
  BY <1>1, <1>2, PTL DEF Spec
=============================================================================
