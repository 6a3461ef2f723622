---------------------------- MODULE ReembedProofs ---------------------------
(***************************************************************************)
(* What a store answers from.  A completed file is searchable, a switch    *)
(* loses none, and nothing of a file that is gone stays, for every number  *)
(* of files, workers and successive re-embeds.                             *)
(*                                                                         *)
(* The argument has three parts, each an invariant of its own: about the   *)
(* jobs (which of them may still switch), about their items (what may be   *)
(* concluded from their counts) and about the chunks.                      *)
(***************************************************************************)
EXTENDS FileSearchProofs, FiniteSetTheorems

\* The job whose target generation the next switch may make the active one.
Latest(j) == Running(j) \/ (job[j].state = "failed" /\ ~Superseded(j))

\* A running job is the newest, and its target is the generation after the active one.
RunningIsNewest == \A j, k \in Jobs : Running(j) /\ j < k => job[k].state = "unused"
RunningTarget == \A j \in Jobs : Running(j) => job[j].gen = store.gen + 1

\* The history loses the oldest job first.
GoneFirst == \A j, k \in Jobs : j < k /\ job[k].state = "gone" => job[j].state = "gone"

JobInv == RunningIsNewest /\ RunningTarget /\ GoneFirst

UnusedHasNoItem ==
    \A j \in Jobs : job[j].state = "unused" => \A f \in Files : item[j][f].status = "absent"

\* A switch need not look for cancelled items: a job that could switch has none.
NoItemCancelled ==
    \A j \in Jobs : store.status = "live" /\ job[j].state \in {"running", "failed"}
        => \A f \in Files : item[j][f].status # "cancelled"

ItemInv == EndedJobHasNoOpenItem /\ UnusedHasNoItem /\ NoItemCancelled

\* The target generation holds nothing that an earlier job with its number left.
TargetUniform ==
    \A j \in Jobs, f \in Files : Latest(j) => chunks[f][job[j].gen] \in {NoRecipe, job[j].recipe}

Uniform ==
    \A f, h \in Files, g \in Generations :
        chunks[f][g] # NoRecipe /\ chunks[h][g] # NoRecipe => chunks[f][g] = chunks[h][g]

ChunkInv ==
    /\ ChunksBelongToCompleted
    /\ CompletedIsSearchable
    /\ CompletedItemIsWritten
    /\ TargetUniform
    /\ Uniform

CoreInv == JobInv /\ ItemInv /\ ChunkInv

---------------------------------------------------------------------------
\* Nothing changed about which jobs run, and which may still switch.
LEMMA SameJobs ==
    ASSUME JobInv, job' = job, store'.gen = store.gen
    PROVE  JobInv' /\ \A j \in Jobs : Latest(j)' => Latest(j)
  BY DEF JobInv, RunningIsNewest, RunningTarget, GoneFirst, Running, Latest, Superseded, JobExists

\* A step that adds no chunk, no completed file, no completed item and no job that may switch.
LEMMA ShrinkingStep ==
    ASSUME TypeOK, ChunkInv,
           store'.gen = store.gen, store'.recipe = store.recipe,
           store'.status = "live" => store.status = "live",
           \A j \in Jobs : /\ Latest(j)' => Latest(j)
                           /\ Latest(j)' => job'[j].gen = job[j].gen /\ job'[j].recipe = job[j].recipe,
           \A f \in Files : Completed(f)' =>
               Completed(f) /\ chunks'[f][store.gen] = chunks[f][store.gen],
           \A f \in Files, g \in Generations :
               /\ chunks'[f][g] \in {NoRecipe, chunks[f][g]}
               /\ chunks'[f][g] # NoRecipe => Completed(f)',
           \A j \in Jobs, f \in Files : item'[j][f].status = "completed" =>
               /\ item[j][f].status = "completed"
               /\ store'.status = "live" /\ Latest(j)' =>
                      Completed(f)' /\ chunks'[f][job[j].gen] = chunks[f][job[j].gen]
    PROVE  ChunkInv'
<1>0. store.gen \in Generations /\ \A j \in Jobs : job[j].gen \in Generations
  BY DEF TypeOK, Stores, JobRows
<1>1. ChunksBelongToCompleted'
  BY DEF ChunksBelongToCompleted
<1>2. CompletedIsSearchable'
  BY DEF ChunkInv, CompletedIsSearchable
<1>3. CompletedItemIsWritten'
  BY DEF ChunkInv, CompletedItemIsWritten, Latest
<1>4. TargetUniform'
  BY <1>0 DEF ChunkInv, TargetUniform
<1>5. Uniform'
  BY DEF ChunkInv, Uniform
<1>. QED
  BY <1>1, <1>2, <1>3, <1>4, <1>5 DEF ChunkInv

\* A step on the files' rows that completes none and takes none back.
LEMMA RowStep ==
    ASSUME TypeOK, CoreInv, UNCHANGED <<job, chunks, item>>,
           store'.gen = store.gen, store'.recipe = store.recipe, store'.status = store.status,
           \A f \in Files : Completed(f)' <=> Completed(f)
    PROVE  CoreInv'
<1>1. JobInv' /\ \A j \in Jobs : Latest(j)' => Latest(j)
  BY SameJobs DEF CoreInv
<1>2. ItemInv'
  BY DEF CoreInv, ItemInv, EndedJobHasNoOpenItem, UnusedHasNoItem, NoItemCancelled, OpenItems, Running
<1>3. \A j \in Jobs, f \in Files : item[j][f].status = "completed" /\ store.status = "live" /\ Latest(j)
        => Completed(f)
  BY DEF CoreInv, ChunkInv, CompletedItemIsWritten, Latest
<1>4. \A f \in Files, g \in Generations : chunks[f][g] # NoRecipe => Completed(f)
  BY DEF CoreInv, ChunkInv, ChunksBelongToCompleted
<1>5. ChunkInv'
  BY <1>1, <1>3, <1>4, ShrinkingStep DEF CoreInv
<1>. QED
  BY <1>1, <1>2, <1>5 DEF CoreInv

\* A step on the items that ends open ones without completing or cancelling them.
ItemsEnd ==
    \A j \in Jobs, f \in Files :
        \/ item'[j][f].status = item[j][f].status
        \/ item[j][f].status = "in_progress" /\ item'[j][f].status \in {"failed", "absent"}

LEMMA ItemStep ==
    ASSUME TypeOK, CoreInv, UNCHANGED <<store, member, chunks, job>>, ItemsEnd
    PROVE  CoreInv'
<1>1. JobInv' /\ \A j \in Jobs : Latest(j)' => Latest(j)
  BY SameJobs DEF CoreInv
<1>2. ItemInv'
  <2>1. EndedJobHasNoOpenItem'
    BY DEF CoreInv, ItemInv, EndedJobHasNoOpenItem, OpenItems, Running, ItemsEnd
  <2>2. UnusedHasNoItem'
    BY DEF CoreInv, ItemInv, UnusedHasNoItem, ItemsEnd
  <2>3. NoItemCancelled'
    BY DEF CoreInv, ItemInv, NoItemCancelled, ItemsEnd
  <2>. QED
    BY <2>1, <2>2, <2>3 DEF ItemInv
<1>3. \A j \in Jobs, f \in Files : item[j][f].status = "completed" /\ store.status = "live" /\ Latest(j)
        => Completed(f)
  BY DEF CoreInv, ChunkInv, CompletedItemIsWritten, Latest
<1>4. \A f \in Files, g \in Generations : chunks[f][g] # NoRecipe => Completed(f)
  BY DEF CoreInv, ChunkInv, ChunksBelongToCompleted
<1>5. \A f \in Files : Completed(f)' <=> Completed(f)
  BY DEF Completed
<1>6. \A j \in Jobs, f \in Files : item'[j][f].status = "completed" => item[j][f].status = "completed"
  BY DEF ItemsEnd
<1>7. ChunkInv'
  BY <1>1, <1>3, <1>4, <1>5, <1>6, ShrinkingStep DEF CoreInv
<1>. QED
  BY <1>1, <1>2, <1>7 DEF CoreInv

\* A step that changes neither: a read, a poll, a crash.
LEMMA ReadStep ==
    ASSUME TypeOK, CoreInv, UNCHANGED <<store, member, chunks, job, item>>
    PROVE  CoreInv'
  BY ItemStep DEF ItemsEnd

LEMMA InitCore == Init => CoreInv
<1>. SUFFICES ASSUME Init PROVE CoreInv
  OBVIOUS
<1>1. \A j \in Jobs : job[j].state = "unused" /\ \A f \in Files : item[j][f] = NoItem
  BY DEF Init
<1>2. \A f \in Files : member[f] = NoMember /\ \A g \in Generations : chunks[f][g] = NoRecipe
  BY DEF Init, NoChunks
<1>3. JobInv
  BY <1>1 DEF JobInv, RunningIsNewest, RunningTarget, GoneFirst, Running
<1>4. ItemInv
  BY <1>1 DEF ItemInv, EndedJobHasNoOpenItem, UnusedHasNoItem, NoItemCancelled, OpenItems, NoItem
<1>5. ChunkInv
  <2>1. \A j \in Jobs : ~Latest(j)
    BY <1>1 DEF Latest, Running
  <2>2. \A f \in Files : ~Completed(f)
    BY <1>2 DEF Completed, NoMember
  <2>3. \A j \in Jobs, f \in Files : item[j][f].status # "completed"
    BY <1>1 DEF NoItem
  <2>. QED
    BY <1>2, <2>1, <2>2, <2>3 DEF ChunkInv, ChunksBelongToCompleted, CompletedIsSearchable,
         CompletedItemIsWritten, TargetUniform, Uniform
<1>. QED
  BY <1>3, <1>4, <1>5 DEF CoreInv

---------------------------------------------------------------------------
(* The steps of the ingestion queue. *)

LEMMA FailMemberCore ==
    ASSUME TypeOK, CoreInv, NEW f \in Files, NEW permanent \in BOOLEAN, NEW c, NEW n,
           FailMember(f, permanent, c, n), UNCHANGED <<store, chunks, job, item>>
    PROVE  CoreInv'
<1>1. \A g \in Files : Completed(g)' <=> Completed(g)
  BY DEF FailMember, TypeOK, Members, Open, Completed
<1>. QED
  BY <1>1, RowStep

LEMMA HandBackCore ==
    ASSUME TypeOK, CoreInv, NEW f \in Files, NEW n, HandBack(f, n),
           UNCHANGED <<store, chunks, job, item>>
    PROVE  CoreInv'
<1>1. \A g \in Files : Completed(g)' <=> Completed(g)
  BY DEF HandBack, TypeOK, Members, Open, Completed
<1>. QED
  BY <1>1, RowStep

(***************************************************************************)
(* The commit.  The file gets chunks of every recipe that a search will    *)
(* read: the store's in the active generation and a running job's in its   *)
(* target, where all other files already have that recipe.                 *)
(***************************************************************************)
LEMMA CommitChunksCore ==
    ASSUME TypeInv, CoreInv, NEW w \in Workers, CommitChunks(w)
    PROVE  CoreInv'
<1>. USE DEF TypeInv
<1>. DEFINE f == worker[w].file
<1>0. f \in Files
  BY DEF CommitChunks, SoundRows, Sound
<1>1. /\ store' = store /\ job' = job
      /\ chunks' = [chunks EXCEPT ![f] = Written(f)]
      /\ \A g \in Files : g # f => member'[g] = member[g]
      /\ member'[f].status = "completed" /\ member[f].status = "in_progress"
  <2>1. store' = store /\ job' = job /\ chunks' = [chunks EXCEPT ![f] = Written(f)]
    BY DEF CommitChunks
  <2>2. member[f].status = "in_progress"
    BY DEF CommitChunks, MayCommit, Open
  <2>3. (\A g \in Files : g # f => member'[g] = member[g]) /\ member'[f].status = "completed"
    BY <1>0 DEF CommitChunks, TypeOK, Members
  <2>. QED
    BY <2>1, <2>2, <2>3
<1>2. /\ \A j \in Jobs, g \in Files : g # f => item'[j][g] = item[j][g]
      /\ \A j \in Jobs : ~Running(j) => item'[j] = item[j]
      /\ \A j \in Jobs : Running(j) => item'[j][f].status = "completed"
  <2>1. \A j \in Jobs : ~Running(j) => item'[j] = item[j]
    BY DEF CommitChunks
  <2>2. \A j \in Jobs : Running(j) => item'[j] =
          [item[j] EXCEPT ![f] = [item[j][f] EXCEPT !.status = "completed", !.lease = "none",
                                                    !.memory = 0]]
    BY DEF CommitChunks
  <2>3. \A j \in Jobs : item[j] \in [Files -> Items]
    BY DEF TypeOK
  <2>4. \A j \in Jobs : Running(j) => item'[j][f].status = "completed"
    <3>. SUFFICES ASSUME NEW j \in Jobs, Running(j) PROVE item'[j][f].status = "completed"
      OBVIOUS
    <3>1. item[j][f] \in Items
      BY <1>0, <2>3
    <3>2. item'[j][f] = [item[j][f] EXCEPT !.status = "completed", !.lease = "none", !.memory = 0]
      BY <1>0, <2>2, <2>3
    <3>. QED
      BY <3>1, <3>2 DEF Items
  <2>5. \A j \in Jobs, g \in Files : g # f => item'[j][g] = item[j][g]
    BY <1>0, <2>1, <2>2, <2>3
  <2>. QED
    BY <2>1, <2>4, <2>5
<1>. HIDE DEF f
<1>3. JobInv' /\ \A j \in Jobs : Latest(j)' => Latest(j)
  BY <1>1, SameJobs DEF CoreInv
<1>4. ItemInv'
  BY <1>0, <1>1, <1>2 DEF CoreInv, ItemInv, EndedJobHasNoOpenItem, UnusedHasNoItem, NoItemCancelled,
     OpenItems, Running
<1>5. store.gen \in Generations /\ store.recipe \in Recipes
  BY DEF TypeOK, Stores
<1>6. \A j \in Jobs : job[j].gen \in Generations /\ job[j].recipe \in Recipes
  BY DEF TypeOK, JobRows
<1>7. \A g \in Generations : chunks[f][g] = NoRecipe
  BY <1>0, <1>1 DEF CoreInv, ChunkInv, ChunksBelongToCompleted, Completed
<1>8. \A j, k \in Jobs : Running(j) /\ Running(k) => j = k
  BY DEF CoreInv, JobInv, RunningIsNewest, Running, Jobs
<1>9. \A j \in Jobs : Running(j) => job[j].gen # store.gen
  BY <1>5 DEF CoreInv, JobInv, RunningTarget, Generations
<1>10. /\ chunks'[f][store.gen] = store.recipe
       /\ \A j \in Jobs : Running(j) => chunks'[f][job[j].gen] = job[j].recipe
       /\ \A g \in Generations : chunks'[f][g] # NoRecipe =>
              \/ g = store.gen /\ chunks'[f][g] = store.recipe
              \/ \E j \in Jobs : Running(j) /\ job[j].gen = g /\ chunks'[f][g] = job[j].recipe
  <2>1. /\ Written(f)[store.gen] = store.recipe
        /\ \A j \in Jobs : Running(j) => Written(f)[job[j].gen] = job[j].recipe
        /\ \A g \in Generations : Written(f)[g] # NoRecipe =>
              \/ g = store.gen /\ Written(f)[g] = store.recipe
              \/ \E j \in Jobs : Running(j) /\ job[j].gen = g /\ Written(f)[g] = job[j].recipe
    BY <1>5, <1>6, <1>7, <1>8, <1>9 DEF Written
  <2>. QED
    BY <1>0, <1>1, <2>1 DEF TypeOK
<1>11. \A g \in Files : g # f => chunks'[g] = chunks[g]
  BY <1>1 DEF TypeOK
<1>12. ChunkInv'
  <2>1. ChunksBelongToCompleted'
    BY <1>1, <1>11 DEF CoreInv, ChunkInv, ChunksBelongToCompleted, Completed
  <2>2. CompletedIsSearchable'
    BY <1>1, <1>10, <1>11 DEF CoreInv, ChunkInv, CompletedIsSearchable, Completed
  <2>3. CompletedItemIsWritten'
    <3>. SUFFICES ASSUME NEW j \in Jobs, NEW g \in Files, item'[j][g].status = "completed",
                         store.status = "live", Latest(j)
                  PROVE  Completed(g)' /\ chunks'[g][job[j].gen] = job[j].recipe
      BY <1>1, <1>3 DEF CompletedItemIsWritten, Latest
    <3>1. CASE g # f
      BY <1>1, <1>2, <1>11, <3>1 DEF CoreInv, ChunkInv, CompletedItemIsWritten, Completed, Latest
    <3>2. CASE g = f /\ Running(j)
      BY <1>1, <1>10, <3>2 DEF Completed
    <3>3. CASE g = f /\ ~Running(j)
      BY <1>1, <1>2, <3>3 DEF CoreInv, ChunkInv, CompletedItemIsWritten, Completed, Latest
    <3>. QED
      BY <3>1, <3>2, <3>3
  <2>4. TargetUniform'
    <3>. SUFFICES ASSUME NEW j \in Jobs, NEW g \in Files, Latest(j)
                  PROVE  chunks'[g][job[j].gen] \in {NoRecipe, job[j].recipe}
      BY <1>1, <1>3 DEF TargetUniform
    <3>1. CASE g # f
      BY <1>11, <3>1 DEF CoreInv, ChunkInv, TargetUniform
    <3>2. CASE g = f /\ Running(j)
      BY <1>10, <3>2
    <3>3. CASE g = f /\ ~Running(j)
      <4>1. ~Superseded(j) /\ job[j].state = "failed"
        BY <3>3 DEF Latest
      <4>2. job[j].gen # store.gen
        BY <1>5, <4>1 DEF Superseded, Generations
      <4>3. \A k \in Jobs : ~Running(k)
        BY <3>3, <4>1 DEF Superseded, JobExists, Running
      <4>. QED
        BY <1>6, <1>10, <3>3, <4>2, <4>3
    <3>. QED
      BY <3>1, <3>2, <3>3
  <2>5. Uniform'
    <3>1. ASSUME NEW g \in Files, NEW h \in Generations, g # f,
                 chunks'[f][h] # NoRecipe, chunks'[g][h] # NoRecipe
          PROVE  chunks'[f][h] = chunks'[g][h]
      <4>1. chunks[g][h] # NoRecipe /\ chunks'[g][h] = chunks[g][h] /\ Completed(g)
        BY <1>11, <3>1 DEF CoreInv, ChunkInv, ChunksBelongToCompleted
      <4>2. CASE h = store.gen /\ chunks'[f][h] = store.recipe
        BY <4>1, <4>2 DEF CoreInv, ChunkInv, CompletedIsSearchable
      <4>3. CASE \E j \in Jobs : Running(j) /\ job[j].gen = h /\ chunks'[f][h] = job[j].recipe
        BY <4>1, <4>3 DEF CoreInv, ChunkInv, TargetUniform, Latest
      <4>. QED
        BY <1>10, <3>1, <4>2, <4>3
    <3>2. \A g, k \in Files, h \in Generations :
            g # f /\ k # f /\ chunks'[g][h] # NoRecipe /\ chunks'[k][h] # NoRecipe
            => chunks'[g][h] = chunks'[k][h]
      BY <1>11 DEF CoreInv, ChunkInv, Uniform
    <3>. QED
      BY <3>1, <3>2 DEF Uniform
  <2>. QED
    BY <2>1, <2>2, <2>3, <2>4, <2>5 DEF ChunkInv
<1>. QED
  BY <1>3, <1>4, <1>12 DEF CoreInv

LEMMA IngestCore ==
    ASSUME TypeInv, CoreInv, NEW w \in Workers, IngestStep(w)
    PROVE  CoreInv'
<1>. USE DEF TypeInv
<1>0. worker[w].pc \in {"loading", "cancelling", "working", "exhausted", "reloading"}
          => worker[w].file \in Files
  BY DEF SoundRows, Sound
<1>1. CASE ReapZombies(w)
  <2>1. \A f \in Files : Completed(f)' <=> Completed(f)
    BY <1>1 DEF ReapZombies, TypeOK, Members, Zombies, Open, Completed
  <2>. QED
    BY <1>1, <2>1, RowStep DEF ReapZombies
<1>2. ASSUME NEW f \in Files, ClaimNext(w, f) PROVE CoreInv'
  <2>1. \A g \in Files : Completed(g)' <=> Completed(g)
    BY <1>2 DEF ClaimNext, TypeOK, Members, Completed
  <2>. QED
    BY <1>2, <2>1, RowStep DEF ClaimNext
<1>3. CASE CancelRemaining(w)
  <2>1. \A f \in Files : Completed(f)' <=> Completed(f)
    BY <1>3 DEF CancelRemaining, TypeOK, Members, OpenMembers, Completed
  <2>. QED
    BY <1>3, <2>1, RowStep DEF CancelRemaining
<1>4. CASE CommitChunks(w)
  BY <1>4, CommitChunksCore
<1>5. CASE HandleFailure(w)
  BY <1>0, <1>5, FailMemberCore DEF HandleFailure
<1>6. CASE HandBackBusy(w)
  BY <1>0, <1>6, HandBackCore DEF HandBackBusy
<1>7. CASE MemoryTimeout(w)
  BY <1>0, <1>7, HandBackCore, FailMemberCore DEF MemoryTimeout
<1>8. CASE \/ PollEmpty(w) \/ LoadContext(w) \/ ReloadContext(w) \/ CommitSkipped(w)
           \/ CommitStale(w) \/ Restart(w)
  BY <1>8, ReadStep DEF PollEmpty, LoadContext, ReloadContext, CommitSkipped, CommitStale, Restart
<1>. QED
  BY <1>1, <1>2, <1>3, <1>4, <1>5, <1>6, <1>7, <1>8 DEF IngestStep

---------------------------------------------------------------------------
(* The steps on a store, its files and its batches. *)

\* A detach takes rows, chunks and items of the same files.
LEMMA DetachCore ==
    ASSUME TypeOK, CoreInv, NEW F, Detach(F), job' = job,
           store'.gen = store.gen, store'.recipe = store.recipe, store'.status = store.status
    PROVE  CoreInv'
<1>1. JobInv' /\ \A j \in Jobs : Latest(j)' => Latest(j)
  BY SameJobs DEF CoreInv
<1>2. /\ \A f \in Files : f \in F => /\ member'[f] = NoMember
                                     /\ \A g \in Generations : chunks'[f][g] = NoRecipe
                                     /\ \A j \in Jobs : item'[j][f] = NoItem
      /\ \A f \in Files : f \notin F => /\ member'[f] = member[f]
                                        /\ chunks'[f] = chunks[f]
                                        /\ \A j \in Jobs : item'[j][f] = item[j][f]
  BY DEF Detach, NoChunks
<1>3. NoItem.status = "absent" /\ NoMember.status = "absent"
  BY DEF NoItem, NoMember
<1>4. ItemInv'
  BY <1>2, <1>3 DEF CoreInv, ItemInv, EndedJobHasNoOpenItem, UnusedHasNoItem, NoItemCancelled,
     OpenItems, Running
<1>5. \A j \in Jobs, f \in Files : item[j][f].status = "completed" /\ store.status = "live" /\ Latest(j)
        => Completed(f)
  BY DEF CoreInv, ChunkInv, CompletedItemIsWritten, Latest
<1>6. \A f \in Files, g \in Generations : chunks[f][g] # NoRecipe => Completed(f)
  BY DEF CoreInv, ChunkInv, ChunksBelongToCompleted
<1>7. \A f \in Files : Completed(f)' <=> (f \notin F /\ Completed(f))
  BY <1>2, <1>3 DEF Completed
<1>8. ChunkInv'
  <2>1. \A f \in Files : Completed(f)' => Completed(f) /\ chunks'[f][store.gen] = chunks[f][store.gen]
    BY <1>2, <1>7
  <2>2. \A f \in Files, g \in Generations :
           /\ chunks'[f][g] \in {NoRecipe, chunks[f][g]}
           /\ chunks'[f][g] # NoRecipe => Completed(f)'
    BY <1>2, <1>6, <1>7
  <2>3. \A j \in Jobs, f \in Files : item'[j][f].status = "completed" =>
           /\ item[j][f].status = "completed"
           /\ store'.status = "live" /\ Latest(j)' =>
                  Completed(f)' /\ chunks'[f][job[j].gen] = chunks[f][job[j].gen]
    BY <1>1, <1>2, <1>3, <1>5, <1>7
  <2>. QED
    BY <1>1, <2>1, <2>2, <2>3, ShrinkingStep DEF CoreInv
<1>. QED
  BY <1>1, <1>4, <1>8 DEF CoreInv

\* A store that was emptied and does not answer any more.
LEMMA EmptiedStore ==
    ASSUME \A f \in Files : member'[f] = NoMember /\ chunks'[f] = NoChunks,
           store'.status # "live", TypeOK'
    PROVE  ChunkInv'
<1>1. \A f \in Files, g \in Generations : chunks'[f][g] = NoRecipe
  BY DEF NoChunks
<1>2. \A f \in Files : ~Completed(f)'
  BY DEF Completed, NoMember
<1>3. \A j \in Jobs : job'[j].gen \in Generations
  BY DEF TypeOK, JobRows
<1>4. ChunksBelongToCompleted' /\ Uniform'
  BY <1>1 DEF ChunksBelongToCompleted, Uniform
<1>5. CompletedIsSearchable' /\ CompletedItemIsWritten'
  BY <1>2 DEF CompletedIsSearchable, CompletedItemIsWritten
<1>6. TargetUniform'
  BY <1>1, <1>3 DEF TargetUniform
<1>. QED
  BY <1>4, <1>5, <1>6 DEF ChunkInv

LEMMA InsertCore ==
    ASSUME TypeOK, CoreInv, NEW f \in Files, Insert(f), UNCHANGED <<job, chunks, item>>
    PROVE  CoreInv'
<1>1. \A g \in Files : Completed(g)' <=> Completed(g)
  BY DEF Insert, TypeOK, Attached, Completed, NewMember, NoMember
<1>2. store'.gen = store.gen /\ store'.recipe = store.recipe /\ store'.status = store.status
  BY DEF Insert, Touched, TypeOK, Stores
<1>. QED
  BY <1>1, <1>2, RowStep

LEMMA CascadeCore ==
    ASSUME TypeInv, TypeOK', CoreInv, DeleteStoreCascade
    PROVE  CoreInv'
<1>. USE DEF TypeInv
<1>1. \A j \in Jobs : /\ job[j].state = "unused" => job'[j] = job[j]
                      /\ job[j].state # "unused" => job'[j].state = "gone"
  <2>1. \A j \in Jobs : job'[j] = IF job[j].state = "unused" THEN job[j]
                                   ELSE [job[j] EXCEPT !.state = "gone"]
    BY DEF DeleteStoreCascade
  <2>2. \A j \in Jobs : job[j] \in JobRows
    BY DEF TypeOK
  <2>. QED
    BY <2>1, <2>2 DEF JobRows
<1>2. JobInv'
  <2>1. \A j \in Jobs : ~Running(j)'
    BY <1>1 DEF Running
  <2>2. GoneFirst'
    <3>. SUFFICES ASSUME NEW j \in Jobs, NEW k \in Jobs, j < k, job'[k].state = "gone"
                  PROVE  job'[j].state = "gone"
      BY DEF GoneFirst
    <3>1. job[k].state # "unused"
      BY <1>1
    <3>2. job[j].state # "unused"
      BY <3>1 DEF JobOrder, Jobs
    <3>. QED
      BY <1>1, <3>2
  <2>. QED
    BY <2>1, <2>2 DEF JobInv, RunningIsNewest, RunningTarget
<1>3. \A j \in Jobs, f \in Files : item'[j][f].status = "absent"
  BY DEF DeleteStoreCascade, Detach, NoItem
<1>4. ItemInv'
  BY <1>3 DEF ItemInv, EndedJobHasNoOpenItem, UnusedHasNoItem, NoItemCancelled, OpenItems
<1>5. ChunkInv'
  <2>1. \A f \in Files : member'[f] = NoMember /\ chunks'[f] = NoChunks
    BY DEF DeleteStoreCascade, Detach
  <2>2. store'.status = "deleted"
    BY DEF DeleteStoreCascade, TypeOK, Stores
  <2>. QED
    BY <2>1, <2>2, EmptiedStore
<1>. QED
  BY <1>2, <1>4, <1>5 DEF CoreInv

LEMMA UserCore ==
    ASSUME TypeInv, TypeOK', CoreInv, UserStep
    PROVE  CoreInv'
<1>. USE DEF TypeInv
<1>1. ASSUME NEW f \in Files, AttachAtOnce(f) PROVE CoreInv'
  BY <1>1, InsertCore DEF AttachAtOnce
<1>2. ASSUME NEW f \in Files, DeleteStoreFile(f) PROVE CoreInv'
  <2>1. store'.gen = store.gen /\ store'.recipe = store.recipe /\ store'.status = store.status
    BY <1>2 DEF DeleteStoreFile, Touched, TypeOK, Stores
  <2>. QED
    BY <1>2, <2>1, DetachCore DEF DeleteStoreFile
<1>3. CASE DeleteStoreCascade
  BY <1>3, CascadeCore
<1>4. CASE ExpiryDue \/ TouchStoreActivity \/ ModifyVectorStore
  <2>1. store'.gen = store.gen /\ store'.recipe = store.recipe /\ store'.status = store.status
    BY <1>4 DEF ExpiryDue, TouchStoreActivity, ModifyVectorStore, Touched, TypeOK, Stores
  <2>2. UNCHANGED <<member, job, chunks, item>>
    BY <1>4 DEF ExpiryDue, TouchStoreActivity, ModifyVectorStore
  <2>. QED
    BY <2>1, <2>2, RowStep DEF Completed
<1>5. ASSUME NEW b \in Batches, RetryJob(b) PROVE CoreInv'
  <2>1. \A g \in Files : Completed(g)' <=> Completed(g)
    BY <1>5 DEF RetryJob, Failed, Fresh, NoMember, Completed
  <2>. QED
    BY <1>5, <2>1, RowStep DEF RetryJob
<1>6. ASSUME NEW f \in Files, RetryFile(f) PROVE CoreInv'
  <2>1. \A g \in Files : Completed(g)' <=> Completed(g)
    BY <1>6 DEF RetryFile, Failed, Fresh, NoMember, Completed, TypeOK
  <2>. QED
    BY <1>6, <2>1, RowStep DEF RetryFile
<1>7. CASE \/ \E f \in Files : AdmitAttach(f)
           \/ \E b \in Batches, F \in SUBSET Files : CreateBatch(b, F)
           \/ \E b \in Batches : RequestBatchCancel(b)
  BY <1>7, ReadStep DEF AdmitAttach, CreateBatch, RequestBatchCancel
<1>. QED
  BY <1>1, <1>2, <1>3, <1>4, <1>5, <1>6, <1>7 DEF UserStep

LEMMA HandlerCore ==
    ASSUME TypeInv, CoreInv, HandlerStep
    PROVE  CoreInv'
<1>. USE DEF TypeInv
<1>1. ASSUME NEW f \in Files, AttachFile(f) PROVE CoreInv'
  BY <1>1, InsertCore DEF AttachFile
<1>2. ASSUME NEW b \in Batches, NEW f \in Files, AttachMember(b, f) PROVE CoreInv'
  <2>1. store'.gen = store.gen /\ store'.recipe = store.recipe /\ store'.status = store.status
    BY <1>2 DEF AttachMember, Touched, TypeOK, Stores
  <2>2. \A g \in Files : Completed(g)' <=> Completed(g)
    BY <1>2 DEF AttachMember, Attached, Completed, NewMember, NoMember, TypeOK
  <2>. QED
    BY <1>2, <2>1, <2>2, RowStep DEF AttachMember
<1>3. ASSUME NEW b \in Batches, DiscardPartialBatch(b) PROVE CoreInv'
  BY <1>3, DetachCore DEF DiscardPartialBatch
<1>4. ASSUME NEW b \in Batches, CreateBatchJob(b) \/ CreateFails(b) \/ CreatorStops(b) PROVE CoreInv'
  BY <1>4, ReadStep DEF CreateBatchJob, CreateFails, CreatorStops
<1>. QED
  BY <1>1, <1>2, <1>3, <1>4 DEF HandlerStep

LEMMA SweeperCore ==
    ASSUME TypeInv, TypeOK', CoreInv, SweeperStep
    PROVE  CoreInv'
<1>. USE DEF TypeInv
<1>1. CASE SweepOneStore
  <2>1. store'.gen = store.gen /\ store'.status = "expired" /\ job' = job
    BY <1>1 DEF SweepOneStore, TypeOK, Stores
  <2>2. JobInv'
    BY <2>1, SameJobs DEF CoreInv
  <2>3. \A j \in Jobs, f \in Files :
          \/ item'[j][f].status = item[j][f].status /\ item[j][f].status # "in_progress"
          \/ item[j][f].status = "in_progress" /\ item'[j][f].status = "cancelled"
    <3>1. \A j \in Jobs, f \in Files :
            item'[j][f] = IF item[j][f].status = "in_progress"
                          THEN [item[j][f] EXCEPT !.status = "cancelled", !.lease = "none"]
                          ELSE item[j][f]
      BY <1>1 DEF SweepOneStore
    <3>2. \A j \in Jobs, f \in Files : item[j][f] \in Items
      BY DEF TypeOK
    <3>. QED
      BY <3>1, <3>2 DEF Items
  <2>4. ItemInv'
    BY <2>1, <2>3 DEF CoreInv, ItemInv, EndedJobHasNoOpenItem, UnusedHasNoItem, NoItemCancelled,
       OpenItems
  <2>5. ChunkInv'
    BY <1>1, <2>1, EmptiedStore DEF SweepOneStore
  <2>. QED
    BY <2>2, <2>4, <2>5 DEF CoreInv
<1>2. CASE \E b \in Batches : SettleOrphanedBatchJob(b) \/ SweepBatchJob(b)
  BY <1>2, ReadStep DEF SettleOrphanedBatchJob, SweepBatchJob
<1>. QED
  BY <1>1, <1>2 DEF SweeperStep

---------------------------------------------------------------------------
(* The steps of the item queue. *)

\* One item's row changes, the others stay.
LEMMA OneItem ==
    ASSUME TypeOK, CoreInv, NEW j \in Jobs, NEW f \in Files, NEW row,
           UNCHANGED <<store, member, chunks, job>>,
           item' = [item EXCEPT ![j][f] = row],
           \/ row.status = item[j][f].status
           \/ item[j][f].status = "in_progress" /\ row.status \in {"failed", "absent"}
    PROVE  CoreInv'
<1>1. item \in [Jobs -> [Files -> Items]]
  BY DEF TypeOK
<1>2. \A k \in Jobs, g \in Files : item'[k][g] = IF k = j /\ g = f THEN row ELSE item[k][g]
  BY <1>1
<1>3. ItemsEnd
  BY <1>2 DEF ItemsEnd
<1>. QED
  BY <1>3, ItemStep

LEMMA ItemFailsCore ==
    ASSUME TypeOK, CoreInv, NEW w \in Workers, worker[w].job \in Jobs, worker[w].file \in Files,
           NEW permanent \in BOOLEAN, NEW n, NEW unserved \in BOOLEAN,
           ItemFails(w, permanent, n, unserved), UNCHANGED <<store, member, chunks, job>>
    PROVE  CoreInv'
<1>. DEFINE j == worker[w].job
            f == worker[w].file
            s == IF permanent \/ item[j][f].attempts >= MaxRetries THEN "failed" ELSE "in_progress"
            row == [item[j][f] EXCEPT !.status = s, !.lease = "none", !.memory = n]
<1>1. item' = IF item[j][f].status = "in_progress" THEN [item EXCEPT ![j][f] = row] ELSE item
  BY DEF ItemFails
<1>2. item[j][f] \in Items
  BY DEF TypeOK
<1>3. row.status = s /\ s \in {"failed", "in_progress"}
  BY <1>2 DEF Items
<1>. HIDE DEF s, row
<1>4. CASE item[j][f].status = "in_progress"
  BY <1>1, <1>3, <1>4, OneItem
<1>5. CASE item[j][f].status # "in_progress"
  BY <1>1, <1>5, ReadStep
<1>. QED
  BY <1>4, <1>5

LEMMA GiveBackCore ==
    ASSUME TypeOK, CoreInv, NEW j \in Jobs, NEW f \in Files, NEW n,
           GiveBack(j, f, n), UNCHANGED <<store, member, chunks, job>>
    PROVE  CoreInv'
<1>. DEFINE row == [item[j][f] EXCEPT !.attempts = Lower(item[j][f].attempts), !.lease = "held",
                                      !.memory = n]
<1>1. item' = IF item[j][f].status = "in_progress" THEN [item EXCEPT ![j][f] = row] ELSE item
  BY DEF GiveBack
<1>2. item[j][f] \in Items
  BY DEF TypeOK
<1>3. row.status = item[j][f].status
  BY <1>2 DEF Items
<1>. HIDE DEF row
<1>4. CASE item[j][f].status = "in_progress"
  BY <1>1, <1>3, <1>4, OneItem
<1>5. CASE item[j][f].status # "in_progress"
  BY <1>1, <1>5, ReadStep
<1>. QED
  BY <1>4, <1>5

\* What closing a job's open items leaves.
LEMMA ClosedItems ==
    ASSUME TypeOK, NEW j \in Jobs, NEW s \in ItemStatus, item' = CloseItems(j, s)
    PROVE  /\ \A k \in Jobs, f \in Files : k # j => item'[k][f] = item[k][f]
           /\ \A f \in Files : item'[j][f].status =
                  IF item[j][f].status = "in_progress" THEN s ELSE item[j][f].status
<1>1. /\ item \in [Jobs -> [Files -> Items]]
      /\ \A f \in Files : item[j][f] \in Items
  BY DEF TypeOK
<1>2. \A k \in Jobs, f \in Files : k # j => item'[k][f] = item[k][f]
  BY <1>1 DEF CloseItems
<1>3. \A f \in Files : item'[j][f] =
          IF item[j][f].status = "in_progress"
          THEN [item[j][f] EXCEPT !.status = s, !.lease = "none"] ELSE item[j][f]
  BY <1>1 DEF CloseItems
<1>. QED
  BY <1>1, <1>2, <1>3 DEF Items

(***************************************************************************)
(* The commit of an item.  The worker read the generation before it        *)
(* embedded; that it is still the active one and that the job still runs   *)
(* is what makes the chunks land where nobody reads yet.                   *)
(***************************************************************************)
LEMMA CommitItemCore ==
    ASSUME TypeInv, CoreInv, NEW w \in Workers, CommitItem(w)
    PROVE  CoreInv'
<1>. USE DEF TypeInv
<1>. DEFINE j == worker[w].job
            f == worker[w].file
            row == [item[j][f] EXCEPT !.status = "completed", !.lease = "none", !.memory = 0]
<1>0. j \in Jobs /\ f \in Files
  BY DEF CommitItem, SoundRows, Sound
<1>1. /\ UNCHANGED <<store, member, job>>
      /\ chunks' = [chunks EXCEPT ![f][job[j].gen] = job[j].recipe]
      /\ item' = [item EXCEPT ![j][f] = row]
      /\ Completed(f) /\ Running(j)
  BY DEF CommitItem, MayCommitItem
<1>2. row.status = "completed"
  <2>1. item[j][f] \in Items
    BY <1>0 DEF TypeOK
  <2>. QED
    BY <2>1 DEF Items
<1>. HIDE DEF row
<1>3. \A k \in Jobs, g \in Files : item'[k][g] = IF k = j /\ g = f THEN row ELSE item[k][g]
  <2>1. item \in [Jobs -> [Files -> Items]]
    BY DEF TypeOK
  <2>. QED
    BY <1>0, <1>1, <2>1
<1>4. job[j].gen \in Generations /\ store.gen \in Generations /\ job[j].recipe \in Recipes
  BY <1>0 DEF TypeOK, JobRows, Stores
<1>5. \A g \in Files, h \in Generations :
        chunks'[g][h] = IF g = f /\ h = job[j].gen THEN job[j].recipe ELSE chunks[g][h]
  <2>1. chunks \in [Files -> [Generations -> Recipes \cup {NoRecipe}]]
    BY DEF TypeOK
  <2>. QED
    BY <1>0, <1>1, <1>4, <2>1
<1>. HIDE DEF j, f
<1>6. JobInv' /\ \A k \in Jobs : Latest(k)' => Latest(k)
  BY <1>1, SameJobs DEF CoreInv
<1>7. ItemInv'
  BY <1>0, <1>1, <1>2, <1>3 DEF CoreInv, ItemInv, EndedJobHasNoOpenItem, UnusedHasNoItem,
     NoItemCancelled, OpenItems, Running
<1>8. job[j].gen # store.gen
  BY <1>0, <1>1, <1>4 DEF CoreInv, JobInv, RunningTarget, Generations
\* Another failed job is superseded by the running one, another running one is not there.
<1>9. \A k \in Jobs : Latest(k) => k = j
  <2>1. \A k \in Jobs : Running(k) => k = j
    BY <1>0, <1>1 DEF CoreInv, JobInv, RunningIsNewest, Running, Jobs
  <2>2. \A k \in Jobs : k # j => Superseded(k)
    BY <1>0, <1>1 DEF Superseded, JobExists, Running
  <2>. QED
    BY <2>1, <2>2 DEF Latest
<1>10. Latest(j)
  BY <1>1 DEF Latest
<1>11. ChunksBelongToCompleted'
  BY <1>1, <1>5 DEF CoreInv, ChunkInv, ChunksBelongToCompleted, Completed
<1>12. CompletedIsSearchable'
  BY <1>1, <1>4, <1>5, <1>8 DEF CoreInv, ChunkInv, CompletedIsSearchable, Completed
<1>13. CompletedItemIsWritten'
  <2>. SUFFICES ASSUME NEW g \in Files, item'[j][g].status = "completed", store.status = "live"
                PROVE  Completed(g)' /\ chunks'[g][job[j].gen] = job[j].recipe
    BY <1>1, <1>6, <1>9 DEF CompletedItemIsWritten, Latest
  <2>1. CASE g = f
    BY <1>1, <1>4, <1>5, <2>1 DEF Completed
  <2>2. CASE g # f
    BY <1>0, <1>1, <1>3, <1>4, <1>5, <2>2 DEF CoreInv, ChunkInv, CompletedItemIsWritten, Completed
  <2>. QED
    BY <2>1, <2>2
<1>14. TargetUniform'
  BY <1>0, <1>1, <1>4, <1>5, <1>6, <1>9 DEF CoreInv, ChunkInv, TargetUniform
<1>15. Uniform'
  <2>1. \A g \in Files : chunks[g][job[j].gen] \in {NoRecipe, job[j].recipe}
    BY <1>0, <1>10 DEF CoreInv, ChunkInv, TargetUniform
  <2>. QED
    BY <1>0, <1>4, <1>5, <2>1 DEF CoreInv, ChunkInv, Uniform
<1>. QED
  BY <1>6, <1>7, <1>11, <1>12, <1>13, <1>14, <1>15 DEF CoreInv, ChunkInv

---------------------------------------------------------------------------
(* The jobs. *)

\* At most one job may still switch: any other one supersedes it.
LEMMA OneLatest ==
    ASSUME TypeOK, JobInv, NEW j \in Jobs, NEW k \in Jobs, Latest(j), Latest(k)
    PROVE  j = k
<1>. SUFFICES ASSUME j # k PROVE FALSE
  OBVIOUS
<1>1. j < k \/ k < j
  BY DEF Jobs
<1>2. JobExists(j) /\ JobExists(k)
  BY DEF Latest, JobExists, Running
<1>3. ~(Running(j) /\ Running(k))
  BY <1>1 DEF JobInv, RunningIsNewest, Running
<1>4. Superseded(j) \/ Superseded(k)
  BY <1>1, <1>2 DEF Superseded
<1>5. Running(k) => Superseded(j)
  BY <1>2 DEF Superseded
<1>6. Running(j) => Superseded(k)
  BY <1>2 DEF Superseded
<1>7. CASE Running(j)
  BY <1>3, <1>6, <1>7 DEF Latest
<1>8. CASE Running(k)
  BY <1>3, <1>5, <1>8 DEF Latest
<1>9. CASE ~Running(j) /\ ~Running(k)
  BY <1>4, <1>9 DEF Latest
<1>. QED
  BY <1>7, <1>8, <1>9

\* The job's row after its state became s.
LEMMA JobState ==
    ASSUME TypeOK, NEW j \in Jobs, NEW s, job' = [job EXCEPT ![j].state = s]
    PROVE  /\ job'[j].state = s
           /\ \A k \in Jobs : k # j => job'[k] = job[k]
           /\ \A k \in Jobs : job'[k].gen = job[k].gen /\ job'[k].recipe = job[k].recipe
<1>1. job[j] \in JobRows /\ job \in [Jobs -> JobRows]
  BY DEF TypeOK
<1>2. job'[j] = [job[j] EXCEPT !.state = s]
  BY <1>1
<1>. QED
  BY <1>1, <1>2 DEF JobRows

(***************************************************************************)
(* A job that ends lets no other one back: a job that was superseded by it *)
(* while it ran is an older one, and stays superseded by its row.          *)
(***************************************************************************)
LEMMA JobEndsCore ==
    ASSUME TypeOK, JobInv, NEW j \in Jobs, job[j].state \in {"running", "failed"},
           NEW s \in {"failed", "cancelled"}, s = "failed" => Running(j),
           job' = [job EXCEPT ![j].state = s], store' = store
    PROVE  JobInv' /\ \A k \in Jobs : Latest(k)' => Latest(k)
<1>1. /\ job'[j].state = s
      /\ \A k \in Jobs : k # j => job'[k] = job[k]
      /\ \A k \in Jobs : job'[k].gen = job[k].gen
  BY JobState
<1>2. \A k \in Jobs : Running(k)' => Running(k) /\ k # j
  BY <1>1 DEF Running
<1>3. \A k \in Jobs : JobExists(k)' <=> JobExists(k)
  BY <1>1 DEF JobExists
<1>4. JobInv'
  <2>1. \A k \in Jobs : job'[k].state \in {"unused", "gone"} \/ job[k].state \in {"unused", "gone"}
                          => job'[k].state = job[k].state
    BY <1>1
  <2>. QED
    BY <1>1, <1>2, <2>1 DEF JobInv, RunningIsNewest, RunningTarget, GoneFirst
<1>5. ASSUME NEW k \in Jobs, Latest(k)' PROVE Latest(k)
  <2>1. CASE Running(k)'
    BY <1>2, <2>1 DEF Latest
  <2>2. CASE k = j
    BY <1>1, <1>2, <1>5, <2>2 DEF Latest
  <2>3. CASE k # j /\ ~Running(k)'
    <3>1. job[k].state = "failed" /\ ~Superseded(k)'
      BY <1>1, <1>5, <2>3 DEF Latest
    <3>2. ~Superseded(k)
      <4>. SUFFICES ASSUME Superseded(k) PROVE FALSE
        OBVIOUS
      <4>1. PICK m \in Jobs \ {k} : JobExists(m) /\ (Running(m) \/ m > k)
        BY <1>1, <3>1 DEF Superseded
      <4>2. Running(m) /\ ~(m > k)
        BY <1>1, <1>3, <3>1, <4>1 DEF Superseded, Running
      <4>3. m < k
        BY <4>2 DEF Jobs
      <4>. QED
        BY <3>1, <4>2, <4>3 DEF JobInv, RunningIsNewest
    <3>. QED
      BY <3>1, <3>2 DEF Latest
  <2>. QED
    BY <2>1, <2>2, <2>3
<1>. QED
  BY <1>4, <1>5

(***************************************************************************)
(* A cancel, a failure and an expiry: the job's open items end with it.    *)
(* Its chunks go only where no other job may still switch to them.         *)
(***************************************************************************)
LEMMA EndedCore ==
    ASSUME TypeOK, CoreInv, UNCHANGED <<store, member>>,
           NEW j \in Jobs, job[j].state \in {"running", "failed"},
           NEW s \in {"failed", "cancelled"}, s = "failed" => Running(j),
           job' = [job EXCEPT ![j].state = s],
           \/ chunks' = chunks
           \/ /\ chunks' = DropGeneration(job[j].gen) /\ job[j].gen # store.gen
              /\ store.status # "live" \/ (Latest(j) /\ s = "cancelled"),
           \/ item' = CloseItems(j, "cancelled") /\ (s = "failed" => store.status # "live")
           \/ item' = item /\ OpenItems(j) = {}
    PROVE  CoreInv'
<1>1. JobInv' /\ \A k \in Jobs : Latest(k)' => Latest(k)
  BY JobEndsCore DEF CoreInv
<1>2. /\ job'[j].state = s
      /\ \A k \in Jobs : k # j => job'[k] = job[k]
      /\ \A k \in Jobs : job'[k].gen = job[k].gen /\ job'[k].recipe = job[k].recipe
  BY JobState
<1>3. /\ \A k \in Jobs, f \in Files : k # j => item'[k][f] = item[k][f]
      /\ \A f \in Files :
           \/ item[j][f].status = "in_progress" /\ item'[j][f].status = "cancelled"
           \/ item[j][f].status # "in_progress" /\ item'[j][f].status = item[j][f].status
      /\ \A f \in Files : item'[j][f].status = "cancelled" =>
             \/ item[j][f].status = "cancelled"
             \/ s = "failed" => store.status # "live"
  <2>1. CASE item' = item /\ OpenItems(j) = {}
    BY <2>1 DEF OpenItems
  <2>2. CASE item' = CloseItems(j, "cancelled") /\ (s = "failed" => store.status # "live")
    BY <2>2, ClosedItems DEF ItemStatus
  <2>. QED
    BY <2>1, <2>2
<1>4. ItemInv'
  <2>1. EndedJobHasNoOpenItem'
    BY <1>2, <1>3 DEF CoreInv, ItemInv, EndedJobHasNoOpenItem, OpenItems, Running
  <2>2. UnusedHasNoItem'
    BY <1>2, <1>3 DEF CoreInv, ItemInv, UnusedHasNoItem
  <2>3. NoItemCancelled'
    BY <1>2, <1>3 DEF CoreInv, ItemInv, NoItemCancelled
  <2>. QED
    BY <2>1, <2>2, <2>3 DEF ItemInv
<1>5. \A f \in Files, g \in Generations :
        chunks'[f][g] = IF chunks' # chunks /\ g = job[j].gen THEN NoRecipe ELSE chunks[f][g]
  <2>1. chunks \in [Files -> [Generations -> Recipes \cup {NoRecipe}]]
    BY DEF TypeOK
  <2>2. CASE chunks' = chunks
    BY <2>2
  <2>3. CASE chunks' = DropGeneration(job[j].gen)
    BY <2>1, <2>3 DEF DropGeneration
  <2>. QED
    BY <2>2, <2>3
<1>6. store.gen \in Generations /\ \A k \in Jobs : job[k].gen \in Generations
  BY DEF TypeOK, Stores, JobRows
<1>7. \A f \in Files : /\ Completed(f)' <=> Completed(f)
                       /\ chunks'[f][store.gen] = chunks[f][store.gen]
  BY <1>5, <1>6 DEF Completed
<1>8. \A f \in Files, g \in Generations : /\ chunks'[f][g] \in {NoRecipe, chunks[f][g]}
                                          /\ chunks'[f][g] # NoRecipe => Completed(f)'
  BY <1>5, <1>7 DEF CoreInv, ChunkInv, ChunksBelongToCompleted
<1>9. ASSUME NEW k \in Jobs, NEW f \in Files, item'[k][f].status = "completed"
      PROVE  /\ item[k][f].status = "completed"
             /\ store'.status = "live" /\ Latest(k)' =>
                    Completed(f)' /\ chunks'[f][job[k].gen] = chunks[f][job[k].gen]
  <2>1. item[k][f].status = "completed"
    BY <1>3, <1>9
  <2>. SUFFICES ASSUME store.status = "live", Latest(k)'
                PROVE  Completed(f)' /\ chunks'[f][job[k].gen] = chunks[f][job[k].gen]
    BY <2>1
  <2>2. Completed(f)'
    BY <1>1, <1>7, <2>1 DEF CoreInv, ChunkInv, CompletedItemIsWritten, Latest
  <2>3. CASE chunks' = chunks
    BY <2>2, <2>3
  <2>4. CASE Latest(j) /\ s = "cancelled"
    <3>1. k = j
      BY <1>1, <2>4, OneLatest DEF CoreInv
    <3>. QED
      BY <1>2, <2>4, <3>1 DEF Latest, Running
  <2>. QED
    BY <2>2, <2>3, <2>4
<1>10. ChunkInv'
  BY <1>1, <1>2, <1>7, <1>8, <1>9, ShrinkingStep DEF CoreInv
<1>. QED
  BY <1>1, <1>4, <1>10 DEF CoreInv

\* The rows of the items after those of F were set.
LEMMA SetRows ==
    ASSUME TypeOK, NEW j \in Jobs, NEW F, NEW row, item' = SetItems(j, F, row)
    PROVE  \A k \in Jobs, f \in Files :
               item'[k][f] = IF k = j /\ f \in F THEN row ELSE item[k][f]
<1>1. item \in [Jobs -> [Files -> Items]]
  BY DEF TypeOK
<1>2. \A k \in Jobs : k # j => item'[k] = item[k]
  BY <1>1 DEF SetItems
<1>3. \A f \in Files : item'[j][f] = IF f \in F THEN row ELSE item[j][f]
  BY <1>1 DEF SetItems
<1>. QED
  BY <1>2, <1>3

LEMMA OpenIsOpen == OpenItem.status = "in_progress"
  BY DEF OpenItem, NoItem

(***************************************************************************)
(* Items of a job that runs afterwards open again: a reopen before the     *)
(* switch, or a retry of a failed job that nothing superseded.             *)
(***************************************************************************)
LEMMA OpenedCore ==
    ASSUME TypeOK, CoreInv, UNCHANGED <<store, member, chunks>>,
           NEW j \in Jobs, Latest(j), job' = [job EXCEPT ![j].state = "running"],
           NEW F, item' = SetItems(j, F, OpenItem)
    PROVE  CoreInv'
<1>1. /\ job'[j].state = "running"
      /\ \A k \in Jobs : k # j => job'[k] = job[k]
      /\ \A k \in Jobs : job'[k].gen = job[k].gen /\ job'[k].recipe = job[k].recipe
  BY JobState
<1>2. job[j].state \in {"running", "failed"} /\ \A k \in Jobs \ {j} : ~Running(k)
  <2>1. \A k \in Jobs \ {j} : Running(k) => Latest(k)
    BY DEF Latest
  <2>. QED
    BY <2>1, OneLatest DEF Latest, Running, CoreInv
<1>3. \A k \in Jobs : j < k => job[k].state = "unused"
  <2>1. CASE Running(j)
    BY <2>1 DEF CoreInv, JobInv, RunningIsNewest
  <2>2. CASE job[j].state = "failed" /\ ~Superseded(j)
    <3>. SUFFICES ASSUME NEW k \in Jobs, j < k PROVE job[k].state = "unused"
      OBVIOUS
    <3>1. k # j /\ k > j
      BY DEF Jobs
    <3>2. ~JobExists(k)
      BY <2>2, <3>1 DEF Superseded
    <3>3. job[k].state # "gone"
      BY <2>2 DEF CoreInv, JobInv, GoneFirst
    <3>. QED
      BY <3>2, <3>3 DEF JobExists
  <2>. QED
    BY <2>1, <2>2 DEF Latest
<1>4. job[j].gen = store.gen + 1
  BY DEF Latest, Superseded, CoreInv, JobInv, RunningTarget
<1>5. JobInv'
  <2>1. RunningIsNewest'
    BY <1>1, <1>2, <1>3 DEF RunningIsNewest, Running, Jobs
  <2>2. RunningTarget'
    BY <1>1, <1>2, <1>4 DEF RunningTarget, Running
  <2>3. GoneFirst'
    BY <1>1, <1>2 DEF CoreInv, JobInv, GoneFirst
  <2>. QED
    BY <2>1, <2>2, <2>3 DEF JobInv
<1>6. ASSUME NEW k \in Jobs, Latest(k)' PROVE Latest(k)
  <2>1. CASE k = j
    BY <2>1
  <2>2. CASE k # j
    <3>1. JobExists(j)' /\ Running(j)'
      BY <1>1 DEF JobExists, Running
    <3>2. Superseded(k)' /\ ~Running(k)'
      BY <1>1, <1>2, <2>2, <3>1 DEF Superseded, Running
    <3>. QED
      BY <1>6, <3>2 DEF Latest
  <2>. QED
    BY <2>1, <2>2
<1>7. \A k \in Jobs, f \in Files :
        item'[k][f].status = IF k = j /\ f \in F THEN "in_progress" ELSE item[k][f].status
  BY SetRows, OpenIsOpen
<1>8. ItemInv'
  <2>1. EndedJobHasNoOpenItem'
    BY <1>1, <1>7 DEF CoreInv, ItemInv, EndedJobHasNoOpenItem, OpenItems, Running
  <2>2. UnusedHasNoItem'
    BY <1>1, <1>7 DEF CoreInv, ItemInv, UnusedHasNoItem
  <2>3. NoItemCancelled'
    BY <1>1, <1>2, <1>7 DEF CoreInv, ItemInv, NoItemCancelled
  <2>. QED
    BY <2>1, <2>2, <2>3 DEF ItemInv
<1>9. \A f \in Files, g \in Generations : chunks[f][g] # NoRecipe => Completed(f)
  BY DEF CoreInv, ChunkInv, ChunksBelongToCompleted
<1>10. \A f \in Files : Completed(f)' <=> Completed(f)
  BY DEF Completed
<1>11. ASSUME NEW k \in Jobs, NEW f \in Files, item'[k][f].status = "completed"
       PROVE  /\ item[k][f].status = "completed"
              /\ store.status = "live" /\ Latest(k)' => Completed(f)
  <2>1. item[k][f].status = "completed"
    BY <1>7, <1>11
  <2>2. store.status = "live" /\ Latest(k) => Completed(f)
    BY <2>1 DEF CoreInv, ChunkInv, CompletedItemIsWritten, Latest
  <2>. QED
    BY <1>6, <2>1, <2>2
<1>12. ChunkInv'
  BY <1>1, <1>6, <1>9, <1>10, <1>11, ShrinkingStep DEF CoreInv
<1>. QED
  BY <1>5, <1>8, <1>12 DEF CoreInv

(***************************************************************************)
(* A new job.  Its target generation holds nothing: what older jobs left   *)
(* outside the active one goes with the insert.                            *)
(***************************************************************************)
LEMMA StartCore ==
    ASSUME TypeInv, TypeOK', CoreInv, NEW j \in Jobs, NEW r, NEW c, StartJob(j, r, c)
    PROVE  CoreInv'
<1>. USE DEF TypeInv
<1>1. /\ UNCHANGED <<store, member>>
      /\ job[j].state = "unused"
      /\ chunks' = KeepOnly(store.gen)
      /\ item' = SetItems(j, {f \in Files : Completed(f)}, OpenItem)
      /\ \A k \in Jobs : ~Running(k)
  BY DEF StartJob
<1>2. /\ \A k \in Jobs : k # j => job'[k] = job[k]
      /\ job'[j] = [state |-> "running", recipe |-> r, gen |-> store.gen + 1, rechunk |-> c]
  BY DEF StartJob, TypeOK
<1>3. store.gen \in Generations /\ store.gen + 1 # store.gen /\ job'[j].gen \in Generations
  BY DEF TypeOK, Stores, JobRows, Generations
<1>4. \A f \in Files, g \in Generations :
        chunks'[f][g] = IF g = store.gen THEN chunks[f][g] ELSE NoRecipe
  BY <1>1 DEF KeepOnly
<1>5. \A k \in Jobs, f \in Files :
        item'[k][f].status = IF k = j /\ Completed(f) THEN "in_progress" ELSE item[k][f].status
  BY <1>1, SetRows, OpenIsOpen
<1>6. \A k \in Jobs : k > j => job[k].state = "unused"
  BY <1>1 DEF JobOrder, Jobs
<1>7. \A k \in Jobs : Latest(k)' => k = j
  <2>1. Running(j)' /\ JobExists(j)'
    BY <1>2 DEF Running, JobExists
  <2>2. \A k \in Jobs : k # j => Superseded(k)' /\ ~Running(k)'
    BY <1>1, <1>2, <2>1 DEF Superseded, Running
  <2>. QED
    BY <2>2 DEF Latest
<1>8. JobInv'
  <2>1. RunningIsNewest'
    BY <1>1, <1>2, <1>6 DEF RunningIsNewest, Running, Jobs
  <2>2. RunningTarget'
    BY <1>1, <1>2 DEF RunningTarget, Running
  <2>3. GoneFirst'
    BY <1>1, <1>2, <1>6 DEF CoreInv, JobInv, GoneFirst
  <2>. QED
    BY <2>1, <2>2, <2>3 DEF JobInv
<1>9. ItemInv'
  <2>1. EndedJobHasNoOpenItem'
    BY <1>2, <1>5 DEF CoreInv, ItemInv, EndedJobHasNoOpenItem, OpenItems, Running
  <2>2. UnusedHasNoItem'
    BY <1>2, <1>5 DEF CoreInv, ItemInv, UnusedHasNoItem
  <2>3. NoItemCancelled'
    BY <1>1, <1>2, <1>5 DEF CoreInv, ItemInv, NoItemCancelled, UnusedHasNoItem
  <2>. QED
    BY <2>1, <2>2, <2>3 DEF ItemInv
<1>10. ChunkInv'
  <2>1. ChunksBelongToCompleted' /\ Uniform'
    BY <1>1, <1>4 DEF CoreInv, ChunkInv, ChunksBelongToCompleted, Uniform, Completed
  <2>2. CompletedIsSearchable'
    BY <1>1, <1>3, <1>4 DEF CoreInv, ChunkInv, CompletedIsSearchable, Completed
  <2>3. CompletedItemIsWritten'
    <3>1. \A f \in Files : item'[j][f].status # "completed"
      BY <1>1, <1>5 DEF CoreInv, ItemInv, UnusedHasNoItem
    <3>. QED
      BY <1>7, <3>1 DEF CompletedItemIsWritten, Latest
  <2>4. TargetUniform'
    BY <1>2, <1>3, <1>4, <1>7 DEF TargetUniform
  <2>. QED
    BY <2>1, <2>2, <2>3, <2>4 DEF ChunkInv
<1>. QED
  BY <1>8, <1>9, <1>10 DEF CoreInv

\* The history loses its oldest job, which superseded nothing that is still there.
LEMMA SweepJobCore ==
    ASSUME TypeInv, CoreInv, NEW j \in Jobs, SweepReembedJob(j)
    PROVE  CoreInv'
<1>. USE DEF TypeInv
<1>1. /\ UNCHANGED <<store, member, chunks>>
      /\ job[j].state \in {"switched", "failed", "cancelled"}
      /\ \A k \in Jobs : k < j => job[k].state = "gone"
      /\ job' = [job EXCEPT ![j].state = "gone"]
      /\ item' = SetItems(j, Files, NoItem)
  BY DEF SweepReembedJob
<1>2. /\ job'[j].state = "gone"
      /\ \A k \in Jobs : k # j => job'[k] = job[k]
      /\ \A k \in Jobs : job'[k].gen = job[k].gen /\ job'[k].recipe = job[k].recipe
  BY <1>1, JobState
<1>3. \A k \in Jobs, f \in Files : item'[k][f].status = IF k = j THEN "absent" ELSE item[k][f].status
  BY <1>1, SetRows DEF NoItem
<1>4. JobInv'
  BY <1>1, <1>2 DEF CoreInv, JobInv, RunningIsNewest, RunningTarget, GoneFirst, Running, Jobs
<1>5. ASSUME NEW k \in Jobs, Latest(k)' PROVE Latest(k)
  <2>1. k # j /\ ~(k < j)
    BY <1>1, <1>2, <1>5 DEF Latest, Running
  <2>2. Superseded(k) => Superseded(k)'
    <3>. SUFFICES ASSUME Superseded(k), job[k].gen = store.gen + 1 PROVE Superseded(k)'
      BY <1>1, <1>2 DEF Superseded
    <3>1. PICK m \in Jobs \ {k} : JobExists(m) /\ (Running(m) \/ m > k)
      BY DEF Superseded
    <3>2. m # j
      BY <1>1, <2>1, <3>1 DEF Running, Jobs
    <3>3. JobExists(m)' /\ (Running(m)' \/ m > k)
      BY <1>2, <3>1, <3>2 DEF JobExists, Running
    <3>. QED
      BY <3>3 DEF Superseded
  <2>. QED
    BY <1>2, <1>5, <2>1, <2>2 DEF Latest, Running
<1>6. ItemInv'
  <2>1. EndedJobHasNoOpenItem'
    BY <1>2, <1>3 DEF CoreInv, ItemInv, EndedJobHasNoOpenItem, OpenItems, Running
  <2>2. UnusedHasNoItem' /\ NoItemCancelled'
    BY <1>1, <1>2, <1>3 DEF CoreInv, ItemInv, UnusedHasNoItem, NoItemCancelled
  <2>. QED
    BY <2>1, <2>2 DEF ItemInv
<1>7. \A f \in Files, g \in Generations : chunks[f][g] # NoRecipe => Completed(f)
  BY DEF CoreInv, ChunkInv, ChunksBelongToCompleted
<1>8. \A f \in Files : Completed(f)' <=> Completed(f)
  BY <1>1 DEF Completed
<1>9. ASSUME NEW k \in Jobs, NEW f \in Files, item'[k][f].status = "completed"
      PROVE  /\ item[k][f].status = "completed"
             /\ store.status = "live" /\ Latest(k)' => Completed(f)
  <2>1. item[k][f].status = "completed"
    BY <1>3, <1>9
  <2>2. store.status = "live" /\ Latest(k) => Completed(f)
    BY <2>1 DEF CoreInv, ChunkInv, CompletedItemIsWritten, Latest
  <2>. QED
    BY <1>5, <2>1, <2>2
<1>10. ChunkInv'
  BY <1>1, <1>2, <1>5, <1>7, <1>8, <1>9, ShrinkingStep DEF CoreInv
<1>. QED
  BY <1>4, <1>6, <1>10 DEF CoreInv

\* The chunk sweeper: no job that may still switch targets what it takes.
LEMMA OrphansCore ==
    ASSUME TypeOK, CoreInv, NEW f \in Files, NEW g \in Generations, DropOrphanedChunks(f, g)
    PROVE  CoreInv'
<1>1. /\ UNCHANGED <<store, member, job, item>>
      /\ g # store.gen /\ Untargeted(g)
  BY DEF DropOrphanedChunks, Orphaned
<1>2. \A h \in Files, k \in Generations :
        chunks'[h][k] = IF h = f /\ k = g THEN NoRecipe ELSE chunks[h][k]
  <2>1. chunks \in [Files -> [Generations -> Recipes \cup {NoRecipe}]]
    BY DEF TypeOK
  <2>. QED
    BY <2>1 DEF DropOrphanedChunks
<1>3. JobInv' /\ \A k \in Jobs : Latest(k)' => Latest(k)
  BY <1>1, SameJobs DEF CoreInv
<1>4. \A k \in Jobs : Latest(k) => job[k].gen # g
  BY <1>1 DEF Untargeted, Latest, JobExists, Running
<1>5. ItemInv'
  BY <1>1 DEF CoreInv, ItemInv, EndedJobHasNoOpenItem, UnusedHasNoItem, NoItemCancelled, OpenItems, Running
<1>6. store.gen \in Generations /\ \A k \in Jobs : job[k].gen \in Generations
  BY DEF TypeOK, Stores, JobRows
<1>7. \A h \in Files : /\ Completed(h)' <=> Completed(h)
                       /\ chunks'[h][store.gen] = chunks[h][store.gen]
  BY <1>1, <1>2, <1>6 DEF Completed
<1>8. \A h \in Files, k \in Generations : /\ chunks'[h][k] \in {NoRecipe, chunks[h][k]}
                                          /\ chunks'[h][k] # NoRecipe => Completed(h)'
  BY <1>2, <1>7 DEF CoreInv, ChunkInv, ChunksBelongToCompleted
<1>9. \A k \in Jobs, h \in Files : item[k][h].status = "completed" /\ store.status = "live" /\ Latest(k)
        => Completed(h) /\ chunks'[h][job[k].gen] = chunks[h][job[k].gen]
  BY <1>2, <1>4, <1>6 DEF CoreInv, ChunkInv, CompletedItemIsWritten, Latest
<1>10. ChunkInv'
  BY <1>1, <1>3, <1>7, <1>8, <1>9, ShrinkingStep DEF CoreInv
<1>. QED
  BY <1>3, <1>5, <1>10 DEF CoreInv

(***************************************************************************)
(* The switch.  The counts it looks at leave one status for the item of a  *)
(* completed file, and a completed item of the running job is written.     *)
(***************************************************************************)
LEMMA SwitchedFiles ==
    ASSUME TypeOK, CoreInv, NEW j \in Jobs, Switch(j)
    PROVE  /\ \A f \in Files : Completed(f) => chunks[f][job[j].gen] = job[j].recipe
           /\ \A f \in Files : Completed(f)' <=> Completed(f)
           /\ store'.gen = job[j].gen /\ store'.recipe = job[j].recipe
           /\ store'.status = store.status /\ store'.gen = store.gen + 1
           /\ Running(j) /\ store.status = "live" /\ OpenItems(j) = {}
<1>1. /\ Running(j) /\ store.status = "live" /\ OpenItems(j) = {}
      /\ FailedItems(j) = {} /\ Missing(j) = {}
  BY DEF Switch, Ending
<1>2. ASSUME NEW f \in Files, Completed(f) PROVE chunks[f][job[j].gen] = job[j].recipe
  <2>1. item[j][f].status \notin {"in_progress", "failed", "absent"}
    BY <1>1, <1>2 DEF OpenItems, FailedItems, Missing
  <2>2. item[j][f].status # "cancelled"
    BY <1>1 DEF CoreInv, ItemInv, NoItemCancelled, Running
  <2>3. item[j][f].status = "completed"
    BY <2>1, <2>2 DEF TypeOK, Items, ItemStatus
  <2>. QED
    BY <1>1, <2>3 DEF CoreInv, ChunkInv, CompletedItemIsWritten
<1>3. \A f \in Files : Completed(f)' <=> Completed(f)
  BY DEF Switch, Requeued, Fresh, NoMember, Completed
<1>4. store'.gen = job[j].gen /\ store'.recipe = job[j].recipe /\ store'.status = store.status
  BY DEF Switch, TypeOK, Stores
<1>5. store'.gen = store.gen + 1
  BY <1>1, <1>4 DEF CoreInv, JobInv, RunningTarget
<1>. QED
  BY <1>1, <1>2, <1>3, <1>4, <1>5

LEMMA SwitchCore ==
    ASSUME TypeOK, CoreInv, NEW j \in Jobs, Switch(j)
    PROVE  CoreInv'
<1>1. /\ \A f \in Files : Completed(f) => chunks[f][job[j].gen] = job[j].recipe
      /\ \A f \in Files : Completed(f)' <=> Completed(f)
      /\ store'.gen = job[j].gen /\ store'.recipe = job[j].recipe
      /\ Running(j) /\ store.status = "live" /\ OpenItems(j) = {}
      /\ store'.status = store.status
  BY SwitchedFiles
<1>2. item' = item /\ chunks' = KeepOnly(job[j].gen) /\ job' = [job EXCEPT ![j].state = "switched"]
  BY DEF Switch
<1>3. /\ job'[j].state = "switched"
      /\ \A k \in Jobs : k # j => job'[k] = job[k]
  BY <1>2, JobState
<1>4. \A k \in Jobs : ~Running(k)'
  <2>1. \A k \in Jobs : Running(k) => k = j
    BY <1>1, OneLatest DEF Latest, CoreInv
  <2>. QED
    BY <1>3, <2>1 DEF Running
<1>5. \A k \in Jobs : ~Latest(k)'
  <2>. SUFFICES ASSUME NEW k \in Jobs, job'[k].state = "failed" PROVE Superseded(k)'
    BY <1>4 DEF Latest
  <2>1. k # j /\ job[k].state = "failed"
    BY <1>3
  <2>2. ~(j < k)
    BY <1>1, <2>1 DEF CoreInv, JobInv, RunningIsNewest
  <2>3. j > k /\ JobExists(j)'
    BY <1>3, <2>1, <2>2 DEF Jobs, JobExists
  <2>. QED
    BY <2>1, <2>3 DEF Superseded
<1>6. JobInv'
  <2>1. GoneFirst'
    BY <1>1, <1>3 DEF CoreInv, JobInv, GoneFirst, Running
  <2>. QED
    BY <1>4, <2>1 DEF JobInv, RunningIsNewest, RunningTarget
<1>7. ItemInv'
  <2>1. EndedJobHasNoOpenItem'
    BY <1>1, <1>2, <1>3 DEF CoreInv, ItemInv, EndedJobHasNoOpenItem, OpenItems, Running
  <2>2. UnusedHasNoItem' /\ NoItemCancelled'
    BY <1>1, <1>2, <1>3 DEF CoreInv, ItemInv, UnusedHasNoItem, NoItemCancelled
  <2>. QED
    BY <2>1, <2>2 DEF ItemInv
<1>8. job[j].gen \in Generations
  BY DEF TypeOK, JobRows
<1>9. \A f \in Files, g \in Generations :
        chunks'[f][g] = IF g = job[j].gen THEN chunks[f][g] ELSE NoRecipe
  BY <1>2 DEF KeepOnly
<1>10. ChunkInv'
  <2>1. ChunksBelongToCompleted' /\ Uniform'
    BY <1>1, <1>9 DEF CoreInv, ChunkInv, ChunksBelongToCompleted, Uniform
  <2>2. CompletedIsSearchable'
    BY <1>1, <1>8, <1>9 DEF CompletedIsSearchable
  <2>3. CompletedItemIsWritten' /\ TargetUniform'
    BY <1>5 DEF CompletedItemIsWritten, TargetUniform, Latest
  <2>. QED
    BY <2>1, <2>2, <2>3 DEF ChunkInv
<1>. QED
  BY <1>6, <1>7, <1>10 DEF CoreInv

LEMMA FinalizeCore ==
    ASSUME TypeOK, CoreInv, NEW j \in Jobs, FinalizeJob(j)
    PROVE  CoreInv'
<1>1. CASE FinalizeNothing(j)
  BY <1>1, ReadStep DEF FinalizeNothing
<1>2. CASE FinalizeExpired(j)
  <2>1. Running(j) /\ job[j].state \in {"running", "failed"} /\ store.status # "live"
    BY <1>2 DEF FinalizeExpired, Running
  <2>. QED
    BY <1>2, <2>1, EndedCore DEF FinalizeExpired
<1>3. CASE FinalizeFailed(j)
  <2>1. Running(j) /\ job[j].state \in {"running", "failed"} /\ OpenItems(j) = {}
    BY <1>3 DEF FinalizeFailed, Ending, Running
  <2>. QED
    BY <1>3, <2>1, EndedCore DEF FinalizeFailed
<1>4. CASE FinalizeReopen(j)
  <2>1. Latest(j) /\ job[j].state = "running"
    BY <1>4 DEF FinalizeReopen, Ending, Running, Latest
  <2>2. job' = [job EXCEPT ![j].state = "running"]
    BY <1>4, <2>1 DEF FinalizeReopen, TypeOK, JobRows
  <2>. QED
    BY <1>4, <2>1, <2>2, OpenedCore DEF FinalizeReopen
<1>5. CASE Switch(j)
  BY <1>5, SwitchCore
<1>. QED
  BY <1>1, <1>2, <1>3, <1>4, <1>5 DEF FinalizeJob

LEMMA ReembedWorkerCore ==
    ASSUME TypeInv, CoreInv, NEW w \in Workers, ReembedStep(w)
    PROVE  CoreInv'
<1>. USE DEF TypeInv
<1>0. /\ worker[w].pc \in {"item", "embedding"} => worker[w].file \in Files
      /\ worker[w].pc \in {"item", "embedding", "stop_finalize", "stop_only", "finalize", "reaped"}
           => worker[w].job \in Jobs
  BY DEF SoundRows, Sound
<1>1. CASE ReapItems(w)
  <2>1. \A j \in Jobs, f \in Files : item[j][f] \in Items
    BY DEF TypeOK
  <2>2. \A j \in Jobs, f \in Files :
          item'[j][f] = IF <<j, f>> \in ItemZombies
                        THEN [item[j][f] EXCEPT !.status = "failed", !.lease = "none", !.memory = 0]
                        ELSE item[j][f]
    BY <1>1 DEF ReapItems
  <2>3. \A j \in Jobs, f \in Files : <<j, f>> \in ItemZombies => item[j][f].status = "in_progress"
    BY DEF ItemZombies
  <2>4. \A j \in Jobs, f \in Files :
          item'[j][f].status = IF <<j, f>> \in ItemZombies THEN "failed" ELSE item[j][f].status
    BY <2>1, <2>2 DEF Items
  <2>5. ItemsEnd
    BY <2>3, <2>4 DEF ItemsEnd
  <2>. QED
    BY <1>1, <2>5, ItemStep DEF ReapItems
<1>2. ASSUME NEW j \in Jobs, NEW f \in Files, ClaimItem(w, j, f) PROVE CoreInv'
  <2>. DEFINE row == [item[j][f] EXCEPT !.lease = "held", !.attempts = item[j][f].attempts + 1]
  <2>1. item[j][f] \in Items
    BY DEF TypeOK
  <2>2. row.status = item[j][f].status
    BY <2>1 DEF Items
  <2>3. item' = [item EXCEPT ![j][f] = row]
    BY <1>2 DEF ClaimItem
  <2>. HIDE DEF row
  <2>. QED
    BY <1>2, <2>2, <2>3, OneItem DEF ClaimItem
<1>3. CASE SettleIdle(w) \/ ReadItem(w) \/ SkipItem(w)
  BY <1>3, ReadStep DEF SettleIdle, ReadItem, SkipItem
<1>4. CASE DropItem(w)
  <2>. DEFINE j == worker[w].job
              f == worker[w].file
  <2>0. j \in Jobs /\ f \in Files
    BY <1>0, <1>4 DEF DropItem
  <2>1. item' = [item EXCEPT ![j][f] = IF item[j][f].status = "in_progress" THEN NoItem ELSE item[j][f]]
    BY <1>4, <2>0 DEF DropItem, TypeOK
  <2>2. UNCHANGED <<store, member, chunks, job>>
    BY <1>4 DEF DropItem
  <2>. HIDE DEF j, f
  <2>3. NoItem.status = "absent"
    BY DEF NoItem
  <2>. QED
    BY <2>0, <2>1, <2>2, <2>3, OneItem
<1>5. CASE CommitItem(w)
  BY <1>5, CommitItemCore
<1>6. CASE HandleItemFailure(w)
  BY <1>0, <1>6, ItemFailsCore DEF HandleItemFailure
<1>7. CASE FailOpenRechunkItems(w)
  <2>. DEFINE j == worker[w].job
  <2>0. j \in Jobs /\ UNCHANGED <<store, member, chunks, job>>
    BY <1>0, <1>7 DEF FailOpenRechunkItems
  <2>1. item' = CloseItems(j, "failed") \/ item' = item
    BY <1>7 DEF FailOpenRechunkItems
  <2>. HIDE DEF j
  <2>2. CASE item' = CloseItems(j, "failed")
    <3>1. ItemsEnd
      BY <2>0, <2>2, ClosedItems DEF ItemsEnd, ItemStatus
    <3>. QED
      BY <2>0, <3>1, ItemStep
  <2>3. CASE item' = item
    BY <2>0, <2>3, ReadStep
  <2>. QED
    BY <2>1, <2>2, <2>3
<1>8. CASE HandBackItem(w)
  BY <1>0, <1>8, GiveBackCore DEF HandBackItem
<1>9. CASE ItemMemoryTimeout(w)
  BY <1>0, <1>9, GiveBackCore, ItemFailsCore DEF ItemMemoryTimeout
<1>10. CASE Finalize(w)
  BY <1>0, <1>10, FinalizeCore DEF Finalize
<1>. QED
  BY <1>1, <1>2, <1>3, <1>4, <1>5, <1>6, <1>7, <1>8, <1>9, <1>10 DEF ReembedStep

LEMMA ReembedUserCore ==
    ASSUME TypeInv, TypeOK', CoreInv, ReembedUserStep
    PROVE  CoreInv'
<1>. USE DEF TypeInv
<1>1. ASSUME NEW j \in Jobs, StartReembed(j) \/ StartRechunk(j) \/ StartReextract(j)
      PROVE  CoreInv'
  BY <1>1, StartCore DEF StartReembed, StartRechunk, StartReextract
<1>2. ASSUME NEW j \in Jobs, CancelStoreJob(j) PROVE CoreInv'
  <2>1. job[j].gen # store.gen \/ Superseded(j)
    BY DEF Superseded, TypeOK, Stores, Generations
  <2>2. ~Superseded(j) => Latest(j)
    BY <1>2 DEF CancelStoreJob, Latest, Running
  <2>. QED
    BY <1>2, <2>1, <2>2, EndedCore DEF CancelStoreJob
<1>3. ASSUME NEW j \in Jobs, RetryStoreJob(j) PROVE CoreInv'
  <2>1. Latest(j)
    BY <1>3 DEF RetryStoreJob, Latest
  <2>. QED
    BY <1>3, <2>1, OpenedCore DEF RetryStoreJob
<1>. QED
  BY <1>1, <1>2, <1>3 DEF ReembedUserStep

LEMMA ReembedSweeperCore ==
    ASSUME TypeInv, CoreInv, ReembedSweeperStep
    PROVE  CoreInv'
<1>. USE DEF TypeInv
<1>1. ASSUME NEW j \in Jobs, FinalizeElsewhere(j) PROVE CoreInv'
  BY <1>1, FinalizeCore DEF FinalizeElsewhere
<1>2. ASSUME NEW j \in Jobs, SweepReembedJob(j) PROVE CoreInv'
  BY <1>2, SweepJobCore
<1>3. ASSUME NEW f \in Files, NEW g \in Generations, DropOrphanedChunks(f, g) PROVE CoreInv'
  BY <1>3, OrphansCore
<1>. QED
  BY <1>1, <1>2, <1>3 DEF ReembedSweeperStep

LEMMA LapseCore ==
    ASSUME TypeOK, CoreInv,
           (\E f \in Files : LeaseLapses(f)) \/ (\E j \in Jobs, f \in Files : ItemLeaseLapses(j, f))
    PROVE  CoreInv'
<1>1. ASSUME NEW f \in Files, LeaseLapses(f) PROVE CoreInv'
  <2>1. \A g \in Files : Completed(g)' <=> Completed(g)
    BY <1>1 DEF LeaseLapses, TypeOK, Members, Completed
  <2>. QED
    BY <1>1, <2>1, RowStep DEF LeaseLapses
<1>2. ASSUME NEW j \in Jobs, NEW f \in Files, ItemLeaseLapses(j, f) PROVE CoreInv'
  <2>. DEFINE row == [item[j][f] EXCEPT !.lease = "lapsed"]
  <2>1. item[j][f] \in Items
    BY DEF TypeOK
  <2>2. row.status = item[j][f].status
    BY <2>1 DEF Items
  <2>3. item' = [item EXCEPT ![j][f] = row]
    BY <1>2, <2>1 DEF ItemLeaseLapses, TypeOK
  <2>4. UNCHANGED <<store, member, chunks, job>>
    BY <1>2 DEF ItemLeaseLapses
  <2>. HIDE DEF row
  <2>. QED
    BY <2>2, <2>3, <2>4, OneItem
<1>. QED
  BY <1>1, <1>2

LEMMA NextCore == TypeInv /\ CoreInv /\ [Next]_vars => CoreInv'
<1>. SUFFICES ASSUME TypeInv, CoreInv, [Next]_vars PROVE CoreInv'
  OBVIOUS
<1>0. TypeOK /\ TypeOK'
  BY NextKeepsTypeInv DEF TypeInv
<1>1. ASSUME NEW w \in Workers, WorkerStep(w) PROVE CoreInv'
  BY <1>1, IngestCore, ReembedWorkerCore DEF WorkerStep
<1>2. CASE HandlerStep
  BY <1>2, HandlerCore
<1>3. CASE SweeperStep
  BY <1>0, <1>3, SweeperCore
<1>4. CASE ReembedSweeperStep
  BY <1>4, ReembedSweeperCore
<1>5. CASE (\E f \in Files : LeaseLapses(f)) \/ (\E j \in Jobs, f \in Files : ItemLeaseLapses(j, f))
  BY <1>0, <1>5, LapseCore
<1>6. CASE UserStep
  BY <1>0, <1>6, UserCore
<1>7. CASE ReembedUserStep
  BY <1>0, <1>7, ReembedUserCore
<1>8. ASSUME NEW w \in Workers, Crash(w) PROVE CoreInv'
  BY <1>0, <1>8, ReadStep DEF Crash
<1>9. CASE UNCHANGED vars
  BY <1>0, <1>9, ReadStep DEF vars
<1>. QED
  BY <1>1, <1>2, <1>3, <1>4, <1>5, <1>6, <1>7, <1>8, <1>9 DEF Next, System, Users, Crashes

\* The three invariants together hold of every reachable state.
LEMMA CoreHolds == Spec => [](TypeInv /\ CoreInv)
<1>1. Init => TypeInv /\ CoreInv
  BY InitTypeInv, InitCore
<1>2. TypeInv /\ CoreInv /\ [Next]_vars => TypeInv' /\ CoreInv'
  BY NextKeepsTypeInv, NextCore
<1>. QED
  BY <1>1, <1>2, PTL DEF Spec

---------------------------------------------------------------------------
(***************************************************************************)
(* A completed file of a store can be found: its chunks in the generation  *)
(* the search reads have the store's model and setting, for any number of  *)
(* re-embeds around its commit (commitChunks, commitItem, finalizeJob).    *)
(***************************************************************************)
THEOREM Searchable == Spec => []CompletedIsSearchable
<1>1. TypeInv /\ CoreInv => CompletedIsSearchable
  BY DEF CoreInv, ChunkInv
<1>. QED
  BY <1>1, CoreHolds, PTL

(***************************************************************************)
(* No generation holds anything of a file that is not completed, however   *)
(* a detach, an expiry, a discard or a cancel races its commit             *)
(* (deleteStoreFile, sweepOneStore, discardPartialBatch, commitChunks).    *)
(***************************************************************************)
THEOREM NothingLeftBehind == Spec => []ChunksBelongToCompleted
<1>1. TypeInv /\ CoreInv => ChunksBelongToCompleted
  BY DEF CoreInv, ChunkInv
<1>. QED
  BY <1>1, CoreHolds, PTL

\* A completed item of a job that may still switch is written (commitItem, commitChunks).
THEOREM ItemsAreWritten == Spec => []CompletedItemIsWritten
<1>1. TypeInv /\ CoreInv => CompletedItemIsWritten
  BY DEF CoreInv, ChunkInv
<1>. QED
  BY <1>1, CoreHolds, PTL

\* A job that ended has no open item (finalizeJob, cancelStoreJob, failOpenRechunkItems).
THEOREM EndedJobs == Spec => []EndedJobHasNoOpenItem
<1>1. TypeInv /\ CoreInv => EndedJobHasNoOpenItem
  BY DEF CoreInv, ItemInv
<1>. QED
  BY <1>1, CoreHolds, PTL

(***************************************************************************)
(* One re-embed of a store runs at a time: the running one is the newest,  *)
(* and a retry revives no other (insertStoreJob, retryStoreJob).           *)
(***************************************************************************)
THEOREM OneRuns == Spec => []OneReembedRuns
<1>1. TypeInv /\ CoreInv => OneReembedRuns
  <2>. SUFFICES ASSUME TypeInv, CoreInv, NEW j \in Jobs, NEW k \in Jobs, Running(j), Running(k)
                PROVE  j = k
    BY DEF OneReembedRuns
  <2>. QED
    BY OneLatest DEF TypeInv, CoreInv, Latest
<1>. QED
  BY <1>1, CoreHolds, PTL

(***************************************************************************)
(* The chunks of one generation have one recipe, also where a job reuses   *)
(* the number of an abandoned generation (insertStoreJob).                 *)
(***************************************************************************)
THEOREM GenerationsUniform == Spec => []GenerationIsUniform
<1>1. TypeInv /\ CoreInv => GenerationIsUniform
  <2>. SUFFICES ASSUME TypeInv, CoreInv, NEW g \in Generations
                PROVE  Cardinality({chunks[f][g] : f \in Files} \ {NoRecipe}) <= 1
    BY DEF GenerationIsUniform
  <2>. DEFINE S == {chunks[f][g] : f \in Files} \ {NoRecipe}
  <2>1. CASE S = {}
    BY <2>1, FS_EmptySet
  <2>2. CASE S # {}
    <3>1. PICK r : r \in S
      BY <2>2
    <3>2. S = {r}
      BY <3>1 DEF CoreInv, ChunkInv, Uniform
    <3>3. Cardinality({r}) = 1
      BY FS_Singleton
    <3>. HIDE DEF S
    <3>4. Cardinality(S) <= 1
      BY <3>2, <3>3
    <3>. QED
      BY <3>4 DEF S
  <2>. QED
    BY <2>1, <2>2
<1>. QED
  BY <1>1, CoreHolds, PTL

\* Everything but a switch keeps the generation the store answers from.
LEMMA OnlySwitchMoves ==
    ASSUME TypeInv, Next
    PROVE  store'.gen = store.gen \/ \E j \in Jobs : Switch(j)
<1>. USE DEF TypeInv
<1>1. ASSUME NEW w \in Workers, IngestStep(w) PROVE store' = store
  BY <1>1 DEF IngestStep, ReapZombies, ClaimNext, PollEmpty, LoadContext, CancelRemaining, ReloadContext,
     CommitSkipped, CommitStale, CommitChunks, HandleFailure, HandBackBusy, MemoryTimeout, Restart
<1>2. ASSUME NEW j \in Jobs, FinalizeJob(j) PROVE store' = store \/ Switch(j)
  BY <1>2 DEF FinalizeJob, FinalizeNothing, FinalizeExpired, FinalizeFailed, FinalizeReopen
<1>3. ASSUME NEW w \in Workers, ReembedStep(w) PROVE store' = store \/ \E j \in Jobs : Switch(j)
  <2>1. CASE Finalize(w)
    <3>1. worker[w].job \in Jobs
      BY <2>1 DEF Finalize, SoundRows, Sound
    <3>. QED
      BY <1>2, <2>1, <3>1 DEF Finalize
  <2>. QED
    BY <1>3, <2>1 DEF ReembedStep, ReapItems, ClaimItem, SettleIdle, ReadItem, DropItem, SkipItem,
       CommitItem, HandleItemFailure, FailOpenRechunkItems, HandBackItem, ItemMemoryTimeout
<1>4. Touched.gen = store.gen
  BY DEF Touched, TypeOK, Stores
<1>5. CASE HandlerStep
  BY <1>4, <1>5 DEF HandlerStep, AttachFile, Insert, CreateBatchJob, AttachMember, CreateFails,
     DiscardPartialBatch, CreatorStops
<1>6. CASE SweeperStep
  BY <1>6 DEF SweeperStep, SweepOneStore, SettleOrphanedBatchJob, SweepBatchJob, TypeOK, Stores
<1>7. CASE ReembedSweeperStep
  BY <1>2, <1>7 DEF ReembedSweeperStep, FinalizeElsewhere, SweepReembedJob, DropOrphanedChunks
<1>8. CASE UserStep
  <2>1. ExpiryDue \/ ModifyVectorStore \/ DeleteStoreCascade => store'.gen = store.gen
    BY DEF ExpiryDue, ModifyVectorStore, DeleteStoreCascade, TypeOK, Stores
  <2>. QED
    BY <1>4, <1>8, <2>1 DEF UserStep, AttachAtOnce, Insert, AdmitAttach, DeleteStoreFile,
       TouchStoreActivity, CreateBatch, RequestBatchCancel, RetryJob, RetryFile
<1>9. CASE ReembedUserStep
  BY <1>9 DEF ReembedUserStep, StartReembed, StartRechunk, StartReextract, StartJob,
     CancelStoreJob, RetryStoreJob
<1>10. CASE \/ \E f \in Files : LeaseLapses(f)
            \/ \E j \in Jobs, f \in Files : ItemLeaseLapses(j, f)
            \/ \E w \in Workers : Crash(w)
  BY <1>10 DEF LeaseLapses, ItemLeaseLapses, Crash
<1>. QED
  BY <1>1, <1>3, <1>5, <1>6, <1>7, <1>8, <1>9, <1>10 DEF Next, System, Users, Crashes, WorkerStep

(***************************************************************************)
(* A switch loses no file: what could be found before it can be found      *)
(* after it, in the new generation and with the new recipe (finalizeJob).  *)
(***************************************************************************)
THEOREM SwitchKeepsFiles == Spec => SwitchLosesNoFile
<1>. DEFINE Kept ==
       store'.gen # store.gen =>
         /\ store'.gen = store.gen + 1
         /\ \A f \in Files : chunks[f][store.gen] # NoRecipe => chunks'[f][store'.gen] = store'.recipe
<1>1. TypeInv /\ CoreInv /\ [Next]_vars => [Kept]_vars
  <2>. SUFFICES ASSUME TypeInv, CoreInv, Next, store'.gen # store.gen
                PROVE  /\ store'.gen = store.gen + 1
                       /\ \A f \in Files : chunks[f][store.gen] # NoRecipe =>
                              chunks'[f][store'.gen] = store'.recipe
    OBVIOUS
  <2>1. PICK j \in Jobs : Switch(j)
    BY OnlySwitchMoves
  <2>2. /\ \A f \in Files : Completed(f) => chunks[f][job[j].gen] = job[j].recipe
        /\ store'.gen = job[j].gen /\ store'.recipe = job[j].recipe /\ store'.gen = store.gen + 1
    BY <2>1, SwitchedFiles DEF TypeInv
  <2>3. store.gen \in Generations /\ job[j].gen \in Generations
    BY DEF TypeInv, TypeOK, Stores, JobRows
  <2>4. \A f \in Files : chunks[f][store.gen] # NoRecipe => Completed(f)
    BY <2>3 DEF CoreInv, ChunkInv, ChunksBelongToCompleted
  <2>5. \A f \in Files : chunks'[f][job[j].gen] = chunks[f][job[j].gen]
    BY <2>1, <2>3 DEF Switch, KeepOnly
  <2>. QED
    BY <2>2, <2>4, <2>5
<1>. QED
  BY <1>1, CoreHolds, PTL DEF Spec, SwitchLosesNoFile

(***************************************************************************)
(* The store keeps answering for a file that stays attached: no step but a *)
(* detach, an expiry and a switch takes its chunks out of the generation   *)
(* the search reads, and neither a discard nor a late commit, an orphan    *)
(* sweep nor the start of a re-embed does (discardPartialBatch,            *)
(* commitChunks, commitItem, dropOrphanedGenerations).                      *)
(***************************************************************************)
THEOREM AnswersStay == Spec => ActiveChunksStay
<1>. DEFINE Kept ==
       \A f \in Files :
         /\ store'.status = "live" /\ store'.gen = store.gen
         /\ chunks[f][store.gen] # NoRecipe
         /\ chunks'[f][store.gen] = NoRecipe
         => ~Attached(f)'
<1>1. TypeInv /\ CoreInv /\ [Next]_vars => [Kept]_vars
  <2>. SUFFICES ASSUME TypeInv, CoreInv, Next, NEW f \in Files,
                       store'.gen = store.gen, chunks[f][store.gen] # NoRecipe,
                       chunks'[f][store.gen] = NoRecipe
                PROVE  ~Attached(f)'
    OBVIOUS
  <2>1. TypeInv' /\ CoreInv' /\ Life
    BY NextKeepsTypeInv, NextCore, NextLife
  <2>2. store.gen \in Generations /\ store'.recipe \in Recipes
    BY <2>1 DEF TypeInv, TypeOK, Stores
  <2>3. member[f].status = "completed"
    BY <2>2 DEF CoreInv, ChunkInv, ChunksBelongToCompleted, Completed
  <2>4. member'[f].status \in {"completed", "absent"}
    BY <2>1, <2>3 DEF Life, LifeStep
  <2>5. member'[f].status = "completed" => chunks'[f][store.gen] = store'.recipe
    BY <2>1 DEF CoreInv, ChunkInv, CompletedIsSearchable, Completed
  <2>. QED
    BY <2>2, <2>4, <2>5, ConstantsAssumption DEF Attached
<1>. QED
  BY <1>1, CoreHolds, PTL DEF Spec, ActiveChunksStay

---------------------------------------------------------------------------
(***************************************************************************)
(* What cancelled jobs leave.  Only the active generation and the next one *)
(* hold chunks, and the jobs' targets grow with the jobs; so whatever a    *)
(* cancelled job wrote is either gone with a switch, or in the generation  *)
(* that the newest job owns: it is that job's cancel that must empty it.   *)
(***************************************************************************)
TwoGenerations ==
    \A f \in Files, g \in Generations : chunks[f][g] # NoRecipe => g \in {store.gen, store.gen + 1}

TargetsGrow ==
    /\ \A j \in Jobs : JobExists(j) => job[j].gen <= store.gen + 1
    /\ \A j, k \in Jobs : j < k /\ JobExists(j) /\ JobExists(k) => job[j].gen <= job[k].gen

\* The next generation was a job's that is cancelled, and so is every later one.
Withdrawn(j) ==
    /\ job[j].state = "cancelled" /\ job[j].gen = store.gen + 1
    /\ \A k \in Jobs : k > j /\ JobExists(k) => job[k].state = "cancelled"

WithdrawnIsEmpty ==
    \A j \in Jobs, f \in Files : Withdrawn(j) => chunks[f][job[j].gen] = NoRecipe

LeftInv == TwoGenerations /\ TargetsGrow /\ WithdrawnIsEmpty

ChunksShrink ==
    \A f \in Files, g \in Generations : chunks'[f][g] \in {NoRecipe, chunks[f][g]}

\* The generations a commit writes to.
Fed(g) == g = store.gen \/ \E j \in Jobs : Running(j) /\ job[j].gen = g

QuietJobs ==
    /\ job' = job /\ store'.gen = store.gen
    /\ \A f \in Files, g \in Generations : Fed(g) \/ chunks'[f][g] \in {NoRecipe, chunks[f][g]}

\* A step that changes no job: it may fill the generations of the store and of a running job.
LEMMA QuietLeft ==
    ASSUME TypeInv, CoreInv, LeftInv, QuietJobs
    PROVE  LeftInv'
<1>. USE DEF TypeInv
<1>1. store.gen \in Generations /\ \A j \in Jobs : job[j].gen \in Generations
  BY DEF TypeOK, Stores, JobRows
<1>2. \A g \in Generations : Fed(g) => g \in {store.gen, store.gen + 1}
  BY DEF Fed, CoreInv, JobInv, RunningTarget
<1>3. TwoGenerations'
  BY <1>1, <1>2 DEF QuietJobs, LeftInv, TwoGenerations
<1>4. TargetsGrow'
  BY DEF QuietJobs, LeftInv, TargetsGrow, JobExists
<1>5. WithdrawnIsEmpty'
  <2>. SUFFICES ASSUME NEW j \in Jobs, NEW f \in Files, Withdrawn(j)
                PROVE  chunks'[f][job[j].gen] = NoRecipe
    BY DEF WithdrawnIsEmpty, Withdrawn, QuietJobs, JobExists
  <2>1. chunks[f][job[j].gen] = NoRecipe
    BY DEF LeftInv, WithdrawnIsEmpty
  <2>2. \A k \in Jobs : ~Running(k)
    <3>. SUFFICES ASSUME NEW k \in Jobs, Running(k) PROVE FALSE
      OBVIOUS
    <3>1. ~(k > j) /\ k # j
      BY DEF Withdrawn, Running, JobExists
    <3>2. k < j
      BY <3>1 DEF Jobs
    <3>. QED
      BY <3>2 DEF Withdrawn, CoreInv, JobInv, RunningIsNewest
  <2>3. job[j].gen # store.gen
    BY <1>1 DEF Withdrawn, Generations
  <2>4. ~Fed(job[j].gen)
    BY <2>2, <2>3 DEF Fed
  <2>. QED
    BY <1>1, <2>1, <2>4 DEF QuietJobs
<1>. QED
  BY <1>3, <1>4, <1>5 DEF LeftInv

\* A job changes its state; a cancelled one leaves what its cancel says.
LEMMA StateLeft ==
    ASSUME TypeInv, CoreInv, LeftInv, NEW j \in Jobs, JobExists(j), NEW s,
           s \in {"running", "failed", "cancelled", "gone"},
           job' = [job EXCEPT ![j].state = s], store' = store, ChunksShrink,
           s = "gone" => \A k \in Jobs : k < j => ~JobExists(k),
           \/ s # "cancelled"
           \/ /\ Superseded(j)
              /\ \A k \in Jobs : Running(k) => k >= j
           \/ \A f \in Files : chunks'[f][job[j].gen] = NoRecipe
    PROVE  LeftInv'
<1>. USE DEF TypeInv
<1>1. store.gen \in Generations /\ \A k \in Jobs : job[k].gen \in Generations
  BY DEF TypeOK, Stores, JobRows
<1>2. /\ job'[j].state = s
      /\ \A k \in Jobs : k # j => job'[k] = job[k]
      /\ \A k \in Jobs : job'[k].gen = job[k].gen
  BY JobState
<1>3. \A k \in Jobs : JobExists(k)' => JobExists(k)
  BY <1>2 DEF JobExists
<1>4. TwoGenerations'
  BY DEF LeftInv, TwoGenerations, ChunksShrink
<1>5. TargetsGrow'
  BY <1>2, <1>3 DEF LeftInv, TargetsGrow
<1>6. WithdrawnIsEmpty'
  <2>. SUFFICES ASSUME NEW k \in Jobs, NEW f \in Files, Withdrawn(k)'
                PROVE  chunks'[f][job[k].gen] = NoRecipe
    BY <1>2 DEF WithdrawnIsEmpty
  <2>0. /\ job'[k].state = "cancelled" /\ job[k].gen = store.gen + 1
        /\ \A m \in Jobs : m > k /\ JobExists(m)' => job'[m].state = "cancelled"
    BY <1>2 DEF Withdrawn
  <2>1. ASSUME NEW m \in Jobs, Withdrawn(m), job[m].gen = store.gen + 1
        PROVE  chunks'[f][job[k].gen] = NoRecipe
    BY <1>1, <2>0, <2>1 DEF LeftInv, WithdrawnIsEmpty, ChunksShrink
  <2>2. CASE j < k \/ s # "cancelled"
    <3>1. k # j /\ job[k].state = "cancelled"
      BY <1>2, <2>0, <2>2 DEF Jobs
    <3>2. ~(j > k)
      <4>. SUFFICES ASSUME j > k PROVE FALSE
        OBVIOUS
      <4>1. s # "cancelled"
        BY <2>2 DEF Jobs
      <4>2. s = "gone"
        BY <1>2, <2>0, <4>1 DEF JobExists
      <4>. QED
        BY <3>1, <4>2 DEF JobExists, Jobs
    <3>3. \A m \in Jobs : m > k => job'[m] = job[m]
      BY <1>2, <3>2
    <3>4. Withdrawn(k)
      BY <2>0, <3>1, <3>3 DEF Withdrawn, JobExists
    <3>. QED
      BY <2>0, <2>1, <3>4
  <2>3. CASE k <= j /\ s = "cancelled"
    <3>1. job[j].gen = store.gen + 1
      <4>1. job[j].gen <= store.gen + 1
        BY DEF LeftInv, TargetsGrow
      <4>2. k # j => JobExists(k)
        BY <1>2, <2>0 DEF JobExists
      <4>3. k # j => job[k].gen <= job[j].gen
        BY <2>3, <4>2 DEF LeftInv, TargetsGrow, Jobs
      <4>. QED
        BY <1>1, <2>0, <4>1, <4>3 DEF Generations
    <3>2. CASE Superseded(j) /\ \A m \in Jobs : Running(m) => m >= j
      <4>1. PICK m \in Jobs \ {j} : JobExists(m) /\ (Running(m) \/ m > j)
        BY <3>1, <3>2 DEF Superseded
      <4>2. m > j /\ m > k
        BY <2>3, <3>2, <4>1 DEF Jobs
      <4>3. job'[m] = job[m] /\ job[m].state = "cancelled"
        BY <1>2, <2>0, <4>1, <4>2 DEF JobExists
      <4>4. job[m].gen = store.gen + 1
        <5>1. job[j].gen <= job[m].gen /\ job[m].gen <= store.gen + 1
          BY <4>1, <4>2 DEF LeftInv, TargetsGrow
        <5>. QED
          BY <1>1, <3>1, <5>1 DEF Generations
      <4>5. Withdrawn(m)
        <5>. SUFFICES ASSUME NEW n \in Jobs, n > m, JobExists(n)
                      PROVE  job[n].state = "cancelled"
          BY <4>3, <4>4 DEF Withdrawn
        <5>1. n # j /\ n > k
          BY <4>2 DEF Jobs
        <5>. QED
          BY <1>2, <2>0, <5>1 DEF JobExists
      <4>. QED
        BY <2>1, <4>4, <4>5
    <3>3. CASE \A h \in Files : chunks'[h][job[j].gen] = NoRecipe
      BY <2>0, <3>1, <3>3
    <3>. QED
      BY <2>3, <3>2, <3>3
  <2>. QED
    BY <2>2, <2>3 DEF Jobs
<1>. QED
  BY <1>4, <1>5, <1>6 DEF LeftInv

\* One generation goes.
LEMMA DroppedShrinks ==
    ASSUME TypeOK, NEW g, chunks' = DropGeneration(g)
    PROVE  /\ ChunksShrink
           /\ g \in Generations => \A f \in Files : chunks'[f][g] = NoRecipe
<1>1. \A f \in Files : chunks[f] \in [Generations -> Recipes \cup {NoRecipe}]
  BY DEF TypeOK
<1>2. \A f \in Files : chunks'[f] = [chunks[f] EXCEPT ![g] = NoRecipe]
  BY DEF DropGeneration
<1>. QED
  BY <1>1, <1>2 DEF ChunksShrink

\* A new job owns the next generation, which its insert empties.
LEMMA StartLeft ==
    ASSUME TypeInv, LeftInv, NEW j \in Jobs, NEW r, NEW c, StartJob(j, r, c)
    PROVE  LeftInv'
<1>. USE DEF TypeInv
<1>1. store' = store /\ job[j].state = "unused" /\ chunks' = KeepOnly(store.gen)
  BY DEF StartJob
<1>2. /\ \A k \in Jobs : k # j => job'[k] = job[k]
      /\ job'[j] = [state |-> "running", recipe |-> r, gen |-> store.gen + 1, rechunk |-> c]
  BY DEF StartJob, TypeOK
<1>3. store.gen \in Generations
  BY DEF TypeOK, Stores
<1>4. \A k \in Jobs : k > j => ~JobExists(k)
  BY <1>1 DEF JobOrder, JobExists, Jobs
<1>5. TwoGenerations'
  BY <1>1 DEF TwoGenerations, KeepOnly
<1>6. TargetsGrow'
  <2>1. \A k \in Jobs : JobExists(k)' => k = j \/ (k < j /\ JobExists(k))
    BY <1>2, <1>4 DEF JobExists, Jobs
  <2>2. \A k \in Jobs : JobExists(k)' => job'[k].gen <= store.gen + 1
    BY <1>2, <1>3, <2>1 DEF LeftInv, TargetsGrow, Generations
  <2>3. \A k, m \in Jobs : k < m /\ JobExists(k)' /\ JobExists(m)' => job'[k].gen <= job'[m].gen
    <3>. SUFFICES ASSUME NEW k \in Jobs, NEW m \in Jobs, k < m, JobExists(k)', JobExists(m)'
                  PROVE  job'[k].gen <= job'[m].gen
      OBVIOUS
    <3>1. k # j /\ JobExists(k)
      BY <2>1 DEF Jobs
    <3>2. CASE m = j
      BY <1>2, <2>2, <3>2
    <3>3. CASE m # j
      BY <1>2, <2>1, <3>1, <3>3 DEF LeftInv, TargetsGrow
    <3>. QED
      BY <3>2, <3>3
  <2>. QED
    BY <1>1, <2>2, <2>3 DEF TargetsGrow
<1>7. WithdrawnIsEmpty'
  <2>. SUFFICES ASSUME NEW k \in Jobs, Withdrawn(k)' PROVE FALSE
    BY DEF WithdrawnIsEmpty
  <2>1. k # j
    BY <1>2 DEF Withdrawn
  <2>2. JobExists(k)
    BY <1>2, <2>1 DEF Withdrawn, JobExists
  <2>3. j > k
    BY <1>4, <2>1, <2>2 DEF Jobs
  <2>. QED
    BY <1>2, <2>3 DEF Withdrawn, JobExists
<1>. QED
  BY <1>5, <1>6, <1>7 DEF LeftInv

\* Nothing is left beside the generation that a switch makes the active one.
LEMMA SwitchLeft ==
    ASSUME TypeInv, CoreInv, LeftInv, NEW j \in Jobs, Switch(j)
    PROVE  LeftInv'
<1>. USE DEF TypeInv
<1>1. store'.gen = job[j].gen /\ store'.gen = store.gen + 1
  BY SwitchedFiles
<1>2. chunks' = KeepOnly(job[j].gen) /\ job' = [job EXCEPT ![j].state = "switched"] /\ Running(j)
  BY DEF Switch, Ending
<1>3. /\ job'[j].state = "switched"
      /\ \A k \in Jobs : k # j => job'[k] = job[k]
      /\ \A k \in Jobs : job'[k].gen = job[k].gen
  BY <1>2, JobState
<1>4. store.gen \in Generations /\ \A k \in Jobs : job[k].gen \in Generations
  BY DEF TypeOK, Stores, JobRows
<1>5. \A k \in Jobs : JobExists(k)' => JobExists(k)
  BY <1>2, <1>3 DEF JobExists, Running
<1>6. TwoGenerations'
  BY <1>1, <1>2 DEF TwoGenerations, KeepOnly
<1>7. TargetsGrow'
  BY <1>1, <1>3, <1>4, <1>5 DEF LeftInv, TargetsGrow, Generations
<1>8. WithdrawnIsEmpty'
  <2>. SUFFICES ASSUME NEW k \in Jobs, NEW f \in Files, Withdrawn(k)'
                PROVE  chunks'[f][job[k].gen] = NoRecipe
    BY <1>3 DEF WithdrawnIsEmpty
  <2>1. job[k].gen # job[j].gen
    BY <1>1, <1>3, <1>4 DEF Withdrawn, Generations
  <2>. QED
    BY <1>2, <1>4, <2>1 DEF KeepOnly
<1>. QED
  BY <1>6, <1>7, <1>8 DEF LeftInv

\* A store that is emptied keeps nothing of any job.
LEMMA CascadeLeft ==
    ASSUME TypeInv, DeleteStoreCascade
    PROVE  LeftInv'
<1>. USE DEF TypeInv
<1>1. \A j \in Jobs : ~JobExists(j)'
  <2>1. \A j \in Jobs : job'[j] = IF job[j].state = "unused" THEN job[j]
                                   ELSE [job[j] EXCEPT !.state = "gone"]
    BY DEF DeleteStoreCascade
  <2>2. \A j \in Jobs : job[j] \in JobRows
    BY DEF TypeOK
  <2>. QED
    BY <2>1, <2>2 DEF JobRows, JobExists
<1>2. \A f \in Files, g \in Generations : chunks'[f][g] = NoRecipe
  BY DEF DeleteStoreCascade, Detach, NoChunks
<1>3. \A j \in Jobs : ~Withdrawn(j)'
  BY <1>1 DEF Withdrawn, JobExists
<1>. QED
  BY <1>1, <1>2, <1>3 DEF LeftInv, TwoGenerations, TargetsGrow, WithdrawnIsEmpty

\* finalizeJob ends no job as cancelled, and drops what it ends of an expired store.
LEMMA FinalizeLeft ==
    ASSUME TypeInv, CoreInv, LeftInv, NEW j \in Jobs, FinalizeJob(j)
    PROVE  LeftInv'
<1>. USE DEF TypeInv
<1>1. CASE FinalizeNothing(j) \/ FinalizeReopen(j)
  BY <1>1, QuietLeft DEF FinalizeNothing, FinalizeReopen, QuietJobs
<1>2. CASE FinalizeExpired(j) \/ FinalizeFailed(j)
  <2>1. JobExists(j) /\ store' = store /\ job' = [job EXCEPT ![j].state = "failed"]
    BY <1>2 DEF FinalizeExpired, FinalizeFailed, Ending, Running, JobExists
  <2>2. chunks' = chunks \/ chunks' = DropGeneration(job[j].gen)
    BY <1>2 DEF FinalizeExpired, FinalizeFailed
  <2>3. ChunksShrink
    BY <2>2, DroppedShrinks DEF ChunksShrink
  <2>. QED
    BY <2>1, <2>3, StateLeft
<1>3. CASE Switch(j)
  BY <1>3, SwitchLeft
<1>. QED
  BY <1>1, <1>2, <1>3 DEF FinalizeJob

\* The commit of a file feeds the store's generation and a running job's.
LEMMA IngestLeft ==
    ASSUME TypeInv, CoreInv, LeftInv, NEW w \in Workers, IngestStep(w)
    PROVE  LeftInv'
<1>1. CASE CommitChunks(w)
  <2>. DEFINE h == worker[w].file
  <2>1. \A g \in Generations : Fed(g) \/ Written(h)[g] = chunks[h][g]
    BY DEF Written, Fed
  <2>2. \A f \in Files : chunks'[f] = IF f = h THEN Written(h) ELSE chunks[f]
    BY <1>1 DEF CommitChunks, TypeInv, TypeOK
  <2>3. job' = job /\ store' = store
    BY <1>1 DEF CommitChunks
  <2>. HIDE DEF h
  <2>4. QuietJobs
    BY <2>1, <2>2, <2>3 DEF QuietJobs
  <2>. QED
    BY <2>4, QuietLeft
<1>2. CASE ~CommitChunks(w)
  <2>1. UNCHANGED <<store, job, chunks>>
    BY <1>2 DEF IngestStep, ReapZombies, ClaimNext, PollEmpty, LoadContext, CancelRemaining,
       ReloadContext, CommitSkipped, CommitStale, HandleFailure, HandBackBusy, MemoryTimeout, Restart
  <2>. QED
    BY <2>1, QuietLeft DEF QuietJobs
<1>. QED
  BY <1>1, <1>2

\* A step that changes no job and writes nothing.
LEMMA ShrinkLeft ==
    ASSUME TypeInv, CoreInv, LeftInv, job' = job, store'.gen = store.gen,
           chunks' = chunks \/ ChunksShrink
    PROVE  LeftInv'
<1>1. QuietJobs
  BY DEF QuietJobs, ChunksShrink
<1>. QED
  BY <1>1, QuietLeft

\* Handlers, users and the expiry change no job, but by deleting the store.
LEMMA StoreLeft ==
    ASSUME TypeInv, CoreInv, LeftInv, HandlerStep \/ SweeperStep \/ UserStep
    PROVE  LeftInv'
<1>. USE DEF TypeInv
<1>1. Touched.gen = store.gen
  BY DEF Touched, TypeOK, Stores
<1>2. \A F : Detach(F) => ChunksShrink
  BY DEF Detach, NoChunks, ChunksShrink
<1>3. CASE HandlerStep
  <2>1. job' = job /\ store'.gen = store.gen
    BY <1>1, <1>3 DEF HandlerStep, AttachFile, Insert, CreateBatchJob, AttachMember, CreateFails,
       DiscardPartialBatch, CreatorStops
  <2>2. chunks' = chunks \/ ChunksShrink
    BY <1>2, <1>3 DEF HandlerStep, AttachFile, CreateBatchJob, AttachMember, CreateFails,
       DiscardPartialBatch, CreatorStops
  <2>. QED
    BY <2>1, <2>2, ShrinkLeft
<1>4. CASE SweeperStep
  <2>1. job' = job /\ store'.gen = store.gen
    BY <1>4 DEF SweeperStep, SweepOneStore, SettleOrphanedBatchJob, SweepBatchJob, TypeOK, Stores
  <2>2. SweepOneStore => ChunksShrink
    <3>1. SweepOneStore => chunks' = [f \in Files |-> NoChunks]
      BY DEF SweepOneStore
    <3>2. chunks' = [f \in Files |-> NoChunks] => ChunksShrink
      BY DEF NoChunks, ChunksShrink
    <3>. QED
      BY <3>1, <3>2
  <2>3. chunks' = chunks \/ ChunksShrink
    BY <1>4, <2>2 DEF SweeperStep, SettleOrphanedBatchJob, SweepBatchJob
  <2>. QED
    BY <2>1, <2>3, ShrinkLeft
<1>5. CASE DeleteStoreCascade
  BY <1>5, CascadeLeft
<1>6. CASE UserStep /\ ~DeleteStoreCascade
  <2>1. ExpiryDue \/ ModifyVectorStore => store'.gen = store.gen
    BY DEF ExpiryDue, ModifyVectorStore, TypeOK, Stores
  <2>2. job' = job /\ store'.gen = store.gen
    BY <1>1, <1>6, <2>1 DEF UserStep, AttachAtOnce, Insert, AdmitAttach, DeleteStoreFile,
       TouchStoreActivity, CreateBatch, RequestBatchCancel, RetryJob, RetryFile, ExpiryDue,
       ModifyVectorStore
  <2>3. chunks' = chunks \/ ChunksShrink
    BY <1>2, <1>6 DEF UserStep, AttachAtOnce, AdmitAttach, DeleteStoreFile, TouchStoreActivity,
       CreateBatch, RequestBatchCancel, RetryJob, RetryFile, ExpiryDue, ModifyVectorStore
  <2>. QED
    BY <2>2, <2>3, ShrinkLeft
<1>. QED
  BY <1>3, <1>4, <1>5, <1>6

\* The commit of an item feeds its running job's generation.
LEMMA ReembedWorkerLeft ==
    ASSUME TypeInv, CoreInv, LeftInv, NEW w \in Workers, ReembedStep(w)
    PROVE  LeftInv'
<1>. USE DEF TypeInv
<1>0. worker[w].pc \in {"embedding", "finalize", "reaped"} => worker[w].job \in Jobs
  BY DEF SoundRows, Sound
<1>1. CASE CommitItem(w)
  <2>. DEFINE j == worker[w].job
              h == worker[w].file
  <2>0. j \in Jobs /\ Running(j) /\ job' = job /\ store' = store
    BY <1>0, <1>1 DEF CommitItem, MayCommitItem
  <2>1. chunks' = [chunks EXCEPT ![h][job[j].gen] = job[j].recipe]
    BY <1>1 DEF CommitItem
  <2>. HIDE DEF j, h
  <2>2. \A f \in Files, g \in Generations : g = job[j].gen \/ chunks'[f][g] = chunks[f][g]
    BY <2>1 DEF TypeOK
  <2>3. QuietJobs
    BY <2>0, <2>2 DEF QuietJobs, Fed
  <2>. QED
    BY <2>3, QuietLeft
<1>2. CASE Finalize(w)
  BY <1>0, <1>2, FinalizeLeft DEF Finalize
<1>3. CASE ~CommitItem(w) /\ ~Finalize(w)
  <2>1. UNCHANGED <<store, job, chunks>>
    BY <1>3 DEF ReembedStep, ReapItems, ClaimItem, SettleIdle, ReadItem, DropItem, SkipItem,
       HandleItemFailure, FailOpenRechunkItems, HandBackItem, ItemMemoryTimeout
  <2>. QED
    BY <2>1, ShrinkLeft
<1>. QED
  BY <1>1, <1>2, <1>3

\* The cancel of a superseded job drops nothing: the newer job's own end accounts for it.
LEMMA ReembedUserLeft ==
    ASSUME TypeInv, CoreInv, LeftInv, ReembedUserStep
    PROVE  LeftInv'
<1>. USE DEF TypeInv
<1>1. ASSUME NEW j \in Jobs, StartReembed(j) \/ StartRechunk(j) \/ StartReextract(j)
      PROVE  LeftInv'
  BY <1>1, StartLeft DEF StartReembed, StartRechunk, StartReextract
<1>2. ASSUME NEW j \in Jobs, CancelStoreJob(j) PROVE LeftInv'
  <2>1. JobExists(j) /\ store' = store /\ job' = [job EXCEPT ![j].state = "cancelled"]
    BY <1>2 DEF CancelStoreJob, JobExists
  <2>2. CASE Superseded(j)
    <3>1. \A k \in Jobs : Running(k) => k >= j
      BY <2>1 DEF CoreInv, JobInv, RunningIsNewest, JobExists, Jobs
    <3>2. ChunksShrink
      BY <1>2, <2>2 DEF CancelStoreJob, ChunksShrink
    <3>. QED
      BY <2>1, <2>2, <3>1, <3>2, StateLeft
  <2>3. CASE ~Superseded(j)
    <3>1. chunks' = DropGeneration(job[j].gen) /\ job[j].gen \in Generations
      BY <1>2, <2>3 DEF CancelStoreJob, TypeOK, JobRows
    <3>2. ChunksShrink /\ \A f \in Files : chunks'[f][job[j].gen] = NoRecipe
      BY <3>1, DroppedShrinks
    <3>. QED
      BY <2>1, <3>2, StateLeft
  <2>. QED
    BY <2>2, <2>3
<1>3. ASSUME NEW j \in Jobs, RetryStoreJob(j) PROVE LeftInv'
  <2>1. /\ JobExists(j) /\ store' = store /\ job' = [job EXCEPT ![j].state = "running"]
        /\ ChunksShrink
    BY <1>3 DEF RetryStoreJob, JobExists, ChunksShrink
  <2>. QED
    BY <2>1, StateLeft
<1>. QED
  BY <1>1, <1>2, <1>3 DEF ReembedUserStep

LEMMA ReembedSweeperLeft ==
    ASSUME TypeInv, CoreInv, LeftInv, ReembedSweeperStep
    PROVE  LeftInv'
<1>. USE DEF TypeInv
<1>1. ASSUME NEW j \in Jobs, FinalizeElsewhere(j) PROVE LeftInv'
  BY <1>1, FinalizeLeft DEF FinalizeElsewhere
<1>2. ASSUME NEW j \in Jobs, SweepReembedJob(j) PROVE LeftInv'
  <2>1. /\ JobExists(j) /\ store' = store /\ job' = [job EXCEPT ![j].state = "gone"]
        /\ ChunksShrink /\ \A k \in Jobs : k < j => ~JobExists(k)
    BY <1>2 DEF SweepReembedJob, JobExists, ChunksShrink
  <2>. QED
    BY <2>1, StateLeft
<1>3. ASSUME NEW f \in Files, NEW g \in Generations, DropOrphanedChunks(f, g) PROVE LeftInv'
  <2>1. job' = job /\ store' = store /\ chunks' = [chunks EXCEPT ![f][g] = NoRecipe]
    BY <1>3 DEF DropOrphanedChunks
  <2>2. ChunksShrink
    BY <2>1 DEF ChunksShrink, TypeOK
  <2>. QED
    BY <2>1, <2>2, ShrinkLeft
<1>. QED
  BY <1>1, <1>2, <1>3 DEF ReembedSweeperStep

LEMMA NextLeft == TypeInv /\ CoreInv /\ LeftInv /\ [Next]_vars => LeftInv'
<1>. SUFFICES ASSUME TypeInv, CoreInv, LeftInv, [Next]_vars PROVE LeftInv'
  OBVIOUS
<1>1. ASSUME NEW w \in Workers, WorkerStep(w) PROVE LeftInv'
  BY <1>1, IngestLeft, ReembedWorkerLeft DEF WorkerStep
<1>2. CASE HandlerStep \/ SweeperStep \/ UserStep
  BY <1>2, StoreLeft
<1>3. CASE ReembedSweeperStep
  BY <1>3, ReembedSweeperLeft
<1>4. CASE ReembedUserStep
  BY <1>4, ReembedUserLeft
<1>5. CASE \/ \E f \in Files : LeaseLapses(f)
           \/ \E j \in Jobs, f \in Files : ItemLeaseLapses(j, f)
           \/ \E w \in Workers : Crash(w)
           \/ UNCHANGED vars
  <2>1. UNCHANGED <<store, job, chunks>>
    BY <1>5 DEF LeaseLapses, ItemLeaseLapses, Crash, vars
  <2>. QED
    BY <2>1, ShrinkLeft
<1>. QED
  BY <1>1, <1>2, <1>3, <1>4, <1>5 DEF Next, System, Users, Crashes

(***************************************************************************)
(* A cancelled job leaves no chunks that nobody else accounts for, however *)
(* its items' commits, its retries and its successors fall around the      *)
(* cancel (cancelStoreJob, isSuperseded, insertStoreJob, finalizeJob).     *)
(***************************************************************************)
THEOREM CancelLeaves == Spec => []CancelLeavesNothing
<1>1. Init => LeftInv
  BY DEF Init, LeftInv, TwoGenerations, NoChunks, TargetsGrow, WithdrawnIsEmpty, Withdrawn, JobExists
<1>2. TypeInv /\ CoreInv /\ LeftInv /\ [Next]_vars => LeftInv'
  BY NextLeft
<1>3. TypeInv /\ LeftInv => CancelLeavesNothing
  <2>. SUFFICES ASSUME TypeInv, LeftInv, NEW j \in Jobs, NEW f \in Files,
                       job[j].state = "cancelled", Orphaned(job[j].gen)
                PROVE  chunks[f][job[j].gen] = NoRecipe
    BY DEF CancelLeavesNothing
  <2>1. job[j].gen \in Generations /\ store.gen \in Generations
    BY DEF TypeInv, TypeOK, JobRows, Stores
  <2>2. CASE job[j].gen # store.gen + 1
    BY <2>1, <2>2 DEF LeftInv, TwoGenerations, Orphaned
  <2>3. CASE job[j].gen = store.gen + 1
    <3>1. ASSUME NEW k \in Jobs, k > j, JobExists(k) PROVE job[k].state = "cancelled"
      <4>1. job[j].gen <= job[k].gen /\ job[k].gen <= store.gen + 1
        BY <3>1 DEF LeftInv, TargetsGrow, JobExists, Jobs
      <4>2. job[k].gen = job[j].gen
        BY <2>1, <2>3, <4>1 DEF TypeInv, TypeOK, JobRows, Generations
      <4>. QED
        BY <3>1, <4>2 DEF Orphaned, Untargeted
    <3>. QED
      BY <2>3, <3>1 DEF LeftInv, WithdrawnIsEmpty, Withdrawn
  <2>. QED
    BY <2>2, <2>3
<1>. QED
  BY <1>1, <1>2, <1>3, CoreHolds, PTL DEF Spec
=============================================================================
