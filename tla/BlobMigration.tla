--------------------------- MODULE BlobMigration ---------------------------
(***************************************************************************)
(* Moving every blob to another storage while files are uploaded, read and *)
(* deleted: a job with one item per blob, worked off by the migration loop *)
(* of every gateway, with cancel and retry.  A loop copies without a lock  *)
(* and switches the blob's row under its locks; whatever happened between  *)
(* shows only there.                                                       *)
(***************************************************************************)
EXTENDS Blobs

CONSTANTS
    MaxMoves,     \* bound: migrations started in one behaviour
    MaxAttempts,  \* ingestion.maxRetries
    NoMove,
    MoverFaults   \* what may go wrong with a migration loop, see below

MoverFaultKinds == {
    "crash",      \* its gateway dies
    "request",    \* a storage request fails
    "corrupt",    \* the bytes it reads do not match their hash
    "busy",       \* the database pool has no connection to give
    "stray" }     \* a PUT fails, or the discard of its copy: nobody queues it

Moves == 1..MaxMoves    \* in the order of their start

ASSUME MoveAssumption ==
    /\ MaxMoves \in Nat
    /\ MaxAttempts \in Nat \ {0}
    /\ NoMove \notin Moves
    /\ MoverFaults \subseteq MoverFaultKinds

VARIABLES
    move,    \* fs_jobs rows of kind blob_migration
    item,    \* fs_blob_migration_items
    mover    \* what each migration loop is doing

moveVars == <<move, item, mover>>
vars == <<blobVars, moveVars>>

MoveRows == [state : {"none", "running", "finished", "cancelled"}, target : Storages]
NoMoveRow == [state |-> "none", target |-> "db"]

\* A claim carries a time of its own, so that no two are alike; here its owner
\* stands for it, and lapsed says that its lease is over.
Items == [status : {"none", "open", "completed", "failed", "cancelled"},
          claim : Movers \cup {Nobody}, lapsed : BOOLEAN, attempts : 0..MaxAttempts]
NoItem == [status |-> "none", claim |-> Nobody, lapsed |-> FALSE, attempts |-> 0]
OpenItem == [NoItem EXCEPT !.status = "open"]

\* copied: it has the bytes; put: it has written the target's object; busy: a
\* busy pool ended its attempt.
MoverRows == [pc : {"idle", "row", "get", "cancel", "put", "switch", "verify", "discard",
                    "failed", "finalize"},
              move : Moves \cup {NoMove}, sha : Shas \cup {Nobody},
              copied : BOOLEAN, put : BOOLEAN, busy : BOOLEAN]
IdleMover == [pc |-> "idle", move |-> NoMove, sha |-> Nobody, copied |-> FALSE, put |-> FALSE,
              busy |-> FALSE]

MoveTypeOK ==
    /\ BlobTypeOK
    /\ move \in [Moves -> MoveRows]
    /\ item \in [Moves -> [Shas -> Items]]
    /\ mover \in [Movers -> MoverRows]

Init ==
    /\ BlobInit
    /\ move = [m \in Moves |-> NoMoveRow]
    /\ item = [m \in Moves |-> [sha \in Shas |-> NoItem]]
    /\ mover = [w \in Movers |-> IdleMover]

---------------------------------------------------------------------------
(* Helpers *)

Started(m) == move[m].state # "none"
Newer(m) == \E n \in Moves : n > m /\ Started(n)
\* Seeded fault: an item that a loop works on is not counted.
Open_Unclaimed(m) ==
    {sha \in Shas : item[m][sha].status = "open" /\ item[m][sha].claim = Nobody}

Open(m) == {sha \in Shas : item[m][sha].status = "open"}

\* No claim, or one whose lease is over.
Claimable(i) == i.status = "open" /\ (i.claim = Nobody \/ i.lapsed)

\* The item a loop works on, and its claim of it.
Target(w) == move[mover[w].move].target
ItemOf(w) == item[mover[w].move][mover[w].sha]
Claims(w) == ItemOf(w).claim = w

Mine(w) == Claims(w) /\ ItemOf(w).status = "open"

\* A loop that verifies its copy holds the lock of its item.
ItemFree(m, sha) ==
    \A w \in Movers : ~(mover[w].pc = "verify" /\ mover[w].move = m /\ mover[w].sha = sha)

Closed(i, status) == [i EXCEPT !.status = status, !.claim = Nobody, !.lapsed = FALSE]

\* The queueing of the object of a content, at the key of today.
Garbage(sha) == [garbage EXCEPT ![sha].key = Queued]
\* The cancelling of every entry of the content.
NoGarbage(sha) == [garbage EXCEPT ![sha] = [l \in Locations |-> NoEntry]]

To(w, pc) == mover' = [mover EXCEPT ![w].pc = pc]

---------------------------------------------------------------------------
(* Start, cancel, retry *)

\* One runs at a time; nothing to move is refused.
StartMove(m, target) ==
    LET moved == {sha \in Shas : row[sha].storage \in Storages \ {target}} IN
    /\ ~Started(m)
    /\ \A n \in 1..(m - 1) : Started(n)
    /\ \A n \in Moves : move[n].state # "running"
    /\ moved # {}
    /\ move' = [move EXCEPT ![m] = [state |-> "running", target |-> target]]
    /\ item' = [item EXCEPT ![m] =
                    [sha \in Shas |-> IF sha \in moved THEN OpenItem ELSE NoItem]]
    /\ UNCHANGED <<blobVars, mover>>

CancelMove(m) ==
    /\ move[m].state = "running"
    /\ \A sha \in Open(m) : ItemFree(m, sha)
    /\ item' = [item EXCEPT ![m] = [sha \in Shas |->
                    IF sha \in Open(m) THEN [@[sha] EXCEPT !.status = "cancelled"] ELSE @[sha]]]
    /\ move' = [move EXCEPT ![m].state = "cancelled"]
    /\ UNCHANGED <<blobVars, mover>>

RetryMove(m) ==
    LET failed == {sha \in Shas : item[m][sha].status = "failed"} IN
    /\ move[m].state = "finished"
    /\ ~Newer(m)
    /\ failed # {}
    /\ item' = [item EXCEPT ![m] =
                    [sha \in Shas |-> IF sha \in failed THEN OpenItem ELSE @[sha]]]
    /\ move' = [move EXCEPT ![m].state = "running"]
    /\ UNCHANGED <<blobVars, mover>>

---------------------------------------------------------------------------
(* One item *)

\* Seeded fault: the attempts are not looked at.
Claim_NoBudget(w, m, sha) ==
    /\ mover[w].pc = "idle"
    /\ move[m].state = "running"
    /\ Claimable(item[m][sha])
    /\ ItemFree(m, sha)
    /\ item' = [item EXCEPT ![m][sha] =
                    [item[m][sha] EXCEPT !.claim = w, !.lapsed = FALSE, !.attempts = @ + 1]]
    /\ mover' = [mover EXCEPT ![w] = [IdleMover EXCEPT !.pc = "row", !.move = m, !.sha = sha]]
    /\ UNCHANGED <<blobVars, move>>

Claim(w, m, sha) ==
    /\ mover[w].pc = "idle"
    /\ move[m].state = "running"
    /\ Claimable(item[m][sha])
    /\ ItemFree(m, sha)
    /\ item[m][sha].attempts < MaxAttempts
    /\ item' = [item EXCEPT ![m][sha] =
                    [item[m][sha] EXCEPT !.claim = w, !.lapsed = FALSE, !.attempts = @ + 1]]
    /\ mover' = [mover EXCEPT ![w] = [IdleMover EXCEPT !.pc = "row", !.move = m, !.sha = sha]]
    /\ UNCHANGED <<blobVars, move>>

\* Looks the blob's row up, if its item is still open.  A db row comes with
\* its bytes.
ReadRow(w) ==
    LET sha == mover[w].sha IN
    /\ mover[w].pc = "row"
    /\ \/ /\ ItemOf(w).status # "open"
          /\ mover' = [mover EXCEPT ![w] = IdleMover]
       \/ /\ ItemOf(w).status = "open"
          /\ row[sha].storage \in {"none", Target(w)}
          /\ To(w, "switch")
       \/ /\ ItemOf(w).status = "open"
          /\ Target(w) = "s3" /\ row[sha].storage = "db"
          /\ mover' = [mover EXCEPT ![w].pc = "cancel", ![w].copied = TRUE]
       \/ /\ ItemOf(w).status = "open"
          /\ Target(w) = "db" /\ row[sha].storage = "s3"
          /\ To(w, "get")
    /\ UNCHANGED <<blobVars, move, item>>

GetSource(w) ==
    /\ mover[w].pc = "get"
    /\ mover' = [mover EXCEPT ![w] = IF @.sha \in objects
                                     THEN [@ EXCEPT !.pc = "switch", !.copied = TRUE]
                                     ELSE [@ EXCEPT !.pc = "failed"]]
    /\ UNCHANGED <<blobVars, move, item>>

\* A delete left over from an earlier move would take the copy away.
CancelStaleGarbage(w) ==
    LET sha == mover[w].sha IN
    /\ mover[w].pc = "cancel"
    /\ lock[sha] = Nobody
    /\ garbage' = NoGarbage(sha)
    /\ To(w, "put")
    /\ UNCHANGED <<backend, row, objects, file, lock, up, sweep, read, move, item>>

\* Without a lock.
PutCopy(w) ==
    /\ mover[w].pc = "put"
    /\ objects' = objects \cup {mover[w].sha}
    /\ mover' = [mover EXCEPT ![w].pc = "switch", ![w].put = TRUE]
    /\ UNCHANGED <<backend, row, garbage, file, lock, up, sweep, read, move, item>>

---------------------------------------------------------------------------
(* The switch *)

Switches(w) == mover[w].pc = "switch" /\ lock[mover[w].sha] = Nobody

\* Seeded fault: an attempt that lost its claim leaves its copy.
QueueCopy_Mine(w) ==
    garbage' = IF Mine(w) /\ mover[w].put /\ row[mover[w].sha].storage # Target(w)
               THEN Garbage(mover[w].sha) ELSE garbage

\* A copy that no row uses.
QueueCopy(w) ==
    garbage' = IF mover[w].put /\ row[mover[w].sha].storage # Target(w)
               THEN Garbage(mover[w].sha) ELSE garbage

\* Cancelled, claimed anew or given up since its claim: hands off.
SwitchSkipped(w) ==
    /\ Switches(w)
    /\ ~Mine(w)
    /\ QueueCopy(w)
    /\ To(w, "finalize")
    /\ UNCHANGED <<backend, row, objects, file, lock, up, sweep, read, move, item>>

SwitchVanished(w) ==
    /\ Switches(w)
    /\ Mine(w)
    /\ row[mover[w].sha] = NoRow
    /\ QueueCopy(w)
    /\ item' = [item EXCEPT ![mover[w].move][mover[w].sha] = NoItem]
    /\ To(w, "finalize")
    /\ UNCHANGED <<backend, row, objects, file, lock, up, sweep, read, move>>

SwitchDone(w) ==
    LET sha == mover[w].sha IN
    /\ Switches(w)
    /\ Mine(w)
    /\ row[sha].storage = Target(w)
    /\ item' = [item EXCEPT ![mover[w].move][sha] = Closed(@, "completed")]
    /\ To(w, "finalize")
    /\ UNCHANGED <<blobVars, move>>

Misplaced(w) == row[mover[w].sha] # NoRow /\ row[mover[w].sha].storage # Target(w)

\* The row came back to the source after the loop had found nothing to copy.
SwitchWithoutCopy(w) ==
    /\ Switches(w)
    /\ Mine(w)
    /\ Misplaced(w)
    /\ ~mover[w].copied
    /\ To(w, "failed")
    /\ UNCHANGED <<blobVars, move, item>>

SwitchToDb(w) ==
    LET sha == mover[w].sha IN
    /\ Switches(w)
    /\ Mine(w)
    /\ Misplaced(w)
    /\ mover[w].copied
    /\ Target(w) = "db"
    /\ row' = [row EXCEPT ![sha].storage = "db", ![sha].location = "key"]
    /\ garbage' = [garbage EXCEPT ![sha][row[sha].location] = Queued]
    /\ item' = [item EXCEPT ![mover[w].move][sha] = Closed(@, "completed")]
    /\ To(w, "finalize")
    /\ UNCHANGED <<backend, objects, file, lock, up, sweep, read, move>>

StartVerify(w) ==
    LET sha == mover[w].sha IN
    /\ Switches(w)
    /\ Mine(w)
    /\ Misplaced(w)
    /\ mover[w].put
    /\ lock' = [lock EXCEPT ![sha] = w]
    /\ To(w, "verify")
    /\ UNCHANGED <<backend, row, garbage, objects, file, up, sweep, read, move, item>>

\* Seeded fault: the copy is not read back.
Verified_Unchecked(w) ==
    LET sha == mover[w].sha IN
    /\ mover[w].pc = "verify"
    /\ row' = [row EXCEPT ![sha].storage = "s3", ![sha].location = "key"]
    /\ garbage' = NoGarbage(sha)
    /\ item' = [item EXCEPT ![mover[w].move][sha] = Closed(@, "completed")]
    /\ lock' = [lock EXCEPT ![sha] = Nobody]
    /\ To(w, "finalize")
    /\ UNCHANGED <<backend, objects, file, up, sweep, read, move>>

\* The copy is read back under the locks before the row points at it.
Verified(w) ==
    LET sha == mover[w].sha IN
    /\ mover[w].pc = "verify"
    /\ sha \in objects
    /\ row' = [row EXCEPT ![sha].storage = "s3", ![sha].location = "key"]
    /\ garbage' = NoGarbage(sha)
    /\ item' = [item EXCEPT ![mover[w].move][sha] = Closed(@, "completed")]
    /\ lock' = [lock EXCEPT ![sha] = Nobody]
    /\ To(w, "finalize")
    /\ UNCHANGED <<backend, objects, file, up, sweep, read, move>>

VerifyFails(w) ==
    LET sha == mover[w].sha IN
    /\ mover[w].pc = "verify"
    /\ sha \notin objects \/ "request" \in MoverFaults
    /\ lock' = [lock EXCEPT ![sha] = Nobody]
    /\ To(w, "discard")
    /\ UNCHANGED <<backend, row, garbage, objects, file, up, sweep, read, move, item>>

---------------------------------------------------------------------------
(* A failed attempt *)

\* A PUT that failed may have been carried out all the same.
RequestFails(w) ==
    /\ \/ /\ "request" \in MoverFaults
          /\ mover[w].pc = "get"
          /\ UNCHANGED objects
       \/ /\ "stray" \in MoverFaults
          /\ mover[w].pc = "put"
          /\ \/ UNCHANGED objects
             \/ objects' = objects \cup {mover[w].sha}
    /\ To(w, "failed")
    /\ UNCHANGED <<backend, row, garbage, file, lock, up, sweep, read, move, item>>

DiscardCopy(w) ==
    LET sha == mover[w].sha IN
    /\ mover[w].pc = "discard"
    /\ \/ /\ lock[sha] = Nobody
          /\ QueueCopy(w)
       \/ /\ "stray" \in MoverFaults
          /\ UNCHANGED garbage
    /\ To(w, "failed")
    /\ UNCHANGED <<backend, row, objects, file, lock, up, sweep, read, move, item>>

\* No connection to be had: the copy, if any, is given up.
PoolBusy(w) ==
    /\ "busy" \in MoverFaults
    /\ mover[w].pc \in {"row", "cancel", "switch"}
    /\ mover' = [mover EXCEPT ![w].pc = IF mover[w].put THEN "discard" ELSE "failed",
                              ![w].busy = TRUE]
    /\ UNCHANGED <<blobVars, move, item>>

\* Every outcome is written only while the claim holds: handed back without
\* counting the attempt, open for the next one, or failed for good.
Outcome(w, i) ==
    item' = [item EXCEPT ![mover[w].move][mover[w].sha] = i]

LosesClaim(w) ==
    /\ mover[w].pc = "failed"
    /\ ~Mine(w)
    /\ mover' = [mover EXCEPT ![w] = IdleMover]
    /\ UNCHANGED <<blobVars, move, item>>

HandBack(w) ==
    /\ mover[w].pc = "failed"
    /\ mover[w].busy
    /\ Mine(w)
    /\ Outcome(w, [Closed(ItemOf(w), "open") EXCEPT !.attempts = IF @ = 0 THEN 0 ELSE @ - 1])
    /\ mover' = [mover EXCEPT ![w] = IdleMover]
    /\ UNCHANGED <<blobVars, move>>

AttemptFails(w) ==
    /\ mover[w].pc = "failed"
    /\ ~mover[w].busy
    /\ Mine(w)
    /\ IF ItemOf(w).attempts >= MaxAttempts
       THEN Outcome(w, Closed(ItemOf(w), "failed")) /\ To(w, "finalize")
       ELSE /\ Outcome(w, Closed(ItemOf(w), "open"))
            /\ mover' = [mover EXCEPT ![w] = IdleMover]
    /\ UNCHANGED <<blobVars, move>>

\* Bytes that do not match their hash will not match it the next time.
SourceIsCorrupt(w) ==
    /\ "corrupt" \in MoverFaults
    /\ mover[w].pc \in {"get", "cancel"}
    /\ IF Mine(w)
       THEN Outcome(w, Closed(ItemOf(w), "failed")) /\ To(w, "finalize")
       ELSE /\ mover' = [mover EXCEPT ![w] = IdleMover]
            /\ UNCHANGED item
    /\ UNCHANGED <<blobVars, move>>

---------------------------------------------------------------------------
(* The end of a job *)

\* The job row is locked and its items are counted by a later statement.
Finalized(m) ==
    move' = IF move[m].state = "running" /\ Open(m) = {}
            THEN [move EXCEPT ![m].state = "finished"] ELSE move

Finalize(w) ==
    /\ mover[w].pc = "finalize"
    /\ Finalized(mover[w].move)
    /\ mover' = [mover EXCEPT ![w] = IdleMover]
    /\ UNCHANGED <<blobVars, item>>

\* A restart came between a job's last item and its end.
SettleIdle(w, m) ==
    /\ mover[w].pc = "idle"
    /\ move[m].state = "running"
    /\ Open(m) = {}
    /\ Finalized(m)
    /\ UNCHANGED <<blobVars, item, mover>>

\* Seeded fault: only items without a claim are reaped.
ReapZombies_Unclaimed(w, m) ==
    LET dead == {sha \in Open(m) : item[m][sha].claim = Nobody
                                   /\ item[m][sha].attempts >= MaxAttempts} IN
    /\ mover[w].pc = "idle"
    /\ dead # {}
    /\ item' = [item EXCEPT ![m] = [sha \in Shas |->
                    IF sha \in dead THEN Closed(@[sha], "failed") ELSE @[sha]]]
    /\ mover' = [mover EXCEPT ![w] = [IdleMover EXCEPT !.pc = "finalize", !.move = m]]
    /\ UNCHANGED <<blobVars, move>>

\* Items whose worker died in the last attempt.
ReapZombies(w, m) ==
    LET dead == {sha \in Shas : Claimable(item[m][sha]) /\ item[m][sha].attempts >= MaxAttempts} IN
    /\ mover[w].pc = "idle"
    /\ dead # {}
    /\ \A sha \in dead : ItemFree(m, sha)
    /\ item' = [item EXCEPT ![m] = [sha \in Shas |->
                    IF sha \in dead THEN Closed(@[sha], "failed") ELSE @[sha]]]
    /\ mover' = [mover EXCEPT ![w] = [IdleMover EXCEPT !.pc = "finalize", !.move = m]]
    /\ UNCHANGED <<blobVars, move>>

---------------------------------------------------------------------------
(* Leases and crashes *)

ItemLeaseLapses(m, sha) ==
    /\ item[m][sha].status = "open"
    /\ item[m][sha].claim # Nobody
    /\ ~item[m][sha].lapsed
    /\ item' = [item EXCEPT ![m][sha].lapsed = TRUE]
    /\ UNCHANGED <<blobVars, move, mover>>

MoverCrashes(w) ==
    /\ "crash" \in MoverFaults
    /\ mover[w].pc # "idle"
    /\ lock' = [sha \in Shas |-> IF lock[sha] = w THEN Nobody ELSE lock[sha]]
    /\ mover' = [mover EXCEPT ![w] = IdleMover]
    /\ UNCHANGED <<backend, row, garbage, objects, file, up, sweep, read, move, item>>

---------------------------------------------------------------------------

Work(w) ==
    \/ ReadRow(w) \/ GetSource(w) \/ CancelStaleGarbage(w) \/ PutCopy(w)
    \/ SwitchSkipped(w) \/ SwitchVanished(w) \/ SwitchDone(w)
    \/ SwitchWithoutCopy(w) \/ SwitchToDb(w) \/ StartVerify(w) \/ Verified(w) \/ VerifyFails(w)
    \/ RequestFails(w) \/ SourceIsCorrupt(w) \/ PoolBusy(w) \/ DiscardCopy(w)
    \/ LosesClaim(w) \/ HandBack(w) \/ AttemptFails(w)
    \/ Finalize(w)

MoverStep(w) ==
    \/ Work(w)
    \/ \E m \in Moves, sha \in Shas : Claim(w, m, sha)
    \/ \E m \in Moves : SettleIdle(w, m) \/ ReapZombies(w, m)
    \/ MoverCrashes(w)

Admin ==
    \/ \E m \in Moves, target \in Storages : StartMove(m, target)
    \/ \E m \in Moves : CancelMove(m) \/ RetryMove(m)

Next ==
    \/ BlobNext /\ UNCHANGED moveVars
    \/ Admin
    \/ \E w \in Movers : MoverStep(w)
    \/ \E m \in Moves, sha \in Shas : ItemLeaseLapses(m, sha)

Spec == Init /\ [][Next]_vars

---------------------------------------------------------------------------
(* Safety *)

(***************************************************************************)
(* A job that ended, by itself or by a cancel, has no item that a loop     *)
(* could still claim or complete.                                          *)
(***************************************************************************)
EndedMoveIsClosed == \A m \in Moves : move[m].state # "running" => Open(m) = {}

(***************************************************************************)
(* Once a cancel or the end of a job is answered, no loop that still works *)
(* for it moves a blob: a row changes its storage only for an open item of *)
(* a running job, and to that job's target.                                *)
(***************************************************************************)
MovesOnlyWhileRunning == [][
    \A sha \in Shas :
        (row[sha] # NoRow /\ row'[sha] # NoRow /\ row'[sha].storage # row[sha].storage) =>
            \E m \in Moves : /\ move[m].state = "running"
                             /\ item[m][sha].status = "open"
                             /\ move[m].target = row'[sha].storage]_vars

(***************************************************************************)
(* A job that ended without a failed item has left no blob behind,         *)
(* released ones included, when new blobs go to its target too.            *)
(***************************************************************************)
MoveIsComplete ==
    \A m \in Moves :
        /\ move[m].state = "finished"
        /\ ~Newer(m)
        /\ Backends = {move[m].target}
        /\ \A sha \in Shas : item[m][sha].status # "failed"
        => \A sha \in Shas : row[sha].storage \in {"none", move[m].target}

\* An object that is nobody's, and that no loop has still to write, switch or
\* discard either.
Forgotten(sha) ==
    /\ Stray(sha)
    /\ \A w \in Movers : mover[w].sha = sha =>
           /\ mover[w].pc # "put"
           /\ ~(mover[w].put /\ mover[w].pc \in {"switch", "discard"})

LosesCopy(w) ==
    \/ MoverCrashes(w)
    \/ RequestFails(w) /\ mover[w].pc = "put"
    \/ DiscardCopy(w) /\ UNCHANGED garbage

\* Such a loss may come between a delete and its COMMIT.
LostMeanwhile(sha) ==
    sha \in objects /\ \E s \in Sweepers : sweep[s].sha = sha /\ (CommitSweep(s) \/ CommitCollect(s))

(***************************************************************************)
(* No copy is forgotten: an object that no row leads to is in the garbage, *)
(* or a loop that took it out of the garbage has still to write, switch or *)
(* discard it.  Only a loop that dies meanwhile, a PUT or a discard that   *)
(* fails, or a retain that ends after its PUT leaves one behind.           *)
(***************************************************************************)
CopiesStrayByLossOnly == [][
    \A sha \in Shas : Forgotten(sha)' =>
        \/ Forgotten(sha)
        \/ \E u \in Uploaders : RetainFails(u)
        \/ \E w \in Movers : LosesCopy(w)
        \/ LostMeanwhile(sha)]_vars

---------------------------------------------------------------------------
(* Liveness *)

\* Loops run for ever, a gateway does not die in every attempt, waiters for a
\* lock are served in turn, and whoever holds one goes on.
MoveFairness ==
    /\ \A w \in Movers :
           /\ SF_vars(Work(w))
           /\ \A m \in Moves : WF_vars(SettleIdle(w, m) \/ ReapZombies(w, m))
           /\ \A m \in Moves, sha \in Shas : SF_vars(Claim(w, m, sha))
    /\ \A m \in Moves, sha \in Shas : WF_vars(ItemLeaseLapses(m, sha))

FairMoveSpec == Spec /\ MoveFairness /\ BlobFairness

(***************************************************************************)
(* A running migration ends, whatever its loops lose: leases lapse, items  *)
(* whose attempts are used up are reaped, an idle job is settled.          *)
(***************************************************************************)
MovesEnd == \A m \in Moves : move[m].state = "running" ~> move[m].state # "running"
============================================================================
