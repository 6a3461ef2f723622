---------------------------- MODULE BulkReembed ----------------------------
(***************************************************************************)
(* Re-embedding many stores at once: a bulk job, its parent row, and one   *)
(* child job per store.  Nothing but the children says whether the bulk    *)
(* runs, so each transaction that ends a child asks whether it was the     *)
(* last one; a retry opens child and parent again, and the history sweep   *)
(* deletes both when they are old.                                         *)
(*                                                                         *)
(* Granularity: a statement of a READ COMMITTED transaction.  A statement  *)
(* sees what was committed when it began and what its own transaction      *)
(* wrote, and waits for a row that another transaction has locked.  What   *)
(* `row` says is committed; what a transaction is about to commit is in    *)
(* `tx`.                                                                   *)
(*                                                                         *)
(* How a child's files are re-embedded is Reembed's; here it runs until    *)
(* all its items are done or some have failed.                             *)
(***************************************************************************)
EXTENDS Naturals, FiniteSets, FiniteSetsExt

CONSTANTS
    Bulks,       \* bulk jobs started in one behaviour
    Stores,      \* stores, by their place in the order of ids
    Clients,     \* requests of users at a time
    Loops,       \* worker loops and sweepers that end jobs
    Histories,   \* history sweeps, one per gateway
    MaxRetries,  \* transactions that set out to open a job again
    NoBulk, Nobody

ASSUME BulkAssumption ==
    /\ Stores \subseteq Nat \ {0}
    /\ IsFiniteSet(Stores)
    /\ NoBulk \notin Bulks
    /\ Clients \cap Loops = {} /\ (Clients \cup Loops) \cap Histories = {}
    /\ Nobody \notin Clients \cup Loops \cup Histories
    /\ MaxRetries \in Nat

Actors == Clients \cup Loops
Everybody == Actors \cup Histories

\* Rows of fs_jobs: the parent of a bulk, and its child for each store.
P(b) == <<b, 0>>
C(b, s) == <<b, s>>
Rows == Bulks \X ({0} \cup Stores)

\* A running child: items open; all done; none open and some failed.
Unfinished == {"running", "ready", "broken"}
Finished == {"switched", "failed", "cancelled", "finished"}
States == {"none", "gone"} \cup Unfinished \cup Finished

VARIABLES
    row,       \* the jobs, as committed
    old,       \* rows that finished longer ago than the history is kept
    latch,     \* parents with cancel_requested
    lock,      \* holder of each job's row lock
    storeLock, \* holder of each store's row lock
    tx,        \* what each request or loop is doing
    history,   \* rows that each history sweep has still to come to
    answered,  \* bulks whose cancel was answered
    retries

vars == <<row, old, latch, lock, storeLock, tx, history, answered, retries>>

\* op: what the transaction does to its child; whole: it is one of those that a
\* request for a whole bulk runs for `todo`, child by child; child, parent: the
\* states that it has written.
Work == [op : {"none", "start", "finalize", "cancel", "retry", "settle"},
         whole : BOOLEAN,
         pc : {"idle", "insert", "latch", "next", "store", "child", "parent", "check", "commit"},
         bulk : Bulks \cup {NoBulk}, store : {0} \cup Stores,
         todo : SUBSET Stores, made : SUBSET Stores,
         child : States \cup {"same"}, parent : States \cup {"same"}]
NoWork == [op |-> "none", whole |-> FALSE, pc |-> "idle", bulk |-> NoBulk, store |-> 0,
           todo |-> {}, made |-> {}, child |-> "same", parent |-> "same"]

BulkTypeOK ==
    /\ row \in [Rows -> States]
    /\ old \subseteq Rows
    /\ latch \subseteq Bulks
    /\ lock \in [Rows -> Everybody \cup {Nobody}]
    /\ storeLock \in [Stores -> Actors \cup {Nobody}]
    /\ tx \in [Actors -> Work]
    /\ history \in [Histories -> SUBSET Rows]
    /\ answered \subseteq Bulks
    /\ retries \in 0..MaxRetries

Init ==
    /\ row = [r \in Rows |-> "none"]
    /\ old = {} /\ latch = {} /\ answered = {}
    /\ lock = [r \in Rows |-> Nobody]
    /\ storeLock = [s \in Stores |-> Nobody]
    /\ tx = [a \in Actors |-> NoWork]
    /\ history = [h \in Histories |-> {}]
    /\ retries = 0

Idle(a) == tx[a].pc = "idle"
Own(a) == C(tx[a].bulk, tx[a].store)
OwnParent(a) == P(tx[a].bulk)

\* The locks when `a` has ended its transaction, however it ended.
LocksFreed(a) ==
    /\ lock' = [r \in Rows |-> IF lock[r] = a THEN Nobody ELSE lock[r]]
    /\ storeLock' = [s \in Stores |-> IF storeLock[s] = a THEN Nobody ELSE storeLock[s]]

\* What `a` goes on with after a transaction for one child.
Following(a) ==
    IF tx[a].whole /\ tx[a].op # "settle"
    THEN [tx[a] EXCEPT !.pc = "next", !.store = 0, !.made = {}, !.child = "same", !.parent = "same"]
    ELSE NoWork

----------------------------------------------------------------------------
(* Starting a bulk *)

\* The candidates are read before the transaction: any stores.
StartBulk(a, b) ==
    /\ Idle(a)
    /\ row[P(b)] = "none"
    /\ \A c \in Actors : tx[c].op = "start" => tx[c].bulk # b
    /\ \E included \in SUBSET Stores \ {{}} :
           tx' = [tx EXCEPT ![a] = [NoWork EXCEPT !.op = "start", !.whole = TRUE, !.pc = "insert",
                                                  !.bulk = b, !.todo = included]]
    /\ UNCHANGED <<row, old, latch, lock, storeLock, history, answered, retries>>

\* A store that is expired, current or re-embedding by then is skipped; its
\* lock is kept all the same.
InsertChild(a) ==
    /\ tx[a].pc = "insert" /\ tx[a].todo # {}
    /\ LET s == Min(tx[a].todo) IN
       /\ storeLock[s] = Nobody
       /\ storeLock' = [storeLock EXCEPT ![s] = a]
       /\ \E made \in {tx[a].made, tx[a].made \cup {s}} :
              /\ s \in made => \A b \in Bulks : row[C(b, s)] \notin Unfinished
              /\ tx' = [tx EXCEPT ![a].todo = @ \ {s}, ![a].made = made]
    /\ UNCHANGED <<row, old, latch, lock, history, answered, retries>>

\* The children of empty stores have no items to wait for: the request ends them.
CommitStart(a) ==
    /\ tx[a].pc = "insert" /\ tx[a].todo = {}
    /\ LET b == tx[a].bulk
           made == tx[a].made IN
       IF made = {}
       THEN tx' = [tx EXCEPT ![a] = NoWork] /\ row' = row
       ELSE \E empty \in SUBSET made :
                /\ row' = [r \in Rows |-> IF r[1] # b \/ r[2] \notin {0} \cup made THEN row[r]
                                          ELSE IF r[2] \in empty THEN "ready" ELSE "running"]
                /\ tx' = [tx EXCEPT ![a] = [NoWork EXCEPT !.op = "finalize", !.whole = TRUE,
                                                !.pc = "next", !.bulk = b, !.todo = empty]]
    /\ LocksFreed(a)
    /\ UNCHANGED <<old, latch, history, answered, retries>>

----------------------------------------------------------------------------
(* Requests, and what loops find to end *)

\* A user's request about one child.
AskChild(a, b, s) ==
    /\ Idle(a)
    /\ row[C(b, s)] \notin {"none", "gone"}
    /\ \E op \in {"cancel", "retry"} :
           tx' = [tx EXCEPT ![a] = [NoWork EXCEPT !.op = op, !.pc = "store", !.bulk = b, !.store = s]]
    /\ UNCHANGED <<row, old, latch, lock, storeLock, history, answered, retries>>

\* Seeded fault: failed children are not cancelled.
CancelBulk_RunningOnly(a, b) ==
    /\ Idle(a)
    /\ row[P(b)] \notin {"none", "gone"}
    /\ tx' = [tx EXCEPT ![a] =
                 [NoWork EXCEPT !.op = "cancel", !.whole = TRUE, !.pc = "latch", !.bulk = b,
                     !.todo = {s \in Stores : row[C(b, s)] \in Unfinished}]]
    /\ UNCHANGED <<row, old, latch, lock, storeLock, history, answered, retries>>

CancelBulk(a, b) ==
    /\ Idle(a)
    /\ row[P(b)] \notin {"none", "gone"}
    /\ tx' = [tx EXCEPT ![a] =
                 [NoWork EXCEPT !.op = "cancel", !.whole = TRUE, !.pc = "latch", !.bulk = b,
                     !.todo = {s \in Stores : row[C(b, s)] \in Unfinished \cup {"failed"}}]]
    /\ UNCHANGED <<row, old, latch, lock, storeLock, history, answered, retries>>

\* Seeded fault: the latch and all children in one transaction.
LatchBulk_Kept(a) ==
    /\ tx[a].pc = "latch"
    /\ lock[OwnParent(a)] = Nobody
    /\ latch' = latch \cup {tx[a].bulk}
    /\ lock' = [lock EXCEPT ![OwnParent(a)] = a]
    /\ tx' = [tx EXCEPT ![a].pc = "next"]
    /\ UNCHANGED <<row, old, storeLock, history, answered, retries>>

\* The latch is a statement of its own.
LatchBulk(a) ==
    /\ tx[a].pc = "latch"
    /\ tx[a].todo # {} => lock[OwnParent(a)] = Nobody
    /\ latch' = IF tx[a].todo # {} THEN latch \cup {tx[a].bulk} ELSE latch
    /\ tx' = [tx EXCEPT ![a].pc = "next"]
    /\ UNCHANGED <<row, old, lock, storeLock, history, answered, retries>>

RetryBulk(a, b) ==
    /\ Idle(a)
    /\ row[P(b)] \notin {"none", "gone"} /\ b \notin latch
    /\ tx' = [tx EXCEPT ![a] =
                 [NoWork EXCEPT !.op = "retry", !.whole = TRUE, !.pc = "next", !.bulk = b,
                                !.todo = {s \in Stores : row[C(b, s)] = "failed"}]]
    /\ UNCHANGED <<row, old, latch, lock, storeLock, history, answered, retries>>

\* The worker of a child's last item, the reaper, and the pass over idle jobs.
EndChild(a, b, s) ==
    /\ Idle(a)
    /\ row[C(b, s)] \in {"ready", "broken"}
    /\ tx' = [tx EXCEPT ![a] =
                 [NoWork EXCEPT !.op = "finalize", !.pc = "store", !.bulk = b, !.store = s]]
    /\ UNCHANGED <<row, old, latch, lock, storeLock, history, answered, retries>>

\* The pass over idle jobs: parents without a running child.
EndParent(a, b) ==
    /\ Idle(a)
    /\ row[P(b)] = "running"
    /\ \A s \in Stores : row[C(b, s)] \notin Unfinished
    /\ tx' = [tx EXCEPT ![a] = [NoWork EXCEPT !.op = "settle", !.pc = "parent", !.bulk = b]]
    /\ UNCHANGED <<row, old, latch, lock, storeLock, history, answered, retries>>

\* The next child of a request for the whole bulk; a cancel settles the parent last.
NextChild(a) ==
    /\ tx[a].pc = "next"
    /\ \/ \E s \in tx[a].todo :
              tx' = [tx EXCEPT ![a].pc = "store", ![a].store = s, ![a].todo = @ \ {s}]
       \/ /\ tx[a].todo = {}
          /\ tx' = [tx EXCEPT ![a] = IF tx[a].op = "cancel"
                                     THEN [tx[a] EXCEPT !.op = "settle", !.pc = "parent"]
                                     ELSE NoWork]
    /\ UNCHANGED <<row, old, latch, lock, storeLock, history, answered, retries>>

----------------------------------------------------------------------------
(* One transaction: store, child, parent *)

\* What the job becomes, as it is read under its store's lock; none: nothing to do.
Outcomes(op, state) ==
    CASE op = "finalize" /\ state = "ready" -> {"switched", "failed"}
      [] op = "finalize" /\ state \in {"running", "broken"} -> {"failed"}
      [] op = "cancel" /\ state \in Unfinished \cup {"failed"} -> {"cancelled"}
      [] op = "retry" /\ state = "failed" -> {"running"}
      [] OTHER -> {}

\* Whether a job of the store runs already.
Busy(s) == \E b \in Bulks : row[C(b, s)] \in Unfinished

LockStore(a) ==
    /\ tx[a].pc = "store"
    /\ storeLock[tx[a].store] = Nobody
    /\ \/ \E state \in Outcomes(tx[a].op, row[Own(a)]) :
              /\ tx[a].op = "retry" => ~Busy(tx[a].store) /\ retries < MaxRetries
              /\ retries' = IF tx[a].op = "retry" THEN retries + 1 ELSE retries
              /\ storeLock' = [storeLock EXCEPT ![tx[a].store] = a]
              /\ tx' = [tx EXCEPT ![a].pc = "child", ![a].child = state]
       \/ /\ \/ tx[a].op = "retry" \/ Outcomes(tx[a].op, row[Own(a)]) = {}
             \/ tx[a].op = "finalize" /\ row[Own(a)] = "running"
          /\ tx' = [tx EXCEPT ![a] = Following(a)]
          /\ UNCHANGED <<storeLock, retries>>
    /\ UNCHANGED <<row, old, latch, lock, history, answered>>

\* Files came or changed since their items were done: items are opened again, and
\* the switch waits for them.
Reopens(a) ==
    /\ tx[a].pc = "store" /\ tx[a].op = "finalize"
    /\ storeLock[tx[a].store] = Nobody
    /\ row[Own(a)] = "ready"
    /\ row' = [row EXCEPT ![Own(a)] = "running"]
    /\ tx' = [tx EXCEPT ![a] = Following(a)]
    /\ UNCHANGED <<old, latch, lock, storeLock, history, answered, retries>>

\* The items of a swept child went with it: there is nothing to retry.
WriteChild(a) ==
    /\ tx[a].pc = "child"
    /\ lock[Own(a)] = Nobody
    /\ IF row[Own(a)] # "gone"
       THEN /\ lock' = [lock EXCEPT ![Own(a)] = a]
            /\ tx' = [tx EXCEPT ![a].pc = "parent"]
            /\ storeLock' = storeLock
       ELSE IF tx[a].op = "retry"
       THEN LocksFreed(a) /\ tx' = [tx EXCEPT ![a] = Following(a)]
       ELSE /\ tx' = [tx EXCEPT ![a].pc = "parent", ![a].child = "same"]
            /\ UNCHANGED <<lock, storeLock>>
    /\ UNCHANGED <<row, old, latch, history, answered, retries>>

\* The row of a child as the transaction of `a` sees it.
Seen(a, r) == IF r = Own(a) /\ tx[a].child # "same" THEN tx[a].child ELSE row[r]

\* Whether the transaction of `a` sees a child that is not finished.
SeesRunning(a) == \E s \in Stores : Seen(a, C(tx[a].bulk, s)) \in Unfinished

\* Seeded fault: the parent is only updated where it still runs.
LockParent_OpenOnly(a) ==
    /\ tx[a].pc = "parent"
    /\ LET p == OwnParent(a) IN
       \/ /\ row[p] = "running" /\ lock[p] = Nobody
          /\ lock' = [lock EXCEPT ![p] = a]
          /\ tx' = [tx EXCEPT ![a].pc = IF tx[a].op = "retry" THEN "commit" ELSE "check"]
       \/ /\ row[p] # "running"
          /\ lock' = lock
          /\ tx' = [tx EXCEPT ![a].pc = "commit"]
    /\ UNCHANGED <<row, old, latch, storeLock, history, answered, retries>>

\* Seeded fault: one statement instead of the lock and the second look.
LockParent_OneStatement(a) ==
    /\ tx[a].pc = "parent"
    /\ lock[OwnParent(a)] = Nobody
    /\ tx' = [tx EXCEPT ![a].pc = "commit",
                        ![a].parent = IF tx[a].op = "retry" THEN "running"
                                      ELSE IF row[OwnParent(a)] = "running" /\ ~SeesRunning(a)
                                      THEN "finished" ELSE "same"]
    /\ UNCHANGED <<row, old, latch, lock, storeLock, history, answered, retries>>

\* A retry updates the parent, whatever it is; to settle it, it is locked if unfinished.
LockParent(a) ==
    /\ tx[a].pc = "parent"
    /\ LET p == OwnParent(a)
           wanted == IF tx[a].op = "retry" THEN row[p] # "gone" ELSE row[p] = "running" IN
       \/ /\ wanted /\ lock[p] = Nobody
          /\ lock' = [lock EXCEPT ![p] = a]
          /\ tx' = [tx EXCEPT ![a] = IF @.op = "retry"
                                     THEN [@ EXCEPT !.pc = "commit", !.parent = "running"]
                                     ELSE [@ EXCEPT !.pc = "check"]]
       \/ /\ ~wanted
          /\ tx[a].op = "retry" => lock[p] = Nobody
          /\ lock' = lock
          /\ tx' = [tx EXCEPT ![a].pc = "commit"]
    /\ UNCHANGED <<row, old, latch, storeLock, history, answered, retries>>

\* A statement after the lock: it sees what was committed while the lock was waited for.
CheckChildren(a) ==
    /\ tx[a].pc = "check"
    /\ tx' = [tx EXCEPT ![a].pc = "commit",
                        ![a].parent = IF SeesRunning(a) THEN "same" ELSE "finished"]
    /\ UNCHANGED <<row, old, latch, lock, storeLock, history, answered, retries>>

Commit(a) ==
    /\ tx[a].pc = "commit"
    /\ row' = [r \in Rows |-> IF r = Own(a) /\ tx[a].child # "same" THEN tx[a].child
                              ELSE IF r = OwnParent(a) /\ tx[a].parent # "same" THEN tx[a].parent
                              ELSE row[r]]
    /\ old' = {r \in old : row'[r] \in Finished}
    /\ answered' = IF tx[a].op = "settle" /\ tx[a].whole THEN answered \cup {tx[a].bulk} ELSE answered
    /\ LocksFreed(a)
    /\ tx' = [tx EXCEPT ![a] = Following(a)]
    /\ UNCHANGED <<latch, history, retries>>

\* The transaction is rolled back, and the request with it.
RolledBack(a) ==
    /\ LocksFreed(a)
    /\ tx' = [tx EXCEPT ![a] = NoWork]
    /\ UNCHANGED <<row, old, latch, history, answered, retries>>

Fails(a) ==
    /\ ~Idle(a)
    /\ RolledBack(a)

----------------------------------------------------------------------------
(* Items, deleted stores and the history *)

\* The last item of a child is done or has failed.
ItemsEnd(b, s) ==
    /\ row[C(b, s)] = "running"
    /\ storeLock[s] = Nobody
    /\ \E state \in {"ready", "broken"} : row' = [row EXCEPT ![C(b, s)] = state]
    /\ UNCHANGED <<old, latch, lock, storeLock, tx, history, answered, retries>>

\* The jobs of a deleted store go with it.
StoreDeleted(s) ==
    /\ storeLock[s] = Nobody
    /\ \E b \in Bulks : row[C(b, s)] \notin {"none", "gone"}
    /\ \A b \in Bulks : lock[C(b, s)] = Nobody
    /\ row' = [r \in Rows |-> IF r[2] = s /\ row[r] # "none" THEN "gone" ELSE row[r]]
    /\ old' = {r \in old : r[2] # s}
    /\ UNCHANGED <<latch, lock, storeLock, tx, history, answered, retries>>

\* finished_at is when the transaction that ended the row began: a parent may be
\* older than a child of it.
Ages(r) ==
    /\ row[r] \in Finished /\ r \notin old
    /\ old' = old \cup {r}
    /\ UNCHANGED <<row, latch, lock, storeLock, tx, history, answered, retries>>

Held(h) == {r \in Rows : lock[r] = h}

\* One DELETE: the rows that it found, in whatever order.
SweepHistory(h) ==
    /\ history[h] = {} /\ Held(h) = {} /\ old # {}
    /\ history' = [history EXCEPT ![h] = old]
    /\ UNCHANGED <<row, old, latch, lock, storeLock, tx, answered, retries>>

\* A row that was locked is looked at again: it may have been opened since.
SweepRow(h, r) ==
    /\ r \in history[h]
    /\ lock[r] = Nobody
    /\ lock' = IF r \in old THEN [lock EXCEPT ![r] = h] ELSE lock
    /\ history' = [history EXCEPT ![h] = @ \ {r}]
    /\ UNCHANGED <<row, old, latch, storeLock, tx, answered, retries>>

SweepEnds(h) ==
    /\ history[h] = {} /\ Held(h) # {}
    /\ row' = [r \in Rows |-> IF lock[r] = h THEN "gone" ELSE row[r]]
    /\ old' = old \ Held(h)
    /\ lock' = [r \in Rows |-> IF lock[r] = h THEN Nobody ELSE lock[r]]
    /\ UNCHANGED <<latch, storeLock, tx, history, answered, retries>>

SweepRolledBack(h) ==
    /\ lock' = [r \in Rows |-> IF lock[r] = h THEN Nobody ELSE lock[r]]
    /\ history' = [history EXCEPT ![h] = {}]
    /\ UNCHANGED <<row, old, latch, storeLock, tx, answered, retries>>

SweepFails(h) ==
    /\ history[h] # {} \/ Held(h) # {}
    /\ SweepRolledBack(h)

----------------------------------------------------------------------------
(* Deadlocks *)

\* Who holds what `a` waits for.  A sweep waits when it can take no row it has left.
Blockers(a) ==
    IF a \in Histories
    THEN IF \E r \in history[a] : lock[r] = Nobody THEN {} ELSE {lock[r] : r \in history[a]}
    ELSE (CASE tx[a].pc = "store" -> {storeLock[tx[a].store]}
            [] tx[a].pc = "insert" /\ tx[a].todo # {} -> {storeLock[Min(tx[a].todo)]}
            [] tx[a].pc = "child" -> {lock[Own(a)]}
            [] tx[a].pc = "latch" /\ tx[a].todo # {} -> {lock[OwnParent(a)]}
            [] tx[a].pc = "parent" /\ (tx[a].op = "retry" \/ row[OwnParent(a)] = "running") ->
                   {lock[OwnParent(a)]}
            [] OTHER -> {}) \ {Nobody}

\* Transactions that wait for nobody but each other.
Stuck(S) == \A a \in S : Blockers(a) # {} /\ Blockers(a) \subseteq S

\* The database finds the circle and aborts one of it.
DeadlockFound(a) ==
    /\ \E S \in SUBSET Everybody : a \in S /\ Stuck(S)
    /\ IF a \in Actors THEN RolledBack(a) ELSE SweepRolledBack(a)

----------------------------------------------------------------------------
(* Specification *)

Step(a) ==
    \/ InsertChild(a) \/ CommitStart(a) \/ LatchBulk(a) \/ NextChild(a)
    \/ LockStore(a) \/ WriteChild(a) \/ LockParent(a) \/ CheckChildren(a) \/ Commit(a)

Asks(a) == \E b \in Bulks :
    \/ StartBulk(a, b) \/ CancelBulk(a, b) \/ RetryBulk(a, b)
    \/ \E s \in Stores : AskChild(a, b, s)

Finds(a) == \E b \in Bulks : EndParent(a, b) \/ \E s \in Stores : EndChild(a, b, s)

SweepStep(h) == SweepHistory(h) \/ SweepEnds(h) \/ \E r \in Rows : SweepRow(h, r)

Next ==
    \/ \E a \in Actors : Step(a) \/ Reopens(a) \/ Fails(a)
    \/ \E a \in Clients : Asks(a)
    \/ \E a \in Loops : Finds(a)
    \/ \E h \in Histories : SweepStep(h) \/ SweepFails(h)
    \/ \E a \in Everybody : DeadlockFound(a)
    \/ \E b \in Bulks, s \in Stores : ItemsEnd(b, s)
    \/ \E s \in Stores : StoreDeleted(s)
    \/ \E r \in Rows : Ages(r)

Spec == Init /\ [][Next]_vars

----------------------------------------------------------------------------
(* Correctness *)

(***************************************************************************)
(* No parent is finished while a child of it runs: not by two children     *)
(* that end together, nor by a retry beside the end of the last child.     *)
(***************************************************************************)
FinishedBulkIsDone ==
    \A b \in Bulks : row[P(b)] = "finished" => \A s \in Stores : row[C(b, s)] \notin Unfinished

Runs(b) == \E s \in Stores : row[C(b, s)] \in Unfinished

(***************************************************************************)
(* Of several children that end together one ends the parent: with the     *)
(* last commit that ends a child the parent is finished.  A child that is  *)
(* gone with its store asks nobody, and a parent may have been swept.      *)
(***************************************************************************)
LastChildEndsParent == [][
    \A b \in Bulks : Runs(b) /\ ~Runs(b)' =>
        row'[P(b)] \in {"finished", "gone"} \/ \E s \in Stores : row'[C(b, s)] = "gone"]_vars

(***************************************************************************)
(* When the cancel of a bulk is answered, each child has switched or is    *)
(* cancelled, for good: neither a retry nor a switch that ran beside it    *)
(* leaves one that may run again.                                          *)
(***************************************************************************)
CancelledBulkIsOver ==
    \A b \in answered, s \in Stores :
        row[C(b, s)] \in {"none", "gone", "switched", "cancelled"}

(***************************************************************************)
(* Stores before jobs, stores in the order of ids, a child before its      *)
(* parent: requests and loops never wait in a circle.  Only the history    *)
(* sweep locks rows in an order of its own.                                *)
(***************************************************************************)
OnlySweepsDeadlock == \A S \in SUBSET Actors : Stuck(S) => S = {}
============================================================================
