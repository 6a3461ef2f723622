------------------------- MODULE BlobMigrationProofs ------------------------
(***************************************************************************)
(* What blob storage keeps while migration loops move the blobs: the       *)
(* invariant of BlobProofs, the refinement of ContentStore, that only a    *)
(* running job moves anything, that a job which ended well left nothing    *)
(* behind, that no copy is forgotten, and what readers can rely on.  A     *)
(* loop copies without a lock, so all that it knows at the switch is what  *)
(* it checks there: that its item is open and its own, and that the copy   *)
(* is in place.                                                            *)
(***************************************************************************)
EXTENDS BlobMigration, BlobProofs

\* What a loop remembers of its job, and what it holds while it verifies.
MoverSound(w) ==
    /\ mover[w].pc # "idle" => mover[w].move \in Moves /\ Started(mover[w].move)
    /\ mover[w].pc \notin {"idle", "finalize"} => mover[w].sha \in Shas
    /\ mover[w].pc = "idle" => ~mover[w].put
    /\ mover[w].put \/ mover[w].pc \in {"cancel", "put", "verify"} => Target(w) = "s3"
    /\ mover[w].pc = "verify" => lock[mover[w].sha] = w /\ Mine(w)

MoverInv ==
    /\ MoveTypeOK
    /\ \A w \in Movers : MoverSound(w)
    /\ EndedMoveIsClosed

---------------------------------------------------------------------------
(* Steps of a loop, as far as blob storage sees them *)

\* A loop locks and writes only contents that nobody or a loop has locked, and
\* whatever it makes a row name is there.
MoverWrites ==
    /\ objects \subseteq objects'
    /\ \A c \in Shas :
           /\ lock'[c] # lock[c] => lock[c] \in Movers \cup {Nobody}
           /\ row'[c] # row[c] =>
                  /\ lock[c] \in Movers \cup {Nobody}
                  /\ row'[c].refs = row[c].refs /\ row'[c].delete_after = row[c].delete_after
                  /\ row'[c].storage \in Storages
                  /\ row'[c].storage = "s3" => c \in objects'

LEMMA MoverWritesKeep ==
    ASSUME BlobInv, MoverWrites, BlobTypeOK', UNCHANGED <<file, up, sweep>>
    PROVE  BlobInv'
<1>. USE BlobAssumption DEF BlobInv
<1>1. \A u \in Uploaders : u \notin Movers \cup {Nobody}
  BY DEF Actors
<1>2. \A s \in Sweepers : s \notin Movers \cup {Nobody}
  BY DEF Actors
<1>3. Locks'
  <2>1. \A u \in Uploaders :
            /\ up'[u].pc # "idle" => up'[u].file \in Files
            /\ up'[u].pc \in {"put", "commit"} => lock'[Content[up'[u].file]] = u
    BY <1>1 DEF Locks, MoverWrites
  <2>2. \A s \in Sweepers :
            sweep'[s].pc # "idle" => sweep'[s].sha \in Shas /\ lock'[sweep'[s].sha] = s
    BY <1>2 DEF Locks, MoverWrites
  <2>. QED
    BY <2>1, <2>2 DEF Locks
<1>4. UploadsSound'
  BY DEF UploadsSound, MoverWrites
<1>5. SweepsSound'
  <2>1. \A s \in Sweepers : sweep[s].pc # "idle" => row'[sweep[s].sha] = row[sweep[s].sha]
    BY <1>2 DEF Locks, MoverWrites
  <2>. QED
    BY <2>1, SameReferences, SweepsStay
<1>6. RowsSound'
  <2>. SUFFICES ASSUME NEW c \in Shas PROVE RowSound(c)'
    BY DEF RowsSound
  <2>1. CASE row'[c] = row[c]
    BY <2>1, SameReferences, RowStays DEF RowsSound, MoverWrites
  <2>2. CASE row'[c] # row[c]
    BY <2>2, SameReferences DEF RowsSound, RowSound, MoverWrites, InS3, Storages
  <2>. QED
    BY <2>1, <2>2
<1>. QED
  BY <1>3, <1>4, <1>5, <1>6

---------------------------------------------------------------------------
(* Rows of the queue and of the loops stay in their types. *)

Positions == {"idle", "row", "get", "cancel", "put", "switch", "verify", "discard", "failed",
              "finalize"}

LEMMA MoverStarts ==
    /\ IdleMover \in MoverRows
    /\ \A m \in Moves, sha \in Shas :
           [IdleMover EXCEPT !.pc = "row", !.move = m, !.sha = sha] \in MoverRows
    /\ \A m \in Moves : [IdleMover EXCEPT !.pc = "finalize", !.move = m] \in MoverRows
  BY DEF IdleMover, MoverRows

LEMMA MoverUpdates ==
    ASSUME NEW x \in MoverRows, NEW pc \in Positions
    PROVE  /\ [x EXCEPT !.pc = pc] \in MoverRows
           /\ [x EXCEPT !.pc = pc, !.copied = TRUE] \in MoverRows
           /\ [x EXCEPT !.pc = pc, !.put = TRUE] \in MoverRows
           /\ [x EXCEPT !.pc = pc, !.busy = TRUE] \in MoverRows
  BY DEF MoverRows, Positions

LEMMA NewItems == NoItem \in Items /\ OpenItem \in Items
<1>1. 0 \in 0..MaxAttempts
  BY MoveAssumption
<1>. QED
  BY <1>1 DEF NoItem, OpenItem, Items

LEMMA ItemUpdates ==
    ASSUME NEW i \in Items
    PROVE  /\ \A s \in {"open", "completed", "failed"} : Closed(i, s) \in Items
           /\ [i EXCEPT !.status = "cancelled"] \in Items
           /\ [i EXCEPT !.lapsed = TRUE] \in Items
  BY DEF Items, Closed

LEMMA ClaimedItem ==
    ASSUME NEW i \in Items, NEW w \in Movers, i.attempts < MaxAttempts
    PROVE  [i EXCEPT !.claim = w, !.lapsed = FALSE, !.attempts = i.attempts + 1] \in Items
<1>1. i.attempts + 1 \in 0..MaxAttempts
  BY MoveAssumption DEF Items
<1>. QED
  BY <1>1 DEF Items

LEMMA HandedBackItem ==
    ASSUME NEW i \in Items
    PROVE  [Closed(i, "open") EXCEPT !.attempts = IF @ = 0 THEN 0 ELSE @ - 1] \in Items
<1>1. Closed(i, "open") \in Items /\ Closed(i, "open").attempts = i.attempts
  BY MoveAssumption DEF Items, Closed
<1>2. (IF i.attempts = 0 THEN 0 ELSE i.attempts - 1) \in 0..MaxAttempts
  BY MoveAssumption DEF Items
<1>. QED
  BY <1>1, <1>2 DEF Items

---------------------------------------------------------------------------
(* One step of one loop *)

\* The other loops find what they rely on as it was.
ItemsOfOthers(w) ==
    \A m \in Moves, c \in Shas :
        /\ item[m][c].status = "open"
        /\ \E v \in Movers : v # w /\ item[m][c].claim = v
        /\ ~ItemFree(m, c)
        => item'[m][c].status = "open" /\ item'[m][c].claim = item[m][c].claim

MovesStay ==
    \A m \in Moves : Started(m) => Started(m)' /\ move'[m].target = move[m].target

LEMMA OthersSound ==
    ASSUME MoverInv, NEW w, NEW v \in Movers, v # w, mover'[v] = mover[v],
           ItemsOfOthers(w), MovesStay,
           \A c \in Shas : lock[c] = v => lock'[c] = lock[c]
    PROVE  MoverSound(v)'
<1>. USE DEF MoverInv
<1>1. MoverSound(v)
  OBVIOUS
<1>2. mover[v].pc # "idle" =>
          mover[v].move \in Moves /\ Started(mover[v].move)' /\ Target(v)' = Target(v)
  BY <1>1 DEF MoverSound, MovesStay, Target
<1>3. mover[v].pc = "verify" => lock'[mover[v].sha] = v /\ Mine(v)'
  <2>. SUFFICES ASSUME mover[v].pc = "verify" PROVE lock'[mover[v].sha] = v /\ Mine(v)'
    OBVIOUS
  <2>1. mover[v].sha \in Shas /\ lock[mover[v].sha] = v /\ Mine(v)
    BY <1>1 DEF MoverSound
  <2>2. ~ItemFree(mover[v].move, mover[v].sha)
    BY DEF ItemFree
  <2>. QED
    BY <1>2, <2>1, <2>2 DEF Mine, Claims, ItemOf, ItemsOfOthers
<1>. QED
  BY <1>1, <1>2, <1>3 DEF MoverSound

\* What a step of loop w may do to the queue: an item that is its own, and open.
OwnItem(w) ==
    \/ item' = item
    \/ /\ Mine(w)
       /\ mover[w].pc \notin {"idle", "finalize"}
       /\ \E i \in Items : item' = [item EXCEPT ![mover[w].move][mover[w].sha] = i]

LEMMA LoopKeeps ==
    ASSUME MoverInv, BlobTypeOK', NEW w \in Movers, NEW x \in MoverRows,
           mover' = [mover EXCEPT ![w] = x], move' = move, OwnItem(w),
           \A c \in Shas : lock[c] \in Movers /\ lock[c] # w => lock'[c] = lock[c],
           MoverSound(w)'
    PROVE  MoverInv'
<1>. USE DEF MoverInv
<1>1. MoverSound(w)
  OBVIOUS
<1>2. item' \in [Moves -> [Shas -> Items]]
  <2>1. CASE item' = item
    BY <2>1 DEF MoveTypeOK
  <2>2. ASSUME NEW i \in Items, item' = [item EXCEPT ![mover[w].move][mover[w].sha] = i]
        PROVE  item' \in [Moves -> [Shas -> Items]]
    BY <2>2 DEF MoveTypeOK
  <2>. QED
    BY <2>1, <2>2 DEF OwnItem
<1>3. MoveTypeOK'
  BY <1>2 DEF MoveTypeOK
<1>4. \A m \in Moves, c \in Shas : item'[m][c] # item[m][c] =>
          item[m][c].status = "open" /\ item[m][c].claim = w
  <2>1. CASE item' = item
    BY <2>1
  <2>2. ASSUME Mine(w), mover[w].pc \notin {"idle", "finalize"}, NEW i \in Items,
               item' = [item EXCEPT ![mover[w].move][mover[w].sha] = i]
        PROVE  \A m \in Moves, c \in Shas : item'[m][c] # item[m][c] =>
                   item[m][c].status = "open" /\ item[m][c].claim = w
    <3>1. mover[w].move \in Moves /\ mover[w].sha \in Shas
      BY <1>1, <2>2 DEF MoverSound
    <3>. QED
      BY <2>2, <3>1 DEF Mine, Claims, ItemOf, MoveTypeOK
  <2>. QED
    BY <2>1, <2>2 DEF OwnItem
<1>5. EndedMoveIsClosed'
  BY <1>4 DEF EndedMoveIsClosed, Open
<1>6. ItemsOfOthers(w)
  BY <1>4 DEF ItemsOfOthers
<1>7. MovesStay
  BY DEF MovesStay, Started
<1>8. \A v \in Movers : v # w => mover'[v] = mover[v]
  BY DEF MoveTypeOK
<1>9. ASSUME NEW v \in Movers PROVE MoverSound(v)'
  BY <1>6, <1>7, <1>8, OthersSound
<1>. QED
  BY <1>3, <1>5, <1>9

\* MovesOnlyWhileRunning, of one step.
MovesRight ==
    \A sha \in Shas :
        (row[sha] # NoRow /\ row'[sha] # NoRow /\ row'[sha].storage # row[sha].storage) =>
            \E m \in Moves : /\ move[m].state = "running"
                             /\ item[m][sha].status = "open"
                             /\ move[m].target = row'[sha].storage

\* A step of an upload, a reader or a sweeper, or one of a loop or of the queue.
Apart ==
    \/ [BlobNext]_blobVars
    \/ MoverWrites /\ UNCHANGED <<file, up, sweep, read>>

\* What is shown of every step.
Right == BlobInv' /\ MoverInv' /\ StoreStep /\ MovesRight /\ MovesStay /\ Apart

LEMMA LoopRight ==
    ASSUME BlobInv, MoverInv, NEW w \in Movers, NEW x \in MoverRows,
           mover' = [mover EXCEPT ![w] = x], move' = move, OwnItem(w),
           UNCHANGED <<backend, file, up, sweep, read>>,
           BlobTypeOK', MoverWrites, MoverSound(w)', MovesRight,
           \A c \in Shas : lock[c] \in Movers /\ lock[c] # w => lock'[c] = lock[c],
           NEW sha \in Shas, Kept' \in {Kept, Kept \cup {sha}}
    PROVE  Right
<1>1. BlobInv'
  BY MoverWritesKeep
<1>2. MoverInv'
  BY LoopKeeps
<1>3. StoreStep
  BY StoreKeeps DEF Status
<1>4. MovesStay /\ Apart
  BY DEF MovesStay, Started, Apart
<1>. QED
  BY <1>1, <1>2, <1>3, <1>4 DEF Right

\* A step that leaves rows and objects alone.
LEMMA QuietRight ==
    ASSUME BlobInv, MoverInv, NEW w \in Movers, NEW x \in MoverRows,
           mover' = [mover EXCEPT ![w] = x], move' = move, OwnItem(w),
           UNCHANGED <<backend, row, objects, file, up, sweep, read>>,
           lock' \in [Shas -> Actors \cup {Nobody}],
           garbage' \in [Shas -> [Locations -> Entries]], MoverSound(w)',
           \A c \in Shas : lock'[c] # lock[c] => lock[c] \in {w, Nobody}
    PROVE  Right
<1>1. BlobTypeOK'
  BY DEF BlobInv, BlobTypeOK
<1>2. MoverWrites
  BY DEF MoverWrites
<1>3. BlobInv'
  BY <1>1, <1>2, MoverWritesKeep
<1>4. Nobody \notin Movers
  BY BlobAssumption DEF Actors
<1>5. MoverInv'
  BY <1>1, <1>4, LoopKeeps
<1>6. StoreStep
  BY DEF StoreStep, Status, Kept, InS3
<1>7. MovesRight /\ MovesStay /\ Apart
  BY <1>2 DEF MovesRight, MovesStay, Started, Apart
<1>. QED
  BY <1>3, <1>5, <1>6, <1>7 DEF Right

\* The loop goes on with its item, or is done with it.
LEMMA GoesOn ==
    ASSUME MoverInv, NEW w \in Movers, mover[w].pc \notin {"idle", "finalize"},
           move' = move, NEW x \in MoverRows, mover' = [mover EXCEPT ![w] = x],
           x.move = mover[w].move, x.sha = mover[w].sha,
           x.pc \notin {"idle", "verify"},
           x.put \/ x.pc \in {"cancel", "put"} => Target(w) = "s3"
    PROVE  MoverSound(w)'
<1>1. mover'[w] = x /\ MoverSound(w)
  BY DEF MoverInv, MoveTypeOK
<1>2. Target(w)' = Target(w)
  BY <1>1 DEF Target
<1>. QED
  BY <1>1, <1>2 DEF MoverSound, Started

LEMMA GoesIdle ==
    ASSUME MoverInv, NEW w \in Movers, mover' = [mover EXCEPT ![w] = IdleMover]
    PROVE  MoverSound(w)'
<1>1. mover'[w] = IdleMover
  BY DEF MoverInv, MoveTypeOK
<1>. QED
  BY <1>1 DEF MoverSound, IdleMover

\* To(w, pc), where the row of the loop is written out.
LEMMA MovesTo ==
    ASSUME MoverInv, NEW w \in Movers, NEW pc \in Positions, To(w, pc),
           mover[w].pc \notin {"idle", "finalize"}, move' = move,
           pc \notin {"idle", "verify"}, pc \in {"cancel", "put"} => Target(w) = "s3"
    PROVE  \E x \in MoverRows : mover' = [mover EXCEPT ![w] = x] /\ MoverSound(w)'
<1>. DEFINE x == [mover[w] EXCEPT !.pc = pc]
<1>1. mover[w] \in MoverRows /\ x \in MoverRows
  BY MoverUpdates DEF MoverInv, MoveTypeOK
<1>2. mover' = [mover EXCEPT ![w] = x]
  BY DEF To, MoverInv, MoveTypeOK
<1>3. x.move = mover[w].move /\ x.sha = mover[w].sha /\ x.put = mover[w].put /\ x.pc = pc
  BY <1>1 DEF MoverRows
<1>. HIDE DEF x
<1>4. x.put \/ x.pc \in {"cancel", "put"} => Target(w) = "s3"
  BY <1>3 DEF MoverInv, MoverSound
<1>5. MoverSound(w)'
  BY <1>1, <1>2, <1>3, <1>4, GoesOn
<1>. QED
  BY <1>1, <1>2, <1>5

\* A quiet step that ends in To.
LEMMA QuietTo ==
    ASSUME BlobInv, MoverInv, NEW w \in Movers, NEW pc \in Positions, To(w, pc),
           mover[w].pc \notin {"idle", "finalize"}, move' = move,
           pc \notin {"idle", "verify"}, pc \in {"cancel", "put"} => Target(w) = "s3",
           OwnItem(w), UNCHANGED <<backend, row, objects, file, up, sweep, read>>,
           lock' \in [Shas -> Actors \cup {Nobody}],
           garbage' \in [Shas -> [Locations -> Entries]],
           \A c \in Shas : lock'[c] # lock[c] => lock[c] \in {w, Nobody}
    PROVE  Right
<1>1. PICK x \in MoverRows : mover' = [mover EXCEPT ![w] = x] /\ MoverSound(w)'
  BY MovesTo
<1>. QED
  BY <1>1, QuietRight

LEMMA QuietIdle ==
    ASSUME BlobInv, MoverInv, NEW w \in Movers, mover' = [mover EXCEPT ![w] = IdleMover],
           move' = move, OwnItem(w), UNCHANGED <<backend, row, objects, file, up, sweep, read>>,
           lock' \in [Shas -> Actors \cup {Nobody}],
           garbage' \in [Shas -> [Locations -> Entries]],
           \A c \in Shas : lock'[c] # lock[c] => lock[c] \in {w, Nobody}
    PROVE  Right
  BY GoesIdle, MoverStarts, QuietRight

---------------------------------------------------------------------------
(* The steps of an attempt that leave rows and objects alone *)

LEMMA SameLocks ==
    ASSUME BlobInv, lock' = lock, NEW w
    PROVE  /\ lock' \in [Shas -> Actors \cup {Nobody}]
           /\ \A c \in Shas : lock'[c] # lock[c] => lock[c] \in {w, Nobody}
  BY DEF BlobInv, BlobTypeOK

LEMMA SameGarbage ==
    ASSUME BlobInv, garbage' = garbage
    PROVE  garbage' \in [Shas -> [Locations -> Entries]]
  BY DEF BlobInv, BlobTypeOK

LEMMA GarbageUpdates ==
    ASSUME BlobInv, NEW sha \in Shas
    PROVE  /\ Garbage(sha) \in [Shas -> [Locations -> Entries]]
           /\ NoGarbage(sha) \in [Shas -> [Locations -> Entries]]
           /\ \A l \in Locations :
                  [garbage EXCEPT ![sha][l] = Queued] \in [Shas -> [Locations -> Entries]]
<1>1. garbage \in [Shas -> [Locations -> Entries]] /\ "key" \in Locations
  BY DEF BlobInv, BlobTypeOK, Locations
<1>2. NoEntry \in Entries /\ Queued \in Entries
  BY EntryUpdates
<1>. QED
  BY <1>1, <1>2 DEF Garbage, NoGarbage

\* A busy loop knows its item.
LEMMA AtWork ==
    ASSUME MoverInv, NEW w \in Movers, mover[w].pc \notin {"idle", "finalize"}
    PROVE  /\ mover[w] \in MoverRows
           /\ mover[w].move \in Moves /\ mover[w].sha \in Shas /\ Started(mover[w].move)
           /\ ItemOf(w) \in Items
           /\ Target(w) \in Storages
           /\ mover[w].put \/ mover[w].pc \in {"cancel", "put", "verify"} => Target(w) = "s3"
  BY DEF MoverInv, MoveTypeOK, MoverSound, ItemOf, Target, MoveRows

LEMMA ReadRowRight ==
    ASSUME BlobInv, MoverInv, NEW w \in Movers, ReadRow(w)
    PROVE  Right
<1>1. /\ mover[w].pc = "row" /\ UNCHANGED <<blobVars, move, item>>
  BY DEF ReadRow
<1>2. /\ OwnItem(w) /\ UNCHANGED <<backend, row, objects, file, up, sweep, read, lock, garbage>>
      /\ mover[w].pc \notin {"idle", "finalize"}
  BY <1>1 DEF OwnItem, blobVars
<1>3. CASE mover' = [mover EXCEPT ![w] = IdleMover]
  BY <1>1, <1>2, <1>3, SameLocks, SameGarbage, QuietIdle
<1>4. CASE To(w, "switch")
  BY <1>1, <1>2, <1>4, SameLocks, SameGarbage, QuietTo DEF Positions
<1>5. CASE To(w, "get")
  BY <1>1, <1>2, <1>5, SameLocks, SameGarbage, QuietTo DEF Positions
<1>6. CASE Target(w) = "s3" /\ mover' = [mover EXCEPT ![w].pc = "cancel", ![w].copied = TRUE]
  <2>. DEFINE x == [mover[w] EXCEPT !.pc = "cancel", !.copied = TRUE]
  <2>1. mover[w] \in MoverRows /\ x \in MoverRows
    BY <1>2, AtWork, MoverUpdates DEF Positions
  <2>2. mover' = [mover EXCEPT ![w] = x]
    BY <1>6 DEF MoverInv, MoveTypeOK
  <2>3. x.move = mover[w].move /\ x.sha = mover[w].sha /\ x.pc = "cancel"
    BY <2>1 DEF MoverRows
  <2>. HIDE DEF x
  <2>4. MoverSound(w)'
    BY <1>1, <1>2, <1>6, <2>1, <2>2, <2>3, GoesOn
  <2>. QED
    BY <1>1, <1>2, <2>1, <2>2, <2>4, SameLocks, SameGarbage, QuietRight
<1>. QED
  BY <1>3, <1>4, <1>5, <1>6 DEF ReadRow

LEMMA GetSourceRight ==
    ASSUME BlobInv, MoverInv, NEW w \in Movers, GetSource(w)
    PROVE  Right
<1>1. /\ mover[w].pc = "get" /\ UNCHANGED <<blobVars, move, item>>
  BY DEF GetSource
<1>2. /\ OwnItem(w) /\ UNCHANGED <<backend, row, objects, file, up, sweep, read, lock, garbage>>
      /\ mover[w].pc \notin {"idle", "finalize"}
  BY <1>1 DEF OwnItem, blobVars
<1>. DEFINE x == IF mover[w].sha \in objects THEN [mover[w] EXCEPT !.pc = "switch", !.copied = TRUE]
                                             ELSE [mover[w] EXCEPT !.pc = "failed"]
<1>3. mover[w] \in MoverRows /\ x \in MoverRows
  BY <1>2, AtWork, MoverUpdates DEF Positions
<1>4. mover' = [mover EXCEPT ![w] = x]
  BY DEF GetSource, MoverInv, MoveTypeOK
<1>5. /\ x.move = mover[w].move /\ x.sha = mover[w].sha /\ x.pc \in {"switch", "failed"}
      /\ x.put = mover[w].put
  BY <1>3 DEF MoverRows
<1>. HIDE DEF x
<1>6. MoverSound(w)'
  BY <1>1, <1>2, <1>3, <1>4, <1>5, GoesOn, AtWork
<1>. QED
  BY <1>1, <1>2, <1>3, <1>4, <1>6, SameLocks, SameGarbage, QuietRight

LEMMA CancelStaleGarbageRight ==
    ASSUME BlobInv, MoverInv, NEW w \in Movers, CancelStaleGarbage(w)
    PROVE  Right
<1>1. /\ mover[w].pc = "cancel" /\ To(w, "put") /\ OwnItem(w) /\ move' = move
      /\ garbage' = NoGarbage(mover[w].sha)
      /\ UNCHANGED <<backend, row, objects, file, lock, up, sweep, read>>
  BY DEF CancelStaleGarbage, OwnItem
<1>2. mover[w].sha \in Shas /\ Target(w) = "s3"
  BY <1>1, AtWork
<1>. QED
  BY <1>1, <1>2, SameLocks, GarbageUpdates, QuietTo DEF Positions

\* The garbage that QueueCopy leaves.
LEMMA QueuedCopy ==
    ASSUME BlobInv, NEW w, mover[w].sha \in Shas, QueueCopy(w)
    PROVE  garbage' \in [Shas -> [Locations -> Entries]]
  BY GarbageUpdates DEF QueueCopy, BlobInv, BlobTypeOK

LEMMA SwitchEndsRight ==
    ASSUME BlobInv, MoverInv, NEW w \in Movers,
           SwitchSkipped(w) \/ SwitchVanished(w) \/ SwitchDone(w) \/ SwitchWithoutCopy(w)
    PROVE  Right
<1>1. /\ mover[w].pc = "switch" /\ move' = move
      /\ UNCHANGED <<backend, row, objects, file, lock, up, sweep, read>>
      /\ To(w, "finalize") \/ To(w, "failed")
  BY DEF SwitchSkipped, SwitchVanished, SwitchDone, SwitchWithoutCopy, Switches, blobVars
<1>2. mover[w].sha \in Shas /\ ItemOf(w) \in Items /\ mover[w].pc \notin {"idle", "finalize"}
  BY <1>1, AtWork
<1>3. garbage' \in [Shas -> [Locations -> Entries]]
  BY <1>2, QueuedCopy, SameGarbage
     DEF SwitchSkipped, SwitchVanished, SwitchDone, SwitchWithoutCopy, blobVars
<1>4. OwnItem(w)
  <2>1. CASE SwitchSkipped(w) \/ SwitchWithoutCopy(w)
    BY <2>1 DEF SwitchSkipped, SwitchWithoutCopy, OwnItem
  <2>2. CASE SwitchVanished(w)
    BY <1>2, <2>2, NewItems DEF SwitchVanished, OwnItem
  <2>3. CASE SwitchDone(w)
    <3>1. Closed(ItemOf(w), "completed") \in Items
      BY <1>2, ItemUpdates
    <3>2. item' = [item EXCEPT ![mover[w].move][mover[w].sha] = Closed(ItemOf(w), "completed")]
      BY <1>1, <2>3, AtWork DEF SwitchDone, ItemOf, MoverInv, MoveTypeOK
    <3>. QED
      BY <1>2, <2>3, <3>1, <3>2 DEF SwitchDone, OwnItem
  <2>. QED
    BY <2>1, <2>2, <2>3
<1>. QED
  BY <1>1, <1>2, <1>3, <1>4, SameLocks, QuietTo DEF Positions

LEMMA StartVerifyRight ==
    ASSUME BlobInv, MoverInv, NEW w \in Movers, StartVerify(w)
    PROVE  Right
<1>. DEFINE x == [mover[w] EXCEPT !.pc = "verify"]
            sha == mover[w].sha
<1>1. /\ mover[w].pc = "switch" /\ lock[sha] = Nobody /\ Mine(w) /\ mover[w].put
      /\ lock' = [lock EXCEPT ![sha] = w] /\ To(w, "verify")
      /\ UNCHANGED <<backend, row, garbage, objects, file, up, sweep, read, move, item>>
  BY DEF StartVerify, Switches
<1>2. /\ mover[w] \in MoverRows /\ sha \in Shas /\ mover[w].move \in Moves
      /\ Started(mover[w].move) /\ Target(w) = "s3"
  BY <1>1, AtWork
<1>3. x \in MoverRows /\ mover' = [mover EXCEPT ![w] = x] /\ mover'[w] = x
  BY <1>1, <1>2, MoverUpdates DEF Positions, To, MoverInv, MoveTypeOK
<1>4. x.move = mover[w].move /\ x.sha = sha /\ x.pc = "verify" /\ x.put = mover[w].put
  BY <1>2 DEF MoverRows
<1>. HIDE DEF x
<1>5. lock'[sha] = w /\ lock' \in [Shas -> Actors \cup {Nobody}]
      /\ \A c \in Shas : lock'[c] # lock[c] => lock[c] \in {w, Nobody}
  BY <1>1, <1>2 DEF BlobInv, BlobTypeOK, Actors
<1>6. MoverSound(w)'
  BY <1>1, <1>2, <1>3, <1>4, <1>5 DEF MoverSound, Mine, Claims, ItemOf, Target, Started
<1>7. OwnItem(w)
  BY <1>1 DEF OwnItem
<1>. QED
  BY <1>1, <1>3, <1>5, <1>6, <1>7, SameGarbage, QuietRight

LEMMA VerifyFailsRight ==
    ASSUME BlobInv, MoverInv, NEW w \in Movers, VerifyFails(w)
    PROVE  Right
<1>1. /\ mover[w].pc = "verify" /\ lock' = [lock EXCEPT ![mover[w].sha] = Nobody]
      /\ To(w, "discard") /\ OwnItem(w) /\ move' = move
      /\ UNCHANGED <<backend, row, garbage, objects, file, up, sweep, read>>
  BY DEF VerifyFails, OwnItem
<1>2. mover[w].sha \in Shas /\ lock[mover[w].sha] = w
  BY <1>1, AtWork DEF MoverInv, MoverSound
<1>3. /\ lock' \in [Shas -> Actors \cup {Nobody}]
      /\ \A c \in Shas : lock'[c] # lock[c] => lock[c] \in {w, Nobody}
  BY <1>1, <1>2 DEF BlobInv, BlobTypeOK
<1>. QED
  BY <1>1, <1>3, SameGarbage, QuietTo DEF Positions

---------------------------------------------------------------------------
(* The steps that write rows or objects *)

LEMMA PutRight ==
    ASSUME BlobInv, MoverInv, NEW w \in Movers, NEW x \in MoverRows,
           mover[w].pc = "put", mover' = [mover EXCEPT ![w] = x],
           x.move = mover[w].move, x.sha = mover[w].sha, x.pc \in {"switch", "failed"},
           objects' \in {objects, objects \cup {mover[w].sha}},
           UNCHANGED <<backend, row, garbage, file, lock, up, sweep, read, move, item>>
    PROVE  Right
<1>1. mover[w].sha \in Shas /\ Target(w) = "s3"
  BY AtWork
<1>2. MoverSound(w)'
  BY <1>1, GoesOn
<1>3. BlobTypeOK' /\ MoverWrites /\ MovesRight /\ OwnItem(w)
  BY <1>1 DEF BlobInv, BlobTypeOK, MoverWrites, MovesRight, OwnItem
<1>4. Kept' \in {Kept, Kept \cup {mover[w].sha}}
  BY <1>1 DEF Kept, InS3
<1>. QED
  BY <1>1, <1>2, <1>3, <1>4, LoopRight

LEMMA PutCopyRight ==
    ASSUME BlobInv, MoverInv, NEW w \in Movers, PutCopy(w)
    PROVE  Right
<1>. DEFINE x == [mover[w] EXCEPT !.pc = "switch", !.put = TRUE]
<1>1. /\ mover[w].pc = "put" /\ objects' = objects \cup {mover[w].sha}
      /\ UNCHANGED <<backend, row, garbage, file, lock, up, sweep, read, move, item>>
  BY DEF PutCopy
<1>2. mover[w] \in MoverRows /\ x \in MoverRows
  BY <1>1, AtWork, MoverUpdates DEF Positions
<1>3. mover' = [mover EXCEPT ![w] = x]
  BY DEF PutCopy, MoverInv, MoveTypeOK
<1>4. x.move = mover[w].move /\ x.sha = mover[w].sha /\ x.pc = "switch"
  BY <1>2 DEF MoverRows
<1>. HIDE DEF x
<1>. QED
  BY <1>1, <1>2, <1>3, <1>4, PutRight

LEMMA RequestFailsRight ==
    ASSUME BlobInv, MoverInv, NEW w \in Movers, RequestFails(w)
    PROVE  Right
<1>1. /\ To(w, "failed")
      /\ UNCHANGED <<backend, row, garbage, file, lock, up, sweep, read, move, item>>
  BY DEF RequestFails
<1>2. CASE mover[w].pc = "get" /\ UNCHANGED objects
  <2>1. OwnItem(w)
    BY <1>1 DEF OwnItem
  <2>. QED
    BY <1>1, <1>2, <2>1, SameLocks, SameGarbage, QuietTo DEF Positions
<1>3. CASE mover[w].pc = "put" /\ objects' \in {objects, objects \cup {mover[w].sha}}
  <2>. DEFINE x == [mover[w] EXCEPT !.pc = "failed"]
  <2>1. mover[w] \in MoverRows /\ x \in MoverRows
    BY <1>3, AtWork, MoverUpdates DEF Positions
  <2>2. mover' = [mover EXCEPT ![w] = x]
    BY <1>1 DEF To, MoverInv, MoveTypeOK
  <2>3. x.move = mover[w].move /\ x.sha = mover[w].sha /\ x.pc = "failed"
    BY <2>1 DEF MoverRows
  <2>. HIDE DEF x
  <2>. QED
    BY <1>1, <1>3, <2>1, <2>2, <2>3, PutRight
<1>. QED
  BY <1>2, <1>3 DEF RequestFails

\* An item that is completed as its row is switched.
LEMMA CompletesItem ==
    ASSUME MoverInv, NEW w \in Movers, mover[w].pc \in {"switch", "verify"}, Mine(w),
           item' = [item EXCEPT ![mover[w].move][mover[w].sha] = Closed(@, "completed")]
    PROVE  OwnItem(w)
<1>1. mover[w].move \in Moves /\ mover[w].sha \in Shas /\ ItemOf(w) \in Items
  BY AtWork
<1>2. Closed(ItemOf(w), "completed") \in Items
  BY <1>1, ItemUpdates
<1>3. item' = [item EXCEPT ![mover[w].move][mover[w].sha] = Closed(ItemOf(w), "completed")]
  BY <1>1 DEF ItemOf, MoverInv, MoveTypeOK
<1>. QED
  BY <1>2, <1>3 DEF OwnItem

\* The move of one row, by a loop whose item is open and its own.
LEMMA SwitchRight ==
    ASSUME BlobInv, MoverInv, NEW w \in Movers, mover[w].pc \in {"switch", "verify"}, Mine(w),
           To(w, "finalize"), move' = move,
           item' = [item EXCEPT ![mover[w].move][mover[w].sha] = Closed(@, "completed")],
           row' = [row EXCEPT ![mover[w].sha].storage = Target(w),
                              ![mover[w].sha].location = "key"],
           lock[mover[w].sha] \in Movers \cup {Nobody},
           Target(w) = "s3" => mover[w].sha \in objects,
           lock' \in [Shas -> Actors \cup {Nobody}],
           \A c \in Shas : lock'[c] # lock[c] => lock[c] = w,
           garbage' \in [Shas -> [Locations -> Entries]],
           UNCHANGED <<backend, objects, file, up, sweep, read>>
    PROVE  Right
<1>. DEFINE sha == mover[w].sha
<1>1. sha \in Shas /\ Target(w) \in Storages /\ mover[w].move \in Moves
  BY AtWork
<1>2. row[sha] \in Rows /\ row \in [Shas -> Rows]
  BY <1>1 DEF BlobInv, BlobTypeOK
<1>3. /\ row'[sha].storage = Target(w)
      /\ row'[sha].refs = row[sha].refs /\ row'[sha].delete_after = row[sha].delete_after
      /\ \A c \in Shas : c # sha => row'[c] = row[c]
  BY <1>1, <1>2 DEF Rows
<1>4. row' \in [Shas -> Rows]
  <2>1. [row[sha] EXCEPT !.storage = Target(w), !.location = "key"] \in Rows
    BY <1>1, <1>2 DEF Rows, Locations
  <2>2. row' = [row EXCEPT ![sha] = [row[sha] EXCEPT !.storage = Target(w), !.location = "key"]]
    BY <1>1, <1>2
  <2>. QED
    BY <1>2, <2>1, <2>2
<1>5. BlobTypeOK'
  BY <1>4 DEF BlobInv, BlobTypeOK
<1>6. MoverWrites
  BY <1>1, <1>3 DEF MoverWrites
<1>7. sha \in Kept'
  BY <1>1, <1>3 DEF Kept, InS3, Storages
<1>8. Kept' = Kept \cup {sha}
  BY <1>1, <1>3, <1>7, KeptGrows
<1>9. MovesRight
  <2>1. item[mover[w].move][sha].status = "open"
    BY DEF Mine, ItemOf
  <2>2. move[mover[w].move].state = "running"
    BY <1>1, <2>1 DEF MoverInv, EndedMoveIsClosed, Open
  <2>. QED
    BY <1>1, <1>3, <2>1, <2>2 DEF MovesRight, Target
<1>10. OwnItem(w)
  BY CompletesItem
<1>11. PICK x \in MoverRows : mover' = [mover EXCEPT ![w] = x] /\ MoverSound(w)'
  BY MovesTo DEF Positions
<1>. QED
  BY <1>1, <1>5, <1>6, <1>8, <1>9, <1>10, <1>11, LoopRight

LEMMA SwitchToDbRight ==
    ASSUME BlobInv, MoverInv, NEW w \in Movers, SwitchToDb(w)
    PROVE  Right
<1>. DEFINE sha == mover[w].sha
<1>1. /\ mover[w].pc = "switch" /\ lock[sha] = Nobody /\ Mine(w) /\ Target(w) = "db"
      /\ row' = [row EXCEPT ![sha].storage = "db", ![sha].location = "key"]
      /\ garbage' = [garbage EXCEPT ![sha][row[sha].location] = Queued]
      /\ item' = [item EXCEPT ![mover[w].move][sha] = Closed(@, "completed")]
      /\ To(w, "finalize")
      /\ UNCHANGED <<backend, objects, file, lock, up, sweep, read, move>>
  BY DEF SwitchToDb, Switches
<1>2. sha \in Shas /\ row[sha].location \in Locations
  BY <1>1, AtWork DEF BlobInv, BlobTypeOK, Rows
<1>3. garbage' \in [Shas -> [Locations -> Entries]]
  BY <1>1, <1>2, GarbageUpdates
<1>4. lock' \in [Shas -> Actors \cup {Nobody}]
  BY <1>1, SameLocks
<1>. QED
  BY <1>1, <1>3, <1>4, SwitchRight

LEMMA VerifiedRight ==
    ASSUME BlobInv, MoverInv, NEW w \in Movers, Verified(w)
    PROVE  Right
<1>. DEFINE sha == mover[w].sha
<1>1. /\ mover[w].pc = "verify" /\ sha \in objects
      /\ row' = [row EXCEPT ![sha].storage = "s3", ![sha].location = "key"]
      /\ garbage' = NoGarbage(sha)
      /\ item' = [item EXCEPT ![mover[w].move][sha] = Closed(@, "completed")]
      /\ lock' = [lock EXCEPT ![sha] = Nobody]
      /\ To(w, "finalize")
      /\ UNCHANGED <<backend, objects, file, up, sweep, read, move>>
  BY DEF Verified
<1>2. sha \in Shas /\ lock[sha] = w /\ Mine(w)
  BY <1>1, AtWork DEF MoverInv, MoverSound
<1>3. Target(w) = "s3"
  BY <1>1, AtWork DEF MoverInv, MoverSound
<1>4. garbage' \in [Shas -> [Locations -> Entries]]
  BY <1>1, <1>2, GarbageUpdates
<1>5. /\ lock' \in [Shas -> Actors \cup {Nobody}]
      /\ \A c \in Shas : lock'[c] # lock[c] => lock[c] = w
  BY <1>1, <1>2 DEF BlobInv, BlobTypeOK
<1>. QED
  BY <1>1, <1>2, <1>3, <1>4, <1>5, SwitchRight

---------------------------------------------------------------------------
(* A failed attempt *)

LEMMA DiscardCopyRight ==
    ASSUME BlobInv, MoverInv, NEW w \in Movers, DiscardCopy(w)
    PROVE  Right
<1>1. /\ mover[w].pc = "discard" /\ To(w, "failed") /\ OwnItem(w) /\ move' = move
      /\ UNCHANGED <<backend, row, objects, file, lock, up, sweep, read>>
      /\ QueueCopy(w) \/ UNCHANGED garbage
  BY DEF DiscardCopy, OwnItem
<1>2. garbage' \in [Shas -> [Locations -> Entries]]
  BY <1>1, AtWork, QueuedCopy, SameGarbage
<1>. QED
  BY <1>1, <1>2, SameLocks, QuietTo DEF Positions

LEMMA PoolBusyRight ==
    ASSUME BlobInv, MoverInv, NEW w \in Movers, PoolBusy(w)
    PROVE  Right
<1>. DEFINE pc == IF mover[w].put THEN "discard" ELSE "failed"
            x == [mover[w] EXCEPT !.pc = pc, !.busy = TRUE]
<1>1. /\ mover[w].pc \in {"row", "cancel", "switch"} /\ UNCHANGED <<blobVars, move, item>>
  BY DEF PoolBusy
<1>2. /\ OwnItem(w) /\ UNCHANGED <<backend, row, objects, file, up, sweep, read, lock, garbage>>
      /\ mover[w].pc \notin {"idle", "finalize"}
  BY <1>1 DEF OwnItem, blobVars
<1>3. mover[w] \in MoverRows /\ x \in MoverRows
  BY <1>2, AtWork, MoverUpdates DEF Positions
<1>4. mover' = [mover EXCEPT ![w] = x]
  BY DEF PoolBusy, MoverInv, MoveTypeOK
<1>5. /\ x.move = mover[w].move /\ x.sha = mover[w].sha /\ x.pc \in {"discard", "failed"}
      /\ x.put = mover[w].put
  BY <1>3 DEF MoverRows
<1>. HIDE DEF x
<1>6. MoverSound(w)'
  BY <1>1, <1>2, <1>3, <1>4, <1>5, GoesOn, AtWork
<1>. QED
  BY <1>1, <1>2, <1>3, <1>4, <1>6, SameLocks, SameGarbage, QuietRight

\* What is left of an attempt: its outcome, written for its own open item only.
LEMMA OutcomeRight ==
    ASSUME BlobInv, MoverInv, NEW w \in Movers,
           SourceIsCorrupt(w) \/ LosesClaim(w) \/ HandBack(w) \/ AttemptFails(w)
    PROVE  Right
<1>1. /\ mover[w].pc \in {"get", "cancel", "failed"} /\ UNCHANGED <<blobVars, move>>
      /\ To(w, "finalize") \/ mover' = [mover EXCEPT ![w] = IdleMover]
  BY DEF SourceIsCorrupt, LosesClaim, HandBack, AttemptFails
<1>2. /\ UNCHANGED <<backend, row, objects, file, up, sweep, read, lock, garbage>>
      /\ mover[w].pc \notin {"idle", "finalize"} /\ ItemOf(w) \in Items
  BY <1>1, AtWork DEF blobVars
<1>3. OwnItem(w)
  <2>1. ASSUME NEW i \in Items, Mine(w), Outcome(w, i) PROVE OwnItem(w)
    BY <1>2, <2>1 DEF Outcome, OwnItem
  <2>2. /\ Closed(ItemOf(w), "open") \in Items /\ Closed(ItemOf(w), "failed") \in Items
        /\ [Closed(ItemOf(w), "open") EXCEPT !.attempts = IF @ = 0 THEN 0 ELSE @ - 1] \in Items
    BY <1>2, ItemUpdates, HandedBackItem
  <2>3. CASE item' = item
    BY <2>3 DEF OwnItem
  <2>. QED
    BY <2>1, <2>2, <2>3 DEF SourceIsCorrupt, LosesClaim, HandBack, AttemptFails
<1>4. CASE To(w, "finalize")
  BY <1>1, <1>2, <1>3, <1>4, SameLocks, SameGarbage, QuietTo DEF Positions
<1>5. CASE mover' = [mover EXCEPT ![w] = IdleMover]
  BY <1>1, <1>2, <1>3, <1>5, SameLocks, SameGarbage, QuietIdle
<1>. QED
  BY <1>1, <1>4, <1>5

LEMMA MoverCrashesRight ==
    ASSUME BlobInv, MoverInv, NEW w \in Movers, MoverCrashes(w)
    PROVE  Right
<1>1. /\ lock' = [sha \in Shas |-> IF lock[sha] = w THEN Nobody ELSE lock[sha]]
      /\ mover' = [mover EXCEPT ![w] = IdleMover] /\ OwnItem(w) /\ move' = move
      /\ UNCHANGED <<backend, row, garbage, objects, file, up, sweep, read>>
  BY DEF MoverCrashes, OwnItem
<1>2. /\ lock' \in [Shas -> Actors \cup {Nobody}]
      /\ \A c \in Shas : lock'[c] # lock[c] => lock[c] \in {w, Nobody}
  BY <1>1 DEF BlobInv, BlobTypeOK
<1>. QED
  BY <1>1, <1>2, SameGarbage, QuietIdle

---------------------------------------------------------------------------
(* Steps that write the queue *)

\* Nothing happens to blobs, and the loops find what they rely on.
LEMMA QueueRight ==
    ASSUME BlobInv, MoverInv, UNCHANGED blobVars,
           move' \in [Moves -> MoveRows], item' \in [Moves -> [Shas -> Items]],
           mover' \in [Movers -> MoverRows], MovesStay, EndedMoveIsClosed', NEW w,
           ItemsOfOthers(w), \A v \in Movers : v # w => mover'[v] = mover[v],
           w \in Movers => MoverSound(w)'
    PROVE  Right
<1>1. BlobInv'
  BY DEF blobVars, BlobInv, BlobTypeOK, Locks, UploadsSound, SweepsSound, RowsSound, RowSound,
         Unused, NoFile, NoInsert, InS3
<1>2. MoveTypeOK'
  BY <1>1 DEF MoveTypeOK, BlobInv
<1>3. ASSUME NEW v \in Movers PROVE MoverSound(v)'
  <2>1. CASE v # w
    BY <2>1, OthersSound DEF blobVars
  <2>. QED
    BY <2>1
<1>4. MoverInv'
  BY <1>2, <1>3 DEF MoverInv
<1>5. StoreStep
  BY DEF StoreStep, Status, Kept, InS3, blobVars
<1>6. MovesRight /\ Apart
  BY DEF MovesRight, Apart, blobVars
<1>. QED
  BY <1>1, <1>4, <1>5, <1>6 DEF Right

LEMMA ClaimRight ==
    ASSUME BlobInv, MoverInv, NEW w \in Movers, NEW m \in Moves, NEW sha \in Shas,
           Claim(w, m, sha)
    PROVE  Right
<1>. DEFINE i == [item[m][sha] EXCEPT !.claim = w, !.lapsed = FALSE,
                                      !.attempts = item[m][sha].attempts + 1]
            x == [IdleMover EXCEPT !.pc = "row", !.move = m, !.sha = sha]
<1>1. /\ mover[w].pc = "idle" /\ move[m].state = "running" /\ item[m][sha].status = "open"
      /\ ItemFree(m, sha) /\ item[m][sha].attempts < MaxAttempts
      /\ mover' = [mover EXCEPT ![w] = x] /\ UNCHANGED <<blobVars, move>>
  BY DEF Claim, Claimable
<1>2. item[m][sha] \in Items /\ item \in [Moves -> [Shas -> Items]]
  BY DEF MoverInv, MoveTypeOK
<1>3. item' = [item EXCEPT ![m][sha] = i]
  BY Zenon DEF Claim
<1>4. i \in Items /\ x \in MoverRows
  BY <1>1, <1>2, ClaimedItem, MoverStarts
<1>5. i.status = item[m][sha].status
  BY <1>2 DEF Items
<1>6. x.pc = "row" /\ x.move = m /\ x.sha = sha /\ ~x.put
  BY DEF IdleMover
<1>. HIDE DEF i, x
<1>7. item' \in [Moves -> [Shas -> Items]] /\ mover' \in [Movers -> MoverRows]
  BY <1>1, <1>2, <1>3, <1>4 DEF MoverInv, MoveTypeOK
<1>8. move' \in [Moves -> MoveRows] /\ MovesStay
  BY <1>1 DEF MovesStay, Started, MoverInv, MoveTypeOK
<1>9. \A n \in Moves, c \in Shas :
          \/ item'[n][c] = item[n][c]
          \/ n = m /\ c = sha /\ item'[n][c].status = "open"
  <2>1. item'[m][sha] = i
    BY <1>2, <1>3
  <2>2. \A n \in Moves, c \in Shas : ~(n = m /\ c = sha) => item'[n][c] = item[n][c]
    BY <1>2, <1>3
  <2>. QED
    BY <1>1, <1>5, <2>1, <2>2
<1>10. EndedMoveIsClosed'
  BY <1>1, <1>9 DEF EndedMoveIsClosed, Open, MoverInv
<1>11. ItemsOfOthers(w)
  BY <1>1, <1>9 DEF ItemsOfOthers
<1>12. mover'[w] = x /\ \A v \in Movers : v # w => mover'[v] = mover[v]
  BY <1>1 DEF MoverInv, MoveTypeOK
<1>13. MoverSound(w)'
  BY <1>1, <1>6, <1>12 DEF MoverSound, Started
<1>. QED
  BY <1>1, <1>7, <1>8, <1>10, <1>11, <1>12, <1>13, QueueRight

\* A job row at its end.
LEMMA FinalizedMove ==
    ASSUME MoverInv, NEW m \in Moves, Finalized(m), item' = item
    PROVE  move' \in [Moves -> MoveRows] /\ MovesStay /\ EndedMoveIsClosed'
<1>1. move \in [Moves -> MoveRows]
  BY DEF MoverInv, MoveTypeOK
<1>2. CASE move' = move
  BY <1>1, <1>2 DEF MovesStay, Started, MoverInv, EndedMoveIsClosed, Open
<1>3. CASE Open(m) = {} /\ move' = [move EXCEPT ![m].state = "finished"]
  <2>1. /\ move'[m].state = "finished" /\ move'[m].target = move[m].target
        /\ \A n \in Moves : n # m => move'[n] = move[n]
        /\ move' \in [Moves -> MoveRows]
    <3>1. [move[m] EXCEPT !.state = "finished"] \in MoveRows
      BY <1>1 DEF MoveRows
    <3>2. move' = [move EXCEPT ![m] = [move[m] EXCEPT !.state = "finished"]]
      BY <1>1, <1>3
    <3>. QED
      BY <1>1, <3>1, <3>2 DEF MoveRows
  <2>. QED
    BY <1>3, <2>1 DEF MovesStay, Started, MoverInv, EndedMoveIsClosed, Open
<1>. QED
  BY <1>2, <1>3 DEF Finalized

LEMMA FinalizeRight ==
    ASSUME BlobInv, MoverInv, NEW w \in Movers,
           Finalize(w) \/ \E m \in Moves : SettleIdle(w, m)
    PROVE  Right
<1>1. PICK m \in Moves : Finalized(m)
  BY DEF Finalize, SettleIdle, MoverInv, MoverSound
<1>2. /\ UNCHANGED blobVars /\ item' = item
      /\ mover' = mover \/ mover' = [mover EXCEPT ![w] = IdleMover]
  BY DEF Finalize, SettleIdle
<1>3. item' \in [Moves -> [Shas -> Items]] /\ ItemsOfOthers(w)
  BY <1>2 DEF MoverInv, MoveTypeOK, ItemsOfOthers
<1>4. move' \in [Moves -> MoveRows] /\ MovesStay /\ EndedMoveIsClosed'
  BY <1>1, <1>2, FinalizedMove
<1>5. CASE mover' = [mover EXCEPT ![w] = IdleMover]
  <2>1. mover' \in [Movers -> MoverRows] /\ \A v \in Movers : v # w => mover'[v] = mover[v]
    BY <1>5, MoverStarts DEF MoverInv, MoveTypeOK
  <2>2. MoverSound(w)'
    BY <1>5, GoesIdle
  <2>. QED
    BY <1>2, <1>3, <1>4, <2>1, <2>2, QueueRight
<1>6. CASE mover' = mover
  <2>1. mover' \in [Movers -> MoverRows] /\ \A v \in Movers : v # Nobody => mover'[v] = mover[v]
    BY <1>6 DEF MoverInv, MoveTypeOK
  <2>2. ItemsOfOthers(Nobody)
    BY <1>2 DEF ItemsOfOthers
  <2>3. Nobody \notin Movers
    BY BlobAssumption DEF Actors
  <2>. QED
    BY <1>2, <1>3, <1>4, <2>1, <2>2, <2>3, QueueRight
<1>. QED
  BY <1>2, <1>5, <1>6

LEMMA ReapZombiesRight ==
    ASSUME BlobInv, MoverInv, NEW w \in Movers, NEW m \in Moves, ReapZombies(w, m)
    PROVE  Right
<1>. DEFINE dead == {sha \in Shas : Claimable(item[m][sha]) /\ item[m][sha].attempts >= MaxAttempts}
            x == [IdleMover EXCEPT !.pc = "finalize", !.move = m]
<1>1. /\ dead # {} /\ \A sha \in dead : ItemFree(m, sha)
      /\ item' = [item EXCEPT ![m] = [sha \in Shas |->
                      IF sha \in dead THEN Closed(item[m][sha], "failed") ELSE item[m][sha]]]
      /\ mover' = [mover EXCEPT ![w] = x] /\ UNCHANGED <<blobVars, move>>
  BY DEF ReapZombies, MoverInv, MoveTypeOK
<1>2. item \in [Moves -> [Shas -> Items]]
  BY DEF MoverInv, MoveTypeOK
<1>3. \A sha \in dead : item[m][sha].status = "open"
  BY DEF Claimable
<1>. HIDE DEF dead
<1>4. \A n \in Moves, c \in Shas :
          \/ item'[n][c] = item[n][c]
          \/ n = m /\ c \in dead /\ item'[n][c] = Closed(item[m][c], "failed")
  BY <1>1, <1>2
<1>5. item' \in [Moves -> [Shas -> Items]]
  <2>1. \A c \in Shas : Closed(item[m][c], "failed") \in Items /\ item[m][c] \in Items
    BY <1>2, ItemUpdates
  <2>2. [sha \in Shas |-> IF sha \in dead THEN Closed(item[m][sha], "failed")
                          ELSE item[m][sha]] \in [Shas -> Items]
    BY <2>1
  <2>. QED
    BY <1>1, <1>2, <2>2
<1>6. \A c \in Shas : Closed(item[m][c], "failed").status = "failed"
  BY <1>2 DEF Closed, Items
<1>7. move[m].state = "running"
  BY <1>1, <1>3 DEF MoverInv, EndedMoveIsClosed, Open, dead
<1>8. EndedMoveIsClosed'
  BY <1>1, <1>4, <1>6 DEF MoverInv, EndedMoveIsClosed, Open
<1>9. ItemsOfOthers(w)
  BY <1>1, <1>4 DEF ItemsOfOthers
<1>10. move' \in [Moves -> MoveRows] /\ MovesStay
  BY <1>1 DEF MovesStay, Started, MoverInv, MoveTypeOK
<1>11. /\ mover' \in [Movers -> MoverRows] /\ mover'[w] = x
       /\ \A v \in Movers : v # w => mover'[v] = mover[v]
  BY <1>1, MoverStarts DEF MoverInv, MoveTypeOK
<1>12. MoverSound(w)'
  BY <1>1, <1>7, <1>11 DEF MoverSound, Started, IdleMover
<1>. QED
  BY <1>1, <1>5, <1>8, <1>9, <1>10, <1>11, <1>12, QueueRight

\* Start, cancel, retry, and a lease that lapses: the loops stay as they are.
LEMMA AdminRight ==
    ASSUME BlobInv, MoverInv, UNCHANGED <<blobVars, mover>>,
           move' \in [Moves -> MoveRows], item' \in [Moves -> [Shas -> Items]],
           MovesStay, EndedMoveIsClosed',
           \A m \in Moves, c \in Shas :
               item[m][c].status = "open" /\ ~ItemFree(m, c) =>
                   item'[m][c].status = "open" /\ item'[m][c].claim = item[m][c].claim
    PROVE  Right
<1>1. Nobody \notin Movers
  BY BlobAssumption DEF Actors
<1>2. ItemsOfOthers(Nobody)
  BY DEF ItemsOfOthers
<1>3. mover' \in [Movers -> MoverRows] /\ \A v \in Movers : v # Nobody => mover'[v] = mover[v]
  BY DEF MoverInv, MoveTypeOK
<1>. QED
  BY <1>1, <1>2, <1>3, QueueRight

LEMMA StartMoveRight ==
    ASSUME BlobInv, MoverInv, NEW m \in Moves, NEW target \in Storages, StartMove(m, target)
    PROVE  Right
<1>1. move \in [Moves -> MoveRows] /\ item \in [Moves -> [Shas -> Items]]
  BY DEF MoverInv, MoveTypeOK
<1>2. PICK moved \in SUBSET Shas :
          /\ move' = [move EXCEPT ![m] = [state |-> "running", target |-> target]]
          /\ item' = [item EXCEPT ![m] =
                         [sha \in Shas |-> IF sha \in moved THEN OpenItem ELSE NoItem]]
          /\ UNCHANGED <<blobVars, mover>> /\ ~Started(m)
  BY DEF StartMove
<1>3. move' \in [Moves -> MoveRows] /\ move'[m].state = "running"
      /\ \A n \in Moves : n # m => move'[n] = move[n] /\ item'[n] = item[n]
  BY <1>1, <1>2 DEF MoveRows
<1>4. item' \in [Moves -> [Shas -> Items]]
  BY <1>1, <1>2, NewItems
<1>5. MovesStay
  BY <1>2, <1>3 DEF MovesStay, Started
<1>6. EndedMoveIsClosed'
  BY <1>3 DEF MoverInv, EndedMoveIsClosed, Open
<1>7. \A c \in Shas : item[m][c].status # "open"
  BY <1>2 DEF MoverInv, EndedMoveIsClosed, Open, Started
<1>. QED
  BY <1>2, <1>3, <1>4, <1>5, <1>6, <1>7, AdminRight

LEMMA CancelMoveRight ==
    ASSUME BlobInv, MoverInv, NEW m \in Moves, CancelMove(m)
    PROVE  Right
<1>1. move \in [Moves -> MoveRows] /\ item \in [Moves -> [Shas -> Items]]
  BY DEF MoverInv, MoveTypeOK
<1>2. /\ \A sha \in Open(m) : ItemFree(m, sha)
      /\ item' = [item EXCEPT ![m] = [sha \in Shas |->
             IF sha \in Open(m) THEN [item[m][sha] EXCEPT !.status = "cancelled"] ELSE item[m][sha]]]
      /\ move' = [move EXCEPT ![m].state = "cancelled"]
      /\ UNCHANGED <<blobVars, mover>>
  BY <1>1 DEF CancelMove
<1>3. /\ move' \in [Moves -> MoveRows]
      /\ move'[m].state = "cancelled" /\ move'[m].target = move[m].target
      /\ \A n \in Moves : n # m => move'[n] = move[n] /\ item'[n] = item[n]
  <2>1. [move[m] EXCEPT !.state = "cancelled"] \in MoveRows
    BY <1>1 DEF MoveRows
  <2>2. move' = [move EXCEPT ![m] = [move[m] EXCEPT !.state = "cancelled"]]
    BY <1>1, <1>2
  <2>. QED
    BY <1>1, <1>2, <2>1, <2>2 DEF MoveRows
<1>4. \A c \in Shas : /\ item[m][c] \in Items
                       /\ [item[m][c] EXCEPT !.status = "cancelled"] \in Items
                       /\ [item[m][c] EXCEPT !.status = "cancelled"].status = "cancelled"
  <2>. SUFFICES ASSUME NEW c \in Shas
       PROVE  /\ item[m][c] \in Items
              /\ [item[m][c] EXCEPT !.status = "cancelled"] \in Items
              /\ [item[m][c] EXCEPT !.status = "cancelled"].status = "cancelled"
    OBVIOUS
  <2>1. item[m][c] \in Items
    BY <1>1
  <2>. QED
    BY <2>1, ItemUpdates DEF Items
<1>5. item' \in [Moves -> [Shas -> Items]]
  <2>1. [c \in Shas |-> IF c \in Open(m) THEN [item[m][c] EXCEPT !.status = "cancelled"]
                        ELSE item[m][c]] \in [Shas -> Items]
    BY <1>4
  <2>. QED
    BY <1>1, <1>2, <2>1
<1>6. \A c \in Shas : item'[m][c] = IF c \in Open(m) THEN [item[m][c] EXCEPT !.status = "cancelled"]
                                    ELSE item[m][c]
  BY <1>1, <1>2
<1>7. EndedMoveIsClosed'
  <2>1. \A c \in Shas : item'[m][c].status # "open"
    <3>. SUFFICES ASSUME NEW c \in Shas PROVE item'[m][c].status # "open"
      OBVIOUS
    <3>1. CASE c \in Open(m)
      BY <1>4, <1>6, <3>1
    <3>2. CASE c \notin Open(m)
      BY <1>6, <3>2 DEF Open
    <3>. QED
      BY <3>1, <3>2
  <2>. QED
    BY <1>3, <2>1 DEF MoverInv, EndedMoveIsClosed, Open
<1>8. MovesStay
  BY <1>3 DEF MovesStay, Started
<1>9. \A n \in Moves, c \in Shas :
          item[n][c].status = "open" /\ ~ItemFree(n, c) => item'[n][c] = item[n][c]
  BY <1>2, <1>3 DEF Open
<1>. QED
  BY <1>2, <1>3, <1>5, <1>7, <1>8, <1>9, AdminRight

LEMMA RetryMoveRight ==
    ASSUME BlobInv, MoverInv, NEW m \in Moves, RetryMove(m)
    PROVE  Right
<1>1. move \in [Moves -> MoveRows] /\ item \in [Moves -> [Shas -> Items]]
  BY DEF MoverInv, MoveTypeOK
<1>. DEFINE failed == {sha \in Shas : item[m][sha].status = "failed"}
<1>2. /\ item' = [item EXCEPT ![m] = [sha \in Shas |->
             IF sha \in failed THEN OpenItem ELSE item[m][sha]]]
      /\ move' = [move EXCEPT ![m].state = "running"]
      /\ UNCHANGED <<blobVars, mover>>
  BY <1>1 DEF RetryMove
<1>3. /\ move' \in [Moves -> MoveRows]
      /\ move'[m].state = "running" /\ move'[m].target = move[m].target
      /\ \A n \in Moves : n # m => move'[n] = move[n] /\ item'[n] = item[n]
  <2>1. [move[m] EXCEPT !.state = "running"] \in MoveRows
    BY <1>1 DEF MoveRows
  <2>2. move' = [move EXCEPT ![m] = [move[m] EXCEPT !.state = "running"]]
    BY <1>1, <1>2
  <2>. QED
    BY <1>1, <1>2, <2>1, <2>2 DEF MoveRows
<1>4. item' \in [Moves -> [Shas -> Items]]
  <2>1. [sha \in Shas |-> IF sha \in failed THEN OpenItem ELSE item[m][sha]] \in [Shas -> Items]
    BY <1>1, NewItems
  <2>. QED
    BY <1>1, <1>2, <2>1
<1>5. EndedMoveIsClosed'
  BY <1>3 DEF MoverInv, EndedMoveIsClosed, Open
<1>6. MovesStay
  BY <1>3 DEF MovesStay, Started
<1>7. \A n \in Moves, c \in Shas : item[n][c].status = "open" => item'[n][c] = item[n][c]
  <2>1. \A c \in Shas : c \notin failed => item'[m][c] = item[m][c]
    BY <1>1, <1>2
  <2>. QED
    BY <1>3, <2>1
<1>. QED
  BY <1>2, <1>3, <1>4, <1>5, <1>6, <1>7, AdminRight

LEMMA ItemLeaseLapsesRight ==
    ASSUME BlobInv, MoverInv, NEW m \in Moves, NEW sha \in Shas, ItemLeaseLapses(m, sha)
    PROVE  Right
<1>. DEFINE i == [item[m][sha] EXCEPT !.lapsed = TRUE]
<1>1. move \in [Moves -> MoveRows] /\ item \in [Moves -> [Shas -> Items]]
  BY DEF MoverInv, MoveTypeOK
<1>2. i \in Items /\ i.status = item[m][sha].status /\ i.claim = item[m][sha].claim
  <2>1. item[m][sha] \in Items
    BY <1>1
  <2>. QED
    BY <2>1, ItemUpdates DEF Items
<1>3. item' = [item EXCEPT ![m][sha] = i] /\ UNCHANGED <<blobVars, move, mover>>
  <2>1. item' = [item EXCEPT ![m][sha].lapsed = TRUE] /\ UNCHANGED <<blobVars, move, mover>>
    BY DEF ItemLeaseLapses
  <2>2. item'[m][sha] = i /\ item' \in [Moves -> [Shas -> Items]]
    <3>1. [item[m] EXCEPT ![sha] = i] \in [Shas -> Items]
      BY <1>1, <1>2
    <3>2. item' = [item EXCEPT ![m] = [item[m] EXCEPT ![sha] = i]]
      BY <1>1, <2>1
    <3>. QED
      BY <1>1, <3>1, <3>2
  <2>3. \A n \in Moves, c \in Shas : ~(n = m /\ c = sha) => item'[n][c] = item[n][c]
    BY <1>1, <2>1
  <2>. QED
    BY <1>1, <2>1, <2>2, <2>3
<1>. HIDE DEF i
<1>4. item' \in [Moves -> [Shas -> Items]]
  BY <1>1, <1>2, <1>3
<1>5. \A n \in Moves, c \in Shas :
          item'[n][c].status = item[n][c].status /\ item'[n][c].claim = item[n][c].claim
  <2>1. item'[m][sha] = i
    BY <1>1, <1>3
  <2>2. \A n \in Moves, c \in Shas : ~(n = m /\ c = sha) => item'[n][c] = item[n][c]
    BY <1>1, <1>3
  <2>. QED
    BY <1>2, <2>1, <2>2
<1>6. MovesStay /\ EndedMoveIsClosed'
  BY <1>3, <1>5 DEF MovesStay, Started, MoverInv, EndedMoveIsClosed, Open
<1>. QED
  BY <1>1, <1>3, <1>4, <1>5, <1>6, AdminRight

---------------------------------------------------------------------------
(* Every step of the composition *)

LEMMA BlobNextRight ==
    ASSUME BlobInv, MoverInv, [BlobNext]_blobVars, UNCHANGED moveVars
    PROVE  Right
<1>1. move' = move /\ item' = item /\ mover' = mover
  BY DEF moveVars
<1>2. BlobInv' /\ StoreStep
  BY BlobNextKeeps, BlobStepImplements
<1>3. MovesRight
  BY BlobStepFrame DEF MovesRight
<1>4. MoveTypeOK'
  BY <1>1, <1>2 DEF MoverInv, MoveTypeOK, BlobInv
<1>5. \A w \in Movers : MoverSound(w)'
  <2>. SUFFICES ASSUME NEW w \in Movers PROVE MoverSound(w)'
    OBVIOUS
  <2>1. w # Nobody
    BY BlobAssumption DEF Actors
  <2>2. ItemsOfOthers(Nobody) /\ MovesStay
    BY <1>1 DEF ItemsOfOthers, MovesStay, Started
  <2>3. \A c \in Shas : lock[c] = w => lock'[c] = lock[c]
    BY BlobStepFrame
  <2>. QED
    BY <1>1, <2>1, <2>2, <2>3, OthersSound
<1>6. EndedMoveIsClosed'
  BY <1>1 DEF MoverInv, EndedMoveIsClosed, Open
<1>7. MovesStay /\ Apart
  BY <1>1 DEF MovesStay, Started, Apart
<1>. QED
  BY <1>2, <1>3, <1>4, <1>5, <1>6, <1>7 DEF Right, MoverInv

LEMMA WorkRight ==
    ASSUME BlobInv, MoverInv, NEW w \in Movers, Work(w)
    PROVE  Right
  BY ReadRowRight, GetSourceRight, CancelStaleGarbageRight, PutCopyRight, SwitchEndsRight,
     SwitchToDbRight, StartVerifyRight, VerifiedRight, VerifyFailsRight, RequestFailsRight,
     OutcomeRight, PoolBusyRight, DiscardCopyRight, FinalizeRight
  DEF Work

LEMMA NextRight == BlobInv /\ MoverInv /\ [Next]_vars => Right
<1>. SUFFICES ASSUME BlobInv, MoverInv, [Next]_vars PROVE Right
  OBVIOUS
<1>1. CASE BlobNext /\ UNCHANGED moveVars
  BY <1>1, BlobNextRight
<1>2. CASE Admin
  BY <1>2, StartMoveRight, CancelMoveRight, RetryMoveRight DEF Admin
<1>3. ASSUME NEW w \in Movers, MoverStep(w) PROVE Right
  BY <1>3, WorkRight, ClaimRight, FinalizeRight, ReapZombiesRight, MoverCrashesRight DEF MoverStep
<1>4. ASSUME NEW m \in Moves, NEW sha \in Shas, ItemLeaseLapses(m, sha) PROVE Right
  BY <1>4, ItemLeaseLapsesRight
<1>5. CASE UNCHANGED vars
  <2>1. UNCHANGED blobVars /\ UNCHANGED moveVars
    BY <1>5 DEF vars
  <2>. QED
    BY <2>1, BlobNextRight
<1>. QED
  BY <1>1, <1>2, <1>3, <1>4, <1>5 DEF Next

LEMMA InitRight == Init => BlobInv /\ MoverInv
<1>. SUFFICES ASSUME Init PROVE BlobInv /\ MoverInv
  OBVIOUS
<1>1. BlobInv
  BY InitBlobInv DEF Init
<1>2. MoveTypeOK
  <2>1. NoMoveRow \in MoveRows
    BY DEF NoMoveRow, MoveRows, Storages
  <2>. QED
    BY <1>1, <2>1, NewItems, MoverStarts DEF Init, MoveTypeOK, BlobInv
<1>3. \A w \in Movers : MoverSound(w)
  BY DEF Init, MoverSound, IdleMover
<1>4. EndedMoveIsClosed
  BY DEF Init, EndedMoveIsClosed, Open, NoItem
<1>. QED
  BY <1>1, <1>2, <1>3, <1>4 DEF MoverInv

LEMMA Invariant == Spec => [](BlobInv /\ MoverInv)
<1>1. BlobInv /\ MoverInv /\ [Next]_vars => BlobInv' /\ MoverInv'
  BY NextRight DEF Right
<1>. QED
  BY <1>1, InitRight, PTL DEF Spec

(***************************************************************************)
(* Jobs, items and loops are typed in every reachable state: a hand-back   *)
(* takes no attempt below zero, and no claim is granted beyond the budget. *)
(***************************************************************************)
THEOREM MovesTyped == Spec => []MoveTypeOK
<1>1. MoverInv => MoveTypeOK
  BY DEF MoverInv
<1>. QED
  BY <1>1, Invariant, PTL

(***************************************************************************)
(* No file loses its bytes while its blob is moved, in either direction,   *)
(* by any number of loops that race uploads, deletes, sweepers and one     *)
(* another and may crash, be cancelled or lose their lease at any step.    *)
(***************************************************************************)
THEOREM MovedBytesStay == Spec => []FilesKeepTheirBytes
  BY Invariant, BytesAreThere, PTL

(***************************************************************************)
(* Blob storage still implements ContentStore while blobs are moved: a     *)
(* move puts no file, removes none and forgets no bytes that a file holds. *)
(***************************************************************************)
THEOREM MovesImplementStore == Spec => ImplementsStore
<1>1. BlobInv /\ MoverInv /\ [Next]_vars =>
          [Store!Next]_<<[f \in Files |-> IF file[f] = "coming" THEN "new" ELSE file[f]], Kept>>
  BY NextRight DEF Right, StoreStep, Status
<1>2. Init => Store!Init
  BY InitImplements DEF Init
<1>. QED
  BY <1>1, <1>2, Invariant, PTL DEF Spec, ImplementsStore, Store!Spec

(***************************************************************************)
(* Only a running job moves a blob, and only to its target, through an     *)
(* item that is open: a cancel is final for the loops still at work.       *)
(***************************************************************************)
THEOREM OnlyRunningMoves == Spec => MovesOnlyWhileRunning
<1>1. BlobInv /\ MoverInv /\ [Next]_vars => MovesRight
  BY NextRight DEF Right
<1>2. BlobInv /\ MoverInv /\ [Next]_vars =>
          [\A sha \in Shas :
               (row[sha] # NoRow /\ row'[sha] # NoRow /\ row'[sha].storage # row[sha].storage) =>
                   \E m \in Moves : /\ move[m].state = "running"
                                    /\ item[m][sha].status = "open"
                                    /\ move[m].target = row'[sha].storage]_vars
  BY <1>1 DEF MovesRight
<1>. QED
  BY <1>2, Invariant, PTL DEF Spec, MovesOnlyWhileRunning

---------------------------------------------------------------------------
(***************************************************************************)
(* Complete moves.  While new blobs go to the target, a blob that is kept  *)
(* elsewhere was there when the job started, and its item cannot have been *)
(* completed since.                                                        *)
(***************************************************************************)
NewBlobs ==
    /\ backend \in Backends
    /\ \A u \in Uploaders : up[u].pc \in {"put", "commit"} => up[u].target \in Backends

Elsewhere(c, m) == row[c].storage \in Storages \ {move[m].target}

Undone == {"open", "failed", "cancelled"}

\* Jobs start in order, and only the newest runs.
JobsInOrder ==
    /\ \A m, n \in Moves : n < m /\ Started(m) => Started(n)
    /\ \A m \in Moves : move[m].state = "running" => ~Newer(m)
    /\ \A m \in Moves, c \in Shas : item[m][c].status = "cancelled" => move[m].state = "cancelled"

Covered ==
    \A m \in Moves : Started(m) /\ ~Newer(m) /\ Backends = {move[m].target} =>
        \A c \in Shas : Elsewhere(c, m) => item[m][c].status \in Undone

CoverInv == NewBlobs /\ JobsInOrder /\ Covered

\* Where a step of an upload or a sweep leaves a row.
LEMMA BlobStepPlaces ==
    ASSUME BlobInv, NewBlobs, [BlobNext]_blobVars, NEW c \in Shas
    PROVE  row'[c].storage \in {row[c].storage, "none"} \cup Backends
<1>. USE BlobAssumption DEF BlobInv
<1>. DEFINE Place == row'[c].storage \in {row[c].storage, "none"} \cup Backends
<1>0. row[c] \in Rows /\ row \in [Shas -> Rows]
  BY DEF BlobTypeOK
<1>1. ASSUME NEW u \in Uploaders, UploadStep(u) PROVE Place
  <2>1. ASSUME NEW sha \in Shas, NEW target \in Storages, target \in Backends,
               row' = [row EXCEPT ![sha] = Retained(sha, target)]
        PROVE  Place
    BY <1>0, <2>1, RetainedRow
  <2>2. ASSUME NEW f \in Files, RetainInDb(u, f) PROVE Place
    BY <2>1, <2>2 DEF RetainInDb, NewBlobs
  <2>3. CASE CommitRetain(u)
    <3>1. /\ Content[up[u].file] \in Shas /\ up[u].target \in Storages \cap Backends
          /\ row' = [row EXCEPT ![Content[up[u].file]] =
                         Retained(Content[up[u].file], up[u].target)]
      BY <2>3 DEF CommitRetain, Locks, NewBlobs, BlobTypeOK, Uploads
    <3>. QED
      BY <2>1, <3>1
  <2>4. CASE UndoRetain(u)
    BY <1>0, <2>4, ReleasedRow DEF UndoRetain, NoRow
  <2>. QED
    BY <1>0, <1>1, <2>2, <2>3, <2>4
       DEF UploadStep, StartRetain, RetainPuts, RetainFails, InsertFile, InsertFails, UploadCrashes
<1>2. ASSUME NEW f \in Files, DeleteFile(f) PROVE Place
  BY <1>0, <1>2, ReleasedRow DEF DeleteFile
<1>3. ASSUME NEW s \in Sweepers, SweepStep(s) PROVE Place
  <2>1. ASSUME NEW sha, row' = [row EXCEPT ![sha] = NoRow] PROVE Place
    BY <1>0, <2>1 DEF NoRow
  <2>2. ASSUME NEW sha \in Shas, RepairRow(s, sha) PROVE Place
    <3>1. row' = [row EXCEPT ![sha].refs = Cardinality(StoredFiles(sha)),
                             ![sha].delete_after = "null"]
      BY <2>2 DEF RepairRow
    <3>2. row'[c].storage = row[c].storage
      BY <1>0, <3>1 DEF Rows
    <3>. QED
      BY <3>2
  <2>3. CASE SweepFails(s)
    BY <2>3, DelayedRow DEF SweepFails
  <2>4. CASE row' = row
    BY <2>4
  <2>. QED
    BY <1>3, <2>1, <2>2, <2>3, <2>4
       DEF SweepStep, SweepDbRow, StartSweep, SweepDeletes, CommitSweep, ParkObject, ClaimGarbage,
           DropEntry, StartCollect, CollectDeletes, CommitCollect, CollectFails
<1>4. CASE Time
  <2>1. ASSUME NEW sha \in Shas, ReleaseComesDue(sha) PROVE Place
    BY <2>1, DelayedRow DEF ReleaseComesDue
  <2>. QED
    BY <1>4, <2>1 DEF Time, GarbageComesDue, GarbageLeaseLapses
<1>5. CASE Reconfigure \/ UNCHANGED blobVars \/ \E r \in Readers : ReadStep(r)
  BY <1>5 DEF Reconfigure, blobVars, ReadStep, LookUp, Get, LookAgain, ReadRefused
<1>. QED
  BY <1>1, <1>2, <1>3, <1>4, <1>5 DEF BlobNext

LEMMA NewBlobsStay ==
    ASSUME BlobInv, NewBlobs, [BlobNext]_blobVars
    PROVE  NewBlobs'
<1>. USE DEF BlobInv, NewBlobs
<1>1. ASSUME NEW u \in Uploaders, UploadStep(u) PROVE NewBlobs'
  <2>0. backend' = backend
    BY <1>1 DEF UploadStep, RetainInDb, StartRetain, RetainPuts, CommitRetain, RetainFails,
                InsertFile, InsertFails, UndoRetain, UploadCrashes
  <2>1. ASSUME NEW f \in Files, StartRetain(u, f) PROVE NewBlobs'
    BY <2>1 DEF StartRetain, BlobTypeOK
  <2>2. CASE RetainPuts(u)
    BY <2>2 DEF RetainPuts, BlobTypeOK, Uploads
  <2>3. ASSUME NEW f \in Files, FileFollows(u, f) PROVE NewBlobs'
    <3>1. /\ \A v \in Uploaders : v # u => up'[v] = up[v]
          /\ up'[u].pc \in {"idle", "insert"}
      <4>1. BlobTypeOK
        OBVIOUS
      <4>2. /\ \A v \in Uploaders : v # u => up'[v] = up[v]
            /\ \/ up'[u] = NoUpload
               \/ up'[u] = [pc |-> "insert", file |-> f, target |-> backend]
        BY <2>3, <4>1, FileFollowsTyped
      <4>. QED
        BY <4>2 DEF NoUpload
    <3>. QED
      BY <2>0, <3>1
  <2>4. ASSUME CommitRetain(u) PROVE NewBlobs'
    <3>1. up[u].file \in Files
      BY <2>4 DEF CommitRetain, Locks
    <3>. QED
      BY <2>3, <2>4, <3>1 DEF CommitRetain
  <2>5. CASE InsertFile(u) \/ InsertFails(u) \/ RetainFails(u) \/ UndoRetain(u) \/ UploadCrashes(u)
    BY <2>0, <2>5 DEF InsertFile, InsertFails, RetainFails, UndoRetain, UploadCrashes,
                      NoUpload, BlobTypeOK, Uploads
  <2>. QED
    BY <1>1, <2>1, <2>2, <2>3, <2>4, <2>5 DEF UploadStep, RetainInDb
<1>2. CASE Reconfigure
  BY <1>2 DEF Reconfigure
<1>3. CASE UNCHANGED <<backend, up>>
  BY <1>3
<1>4. ASSUME NEW s \in Sweepers, SweepStep(s) PROVE UNCHANGED <<backend, up>>
  BY <1>4 DEF SweepStep, SweepDbRow, RepairRow, StartSweep, SweepDeletes, CommitSweep, ParkObject,
       SweepFails, ClaimGarbage, DropEntry, StartCollect, CollectDeletes, CommitCollect, CollectFails
<1>5. ASSUME Time \/ UNCHANGED blobVars PROVE UNCHANGED <<backend, up>>
  BY <1>5 DEF Time, ReleaseComesDue, GarbageComesDue, GarbageLeaseLapses, blobVars
<1>6. ASSUME (\E f \in Files : DeleteFile(f)) \/ (\E r \in Readers : ReadStep(r))
      PROVE  UNCHANGED <<backend, up>>
  BY <1>6 DEF DeleteFile, ReadStep, LookUp, Get, LookAgain, ReadRefused
<1>. QED
  BY <1>1, <1>2, <1>3, <1>4, <1>5, <1>6 DEF BlobNext

\* A step that starts no job, and cancels none.
LEMMA CoverStays ==
    ASSUME CoverInv, NewBlobs',
           \A m \in Moves : /\ Started(m)' <=> Started(m)
                            /\ Started(m) => move'[m].target = move[m].target
                            /\ move'[m].state = "running" => move[m].state = "running" \/ ~Newer(m)
                            /\ move[m].state = "cancelled" => move'[m].state = "cancelled",
           \A m \in Moves, c \in Shas :
               item'[m][c].status = "cancelled" => item[m][c].status = "cancelled",
           \A m \in Moves, c \in Shas :
               Started(m) /\ ~Newer(m) /\ Backends = {move[m].target} /\ Elsewhere(c, m)' =>
                   /\ Elsewhere(c, m)
                   /\ item[m][c].status \in Undone => item'[m][c].status \in Undone
    PROVE  CoverInv'
<1>. USE DEF CoverInv
<1>1. \A m \in Moves : Newer(m)' <=> Newer(m)
  BY DEF Newer
<1>2. JobsInOrder'
  BY <1>1 DEF JobsInOrder
<1>3. Covered'
  BY <1>1 DEF Covered
<1>. QED
  BY <1>2, <1>3

\* An upload or a sweep brings no blob elsewhere.
LEMMA BlobNextCovers ==
    ASSUME BlobInv, CoverInv, [BlobNext]_blobVars, UNCHANGED moveVars
    PROVE  CoverInv'
<1>1. NewBlobs'
  BY NewBlobsStay DEF CoverInv
<1>2. ASSUME NEW m \in Moves, NEW c \in Shas, Backends = {move[m].target}, Elsewhere(c, m)'
      PROVE  Elsewhere(c, m)
  <2>1. row'[c].storage \in {row[c].storage, "none", move[m].target}
    BY <1>2, BlobStepPlaces DEF CoverInv
  <2>. QED
    BY <1>2, <2>1 DEF Elsewhere, Storages, moveVars
<1>. QED
  BY <1>1, <1>2, CoverStays DEF moveVars, Started

\* One item of a running job, or none, is written.
LEMMA ItemCovers ==
    ASSUME MoverInv, CoverInv, UNCHANGED <<backend, up, move, row>>,
           NEW m \in Moves, NEW z \in Shas, NEW i, item' = [item EXCEPT ![m][z] = i],
           i.status \in {"open", "failed", item[m][z].status} \/ (~Elsewhere(z, m) /\ i.status # "cancelled")
    PROVE  CoverInv'
<1>1. \A n \in Moves, c \in Shas :
          item'[n][c] = IF n = m /\ c = z THEN i ELSE item[n][c]
  BY DEF MoverInv, MoveTypeOK
<1>2. NewBlobs'
  BY DEF CoverInv, NewBlobs
<1>. QED
  BY <1>1, <1>2, CoverStays DEF Started, Elsewhere, Undone, CoverInv, JobsInOrder

LEMMA QuietCovers ==
    ASSUME CoverInv, UNCHANGED <<backend, up, move, row, item>>
    PROVE  CoverInv'
<1>1. NewBlobs'
  BY DEF CoverInv, NewBlobs
<1>. QED
  BY <1>1, CoverStays DEF Started, Elsewhere

\* A row comes to the target of the newest job.
LEMMA SwitchCovers ==
    ASSUME BlobInv, MoverInv, CoverInv, NEW w \in Movers, SwitchToDb(w) \/ Verified(w)
    PROVE  CoverInv'
<1>. DEFINE m == mover[w].move
            z == mover[w].sha
<1>1. /\ Mine(w) /\ mover[w].pc \in {"switch", "verify"}
      /\ row' = [row EXCEPT ![z].storage = Target(w), ![z].location = "key"]
      /\ item' = [item EXCEPT ![m][z] = Closed(@, "completed")]
      /\ UNCHANGED <<backend, up, move>>
  BY DEF SwitchToDb, Switches, Verified, MoverInv, MoverSound
<1>2. m \in Moves /\ z \in Shas /\ row \in [Shas -> Rows] /\ item \in [Moves -> [Shas -> Items]]
  BY <1>1, AtWork DEF BlobInv, BlobTypeOK, MoverInv, MoveTypeOK
<1>3. move[m].state = "running" /\ ~Newer(m) /\ Started(m)
  <2>1. item[m][z].status = "open"
    BY <1>1 DEF Mine, ItemOf
  <2>. QED
    BY <1>2, <2>1 DEF MoverInv, EndedMoveIsClosed, Open, CoverInv, JobsInOrder, Started
<1>4. /\ row'[z].storage = move[m].target
      /\ \A c \in Shas : c # z => row'[c] = row[c]
  BY <1>1, <1>2 DEF Target, Rows
<1>5. /\ item'[m][z].status = "completed"
      /\ \A n \in Moves, c \in Shas : ~(n = m /\ c = z) => item'[n][c] = item[n][c]
  BY <1>1, <1>2 DEF Closed, Items
<1>. HIDE DEF m, z
<1>6. ASSUME NEW n \in Moves, NEW c \in Shas, Started(n), ~Newer(n), Elsewhere(c, n)'
      PROVE  Elsewhere(c, n) /\ (item[n][c].status \in Undone => item'[n][c].status \in Undone)
  <2>1. n = m
    BY <1>2, <1>3, <1>6 DEF Newer, Moves
  <2>2. c # z
    BY <1>1, <1>4, <1>6, <2>1 DEF Elsewhere
  <2>. QED
    BY <1>1, <1>4, <1>5, <1>6, <2>2 DEF Elsewhere
<1>7. NewBlobs'
  BY <1>1 DEF CoverInv, NewBlobs
<1>8. \A n \in Moves, c \in Shas :
          item'[n][c].status = "cancelled" => item[n][c].status = "cancelled"
  BY <1>5
<1>. QED
  BY <1>1, <1>6, <1>7, <1>8, CoverStays DEF Started

LEMMA FinalizedCovers ==
    ASSUME MoverInv, CoverInv, NEW m \in Moves, Finalized(m), UNCHANGED <<blobVars, item>>
    PROVE  CoverInv'
<1>1. /\ \A n \in Moves : n # m => move'[n] = move[n]
      /\ \/ move'[m] = move[m]
         \/ /\ move[m].state = "running" /\ move'[m].state = "finished"
            /\ move'[m].target = move[m].target
  BY DEF Finalized, MoverInv, MoveTypeOK, MoveRows
<1>2. NewBlobs'
  BY DEF CoverInv, NewBlobs, blobVars
<1>. QED
  BY <1>1, <1>2, CoverStays DEF Started, Elsewhere, blobVars

LEMMA WorkCovers ==
    ASSUME BlobInv, MoverInv, CoverInv, NEW w \in Movers, Work(w)
    PROVE  CoverInv'
<1>. DEFINE m == mover[w].move
            z == mover[w].sha
<1>1. CASE \/ ReadRow(w) \/ GetSource(w) \/ CancelStaleGarbage(w) \/ PutCopy(w) \/ SwitchSkipped(w)
           \/ SwitchWithoutCopy(w) \/ StartVerify(w) \/ VerifyFails(w) \/ RequestFails(w)
           \/ PoolBusy(w) \/ DiscardCopy(w) \/ LosesClaim(w)
  BY <1>1, QuietCovers
     DEF ReadRow, GetSource, CancelStaleGarbage, PutCopy, SwitchSkipped, SwitchWithoutCopy,
         StartVerify, VerifyFails, RequestFails, PoolBusy, DiscardCopy, LosesClaim, blobVars
<1>2. ASSUME mover[w].pc \notin {"idle", "finalize"}
      PROVE  m \in Moves /\ z \in Shas /\ ItemOf(w) \in Items /\ row[z] \in Rows
             /\ item \in [Moves -> [Shas -> Items]]
  BY <1>2, AtWork DEF BlobInv, BlobTypeOK, MoverInv, MoveTypeOK
<1>3. CASE SwitchVanished(w)
  <2>1. /\ mover[w].pc = "switch" /\ row[z] = NoRow /\ UNCHANGED <<backend, up, move, row>>
        /\ item' = [item EXCEPT ![m][z] = NoItem]
    BY <1>3 DEF SwitchVanished, Switches
  <2>2. ~Elsewhere(z, m) /\ NoItem.status # "cancelled"
    BY <2>1 DEF Elsewhere, NoRow, NoItem, Storages
  <2>. QED
    BY <1>2, <2>1, <2>2, ItemCovers
<1>4. CASE SwitchDone(w)
  <2>1. /\ mover[w].pc = "switch" /\ row[z].storage = move[m].target
        /\ item' = [item EXCEPT ![m][z] = Closed(@, "completed")]
        /\ UNCHANGED <<backend, up, move, row>>
    BY <1>4 DEF SwitchDone, Switches, Target, blobVars
  <2>2. item' = [item EXCEPT ![m][z] = Closed(item[m][z], "completed")]
    BY <1>2, <2>1
  <2>3. ~Elsewhere(z, m) /\ Closed(item[m][z], "completed").status # "cancelled"
    BY <1>2, <2>1 DEF Elsewhere, Closed, ItemOf, Items
  <2>4. m \in Moves /\ z \in Shas
    BY <1>2, <2>1
  <2>. DEFINE i == Closed(item[m][z], "completed")
  <2>5. item' = [item EXCEPT ![m][z] = i] /\ i.status # "cancelled"
    BY <2>2, <2>3
  <2>6. ~Elsewhere(z, m) /\ i.status # "cancelled" /\ UNCHANGED <<backend, up, move, row>>
    BY <2>1, <2>3
  <2>. HIDE DEF i, m, z
  <2>. QED
    BY <2>4, <2>5, <2>6, ItemCovers
<1>5. ASSUME NEW i, mover[w].pc \notin {"idle", "finalize"}, Outcome(w, i),
             i.status \in {"open", "failed"}, UNCHANGED <<blobVars, move>>
      PROVE  CoverInv'
  BY <1>2, <1>5, ItemCovers DEF Outcome, blobVars
<1>6. CASE SourceIsCorrupt(w) \/ HandBack(w) \/ AttemptFails(w)
  <2>1. /\ mover[w].pc \notin {"idle", "finalize"} /\ UNCHANGED <<blobVars, move>>
    BY <1>6 DEF SourceIsCorrupt, HandBack, AttemptFails
  <2>2. /\ Closed(ItemOf(w), "open").status = "open"
        /\ Closed(ItemOf(w), "failed").status = "failed"
        /\ [Closed(ItemOf(w), "open") EXCEPT !.attempts = IF @ = 0 THEN 0 ELSE @ - 1].status = "open"
    BY <1>2, <2>1 DEF Closed, Items
  <2>3. CASE item' = item
    BY <2>1, <2>3, QuietCovers DEF blobVars
  <2>. QED
    BY <1>5, <1>6, <2>1, <2>2, <2>3 DEF SourceIsCorrupt, HandBack, AttemptFails
<1>7. CASE Finalize(w)
  <2>1. m \in Moves /\ Finalized(m) /\ UNCHANGED <<blobVars, item>>
    BY <1>7 DEF Finalize, MoverInv, MoverSound
  <2>. QED
    BY <2>1, FinalizedCovers
<1>. QED
  BY <1>1, <1>3, <1>4, <1>6, <1>7, SwitchCovers DEF Work

LEMMA LoopCovers ==
    ASSUME BlobInv, MoverInv, CoverInv, NEW w \in Movers, MoverStep(w)
    PROVE  CoverInv'
<1>1. ASSUME NEW m \in Moves, NEW sha \in Shas, Claim(w, m, sha) PROVE CoverInv'
  <2>. DEFINE i == [item[m][sha] EXCEPT !.claim = w, !.lapsed = FALSE,
                                        !.attempts = item[m][sha].attempts + 1]
  <2>1. item' = [item EXCEPT ![m][sha] = i]
    BY <1>1, Zenon DEF Claim
  <2>2. UNCHANGED <<backend, up, move, row>>
    BY <1>1 DEF Claim, blobVars
  <2>3. i.status = item[m][sha].status
    BY DEF MoverInv, MoveTypeOK, Items
  <2>. HIDE DEF i
  <2>. QED
    BY <2>1, <2>2, <2>3, ItemCovers
<1>2. ASSUME NEW m \in Moves, SettleIdle(w, m) PROVE CoverInv'
  BY <1>2, FinalizedCovers DEF SettleIdle
<1>3. ASSUME NEW m \in Moves, ReapZombies(w, m) PROVE CoverInv'
  <2>. DEFINE dead == {c \in Shas : Claimable(item[m][c]) /\ item[m][c].attempts >= MaxAttempts}
  <2>1. /\ item' = [item EXCEPT ![m] = [c \in Shas |->
                        IF c \in dead THEN Closed(item[m][c], "failed") ELSE item[m][c]]]
        /\ UNCHANGED <<blobVars, move>>
    BY <1>3 DEF ReapZombies, MoverInv, MoveTypeOK
  <2>2. \A n \in Moves, c \in Shas :
            \/ item'[n][c] = item[n][c]
            \/ item'[n][c] = Closed(item[n][c], "failed")
    BY <2>1 DEF MoverInv, MoveTypeOK
  <2>3. \A n \in Moves, c \in Shas : Closed(item[n][c], "failed").status = "failed"
    BY DEF Closed, MoverInv, MoveTypeOK, Items
  <2>4. NewBlobs'
    BY <2>1 DEF CoverInv, NewBlobs, blobVars
  <2>. HIDE DEF dead
  <2>5. \A n \in Moves, c \in Shas : item'[n][c].status \in {item[n][c].status, "failed"}
    BY <2>2, <2>3
  <2>. QED
    BY <2>1, <2>4, <2>5, CoverStays DEF Started, Elsewhere, Undone, blobVars
<1>4. CASE MoverCrashes(w)
  BY <1>4, QuietCovers DEF MoverCrashes
<1>. QED
  BY <1>1, <1>2, <1>3, <1>4, WorkCovers DEF MoverStep

\* A job that starts is the newest, and has an item for every blob elsewhere.
LEMMA StartCovers ==
    ASSUME MoverInv, CoverInv, NEW m \in Moves, NEW target \in Storages, StartMove(m, target)
    PROVE  CoverInv'
<1>. DEFINE moved == {c \in Shas : row[c].storage \in Storages \ {target}}
<1>. USE DEF CoverInv
<1>0. /\ move \in [Moves -> MoveRows] /\ item \in [Moves -> [Shas -> Items]]
      /\ Moves \subseteq Nat
  BY MoveAssumption DEF MoverInv, MoveTypeOK, Moves
<1>1. /\ ~Started(m) /\ \A n \in 1..(m - 1) : Started(n)
      /\ \A n \in Moves : move[n].state # "running"
      /\ move' = [move EXCEPT ![m] = [state |-> "running", target |-> target]]
      /\ item' = [item EXCEPT ![m] = [c \in Shas |-> IF c \in moved THEN OpenItem ELSE NoItem]]
      /\ UNCHANGED blobVars
  BY DEF StartMove
<1>2. /\ move'[m].state = "running" /\ move'[m].target = target
      /\ \A n \in Moves : n # m => move'[n] = move[n] /\ item'[n] = item[n]
      /\ \A c \in Shas : item'[m][c] = IF c \in moved THEN OpenItem ELSE NoItem
  BY <1>0, <1>1
<1>3. \A n \in Moves : n < m => Started(n)
  BY <1>1, MoveAssumption DEF Moves
<1>4. \A n \in Moves : n > m => ~Started(n)
  BY <1>0, <1>1 DEF JobsInOrder
<1>5. \A n \in Moves : Started(n)' <=> n = m \/ Started(n)
  BY <1>2 DEF Started
<1>6. /\ ~Newer(m)'
      /\ \A n \in Moves : n # m => (Started(n)' => Newer(n)')
  <2>1. \A n \in Moves : Started(n)' => ~(n > m)
    BY <1>0, <1>4, <1>5
  <2>2. \A n \in Moves : n # m /\ Started(n)' => m > n
    BY <1>0, <2>1
  <2>. QED
    BY <1>5, <2>1, <2>2 DEF Newer
<1>7. JobsInOrder'
  <2>1. \A n, k \in Moves : k < n /\ Started(n)' => Started(k)'
    BY <1>0, <1>3, <1>5 DEF JobsInOrder
  <2>2. \A n \in Moves : move'[n].state = "running" => ~Newer(n)'
    BY <1>1, <1>2, <1>6
  <2>3. \A n \in Moves, c \in Shas :
            item'[n][c].status = "cancelled" => move'[n].state = "cancelled"
    BY <1>2 DEF JobsInOrder, OpenItem, NoItem
  <2>. QED
    BY <2>1, <2>2, <2>3 DEF JobsInOrder
<1>8. Covered'
  <2>1. \A c \in Shas : Elsewhere(c, m)' => c \in moved
    BY <1>1, <1>2 DEF Elsewhere, blobVars
  <2>2. \A c \in moved : item'[m][c].status = "open"
    BY <1>2 DEF OpenItem, NoItem
  <2>3. \A n \in Moves : Started(n)' /\ ~Newer(n)' => n = m
    BY <1>6
  <2>. QED
    BY <2>1, <2>2, <2>3 DEF Covered, Undone
<1>9. NewBlobs'
  BY <1>1 DEF NewBlobs, blobVars
<1>. QED
  BY <1>7, <1>8, <1>9

LEMMA CancelCovers ==
    ASSUME MoverInv, CoverInv, NEW m \in Moves, CancelMove(m)
    PROVE  CoverInv'
<1>. USE DEF CoverInv
<1>0. move \in [Moves -> MoveRows] /\ item \in [Moves -> [Shas -> Items]]
  BY DEF MoverInv, MoveTypeOK
<1>1. /\ move[m].state = "running" /\ UNCHANGED blobVars
      /\ move' = [move EXCEPT ![m].state = "cancelled"]
      /\ item' = [item EXCEPT ![m] = [c \in Shas |->
             IF c \in Open(m) THEN [item[m][c] EXCEPT !.status = "cancelled"] ELSE item[m][c]]]
  BY <1>0 DEF CancelMove
<1>2. /\ move'[m].state = "cancelled" /\ move'[m].target = move[m].target
      /\ \A n \in Moves : n # m => move'[n] = move[n] /\ item'[n] = item[n]
  BY <1>0, <1>1 DEF MoveRows
<1>3. \A c \in Shas : item'[m][c].status \in {item[m][c].status, "cancelled"}
  BY <1>0, <1>1 DEF Items
<1>4. \A n \in Moves : /\ Started(n)' <=> Started(n)
                       /\ Newer(n)' <=> Newer(n)
  <2>1. \A n \in Moves : Started(n)' <=> Started(n)
    BY <1>1, <1>2 DEF Started
  <2>. QED
    BY <2>1 DEF Newer
<1>5. JobsInOrder'
  BY <1>2, <1>4 DEF JobsInOrder
<1>6. \A n \in Moves, c \in Shas : Elsewhere(c, n)' <=> Elsewhere(c, n)
  BY <1>1, <1>2 DEF Elsewhere, blobVars
<1>7. \A n \in Moves, c \in Shas : item[n][c].status \in Undone => item'[n][c].status \in Undone
  BY <1>2, <1>3 DEF Undone
<1>8. Covered'
  BY <1>2, <1>4, <1>6, <1>7 DEF Covered
<1>9. NewBlobs'
  BY <1>1 DEF NewBlobs, blobVars
<1>. QED
  BY <1>5, <1>8, <1>9

LEMMA RetryCovers ==
    ASSUME MoverInv, CoverInv, NEW m \in Moves, RetryMove(m)
    PROVE  CoverInv'
<1>0. move \in [Moves -> MoveRows] /\ item \in [Moves -> [Shas -> Items]]
  BY DEF MoverInv, MoveTypeOK
<1>1. /\ move[m].state = "finished" /\ ~Newer(m) /\ UNCHANGED blobVars
      /\ move' = [move EXCEPT ![m].state = "running"]
      /\ item' = [item EXCEPT ![m] = [c \in Shas |->
             IF c \in {x \in Shas : item[m][x].status = "failed"} THEN OpenItem ELSE item[m][c]]]
  BY <1>0 DEF RetryMove
<1>2. /\ move'[m].state = "running" /\ move'[m].target = move[m].target
      /\ \A n \in Moves : n # m => move'[n] = move[n] /\ item'[n] = item[n]
  BY <1>0, <1>1 DEF MoveRows
<1>3. \A c \in Shas : item'[m][c] = item[m][c] \/ item'[m][c].status = "open"
  BY <1>0, <1>1 DEF OpenItem, NoItem
<1>4. NewBlobs'
  BY <1>1 DEF CoverInv, NewBlobs, blobVars
<1>5. \A n \in Moves, c \in Shas :
          /\ item'[n][c].status = "cancelled" => item[n][c].status = "cancelled"
          /\ item[n][c].status \in Undone => item'[n][c].status \in Undone
  BY <1>2, <1>3 DEF Undone
<1>6. \A n \in Moves : /\ Started(n)' <=> Started(n)
                       /\ move'[n].target = move[n].target
                       /\ move'[n].state = "running" => move[n].state = "running" \/ ~Newer(n)
                       /\ move[n].state = "cancelled" => move'[n].state = "cancelled"
  BY <1>1, <1>2 DEF Started
<1>7. \A n \in Moves, c \in Shas : Elsewhere(c, n)' <=> Elsewhere(c, n)
  BY <1>1, <1>6 DEF Elsewhere, blobVars
<1>. QED
  BY <1>4, <1>5, <1>6, <1>7, CoverStays

LEMMA NextCovers == BlobInv /\ MoverInv /\ CoverInv /\ [Next]_vars => CoverInv'
<1>. SUFFICES ASSUME BlobInv, MoverInv, CoverInv, [Next]_vars PROVE CoverInv'
  OBVIOUS
<1>1. CASE Admin
  BY <1>1, StartCovers, CancelCovers, RetryCovers DEF Admin
<1>2. ASSUME NEW m \in Moves, NEW sha \in Shas, ItemLeaseLapses(m, sha) PROVE CoverInv'
  <2>. DEFINE i == [item[m][sha] EXCEPT !.lapsed = TRUE]
  <2>1. item' = [item EXCEPT ![m][sha] = i] /\ i.status = item[m][sha].status
    BY <1>2 DEF ItemLeaseLapses, MoverInv, MoveTypeOK, Items
  <2>2. UNCHANGED <<backend, up, move, row>>
    BY <1>2 DEF ItemLeaseLapses, blobVars
  <2>. HIDE DEF i
  <2>. QED
    BY <2>1, <2>2, ItemCovers
<1>3. CASE UNCHANGED vars
  BY <1>3, BlobNextCovers DEF vars
<1>. QED
  BY <1>1, <1>2, <1>3, BlobNextCovers, LoopCovers DEF Next

LEMMA InitCovers == Init => CoverInv
  BY DEF Init, BlobInit, CoverInv, NewBlobs, NoUpload, JobsInOrder, Covered, Started,
         NoMoveRow, NoItem

\* A finished job has neither open nor cancelled items.
LEMMA NothingIsLeft == BlobInv /\ MoverInv /\ CoverInv => MoveIsComplete
<1>. SUFFICES ASSUME BlobInv, MoverInv, CoverInv, NEW m \in Moves, move[m].state = "finished",
                     ~Newer(m), Backends = {move[m].target},
                     \A sha \in Shas : item[m][sha].status # "failed", NEW c \in Shas
              PROVE  row[c].storage \in {"none", move[m].target}
  BY DEF MoveIsComplete
<1>1. item[m][c].status \notin Undone
  BY DEF MoverInv, EndedMoveIsClosed, Open, CoverInv, JobsInOrder, Undone
<1>2. ~Elsewhere(c, m)
  BY <1>1 DEF CoverInv, Covered, Started
<1>3. row[c].storage \in Storages \cup {"none"}
  BY DEF BlobInv, BlobTypeOK, Rows
<1>. QED
  BY <1>2, <1>3 DEF Elsewhere

(***************************************************************************)
(* A job that ended without a failed item has left no blob behind: what is *)
(* elsewhere has an item since the start, and an item is completed only    *)
(* as its blob comes to the target, or is found there.                     *)
(***************************************************************************)
THEOREM MovesComplete == Spec => []MoveIsComplete
<1>1. Spec => []CoverInv
  <2>1. CoverInv /\ BlobInv /\ MoverInv /\ [Next]_vars => CoverInv'
    BY NextCovers
  <2>. QED
    BY <2>1, Invariant, InitCovers, PTL DEF Spec
<1>. QED
  BY <1>1, Invariant, NothingIsLeft, PTL

---------------------------------------------------------------------------
(***************************************************************************)
(* Stray copies.  A loop knows whether it has put a copy, and as long as   *)
(* it has still to write, switch or discard one nobody has forgotten it.   *)
(***************************************************************************)
CopySound(w) ==
    /\ mover[w].put \/ mover[w].pc \in {"cancel", "put"} => mover[w].copied
    /\ mover[w].pc = "verify" => mover[w].put

CopyInv ==
    /\ \A w \in Movers : CopySound(w)
    /\ \A c \in Shas : AccountsFor(c)

\* The loop has still to write, switch or discard the content's copy.
Copying(w, c) ==
    /\ mover[w].sha = c
    /\ mover[w].pc = "put" \/ (mover[w].put /\ mover[w].pc \in {"switch", "discard"})

LEMMA CopyStep ==
    ASSUME NEW c, NEW w \in Movers, \A v \in Movers : v # w => mover'[v] = mover[v],
           Stray(c)' => Stray(c) \/ Copying(w, c)',
           Stray(c)' /\ Copying(w, c) => Copying(w, c)'
    PROVE  Forgotten(c)' => Forgotten(c)
  BY DEF Forgotten, Copying

\* What a step of a loop does to the garbage.
LEMMA QueueGains ==
    ASSUME BlobInv, NEW c \in Shas, NEW z \in Shas, NEW l \in Locations,
           garbage' = [garbage EXCEPT ![z][l] = Queued]
    PROVE  /\ garbage'[z][l] # NoEntry
           /\ \A k \in Locations : garbage'[c][k] = NoEntry => garbage[c][k] = NoEntry
<1>1. garbage \in [Shas -> [Locations -> Entries]] /\ Queued # NoEntry
  BY DEF BlobInv, BlobTypeOK, Queued, NoEntry
<1>. QED
  BY <1>1

LEMMA QueueCopyGains ==
    ASSUME BlobInv, NEW c \in Shas, NEW w, mover[w].sha \in Shas, QueueCopy(w)
    PROVE  /\ \A k \in Locations : garbage'[c][k] = NoEntry => garbage[c][k] = NoEntry
           /\ mover[w].put /\ row[mover[w].sha].storage # Target(w) =>
                  garbage'[mover[w].sha].key # NoEntry
<1>1. "key" \in Locations
  BY DEF Locations
<1>2. CASE garbage' = garbage /\ ~(mover[w].put /\ row[mover[w].sha].storage # Target(w))
  BY <1>2
<1>3. CASE garbage' = Garbage(mover[w].sha)
  BY <1>1, <1>3, QueueGains DEF Garbage
<1>. QED
  BY <1>2, <1>3 DEF QueueCopy

\* Nothing that the holder of a lock relies on.
LEMMA HolderAccounts ==
    ASSUME BlobInv, NEW c \in Shas, AccountsFor(c), UNCHANGED <<up, sweep>>,
           lock[c] \in Uploaders \cup Sweepers =>
               /\ row'[c] = row[c]
               /\ \A l \in Locations : garbage'[c][l] = NoEntry => garbage[c][l] = NoEntry
    PROVE  AccountsFor(c)'
<1>1. \A s \in Sweepers : /\ sweep[s].location \in Locations
                          /\ sweep[s].sha = c /\ sweep[s].pc # "idle" => lock[c] = s
  BY DEF BlobInv, BlobTypeOK, Sweeps, Locks
<1>2. \A u \in Uploaders :
          up[u].pc \in {"put", "commit"} /\ Content[up[u].file] = c => lock[c] = u
  BY DEF BlobInv, Locks
<1>. QED
  BY <1>1, <1>2 DEF AccountsFor, InS3

\* A step of one loop, as far as it can make a copy forgotten.
CopyRight(w) ==
    /\ \A c \in Shas : AccountsFor(c)' /\ (Forgotten(c)' => Forgotten(c) \/ LosesCopy(w))
    /\ \A v \in Movers : CopySound(v)'

LEMMA OthersCopy ==
    ASSUME CopyInv, NEW w \in Movers, \A v \in Movers : v # w => mover'[v] = mover[v],
           CopySound(w)'
    PROVE  \A v \in Movers : CopySound(v)'
  BY DEF CopyInv, CopySound

\* Steps that leave storage alone.
LEMMA QuietCopy ==
    ASSUME BlobInv, MoverInv, CopyInv, NEW w \in Movers, NEW x,
           mover' = [mover EXCEPT ![w] = x], UNCHANGED blobVars,
           x.put \/ x.pc \in {"cancel", "put"} => x.copied, x.pc # "verify",
           \A c \in Shas : Copying(w, c) => \/ x.sha = c /\ x.put /\ x.pc \in {"switch", "discard"}
                                            \/ InS3(c)
    PROVE  CopyRight(w)
<1>1. mover'[w] = x /\ \A v \in Movers : v # w => mover'[v] = mover[v]
  BY DEF MoverInv, MoveTypeOK
<1>2. \A v \in Movers : CopySound(v)'
  BY <1>1, OthersCopy DEF CopySound
<1>3. ASSUME NEW c \in Shas PROVE AccountsFor(c)' /\ (Forgotten(c)' => Forgotten(c))
  <2>1. AccountsFor(c)'
    BY HolderAccounts DEF CopyInv, blobVars
  <2>2. Stray(c)' => Stray(c) /\ ~InS3(c)
    BY DEF Stray, Accounted, InS3, blobVars
  <2>3. Copying(w, c) => Copying(w, c)' \/ InS3(c)
    BY <1>1 DEF Copying
  <2>. QED
    BY <1>1, <2>1, <2>2, <2>3, CopyStep
<1>. QED
  BY <1>2, <1>3 DEF CopyRight

LEMMA WorkCopies ==
    ASSUME BlobInv, MoverInv, CopyInv, NEW w \in Movers,
           \/ ReadRow(w) \/ GetSource(w) \/ SwitchDone(w) \/ SwitchWithoutCopy(w)
           \/ SourceIsCorrupt(w) \/ PoolBusy(w)
           \/ LosesClaim(w) \/ HandBack(w) \/ AttemptFails(w) \/ Finalize(w)
    PROVE  CopyRight(w)
<1>0. /\ mover[w] \in MoverRows /\ mover \in [Movers -> MoverRows] /\ UNCHANGED blobVars
      /\ CopySound(w) /\ MoverSound(w)
  BY DEF ReadRow, GetSource, SwitchDone, SwitchWithoutCopy, SourceIsCorrupt, PoolBusy, LosesClaim,
         HandBack, AttemptFails, Finalize, MoverInv, MoveTypeOK, CopyInv
<1>1. CASE mover' = [mover EXCEPT ![w] = IdleMover] /\ mover[w].pc \notin {"put", "switch", "discard"}
  <2>1. IdleMover.pc = "idle" /\ ~IdleMover.put
    BY DEF IdleMover
  <2>2. \A c \in Shas : ~Copying(w, c)
    BY <1>1 DEF Copying
  <2>. QED
    BY <1>0, <1>1, <2>1, <2>2, QuietCopy
<1>2. ASSUME NEW pc \in Positions, To(w, pc),
             pc \in {"switch", "get", "finalize", "failed"},
             mover[w].pc \notin {"put", "discard"},
             mover[w].pc = "switch" /\ mover[w].put => InS3(mover[w].sha)
      PROVE  CopyRight(w)
  <2>. DEFINE x == [mover[w] EXCEPT !.pc = pc]
  <2>1. /\ x.put = mover[w].put /\ x.copied = mover[w].copied /\ x.pc = pc
        /\ mover' = [mover EXCEPT ![w] = x]
    BY <1>0, <1>2 DEF MoverRows, To
  <2>. HIDE DEF x
  <2>. QED
    BY <1>0, <1>2, <2>1, QuietCopy DEF Copying, CopySound
<1>3. CASE ReadRow(w)
  <2>1. CASE mover' = [mover EXCEPT ![w].pc = "cancel", ![w].copied = TRUE]
    <3>. DEFINE x == [mover[w] EXCEPT !.pc = "cancel", !.copied = TRUE]
    <3>1. x.copied /\ x.pc = "cancel" /\ mover' = [mover EXCEPT ![w] = x] /\ mover[w].pc = "row"
      BY <1>0, <1>3, <2>1 DEF MoverRows, ReadRow
    <3>. HIDE DEF x
    <3>. QED
      BY <1>0, <3>1, QuietCopy DEF Copying
  <2>. QED
    BY <1>1, <1>2, <1>3, <2>1 DEF ReadRow, Positions
<1>4. CASE GetSource(w)
  <2>. DEFINE x == IF mover[w].sha \in objects THEN [mover[w] EXCEPT !.pc = "switch", !.copied = TRUE]
                                               ELSE [mover[w] EXCEPT !.pc = "failed"]
  <2>1. /\ x.copied \/ (x.copied = mover[w].copied /\ x.put = mover[w].put)
        /\ x.pc \in {"switch", "failed"}
        /\ mover' = [mover EXCEPT ![w] = x] /\ mover[w].pc = "get"
    BY <1>0, <1>4 DEF MoverRows, GetSource
  <2>. HIDE DEF x
  <2>. QED
    BY <1>0, <2>1, QuietCopy DEF Copying, CopySound
<1>5. CASE SwitchDone(w) \/ SwitchWithoutCopy(w)
  <2>1. mover[w].pc = "switch" /\ (To(w, "finalize") \/ To(w, "failed"))
    BY <1>5 DEF SwitchDone, SwitchWithoutCopy, Switches
  <2>2. mover[w].put => InS3(mover[w].sha)
    BY <1>0, <1>5 DEF SwitchDone, SwitchWithoutCopy, CopySound, MoverSound, InS3
  <2>. QED
    BY <1>2, <2>1, <2>2 DEF Positions
<1>6. CASE PoolBusy(w)
  <2>. DEFINE pc == IF mover[w].put THEN "discard" ELSE "failed"
              x == [mover[w] EXCEPT !.pc = pc, !.busy = TRUE]
  <2>1. /\ x.put = mover[w].put /\ x.copied = mover[w].copied /\ x.sha = mover[w].sha
        /\ mover' = [mover EXCEPT ![w] = x] /\ mover[w].pc \in {"row", "cancel", "switch"}
        /\ x.pc = IF mover[w].put THEN "discard" ELSE "failed"
    BY <1>0, <1>6 DEF MoverRows, PoolBusy
  <2>. HIDE DEF x
  <2>. QED
    BY <1>0, <2>1, QuietCopy DEF Copying, CopySound
<1>7. CASE \/ SourceIsCorrupt(w) \/ LosesClaim(w) \/ HandBack(w) \/ AttemptFails(w) \/ Finalize(w)
  <2>1. /\ mover[w].pc \in {"get", "cancel", "failed", "finalize"}
        /\ To(w, "finalize") \/ mover' = [mover EXCEPT ![w] = IdleMover]
    BY <1>7 DEF SourceIsCorrupt, LosesClaim, HandBack, AttemptFails, Finalize
  <2>. QED
    BY <1>1, <1>2, <2>1 DEF Positions
<1>. QED
  BY <1>3, <1>4, <1>5, <1>6, <1>7

\* Steps that write storage or hold its lock, at one content.
LEMMA StorageCopy ==
    ASSUME BlobInv, MoverInv, CopyInv, NEW w \in Movers, NEW x, NEW z \in Shas,
           mover[w].sha = z, mover' = [mover EXCEPT ![w] = x], UNCHANGED <<up, sweep>>,
           x.put \/ x.pc \in {"cancel", "put"} => x.copied, x.pc = "verify" => x.put,
           \A c \in Shas : c # z =>
               /\ row'[c] = row[c] /\ garbage'[c] = garbage[c] /\ lock'[c] = lock[c]
               /\ c \in objects' <=> c \in objects,
           lock[z] \in Uploaders \cup Sweepers =>
               /\ row'[z] = row[z]
               /\ \A l \in Locations : garbage'[z][l] = NoEntry => garbage[z][l] = NoEntry,
           \/ LosesCopy(w)
           \/ x.sha = z /\ (x.pc = "put" \/ (x.put /\ x.pc \in {"switch", "discard"}))
           \/ ~Stray(z)'
           \/ Stray(z) /\ ~Copying(w, z)
    PROVE  CopyRight(w)
<1>1. mover'[w] = x /\ \A v \in Movers : v # w => mover'[v] = mover[v]
  BY DEF MoverInv, MoveTypeOK
<1>2. \A v \in Movers : CopySound(v)'
  BY <1>1, OthersCopy DEF CopySound
<1>3. \A c \in Shas : AccountsFor(c)'
  BY HolderAccounts DEF CopyInv
<1>4. ASSUME NEW c \in Shas, c # z PROVE Forgotten(c)' => Forgotten(c)
  <2>1. Stray(c)' => Stray(c)
    BY <1>4 DEF Stray, Accounted, InS3
  <2>2. ~Copying(w, c)
    BY <1>4 DEF Copying
  <2>. QED
    BY <1>1, <2>1, <2>2, CopyStep
<1>5. Forgotten(z)' => Forgotten(z) \/ LosesCopy(w)
  <2>1. CASE x.sha = z /\ (x.pc = "put" \/ (x.put /\ x.pc \in {"switch", "discard"}))
    BY <1>1, <2>1 DEF Forgotten
  <2>2. CASE ~Stray(z)'
    BY <2>2 DEF Forgotten
  <2>3. CASE Stray(z) /\ ~Copying(w, z)
    BY <1>1, <2>3, CopyStep
  <2>. QED
    BY <2>1, <2>2, <2>3
<1>. QED
  BY <1>2, <1>3, <1>4, <1>5 DEF CopyRight

LEMMA StorageCopies ==
    ASSUME BlobInv, MoverInv, CopyInv, NEW w \in Movers, NEW z \in Shas, z = mover[w].sha,
           \/ CancelStaleGarbage(w) \/ PutCopy(w) \/ SwitchSkipped(w) \/ SwitchVanished(w)
           \/ SwitchToDb(w) \/ StartVerify(w) \/ Verified(w) \/ VerifyFails(w)
           \/ RequestFails(w) \/ DiscardCopy(w)
    PROVE  CopyRight(w)
<1>0. /\ mover[w] \in MoverRows /\ mover \in [Movers -> MoverRows] /\ UNCHANGED <<up, sweep>>
      /\ CopySound(w) /\ MoverSound(w) /\ z \in Shas /\ mover[w].pc \notin {"idle", "finalize"}
      /\ Target(w) \in Storages
  <2>1. mover[w].pc \notin {"idle", "finalize"} /\ UNCHANGED <<up, sweep>>
    BY DEF CancelStaleGarbage, PutCopy, SwitchSkipped, SwitchVanished, SwitchToDb, StartVerify,
           Verified, VerifyFails, RequestFails, DiscardCopy, Switches
  <2>. QED
    BY <2>1, AtWork DEF MoverInv, MoveTypeOK, CopyInv
<1>01. /\ row \in [Shas -> Rows] /\ garbage \in [Shas -> [Locations -> Entries]]
       /\ lock \in [Shas -> Actors \cup {Nobody}] /\ "key" \in Locations
       /\ w \notin Uploaders \cup Sweepers /\ Nobody \notin Uploaders \cup Sweepers /\ w # Nobody
  BY BlobAssumption DEF BlobInv, BlobTypeOK, Actors, Locations
\* A loop that goes on elsewhere.
<1>02. ASSUME NEW pc, To(w, pc)
       PROVE  \E x : /\ mover' = [mover EXCEPT ![w] = x] /\ x.pc = pc /\ x.sha = z
                     /\ x.put = mover[w].put /\ x.copied = mover[w].copied
  <2>. DEFINE x == [mover[w] EXCEPT !.pc = pc]
  <2>1. /\ mover' = [mover EXCEPT ![w] = x] /\ x.pc = pc /\ x.sha = z
        /\ x.put = mover[w].put /\ x.copied = mover[w].copied
    BY <1>0, <1>02 DEF To, MoverRows
  <2>. QED
    BY <2>1
<1>1. CASE CancelStaleGarbage(w)
  <2>1. PICK x : /\ mover' = [mover EXCEPT ![w] = x] /\ x.pc = "put" /\ x.sha = z
                 /\ x.put = mover[w].put /\ x.copied = mover[w].copied
    BY <1>1, <1>02 DEF CancelStaleGarbage
  <2>2. /\ lock[z] = Nobody /\ garbage' = NoGarbage(z) /\ UNCHANGED <<row, objects, lock>>
        /\ mover[w].pc = "cancel"
    BY <1>1 DEF CancelStaleGarbage
  <2>3. \A c \in Shas : c # z => garbage'[c] = garbage[c]
    BY <1>01, <2>2 DEF NoGarbage
  <2>4. x.copied
    BY <1>0, <2>1, <2>2 DEF CopySound
  <2>. QED
    BY <1>0, <1>01, <2>1, <2>2, <2>3, <2>4, StorageCopy
<1>2. CASE PutCopy(w)
  <2>. DEFINE x == [mover[w] EXCEPT !.pc = "switch", !.put = TRUE]
  <2>1. /\ mover' = [mover EXCEPT ![w] = x] /\ x.pc = "switch" /\ x.sha = z /\ x.put
        /\ x.copied = mover[w].copied
    BY <1>0, <1>2 DEF PutCopy, MoverRows
  <2>2. /\ mover[w].pc = "put" /\ objects' = objects \cup {z} /\ UNCHANGED <<row, garbage, lock>>
    BY <1>2 DEF PutCopy
  <2>3. x.copied
    BY <1>0, <2>1, <2>2 DEF CopySound
  <2>. HIDE DEF x
  <2>. QED
    BY <1>0, <1>01, <2>1, <2>2, <2>3, StorageCopy
<1>3. CASE RequestFails(w)
  <2>1. PICK x : /\ mover' = [mover EXCEPT ![w] = x] /\ x.pc = "failed" /\ x.sha = z
                 /\ x.put = mover[w].put /\ x.copied = mover[w].copied
    BY <1>3, <1>02 DEF RequestFails
  <2>2. UNCHANGED <<row, garbage, lock>> /\ objects' \in {objects, objects \cup {z}}
    BY <1>3 DEF RequestFails
  <2>3. LosesCopy(w) \/ (mover[w].pc = "get" /\ objects' = objects)
    BY <1>3 DEF RequestFails, LosesCopy
  <2>4. LosesCopy(w) \/ ~Stray(z)' \/ (Stray(z) /\ ~Copying(w, z))
    BY <2>2, <2>3 DEF Stray, Accounted, InS3, Copying
  <2>5. x.put \/ x.pc \in {"cancel", "put"} => x.copied
    BY <1>0, <2>1 DEF CopySound
  <2>. QED
    BY <1>0, <1>01, <2>1, <2>2, <2>4, <2>5, StorageCopy
<1>4. CASE SwitchSkipped(w) \/ SwitchVanished(w)
  <2>1. PICK x : /\ mover' = [mover EXCEPT ![w] = x] /\ x.pc = "finalize" /\ x.sha = z
                 /\ x.put = mover[w].put /\ x.copied = mover[w].copied
    BY <1>4, <1>02 DEF SwitchSkipped, SwitchVanished
  <2>2. /\ mover[w].pc = "switch" /\ QueueCopy(w) /\ UNCHANGED <<row, objects, lock>>
    BY <1>4 DEF SwitchSkipped, SwitchVanished, Switches
  <2>3. /\ \A c \in Shas : c # z => garbage'[c] = garbage[c]
        /\ \A k \in Locations : garbage'[z][k] = NoEntry => garbage[z][k] = NoEntry
        /\ mover[w].put /\ row[z].storage # Target(w) => garbage'[z].key # NoEntry
    BY <1>0, <1>01, <2>2, QueueCopyGains DEF QueueCopy, Garbage
  <2>4. mover[w].put => Target(w) = "s3"
    BY <1>0 DEF MoverSound
  <2>5. ~Stray(z)' \/ (Stray(z) /\ ~Copying(w, z))
    <3>1. CASE mover[w].put
      BY <1>01, <2>2, <2>3, <2>4, <3>1 DEF Stray, Accounted, InS3
    <3>2. CASE ~mover[w].put
      BY <2>2, <2>3, <3>2 DEF Stray, Accounted, InS3, Copying
    <3>. QED
      BY <3>1, <3>2
  <2>6. x.put \/ x.pc \in {"cancel", "put"} => x.copied
    BY <1>0, <2>1 DEF CopySound
  <2>. QED
    BY <1>0, <1>01, <2>1, <2>2, <2>3, <2>5, <2>6, StorageCopy
<1>5. CASE SwitchToDb(w)
  <2>1. PICK x : /\ mover' = [mover EXCEPT ![w] = x] /\ x.pc = "finalize" /\ x.sha = z
                 /\ x.put = mover[w].put /\ x.copied = mover[w].copied
    BY <1>5, <1>02 DEF SwitchToDb
  <2>2. /\ lock[z] = Nobody /\ garbage' = [garbage EXCEPT ![z][row[z].location] = Queued]
        /\ row' = [row EXCEPT ![z].storage = "db", ![z].location = "key"]
        /\ UNCHANGED <<objects, lock>>
    BY <1>5 DEF SwitchToDb, Switches
  <2>3. row[z].location \in Locations
    BY <1>0, <1>01 DEF Rows
  <2>4. \A c \in Shas : c # z => garbage'[c] = garbage[c] /\ row'[c] = row[c]
    BY <1>01, <2>2
  <2>5. ~Stray(z)'
    <3>1. PICK l \in Locations : l = row[z].location
      BY <2>3
    <3>2. garbage'[z][l] # NoEntry
      BY <2>2, <3>1, QueueGains
    <3>. QED
      BY <3>2 DEF Stray, Accounted
  <2>6. x.put \/ x.pc \in {"cancel", "put"} => x.copied
    BY <1>0, <2>1 DEF CopySound
  <2>. QED
    BY <1>0, <1>01, <2>1, <2>2, <2>4, <2>5, <2>6, StorageCopy
<1>6. CASE StartVerify(w)
  <2>1. PICK x : /\ mover' = [mover EXCEPT ![w] = x] /\ x.pc = "verify" /\ x.sha = z
                 /\ x.put = mover[w].put /\ x.copied = mover[w].copied
    BY <1>6, <1>02 DEF StartVerify
  <2>2. /\ lock' = [lock EXCEPT ![z] = w] /\ mover[w].put /\ UNCHANGED <<row, garbage, objects>>
    BY <1>6 DEF StartVerify
  <2>3. ~Stray(z)' /\ \A c \in Shas : c # z => lock'[c] = lock[c]
    BY <1>0, <1>01, <2>2 DEF Stray
  <2>4. x.put /\ x.copied
    BY <1>0, <2>1, <2>2 DEF CopySound
  <2>. QED
    BY <1>0, <1>01, <2>1, <2>2, <2>3, <2>4, StorageCopy
<1>7. CASE Verified(w)
  <2>1. PICK x : /\ mover' = [mover EXCEPT ![w] = x] /\ x.pc = "finalize" /\ x.sha = z
                 /\ x.put = mover[w].put /\ x.copied = mover[w].copied
    BY <1>7, <1>02 DEF Verified
  <2>2. /\ lock' = [lock EXCEPT ![z] = Nobody] /\ garbage' = NoGarbage(z)
        /\ row' = [row EXCEPT ![z].storage = "s3", ![z].location = "key"]
        /\ mover[w].pc = "verify" /\ UNCHANGED <<objects>>
    BY <1>7 DEF Verified
  <2>3. \A c \in Shas : c # z => garbage'[c] = garbage[c] /\ row'[c] = row[c] /\ lock'[c] = lock[c]
    BY <1>01, <2>2 DEF NoGarbage
  <2>4. ~Stray(z)'
    BY <1>0, <1>01, <2>2 DEF Stray, Accounted, InS3, Rows
  <2>5. lock[z] = w
    BY <1>0, <2>2 DEF MoverSound
  <2>6. x.put \/ x.pc \in {"cancel", "put"} => x.copied
    BY <1>0, <2>1 DEF CopySound
  <2>. QED
    BY <1>0, <1>01, <2>1, <2>2, <2>3, <2>4, <2>5, <2>6, StorageCopy
<1>8. CASE VerifyFails(w)
  <2>1. PICK x : /\ mover' = [mover EXCEPT ![w] = x] /\ x.pc = "discard" /\ x.sha = z
                 /\ x.put = mover[w].put /\ x.copied = mover[w].copied
    BY <1>8, <1>02 DEF VerifyFails
  <2>2. /\ lock' = [lock EXCEPT ![z] = Nobody] /\ UNCHANGED <<row, garbage, objects>>
        /\ mover[w].pc = "verify"
    BY <1>8 DEF VerifyFails
  <2>3. \A c \in Shas : c # z => lock'[c] = lock[c]
    BY <1>01, <2>2
  <2>4. x.put /\ x.copied
    BY <1>0, <2>1, <2>2 DEF CopySound
  <2>. QED
    BY <1>0, <1>01, <2>1, <2>2, <2>3, <2>4, StorageCopy
<1>9. CASE DiscardCopy(w)
  <2>1. PICK x : /\ mover' = [mover EXCEPT ![w] = x] /\ x.pc = "failed" /\ x.sha = z
                 /\ x.put = mover[w].put /\ x.copied = mover[w].copied
    BY <1>9, <1>02 DEF DiscardCopy
  <2>2. /\ mover[w].pc = "discard" /\ UNCHANGED <<row, objects, lock>>
        /\ QueueCopy(w) \/ garbage' = garbage
    BY <1>9 DEF DiscardCopy
  <2>3. /\ \A c \in Shas : c # z => garbage'[c] = garbage[c]
        /\ \A k \in Locations : garbage'[z][k] = NoEntry => garbage[z][k] = NoEntry
        /\ mover[w].put /\ row[z].storage # Target(w) /\ QueueCopy(w) => garbage'[z].key # NoEntry
    BY <1>0, <1>01, <2>2, QueueCopyGains DEF QueueCopy, Garbage
  <2>4. mover[w].put => Target(w) = "s3"
    BY <1>0 DEF MoverSound
  <2>5. LosesCopy(w) \/ ~Stray(z)' \/ (Stray(z) /\ ~Copying(w, z))
    <3>1. CASE mover[w].put /\ QueueCopy(w)
      BY <1>01, <2>2, <2>3, <2>4, <3>1 DEF Stray, Accounted, InS3
    <3>2. CASE ~mover[w].put
      BY <2>2, <2>3, <3>2 DEF Stray, Accounted, InS3, Copying
    <3>3. CASE garbage' = garbage
      BY <1>9, <3>3 DEF LosesCopy
    <3>. QED
      BY <2>2, <3>1, <3>2, <3>3
  <2>6. x.put \/ x.pc \in {"cancel", "put"} => x.copied
    BY <1>0, <2>1 DEF CopySound
  <2>. QED
    BY <1>0, <1>01, <2>1, <2>2, <2>3, <2>5, <2>6, StorageCopy
<1>. QED
  BY <1>1, <1>2, <1>3, <1>4, <1>5, <1>6, <1>7, <1>8, <1>9

LEMMA LoopCopies ==
    ASSUME BlobInv, MoverInv, CopyInv, NEW w \in Movers, MoverStep(w)
    PROVE  CopyRight(w)
<1>0. mover \in [Movers -> MoverRows] /\ lock \in [Shas -> Actors \cup {Nobody}]
  BY DEF MoverInv, MoveTypeOK, BlobInv, BlobTypeOK
<1>1. ASSUME NEW x, mover[w].pc = "idle", mover' = [mover EXCEPT ![w] = x], UNCHANGED blobVars,
             ~x.put, x.pc \in {"row", "finalize"}
      PROVE  CopyRight(w)
  BY <1>1, QuietCopy DEF Copying
<1>2. ASSUME NEW m \in Moves, NEW sha \in Shas, Claim(w, m, sha) PROVE CopyRight(w)
  <2>. DEFINE x == [IdleMover EXCEPT !.pc = "row", !.move = m, !.sha = sha]
  <2>1. /\ ~x.put /\ x.pc = "row" /\ mover' = [mover EXCEPT ![w] = x] /\ mover[w].pc = "idle"
        /\ UNCHANGED blobVars
    BY <1>2 DEF Claim, IdleMover
  <2>. HIDE DEF x
  <2>. QED
    BY <1>1, <2>1
<1>3. ASSUME NEW m \in Moves, ReapZombies(w, m) PROVE CopyRight(w)
  <2>. DEFINE x == [IdleMover EXCEPT !.pc = "finalize", !.move = m]
  <2>1. /\ ~x.put /\ x.pc = "finalize" /\ mover' = [mover EXCEPT ![w] = x] /\ mover[w].pc = "idle"
        /\ UNCHANGED blobVars
    BY <1>3 DEF ReapZombies, IdleMover
  <2>. HIDE DEF x
  <2>. QED
    BY <1>1, <2>1
<1>4. ASSUME NEW m \in Moves, SettleIdle(w, m) PROVE CopyRight(w)
  <2>1. UNCHANGED <<blobVars, mover>>
    BY <1>4 DEF SettleIdle
  <2>2. \A c \in Shas : AccountsFor(c)'
    BY <2>1, HolderAccounts DEF CopyInv, blobVars
  <2>3. \A c \in Shas : Forgotten(c)' => Forgotten(c)
    BY <2>1 DEF Forgotten, Stray, Accounted, InS3, blobVars
  <2>. QED
    BY <2>1, <2>2, <2>3 DEF CopyRight, CopyInv, CopySound
<1>5. CASE MoverCrashes(w)
  <2>1. /\ lock' = [sha \in Shas |-> IF lock[sha] = w THEN Nobody ELSE lock[sha]]
        /\ mover' = [mover EXCEPT ![w] = IdleMover]
        /\ UNCHANGED <<row, garbage, up, sweep>>
    BY <1>5 DEF MoverCrashes
  <2>2. \A c \in Shas : AccountsFor(c)'
    BY <2>1, HolderAccounts DEF CopyInv
  <2>3. /\ CopySound(w)' /\ \A v \in Movers : v # w => mover'[v] = mover[v]
    BY <1>0, <2>1 DEF CopySound, IdleMover
  <2>4. \A v \in Movers : CopySound(v)'
    BY <2>3, OthersCopy
  <2>. QED
    BY <1>5, <2>2, <2>4 DEF CopyRight, LosesCopy
<1>6. CASE \/ CancelStaleGarbage(w) \/ PutCopy(w) \/ SwitchSkipped(w) \/ SwitchVanished(w)
           \/ SwitchToDb(w) \/ StartVerify(w) \/ Verified(w) \/ VerifyFails(w)
           \/ RequestFails(w) \/ DiscardCopy(w)
  <2>1. mover[w].pc \notin {"idle", "finalize"}
    BY <1>6 DEF CancelStaleGarbage, PutCopy, SwitchSkipped, SwitchVanished, SwitchToDb,
                StartVerify, Verified, VerifyFails, RequestFails, DiscardCopy, Switches
  <2>2. PICK z \in Shas : z = mover[w].sha
    BY <2>1, AtWork
  <2>. QED
    BY <1>6, <2>2, StorageCopies
<1>. QED
  BY <1>2, <1>3, <1>4, <1>5, <1>6, WorkCopies DEF MoverStep, Work

CopyLoss(c) ==
    \/ \E u \in Uploaders : RetainFails(u)
    \/ \E w \in Movers : LosesCopy(w)
    \/ LostMeanwhile(c)

LEMMA NextCopies ==
    BlobInv /\ MoverInv /\ CopyInv /\ [Next]_vars =>
        CopyInv' /\ \A c \in Shas : Forgotten(c)' => Forgotten(c) \/ CopyLoss(c)
<1>. SUFFICES ASSUME BlobInv, MoverInv, CopyInv, [Next]_vars
              PROVE  CopyInv' /\ \A c \in Shas : Forgotten(c)' => Forgotten(c) \/ CopyLoss(c)
  OBVIOUS
<1>1. CASE [BlobNext]_blobVars /\ mover' = mover
  <2>1. /\ \A c \in Shas : AccountsFor(c)'
        /\ \A c \in Shas :
               Stray(c)' => Stray(c) \/ GoesEarly(c) \/ \E u \in Uploaders : RetainFails(u)
    BY <1>1, NextStray DEF AllAccount, CopyInv
  <2>2. \A w \in Movers : CopySound(w)'
    BY <1>1 DEF CopyInv, CopySound
  <2>3. \A c \in Shas : Forgotten(c)' =>
            Forgotten(c) \/ GoesEarly(c) \/ \E u \in Uploaders : RetainFails(u)
    BY <1>1, <2>1 DEF Forgotten
  <2>. QED
    BY <2>1, <2>2, <2>3 DEF CopyInv, CopyLoss, GoesEarly, LostMeanwhile
<1>2. CASE \/ Admin \/ \E m \in Moves, sha \in Shas : ItemLeaseLapses(m, sha)
  <2>1. UNCHANGED blobVars /\ mover' = mover
    BY <1>2 DEF Admin, StartMove, CancelMove, RetryMove, ItemLeaseLapses
  <2>. QED
    BY <1>1, <2>1
<1>3. CASE UNCHANGED vars
  BY <1>1, <1>3 DEF vars, moveVars
<1>4. CASE BlobNext /\ UNCHANGED moveVars
  BY <1>1, <1>4 DEF moveVars
<1>5. ASSUME NEW w \in Movers, MoverStep(w)
      PROVE  CopyInv' /\ \A c \in Shas : Forgotten(c)' => Forgotten(c) \/ CopyLoss(c)
  BY <1>5, LoopCopies DEF CopyRight, CopyInv, CopyLoss
<1>. QED
  BY <1>2, <1>3, <1>4, <1>5 DEF Next

(***************************************************************************)
(* No copy is forgotten: what a loop puts is switched to, queued for its   *)
(* delete or still in the loop's hands, whatever races it.  The exceptions *)
(* are a loop that dies meanwhile, a PUT or a discard that fails, a retain *)
(* that ends after its PUT, and a PUT between a delete and its COMMIT.     *)
(***************************************************************************)
THEOREM CopiesStray == Spec => CopiesStrayByLossOnly
<1>1. Init => CopyInv
  BY InitStray DEF Init, CopyInv, CopySound, IdleMover, AllAccount
<1>2. BlobInv /\ MoverInv /\ CopyInv /\ [Next]_vars => CopyInv'
  BY NextCopies
<1>3. BlobInv /\ MoverInv /\ CopyInv /\ [Next]_vars =>
          [\A sha \in Shas : Forgotten(sha)' =>
               \/ Forgotten(sha)
               \/ \E u \in Uploaders : RetainFails(u)
               \/ \E w \in Movers : LosesCopy(w)
               \/ LostMeanwhile(sha)]_vars
  BY NextCopies DEF CopyLoss
<1>. QED
  BY <1>1, <1>2, <1>3, Invariant, PTL DEF Spec, CopiesStrayByLossOnly

---------------------------------------------------------------------------
(***************************************************************************)
(* Readers.  Who is sent to S3 while the file exists finds the object      *)
(* there, or the row in the database when he looks again: unless the blob  *)
(* was moved there and back meanwhile.                                     *)
(***************************************************************************)
\* A migration to this storage has been started, this one or an earlier one.
MovedTo(t) == \E m \in Moves : Started(m) /\ move[m].target = t

\* What a reader who came in time may find, and what that says of the past.
ReaderMoved(r) ==
    read[r].sure =>
        /\ read[r].pc \in {"get", "again"} /\ row[read[r].sha].storage = "db" => MovedTo("db")
        /\ read[r].pc = "again" =>
               MovedTo("db") /\ (row[read[r].sha].storage = "db" \/ MovedTo("s3"))
        /\ read[r].pc = "missing" => MovedTo("db") /\ MovedTo("s3")

LEMMA MovedStays == ASSUME MovesStay, NEW t, MovedTo(t) PROVE MovedTo(t)'
  BY DEF MovesStay, MovedTo, Started

\* A loop leads every row that it moves to the bytes.
LEMMA LoopReads ==
    ASSUME BlobInv, ReadInv, MoverWrites, UNCHANGED <<file, up, sweep, read>>
    PROVE  ReadInv'
<1>1. \A c \in Shas : row'[c].refs = row[c].refs /\ row'[c].delete_after = row[c].delete_after
  BY DEF MoverWrites
<1>2. ASSUME NEW c \in Shas PROVE CountedOut(c)' /\ (Safe(c) => Safe(c)')
  <2>1. c \in Kept => c \in Kept'
    <3>1. CASE row'[c] = row[c]
      BY <3>1 DEF MoverWrites, Kept, InS3
    <3>2. CASE row'[c] # row[c]
      BY <3>2 DEF MoverWrites, Kept, InS3, Storages
    <3>. QED
      BY <3>1, <3>2
  <2>. QED
    BY <1>1, <2>1 DEF ReadInv, CountedOut, Safe, NoFile
<1>3. ASSUME NEW r \in Readers PROVE ReaderSound(r)'
  <2>1. Safe(read[r].sha) => read[r].sha \in Shas
    BY DEF Safe, Kept
  <2>. QED
    BY <1>2, <2>1 DEF ReadInv, ReaderSound
<1>. QED
  BY <1>2, <1>3 DEF ReadInv

\* What a reader is sent to while it waits changes its storage by a move only.
LEMMA WaitingReader ==
    ASSUME ReadInv, ReadInv', MovesRight, MovesStay, NEW r \in Readers, read'[r] = read[r],
           ReaderMoved(r)
    PROVE  ReaderMoved(r)'
<1>. SUFFICES ASSUME read[r].sure PROVE ReaderMoved(r)'
  BY DEF ReaderMoved
<1>1. \A t : MovedTo(t) => MovedTo(t)'
  BY MovedStays
<1>2. ASSUME read[r].pc \in {"get", "again"}, row'[read[r].sha].storage # row[read[r].sha].storage
      PROVE  \E t \in Storages : /\ row'[read[r].sha].storage = t
                                 /\ row[read[r].sha].storage \in Storages \ {t}
                                 /\ MovedTo(t)'
  <2>1. read[r].sha \in Kept /\ read'[r].sha \in Kept'
    BY <1>2 DEF ReadInv, ReaderSound, Safe
  <2>2. /\ read[r].sha \in Shas /\ row[read[r].sha].storage \in Storages
        /\ row'[read[r].sha].storage \in Storages
    BY <2>1 DEF Kept, InS3, Storages
  <2>3. row[read[r].sha] # NoRow /\ row'[read[r].sha] # NoRow
    BY <2>2 DEF NoRow, Storages
  <2>4. PICK t \in Storages : t = row'[read[r].sha].storage
    BY <2>2
  <2>5. PICK m \in Moves : move[m].state = "running" /\ move[m].target = t
    BY <1>2, <2>2, <2>3, <2>4 DEF MovesRight
  <2>6. MovedTo(t)'
    BY <1>1, <2>5 DEF MovedTo, Started
  <2>. QED
    BY <1>2, <2>2, <2>4, <2>6
<1>3. CASE read[r].pc \in {"get", "again"} /\ row'[read[r].sha].storage # row[read[r].sha].storage
  <2>1. PICK t \in Storages : /\ row'[read[r].sha].storage = t /\ MovedTo(t)'
                             /\ row[read[r].sha].storage \in Storages \ {t}
    BY <1>2, <1>3
  <2>. QED
    BY <1>1, <1>3, <2>1 DEF ReaderMoved, Storages
<1>4. CASE ~(read[r].pc \in {"get", "again"} /\ row'[read[r].sha].storage # row[read[r].sha].storage)
  BY <1>1, <1>4 DEF ReaderMoved
<1>. QED
  BY <1>3, <1>4

LEMMA ReaderMoves ==
    ASSUME BlobInv, ReadInv, MovesStay, NEW r \in Readers, ReadStep(r), ReaderMoved(r)
    PROVE  ReaderMoved(r)'
<1>. USE DEF BlobInv, BlobTypeOK
<1>1. row' = row /\ \A t : MovedTo(t) => MovedTo(t)'
  BY MovedStays DEF ReadStep, LookUp, Get, LookAgain, ReadRefused
<1>2. ASSUME NEW f \in Files, LookUp(r, f) PROVE ReaderMoved(r)'
  <2>1. /\ row[Content[f]].storage # "db" /\ Content[f] \in Shas
        /\ read'[r].sure => file[f] = "stored"
        /\ read'[r].pc = (IF InS3(Content[f]) THEN "get" ELSE "missing")
        /\ read'[r].sha = Content[f]
    BY <1>2, BlobAssumption DEF LookUp
  <2>2. file[f] = "stored" => InS3(Content[f])
    BY <2>1 DEF RowsSound, RowSound, NoFile, Rows, Storages, InS3
  <2>. QED
    BY <1>1, <2>1, <2>2 DEF ReaderMoved
<1>3. CASE Get(r) \/ LookAgain(r) \/ ReadRefused(r)
  <2>. SUFFICES ASSUME read'[r].sure PROVE ReaderMoved(r)'
    BY DEF ReaderMoved
  <2>1. read[r] \in Reads /\ ~NoRead.sure
    BY DEF NoRead
  <2>2. ASSUME Get(r) PROVE ReaderMoved(r)'
    <3>. DEFINE again == [read[r] EXCEPT !.pc = "again"]
    <3>1. read'[r] = (IF read[r].sha \in objects THEN NoRead ELSE again) /\ read[r].pc = "get"
      BY <2>2 DEF Get
    <3>2. again.sure = read[r].sure /\ again.sha = read[r].sha /\ again.pc = "again"
      BY <2>1 DEF Reads
    <3>. HIDE DEF again
    <3>3. read'[r] = again /\ read[r].sure /\ read[r].sha \notin objects
      BY <2>1, <3>1, <3>2
    <3>4. row[read[r].sha].storage = "db"
      BY <3>1, <3>3 DEF ReadInv, ReaderSound, Safe, Kept, InS3
    <3>. QED
      BY <1>1, <3>1, <3>2, <3>3, <3>4 DEF ReaderMoved
  <2>3. ASSUME LookAgain(r) PROVE ReaderMoved(r)'
    <3>. DEFINE missing == [read[r] EXCEPT !.pc = "missing"]
                there == row[read[r].sha].storage
    <3>1. read[r].pc = "again" /\ (read'[r] = NoRead \/ read'[r] = missing)
      BY <2>3 DEF LookAgain
    <3>2. there = "db" => read'[r] = NoRead
      BY <2>3 DEF LookAgain
    <3>3. missing.sure = read[r].sure /\ missing.pc = "missing"
      BY <2>1 DEF Reads
    <3>. HIDE DEF missing
    <3>4. read'[r] = missing /\ read[r].sure /\ there # "db"
      BY <2>1, <3>1, <3>2, <3>3
    <3>. QED
      BY <1>1, <3>1, <3>3, <3>4 DEF ReaderMoved
  <2>4. ~ReadRefused(r)
    BY <2>1 DEF ReadRefused
  <2>. QED
    BY <1>3, <2>2, <2>3, <2>4
<1>. QED
  BY <1>2, <1>3 DEF ReadStep

(***************************************************************************)
(* Who looked a blob up while its file existed gets the bytes, through     *)
(* every upload, delete and sweep and through the moves in one direction,  *)
(* as long as none in the other has been started: only a blob that was     *)
(* moved away and back can leave a reader without them.                    *)
(***************************************************************************)
THEOREM MovedReadersServed == Spec => [](ReadersAreServed \/ (MovedTo("db") /\ MovedTo("s3")))
<1>. DEFINE J == ReadInv /\ \A r \in Readers : ReaderMoved(r)
<1>1. Init => J
  BY InitReads DEF Init, BlobInit, ReaderMoved, NoRead
<1>2. BlobInv /\ MoverInv /\ J /\ [Next]_vars => J'
  <2>. SUFFICES ASSUME BlobInv, MoverInv, J, [Next]_vars PROVE J'
    OBVIOUS
  <2>1. BlobInv' /\ MovesRight /\ MovesStay /\ Apart
    BY NextRight DEF Right
  <2>2. ReadInv'
    BY <2>1, NextReads, LoopReads DEF Apart
  <2>3. ASSUME NEW r \in Readers PROVE ReaderMoved(r)'
    <3>1. CASE ReadStep(r)
      BY <2>1, <3>1, ReaderMoves
    <3>2. CASE ~ReadStep(r)
      <4>1. read'[r] = read[r]
        BY <2>1, <2>2, <3>2, ReadersWait DEF Apart
      <4>. QED
        BY <2>1, <2>2, <4>1, WaitingReader
    <3>. QED
      BY <3>1, <3>2
  <2>. QED
    BY <2>2, <2>3
<1>3. J => ReadersAreServed \/ (MovedTo("db") /\ MovedTo("s3"))
  BY DEF ReaderMoved, ReadersAreServed
<1>. HIDE DEF J
<1>. QED
  BY <1>1, <1>2, <1>3, Invariant, PTL DEF Spec

=============================================================================
