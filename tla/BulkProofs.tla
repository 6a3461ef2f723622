----------------------------- MODULE BulkProofs -----------------------------
(***************************************************************************)
(* A bulk re-embed and its children, for every number of stores, requests, *)
(* loops and sweeps: parent and children finish together, a cancelled bulk *)
(* is over, and only a history sweep can be part of a deadlock.            *)
(*                                                                         *)
(* The ground is the discipline of the locks, read off the place at which  *)
(* each transaction is; what a transaction may rely on follows from the    *)
(* locks that it holds.                                                    *)
(***************************************************************************)
EXTENDS BulkReembed, FiniteSetTheorems, WellFoundedInduction, TLAPS

----------------------------------------------------------------------------
(* Types, and which places in a transaction go with what it has written *)

\* Places at which the child is locked and written, or known to be gone.
PastChild == {"parent", "check", "commit"}

Sound(w) ==
    /\ w.pc = "idle" => w.op = "none"
    /\ w.pc # "idle" => w.bulk \in Bulks
    /\ w.op = "start" <=> w.pc = "insert"
    /\ w.pc = "latch" => w.op = "cancel" /\ w.whole
    /\ w.pc = "next" => w.op \in {"finalize", "cancel", "retry"} /\ w.whole
    /\ w.pc \in {"store", "child"} => w.op \in {"finalize", "cancel", "retry"}
    /\ w.pc \in PastChild => w.op \in {"finalize", "cancel", "retry", "settle"}
    /\ w.pc \in {"store", "child"} \cup PastChild =>
          (IF w.op = "settle" THEN w.store = 0 /\ w.child = "same" ELSE w.store \in Stores)
    /\ w.pc \in {"insert", "latch", "next"} => w.store = 0
    /\ w.pc \notin {"child"} \cup PastChild => w.child = "same"
    /\ w.pc = "child" => w.child # "same"
    /\ w.pc \in {"child"} \cup PastChild /\ w.op = "retry" => w.child = "running"
    /\ w.op # "retry" => w.child \in {"same", "switched", "failed", "cancelled"}
    /\ w.pc # "commit" => w.parent = "same"
    /\ w.pc = "check" => w.op # "retry"
    /\ w.parent \in {"same", IF w.op = "retry" THEN "running" ELSE "finished"}

SoundWork == {w \in Work : Sound(w)}

TypeInv == BulkTypeOK /\ tx \in [Actors -> SoundWork]

\* The states of rows and the actors are distinct from what stands for none.
LEMMA Constants ==
    /\ Stores \subseteq Nat /\ 0 \notin Stores /\ IsFiniteSet(Stores)
    /\ Actors \subseteq Everybody /\ Histories \subseteq Everybody
    /\ Actors \cap Histories = {}
    /\ Nobody \notin Everybody
  BY BulkAssumption DEF Actors, Everybody

LEMMA RowNames ==
    /\ \A b \in Bulks : P(b) \in Rows /\ P(b)[1] = b /\ P(b)[2] = 0
    /\ \A b \in Bulks, s \in Stores :
          C(b, s) \in Rows /\ C(b, s)[1] = b /\ C(b, s)[2] = s
    /\ \A r \in Rows : \/ r[1] \in Bulks /\ r[2] = 0 /\ r = P(r[1])
                       \/ r[1] \in Bulks /\ r[2] \in Stores /\ r = C(r[1], r[2])
    /\ \A b, d \in Bulks, s \in Stores : P(b) # C(d, s)
    /\ \A b, d \in Bulks : P(b) = P(d) => b = d
    /\ \A b, d \in Bulks, s, t \in Stores : C(b, s) = C(d, t) => b = d /\ s = t
  BY Constants DEF P, C, Rows

LEMMA NoWorkSound == NoWork \in SoundWork
  BY DEF NoWork, SoundWork, Work, Sound, PastChild, States

LEMMA FollowingSound ==
    ASSUME TypeInv, NEW a \in Actors, ~Idle(a), tx[a].op # "start"
    PROVE  Following(a) \in SoundWork
<1>. tx[a] \in SoundWork
  BY DEF TypeInv
<1>1. CASE ~(tx[a].whole /\ tx[a].op # "settle")
  BY <1>1, NoWorkSound DEF Following
<1>2. CASE tx[a].whole /\ tx[a].op # "settle"
  <2>1. PICK v \in Work : v = tx[a] /\ Sound(v) /\ v.pc # "idle" /\ v.op \notin {"start", "settle"} /\ v.whole
    BY <1>2 DEF SoundWork, Idle
  <2>. DEFINE u == [v EXCEPT !.pc = "next", !.store = 0, !.made = {}, !.child = "same", !.parent = "same"]
  <2>2. /\ u \in Work /\ u.pc = "next" /\ u.store = 0 /\ u.child = "same" /\ u.parent = "same"
        /\ u.op = v.op /\ u.whole = v.whole /\ u.bulk = v.bulk
    BY DEF Work, States
  <2>. HIDE DEF u
  <2>3. v.op \in {"finalize", "cancel", "retry"} /\ v.bulk \in Bulks
    BY <2>1 DEF Work, Sound, PastChild
  <2>4. Sound(u)
    BY <2>1, <2>2, <2>3 DEF Sound, PastChild
  <2>5. Following(a) = u
    BY <1>2, <2>1 DEF Following, u
  <2>. QED
    BY <2>2, <2>4, <2>5 DEF SoundWork
<1>. QED
  BY <1>1, <1>2

LEMMA InitTypes == Init => TypeInv
  BY NoWorkSound, Constants, BulkAssumption DEF Init, TypeInv, BulkTypeOK, States, SoundWork, Rows, Actors, Everybody

\* What a transaction's end leaves of the locks is typed.
LEMMA FreedTypes ==
    ASSUME TypeInv, NEW a, LocksFreed(a)
    PROVE  /\ lock' \in [Rows -> Everybody \cup {Nobody}]
           /\ storeLock' \in [Stores -> Actors \cup {Nobody}]
  BY DEF LocksFreed, TypeInv, BulkTypeOK

----------------------------------------------------------------------------
(* What each step does, with its types *)

LEMMA NoWorkIs ==
    /\ NoWork \in Work /\ NoWork.op = "none" /\ NoWork.whole = FALSE /\ NoWork.pc = "idle"
    /\ NoWork.bulk = NoBulk /\ NoWork.store = 0 /\ NoWork.todo = {} /\ NoWork.made = {}
    /\ NoWork.child = "same" /\ NoWork.parent = "same"
  BY DEF NoWork, Work, States

LEMMA SetMinimum ==
    ASSUME NEW T \in SUBSET Stores, T # {}
    PROVE  Min(T) \in T /\ \A t \in T : Min(T) <= t
<1>. DEFINE Below(s) == {t \in T : t < s}
            All == {Below(s) : s \in T}
<1>1. IsWellFoundedOn(StrictSubsetOrdering(Stores), SUBSET Stores)
  BY FS_StrictSubsetOrderingWellFounded, FS_FiniteSubsetsOfFinite, Constants
<1>2. PICK n \in T : \A s \in T : ~(<<Below(s), Below(n)>> \in StrictSubsetOrdering(Stores))
  <2>1. All \subseteq SUBSET Stores /\ All # {}
    OBVIOUS
  <2>. HIDE DEF Below
  <2>2. PICK B \in All : \A A \in All : ~(<<A, B>> \in StrictSubsetOrdering(Stores))
    BY <1>1, <2>1, WFMin
  <2>. QED
    BY <2>2
<1>3. ASSUME NEW s \in T, s < n PROVE FALSE
  <2>1. ASSUME NEW t \in Below(s) PROVE t \in Below(n)
    <3>. t \in Nat /\ s \in Nat /\ n \in Nat /\ t \in T /\ t < s
      BY Constants
    <3>. QED
      BY <1>3
  <2>2. s \in Below(n) /\ s \notin Below(s)
    BY <1>3, Constants
  <2>. QED
    BY <2>1, <2>2, <1>2 DEF StrictSubsetOrdering
<1>4. \A t \in T : n <= t
  BY <1>3, Constants
<1>. QED
  BY <1>4 DEF Min

LEMMA SetMaximum ==
    ASSUME NEW T \in SUBSET Stores, T # {}
    PROVE  \E n \in T : \A t \in T : t <= n
<1>. DEFINE Above(s) == {t \in T : t > s}
            All == {Above(s) : s \in T}
<1>1. IsWellFoundedOn(StrictSubsetOrdering(Stores), SUBSET Stores)
  BY FS_StrictSubsetOrderingWellFounded, FS_FiniteSubsetsOfFinite, Constants
<1>2. PICK n \in T : \A s \in T : ~(<<Above(s), Above(n)>> \in StrictSubsetOrdering(Stores))
  <2>1. All \subseteq SUBSET Stores /\ All # {}
    OBVIOUS
  <2>. HIDE DEF Above
  <2>2. PICK B \in All : \A A \in All : ~(<<A, B>> \in StrictSubsetOrdering(Stores))
    BY <1>1, <2>1, WFMin
  <2>. QED
    BY <2>2
<1>3. ASSUME NEW s \in T, s > n PROVE FALSE
  <2>1. ASSUME NEW t \in Above(s) PROVE t \in Above(n)
    <3>. t \in Nat /\ s \in Nat /\ n \in Nat /\ t \in T /\ t > s
      BY Constants
    <3>. QED
      BY <1>3
  <2>2. s \in Above(n) /\ s \notin Above(s)
    BY <1>3, Constants
  <2>. QED
    BY <2>1, <2>2, <1>2 DEF StrictSubsetOrdering
<1>. QED
  BY <1>3, Constants

\* A step of `a` changes its own work only, and that stays sound.
Moves(a) ==
    /\ tx' \in [Actors -> SoundWork] /\ tx' \in [Actors -> Work]
    /\ \A c \in Actors \ {a} : tx'[c] = tx[c]

LEMMA OneWork ==
    ASSUME TypeInv, NEW a \in Actors, NEW w, w \in SoundWork, tx' = [tx EXCEPT ![a] = w]
    PROVE  Moves(a) /\ tx'[a] = w
  BY DEF TypeInv, BulkTypeOK, SoundWork, Moves

\* The work at hand, but for the places of its steps.
SameTask(a) ==
    /\ tx'[a].op = tx[a].op /\ tx'[a].whole = tx[a].whole /\ tx'[a].bulk = tx[a].bulk
    /\ tx'[a].store = tx[a].store /\ tx'[a].todo = tx[a].todo

\* The transaction is over: nothing is left of it, or the next child comes.
Ended(a) ==
    /\ tx'[a].store = 0 /\ tx'[a].child = "same" /\ tx'[a].parent = "same"
    /\ \/ tx'[a] = NoWork
       \/ /\ tx[a].whole /\ tx[a].op # "settle"
          /\ tx'[a].pc = "next" /\ tx'[a].op = tx[a].op /\ tx'[a].whole = tx[a].whole
          /\ tx'[a].bulk = tx[a].bulk /\ tx'[a].todo = tx[a].todo

\* A new task: where it begins, and what it is for.
Begins(a, op, whole, pc, b, s, todo) ==
    /\ tx[a].pc = "idle" /\ Moves(a)
    /\ tx'[a].op = op /\ tx'[a].whole = whole /\ tx'[a].pc = pc /\ tx'[a].bulk = b
    /\ tx'[a].store = s /\ tx'[a].todo = todo
    /\ tx'[a].child = "same" /\ tx'[a].parent = "same"

SameRows == row' = row /\ old' = old /\ latch' = latch /\ history' = history /\ answered' = answered
SameLocks == lock' = lock /\ storeLock' = storeLock

LEMMA EndedDoes ==
    ASSUME TypeInv, NEW a \in Actors, ~Idle(a), tx[a].op # "start", tx' = [tx EXCEPT ![a] = Following(a)]
    PROVE  Moves(a) /\ Ended(a)
<1>1. Moves(a) /\ tx'[a] = Following(a)
  BY OneWork, FollowingSound
<1>2. tx[a] \in Work
  BY DEF TypeInv, BulkTypeOK
<1>3. CASE tx[a].whole /\ tx[a].op # "settle"
  <2>1. tx'[a] = [tx[a] EXCEPT !.pc = "next", !.store = 0, !.made = {}, !.child = "same", !.parent = "same"]
    BY <1>1, <1>3 DEF Following
  <2>2. /\ tx'[a].pc = "next" /\ tx'[a].store = 0 /\ tx'[a].child = "same" /\ tx'[a].parent = "same"
        /\ tx'[a].op = tx[a].op /\ tx'[a].whole = tx[a].whole /\ tx'[a].bulk = tx[a].bulk
        /\ tx'[a].todo = tx[a].todo
    <3>1. ASSUME NEW v \in Work, NEW u,
                 u = [v EXCEPT !.pc = "next", !.store = 0, !.made = {}, !.child = "same", !.parent = "same"]
          PROVE  /\ u.pc = "next" /\ u.store = 0 /\ u.child = "same" /\ u.parent = "same"
                 /\ u.op = v.op /\ u.whole = v.whole /\ u.bulk = v.bulk /\ u.todo = v.todo
      BY <3>1 DEF Work
    <3>. QED
      BY <2>1, <1>2, <3>1
  <2>. QED
    BY <2>2, <1>1, <1>3, Zenon DEF Ended
<1>4. CASE ~(tx[a].whole /\ tx[a].op # "settle")
  BY <1>1, <1>2, <1>4, NoWorkIs DEF Following, Ended
<1>. QED
  BY <1>3, <1>4

LEMMA StartBulkDoes ==
    ASSUME TypeInv, NEW a \in Actors, NEW b \in Bulks, StartBulk(a, b)
    PROVE  /\ \E todo \in SUBSET Stores : Begins(a, "start", TRUE, "insert", b, 0, todo)
           /\ row[P(b)] = "none" /\ \A c \in Actors : tx[c].op = "start" => tx[c].bulk # b
           /\ SameRows /\ SameLocks /\ retries' = retries
<1>1. PICK included \in SUBSET Stores \ {{}} :
         tx' = [tx EXCEPT ![a] = [NoWork EXCEPT !.op = "start", !.whole = TRUE, !.pc = "insert",
                                                !.bulk = b, !.todo = included]]
  BY DEF StartBulk
<1>. DEFINE v == [NoWork EXCEPT !.op = "start", !.whole = TRUE, !.pc = "insert",
                                !.bulk = b, !.todo = included]
<1>2. /\ v \in Work /\ v.op = "start" /\ v.whole = TRUE /\ v.pc = "insert" /\ v.bulk = b
      /\ v.todo = included /\ v.store = 0 /\ v.child = "same" /\ v.parent = "same"
  BY NoWorkIs DEF Work
<1>3. v \in SoundWork
  BY <1>2, Zenon DEF SoundWork, Sound, PastChild
<1>. HIDE DEF v
<1>4. Moves(a) /\ tx'[a] = v
  BY <1>1, <1>3, OneWork DEF v
<1>. QED
  BY <1>2, <1>4 DEF StartBulk, Begins, SameRows, SameLocks, Idle

LEMMA AskChildDoes ==
    ASSUME TypeInv, NEW a \in Actors, NEW b \in Bulks, NEW s \in Stores,
           AskChild(a, b, s) \/ EndChild(a, b, s)
    PROVE  /\ \E op \in {"cancel", "retry", "finalize"} : Begins(a, op, FALSE, "store", b, s, {})
           /\ SameRows /\ SameLocks /\ retries' = retries
<1>1. PICK op \in {"cancel", "retry", "finalize"} :
         tx' = [tx EXCEPT ![a] = [NoWork EXCEPT !.op = op, !.pc = "store", !.bulk = b, !.store = s]]
  BY Zenon DEF AskChild, EndChild
<1>. DEFINE v == [NoWork EXCEPT !.op = op, !.pc = "store", !.bulk = b, !.store = s]
<1>2. /\ v \in Work /\ v.op = op /\ v.whole = FALSE /\ v.pc = "store" /\ v.bulk = b
      /\ v.todo = {} /\ v.store = s /\ v.child = "same" /\ v.parent = "same"
  BY NoWorkIs DEF Work
<1>3. v \in SoundWork
  BY <1>2, Zenon DEF SoundWork, Sound, PastChild
<1>. QED
  BY <1>1, <1>2, <1>3, OneWork DEF AskChild, EndChild, Begins, SameRows, SameLocks, Idle

LEMMA CancelBulkDoes ==
    ASSUME TypeInv, NEW a \in Actors, NEW b \in Bulks, CancelBulk(a, b)
    PROVE  /\ row[P(b)] \notin {"none", "gone"}
           /\ Begins(a, "cancel", TRUE, "latch", b, 0,
                     {s \in Stores : row[C(b, s)] \in Unfinished \cup {"failed"}})
           /\ SameRows /\ SameLocks /\ retries' = retries
<1>. DEFINE todo == {s \in Stores : row[C(b, s)] \in Unfinished \cup {"failed"}}
            v == [NoWork EXCEPT !.op = "cancel", !.whole = TRUE, !.pc = "latch", !.bulk = b, !.todo = todo]
<1>1. tx' = [tx EXCEPT ![a] = v]
  BY DEF CancelBulk
<1>2. /\ v \in Work /\ v.op = "cancel" /\ v.whole = TRUE /\ v.pc = "latch" /\ v.bulk = b
      /\ v.todo = todo /\ v.store = 0 /\ v.child = "same" /\ v.parent = "same"
  <2>1. todo \in SUBSET Stores
    OBVIOUS
  <2>. HIDE DEF todo
  <2>. QED
    BY <2>1, NoWorkIs DEF Work
<1>. HIDE DEF v
<1>3. v \in SoundWork
  BY <1>2, Zenon DEF SoundWork, Sound, PastChild
<1>4. Moves(a) /\ tx'[a] = v
  BY <1>1, <1>3, OneWork
<1>. QED
  BY <1>2, <1>4 DEF CancelBulk, Begins, SameRows, SameLocks, Idle

LEMMA RetryBulkDoes ==
    ASSUME TypeInv, NEW a \in Actors, NEW b \in Bulks, RetryBulk(a, b)
    PROVE  /\ \E todo \in SUBSET Stores : Begins(a, "retry", TRUE, "next", b, 0, todo)
           /\ SameRows /\ SameLocks /\ retries' = retries
<1>. DEFINE todo == {s \in Stores : row[C(b, s)] = "failed"}
            v == [NoWork EXCEPT !.op = "retry", !.whole = TRUE, !.pc = "next", !.bulk = b, !.todo = todo]
<1>1. tx' = [tx EXCEPT ![a] = v]
  BY DEF RetryBulk
<1>2. /\ v \in Work /\ v.op = "retry" /\ v.whole = TRUE /\ v.pc = "next" /\ v.bulk = b
      /\ v.todo = todo /\ v.store = 0 /\ v.child = "same" /\ v.parent = "same"
  <2>1. todo \in SUBSET Stores
    OBVIOUS
  <2>. HIDE DEF todo
  <2>. QED
    BY <2>1, NoWorkIs DEF Work
<1>. HIDE DEF v
<1>3. v \in SoundWork
  BY <1>2, Zenon DEF SoundWork, Sound, PastChild
<1>4. Moves(a) /\ tx'[a] = v
  BY <1>1, <1>3, OneWork
<1>5. todo \in SUBSET Stores
  OBVIOUS
<1>. QED
  BY <1>2, <1>4, <1>5 DEF RetryBulk, Begins, SameRows, SameLocks, Idle

LEMMA EndParentDoes ==
    ASSUME TypeInv, NEW a \in Actors, NEW b \in Bulks, EndParent(a, b)
    PROVE  /\ Begins(a, "settle", FALSE, "parent", b, 0, {})
           /\ SameRows /\ SameLocks /\ retries' = retries
<1>. DEFINE v == [NoWork EXCEPT !.op = "settle", !.pc = "parent", !.bulk = b]
<1>1. tx' = [tx EXCEPT ![a] = v]
  BY DEF EndParent
<1>2. /\ v \in Work /\ v.op = "settle" /\ v.whole = FALSE /\ v.pc = "parent" /\ v.bulk = b
      /\ v.todo = {} /\ v.store = 0 /\ v.child = "same" /\ v.parent = "same"
  BY NoWorkIs DEF Work
<1>3. v \in SoundWork
  BY <1>2, Zenon DEF SoundWork, Sound, PastChild
<1>. QED
  BY <1>1, <1>2, <1>3, OneWork DEF EndParent, Begins, SameRows, SameLocks, Idle

\* Locks that `a` takes or gives up are nobody else's.
TakesStore(a, s) ==
    /\ storeLock[s] = Nobody /\ storeLock' = [storeLock EXCEPT ![s] = a] /\ lock' = lock
TakesRow(a, r) ==
    /\ lock[r] = Nobody /\ lock' = [lock EXCEPT ![r] = a] /\ storeLock' = storeLock

LEMMA InsertChildDoes ==
    ASSUME TypeInv, NEW a \in Actors, InsertChild(a)
    PROVE  /\ tx[a].pc = "insert" /\ tx[a].op = "start" /\ Moves(a)
           /\ Min(tx[a].todo) \in tx[a].todo /\ \A t \in tx[a].todo : Min(tx[a].todo) <= t
           /\ tx'[a].pc = "insert" /\ tx'[a].op = "start" /\ tx'[a].bulk = tx[a].bulk
           /\ tx'[a].todo = tx[a].todo \ {Min(tx[a].todo)}
           /\ tx'[a].parent = "same"
           /\ TakesStore(a, Min(tx[a].todo))
           /\ SameRows /\ retries' = retries
<1>. DEFINE w == tx[a]
            s == Min(w.todo)
<1>0. w \in SoundWork /\ w \in Work /\ Sound(w)
  BY DEF TypeInv, SoundWork
<1>1. s \in w.todo /\ (\A t \in w.todo : s <= t) /\ w.todo \in SUBSET Stores
  BY <1>0, SetMinimum DEF InsertChild, Work
<1>. HIDE DEF s
<1>2. PICK made \in {w.made, w.made \cup {s}} : tx' = [tx EXCEPT ![a].todo = @ \ {s}, ![a].made = made]
  BY DEF InsertChild, s
<1>3. ASSUME NEW v \in Work, Sound(v), v.pc = "insert", s \in Stores, made \in {v.made, v.made \cup {s}},
             NEW u, u = [v EXCEPT !.todo = @ \ {s}, !.made = made]
      PROVE  /\ u \in Work /\ Sound(u) /\ u.pc = "insert" /\ u.op = "start" /\ u.bulk = v.bulk
             /\ u.todo = v.todo \ {s} /\ u.parent = "same"
  BY <1>3 DEF Work, Sound, PastChild
<1>4. tx' = [tx EXCEPT ![a] = [w EXCEPT !.todo = @ \ {s}, !.made = made]]
  BY <1>2, <1>0 DEF TypeInv, BulkTypeOK
<1>5. Moves(a) /\ tx'[a] = [w EXCEPT !.todo = @ \ {s}, !.made = made]
  <2>1. [w EXCEPT !.todo = @ \ {s}, !.made = made] \in SoundWork
    BY <1>0, <1>1, <1>3 DEF SoundWork, InsertChild
  <2>. QED
    BY <2>1, <1>4, OneWork
<1>6. /\ tx'[a].pc = "insert" /\ tx'[a].op = "start" /\ tx'[a].bulk = w.bulk
      /\ tx'[a].todo = w.todo \ {s} /\ tx'[a].parent = "same"
  BY <1>0, <1>1, <1>3, <1>5 DEF InsertChild
<1>7. w.op = "start"
  BY <1>0 DEF Sound, InsertChild
<1>. QED
  BY <1>1, <1>5, <1>6, <1>7 DEF InsertChild, s, SameRows, TakesStore

LEMMA CommitStartDoes ==
    ASSUME TypeInv, NEW a \in Actors, CommitStart(a)
    PROVE  /\ tx[a].pc = "insert" /\ tx[a].op = "start" /\ Moves(a)
           /\ LocksFreed(a) /\ retries' = retries
           /\ old' = old /\ latch' = latch /\ history' = history /\ answered' = answered
           /\ tx'[a].child = "same" /\ tx'[a].parent = "same" /\ tx'[a].store = 0
           /\ \/ tx'[a].pc = "idle" /\ tx'[a].op = "none" /\ row' = row
              \/ /\ tx'[a].pc = "next" /\ tx'[a].op = "finalize" /\ tx'[a].bulk = tx[a].bulk
                 /\ \A r \in Rows : row'[r] # row[r] => r[1] = tx[a].bulk
                 /\ \A r \in Rows : row'[r] # row[r] => row'[r] \in {"running", "ready"}
                 /\ row'[P(tx[a].bulk)] = "running"
           /\ row' \in [Rows -> States]
<1>. DEFINE w == tx[a]
            b == w.bulk
            made == w.made
<1>0. w \in SoundWork /\ w \in Work /\ Sound(w) /\ w.pc = "insert" /\ w.op = "start" /\ b \in Bulks
      /\ made \in SUBSET Stores /\ row \in [Rows -> States]
  BY DEF TypeInv, BulkTypeOK, SoundWork, Sound, CommitStart, Work
<1>1. CASE made = {}
  <2>1. tx' = [tx EXCEPT ![a] = NoWork] /\ row' = row
    BY <1>1 DEF CommitStart
  <2>2. Moves(a) /\ tx'[a] = NoWork
    BY <2>1, NoWorkSound, OneWork
  <2>. QED
    BY <2>1, <2>2, <1>0, NoWorkIs DEF CommitStart
<1>2. CASE made # {}
  <2>1. PICK empty \in SUBSET made :
          /\ row' = [r \in Rows |-> IF r[1] # b \/ r[2] \notin {0} \cup made THEN row[r]
                                    ELSE IF r[2] \in empty THEN "ready" ELSE "running"]
          /\ tx' = [tx EXCEPT ![a] = [NoWork EXCEPT !.op = "finalize", !.whole = TRUE,
                                          !.pc = "next", !.bulk = b, !.todo = empty]]
    BY <1>2 DEF CommitStart
  <2>. DEFINE v == [NoWork EXCEPT !.op = "finalize", !.whole = TRUE, !.pc = "next", !.bulk = b, !.todo = empty]
  <2>2. /\ v \in Work /\ v.op = "finalize" /\ v.whole = TRUE /\ v.pc = "next" /\ v.bulk = b
        /\ v.todo = empty /\ v.store = 0 /\ v.child = "same" /\ v.parent = "same"
    <3>1. PICK d \in Bulks, todo \in SUBSET Stores : d = b /\ todo = empty
      BY <1>0
    <3>2. v = [NoWork EXCEPT !.op = "finalize", !.whole = TRUE, !.pc = "next", !.bulk = d, !.todo = todo]
      BY <3>1
    <3>. HIDE DEF v
    <3>3. /\ v \in Work /\ v.op = "finalize" /\ v.whole = TRUE /\ v.pc = "next" /\ v.bulk = d
          /\ v.todo = todo /\ v.store = 0 /\ v.child = "same" /\ v.parent = "same"
      BY <3>2, NoWorkIs DEF Work
    <3>. QED
      BY <3>1, <3>3
  <2>. HIDE DEF v
  <2>3. v \in SoundWork
    BY <1>0, <2>2, Zenon DEF SoundWork, Sound, PastChild
  <2>4. tx' = [tx EXCEPT ![a] = v]
    BY <2>1 DEF v
  <2>5. Moves(a) /\ tx'[a] = v
    BY <2>4, <2>3, OneWork
  <2>6. /\ \A r \in Rows : row'[r] # row[r] => r[1] = b /\ row'[r] \in {"running", "ready"}
        /\ row' \in [Rows -> States]
    BY <2>1, <1>0 DEF States, Unfinished
  <2>7. row'[P(b)] = "running"
    BY <2>1, <1>0, RowNames, Constants
  <2>. QED
    BY <2>2, <2>5, <2>6, <2>7, <1>0 DEF CommitStart
<1>. QED
  BY <1>1, <1>2

LEMMA LatchBulkDoes ==
    ASSUME TypeInv, NEW a \in Actors, LatchBulk(a)
    PROVE  /\ tx[a].pc = "latch" /\ tx[a].op = "cancel" /\ Moves(a)
           /\ tx'[a].pc = "next" /\ SameTask(a) /\ tx'[a].child = "same" /\ tx'[a].parent = "same"
           /\ latch' \subseteq Bulks /\ row' = row /\ old' = old /\ history' = history
           /\ answered' = answered /\ SameLocks /\ retries' = retries
<1>. DEFINE w == tx[a]
<1>0. w \in SoundWork /\ w \in Work /\ Sound(w) /\ w.pc = "latch"
  BY DEF TypeInv, SoundWork, LatchBulk
<1>1. PICK v \in Work : v = w /\ Sound(v) /\ v.pc = "latch"
  BY <1>0
<1>. DEFINE u == [v EXCEPT !.pc = "next"]
<1>2. tx' = [tx EXCEPT ![a] = u]
  BY <1>1 DEF LatchBulk, TypeInv, BulkTypeOK
<1>3. /\ u \in SoundWork /\ u.pc = "next" /\ u.op = v.op /\ u.whole = v.whole
      /\ u.bulk = v.bulk /\ u.store = v.store /\ u.todo = v.todo
      /\ u.child = "same" /\ u.parent = "same"
  BY <1>1 DEF SoundWork, Work, Sound, PastChild
<1>. HIDE DEF u
<1>4. Moves(a) /\ tx'[a].pc = "next" /\ SameTask(a) /\ tx'[a].child = "same" /\ tx'[a].parent = "same"
  <2>1. Moves(a) /\ tx'[a] = u
    BY <1>2, <1>3, OneWork
  <2>. QED
    BY <1>1, <1>3, <2>1 DEF SameTask
<1>5. latch' \subseteq Bulks
  BY <1>0 DEF LatchBulk, TypeInv, BulkTypeOK, Sound
<1>6. w.op = "cancel"
  BY <1>0 DEF Sound
<1>. QED
  BY <1>4, <1>5, <1>6 DEF LatchBulk, SameLocks

LEMMA NextChildDoes ==
    ASSUME TypeInv, NEW a \in Actors, NextChild(a)
    PROVE  /\ tx[a].pc = "next" /\ tx[a].op \in {"finalize", "cancel", "retry"} /\ Moves(a)
           /\ SameRows /\ SameLocks /\ retries' = retries
           /\ tx'[a].child = "same" /\ tx'[a].parent = "same"
           /\ \/ /\ tx'[a].pc = "store" /\ tx'[a].op = tx[a].op /\ tx'[a].whole = tx[a].whole
                 /\ tx'[a].bulk = tx[a].bulk /\ tx'[a].todo = tx[a].todo \ {tx'[a].store}
              \/ /\ tx[a].todo = {} /\ tx[a].op = "cancel" /\ tx'[a].pc = "parent"
                 /\ tx'[a].op = "settle" /\ tx'[a].bulk = tx[a].bulk
              \/ tx'[a].pc = "idle" /\ tx'[a].op = "none"
<1>. DEFINE w == tx[a]
<1>0. w \in SoundWork /\ w \in Work /\ Sound(w) /\ w.pc = "next" /\ w.op \in {"finalize", "cancel", "retry"}
  BY DEF TypeInv, SoundWork, NextChild, Sound
<1>1. CASE \E s \in w.todo : tx' = [tx EXCEPT ![a].pc = "store", ![a].store = s, ![a].todo = @ \ {s}]
  <2>1. PICK s \in w.todo : tx' = [tx EXCEPT ![a].pc = "store", ![a].store = s, ![a].todo = @ \ {s}]
    BY <1>1
  <2>2. PICK v \in Work, t \in Stores : v = w /\ t = s /\ t \in v.todo /\ Sound(v) /\ v.pc = "next"
    BY <1>0 DEF Work
  <2>. DEFINE u == [v EXCEPT !.pc = "store", !.store = t, !.todo = @ \ {t}]
  <2>3. tx' = [tx EXCEPT ![a] = u]
    BY <2>1, <2>2 DEF TypeInv, BulkTypeOK
  <2>4. /\ u \in SoundWork /\ u.pc = "store" /\ u.op = v.op /\ u.whole = v.whole
        /\ u.bulk = v.bulk /\ u.store = t /\ u.todo = v.todo \ {t}
        /\ u.child = "same" /\ u.parent = "same"
    <3>1. /\ u \in Work /\ u.pc = "store" /\ u.op = v.op /\ u.whole = v.whole
          /\ u.bulk = v.bulk /\ u.store = t /\ u.todo = v.todo \ {t}
          /\ u.child = v.child /\ u.parent = v.parent
      BY <2>2 DEF Work
    <3>2. v.child = "same" /\ v.parent = "same" /\ v.bulk \in Bulks /\ v.op \in {"finalize", "cancel", "retry"}
      BY <2>2 DEF Sound, PastChild
    <3>. HIDE DEF u
    <3>3. Sound(u)
      BY <3>1, <3>2 DEF Sound, PastChild
    <3>. QED
      BY <3>1, <3>2, <3>3 DEF SoundWork
  <2>. HIDE DEF u
  <2>5. Moves(a) /\ tx'[a] = u
    BY <2>3, <2>4, OneWork
  <2>. QED
    BY <2>2, <2>4, <2>5, <1>0 DEF NextChild, SameRows, SameLocks
<1>2. CASE /\ w.todo = {}
           /\ tx' = [tx EXCEPT ![a] = IF w.op = "cancel" THEN [w EXCEPT !.op = "settle", !.pc = "parent"]
                                      ELSE NoWork]
  <2>1. CASE w.op # "cancel"
    <3>1. Moves(a) /\ tx'[a] = NoWork
      BY <2>1, <1>2, NoWorkSound, OneWork
    <3>. QED
      BY <3>1, <1>0, NoWorkIs DEF NextChild, SameRows, SameLocks
  <2>2. CASE w.op = "cancel"
    <3>1. PICK v \in Work : v = w /\ Sound(v) /\ v.pc = "next" /\ v.store = 0 /\ v.child = "same"
                            /\ v.parent = "same" /\ v.bulk \in Bulks
      BY <1>0 DEF Sound, PastChild
    <3>. DEFINE u == [v EXCEPT !.op = "settle", !.pc = "parent"]
    <3>2. /\ u \in SoundWork /\ u.pc = "parent" /\ u.op = "settle" /\ u.bulk = w.bulk
          /\ u.child = "same" /\ u.parent = "same"
      <4>1. /\ u \in Work /\ u.pc = "parent" /\ u.op = "settle" /\ u.bulk = v.bulk /\ u.store = v.store
            /\ u.child = v.child /\ u.parent = v.parent
        BY DEF Work
      <4>. HIDE DEF u
      <4>2. Sound(u)
        BY <3>1, <4>1 DEF Sound, PastChild
      <4>. QED
        BY <3>1, <4>1, <4>2 DEF SoundWork
    <3>3. tx' = [tx EXCEPT ![a] = u]
      BY <1>2, <2>2, <3>1
    <3>. HIDE DEF u
    <3>4. Moves(a) /\ tx'[a] = u
      BY <3>2, <3>3, OneWork
    <3>. QED
      BY <3>2, <3>4, <1>0, <1>2, <2>2 DEF NextChild, SameRows, SameLocks
  <2>. QED
    BY <2>1, <2>2
<1>. QED
  BY <1>1, <1>2 DEF NextChild

LEMMA WithChild ==
    ASSUME NEW w \in Work, NEW pc \in {"child", "parent", "check", "commit"},
           NEW child \in States \cup {"same"}
    PROVE  LET u == [w EXCEPT !.pc = pc, !.child = child] IN
           /\ u \in Work /\ u.pc = pc /\ u.op = w.op /\ u.whole = w.whole
           /\ u.bulk = w.bulk /\ u.store = w.store /\ u.todo = w.todo
           /\ u.child = child /\ u.parent = w.parent
  BY DEF Work

LEMMA WithParent ==
    ASSUME NEW w \in Work, NEW pc \in {"child", "parent", "check", "commit"},
           NEW parent \in States \cup {"same"}
    PROVE  LET u == [w EXCEPT !.pc = pc, !.parent = parent] IN
           /\ u \in Work /\ u.pc = pc /\ u.op = w.op /\ u.whole = w.whole
           /\ u.bulk = w.bulk /\ u.store = w.store /\ u.todo = w.todo
           /\ u.child = w.child /\ u.parent = parent
  BY DEF Work

LEMMA LockStoreDoes ==
    ASSUME TypeInv, NEW a \in Actors, LockStore(a)
    PROVE  /\ tx[a].pc = "store" /\ tx[a].op \in {"finalize", "cancel", "retry"}
           /\ tx[a].store \in Stores /\ Moves(a) /\ SameRows /\ tx'[a].parent = "same"
           /\ retries' \in 0..MaxRetries
           /\ \/ /\ tx'[a].pc = "child" /\ SameTask(a)
                 /\ tx'[a].child \in Outcomes(tx[a].op, row[Own(a)])
                 /\ TakesStore(a, tx[a].store)
              \/ /\ Ended(a) /\ SameLocks
                 /\ tx[a].op = "cancel" => Outcomes(tx[a].op, row[Own(a)]) = {}
<1>0. PICK v \in Work : v = tx[a] /\ Sound(v) /\ v.pc = "store"
  BY DEF TypeInv, SoundWork, LockStore
<1>1. v.op \in {"finalize", "cancel", "retry"} /\ v.store \in Stores
  BY <1>0 DEF Sound
<1>2. retries \in 0..MaxRetries /\ MaxRetries \in Nat
  BY BulkAssumption DEF TypeInv, BulkTypeOK
<1>3. ASSUME NEW state \in Outcomes(v.op, row[Own(a)]),
             v.op = "retry" => ~Busy(v.store) /\ retries < MaxRetries,
             retries' = IF v.op = "retry" THEN retries + 1 ELSE retries,
             storeLock' = [storeLock EXCEPT ![tx[a].store] = a],
             tx' = [tx EXCEPT ![a].pc = "child", ![a].child = state]
      PROVE  /\ Moves(a) /\ tx'[a].pc = "child" /\ SameTask(a) /\ tx'[a].child = state
             /\ tx'[a].parent = "same" /\ retries' \in 0..MaxRetries
  <2>. DEFINE u == [v EXCEPT !.pc = "child", !.child = state]
  <2>1. tx' = [tx EXCEPT ![a] = u]
    BY <1>0, <1>3 DEF TypeInv, BulkTypeOK
  <2>2. \/ v.op = "finalize" /\ state \in {"switched", "failed"}
        \/ v.op = "cancel" /\ state = "cancelled"
        \/ v.op = "retry" /\ state = "running"
    BY <1>3, <1>1 DEF Outcomes
  <2>3. /\ u \in SoundWork /\ u.pc = "child" /\ u.op = v.op /\ u.whole = v.whole
        /\ u.bulk = v.bulk /\ u.store = v.store /\ u.todo = v.todo
        /\ u.child = state /\ u.parent = "same"
    <3>1. /\ u \in Work /\ u.pc = "child" /\ u.op = v.op /\ u.whole = v.whole
          /\ u.bulk = v.bulk /\ u.store = v.store /\ u.todo = v.todo
          /\ u.child = state /\ u.parent = v.parent
      <4>1. state \in States \cup {"same"}
        BY <2>2 DEF States, Unfinished, Finished
      <4>. QED
        BY <4>1, WithChild
    <3>2. v.parent = "same" /\ v.bulk \in Bulks
      BY <1>0 DEF Sound, PastChild
    <3>. HIDE DEF u
    <3>3. Sound(u)
      BY <1>1, <2>2, <3>1, <3>2 DEF Sound, PastChild
    <3>. QED
      BY <3>1, <3>2, <3>3 DEF SoundWork
  <2>. HIDE DEF u
  <2>4. Moves(a) /\ tx'[a] = u
    BY <2>1, <2>3, OneWork
  <2>5. retries' \in 0..MaxRetries
    BY <1>2, <1>3
  <2>. QED
    BY <1>0, <2>3, <2>4, <2>5 DEF SameTask
<1>4. ASSUME tx' = [tx EXCEPT ![a] = Following(a)]
      PROVE  Moves(a) /\ Ended(a)
  BY <1>0, <1>1, <1>4, EndedDoes DEF Idle
<1>5. CASE /\ \/ tx[a].op = "retry" \/ Outcomes(tx[a].op, row[Own(a)]) = {}
              \/ tx[a].op = "finalize" /\ row[Own(a)] = "running"
           /\ tx' = [tx EXCEPT ![a] = Following(a)]
           /\ UNCHANGED <<storeLock, retries>>
  <2>1. Moves(a) /\ Ended(a) /\ SameLocks /\ SameRows
    BY <1>4, <1>5 DEF LockStore, SameLocks, SameRows
  <2>2. tx[a].op = "cancel" => Outcomes(tx[a].op, row[Own(a)]) = {}
    BY <1>5
  <2>3. tx'[a].parent = "same"
    BY <2>1 DEF Ended
  <2>. QED
    BY <1>0, <1>1, <1>2, <1>5, <2>1, <2>2, <2>3
<1>6. CASE \E state \in Outcomes(tx[a].op, row[Own(a)]) :
              /\ tx[a].op = "retry" => ~Busy(tx[a].store) /\ retries < MaxRetries
              /\ retries' = IF tx[a].op = "retry" THEN retries + 1 ELSE retries
              /\ storeLock' = [storeLock EXCEPT ![tx[a].store] = a]
              /\ tx' = [tx EXCEPT ![a].pc = "child", ![a].child = state]
  <2>1. PICK state \in Outcomes(v.op, row[Own(a)]) :
              /\ v.op = "retry" => ~Busy(v.store) /\ retries < MaxRetries
              /\ retries' = IF v.op = "retry" THEN retries + 1 ELSE retries
              /\ storeLock' = [storeLock EXCEPT ![tx[a].store] = a]
              /\ tx' = [tx EXCEPT ![a].pc = "child", ![a].child = state]
    BY <1>0, <1>6
  <2>2. /\ Moves(a) /\ tx'[a].pc = "child" /\ SameTask(a) /\ tx'[a].child = state
        /\ tx'[a].parent = "same" /\ retries' \in 0..MaxRetries
    BY <2>1, <1>3
  <2>3. TakesStore(a, tx[a].store) /\ SameRows
    BY <2>1 DEF LockStore, TakesStore, SameRows
  <2>. QED
    BY <1>0, <1>1, <2>1, <2>2, <2>3
<1>. QED
  BY <1>5, <1>6 DEF LockStore

LEMMA ReopensDoes ==
    ASSUME TypeInv, NEW a \in Actors, Reopens(a)
    PROVE  /\ tx[a].pc = "store" /\ tx[a].op = "finalize" /\ tx[a].store \in Stores
           /\ tx[a].bulk \in Bulks /\ Moves(a) /\ Ended(a) /\ SameLocks /\ retries' = retries
           /\ storeLock[tx[a].store] = Nobody /\ row[Own(a)] = "ready"
           /\ row' = [row EXCEPT ![Own(a)] = "running"]
           /\ old' = old /\ latch' = latch /\ history' = history /\ answered' = answered
<1>1. tx[a] \in SoundWork /\ tx[a].pc = "store" /\ tx[a].op = "finalize"
  BY DEF TypeInv, Reopens
<1>2. tx[a].store \in Stores /\ tx[a].bulk \in Bulks
  BY <1>1 DEF SoundWork, Sound
<1>3. Moves(a) /\ Ended(a)
  BY <1>1, EndedDoes DEF Reopens, Idle
<1>. QED
  BY <1>1, <1>2, <1>3 DEF Reopens, SameLocks

LEMMA WriteChildDoes ==
    ASSUME TypeInv, NEW a \in Actors, WriteChild(a)
    PROVE  /\ tx[a].pc = "child" /\ tx[a].op \in {"finalize", "cancel", "retry"}
           /\ tx[a].store \in Stores /\ Moves(a) /\ SameRows /\ retries' = retries
           /\ tx'[a].parent = "same"
           /\ \/ /\ row[Own(a)] # "gone" /\ tx'[a].pc = "parent" /\ SameTask(a)
                 /\ tx'[a].child = tx[a].child /\ TakesRow(a, Own(a))
              \/ row[Own(a)] = "gone" /\ tx[a].op = "retry" /\ LocksFreed(a) /\ Ended(a)
              \/ /\ row[Own(a)] = "gone" /\ tx'[a].pc = "parent" /\ SameTask(a)
                 /\ tx'[a].child = "same" /\ SameLocks /\ tx[a].op # "retry"
<1>0. PICK v \in Work : v = tx[a] /\ Sound(v) /\ v.pc = "child"
  BY DEF TypeInv, SoundWork, WriteChild
<1>1. v.op \in {"finalize", "cancel", "retry"} /\ v.store \in Stores /\ v.child # "same"
  BY <1>0 DEF Sound, PastChild
<1>2. CASE row[Own(a)] # "gone"
  <2>. DEFINE u == [v EXCEPT !.pc = "parent"]
  <2>1. tx' = [tx EXCEPT ![a] = u]
    BY <1>0, <1>2 DEF WriteChild, TypeInv, BulkTypeOK
  <2>2. /\ u \in SoundWork /\ u.pc = "parent" /\ u.op = v.op /\ u.whole = v.whole
        /\ u.bulk = v.bulk /\ u.store = v.store /\ u.todo = v.todo
        /\ u.child = v.child /\ u.parent = "same"
    BY <1>0, <1>1 DEF SoundWork, Work, Sound, PastChild
  <2>. HIDE DEF u
  <2>3. Moves(a) /\ tx'[a] = u
    BY <2>1, <2>2, OneWork
  <2>4. SameTask(a) /\ tx'[a].pc = "parent" /\ tx'[a].child = tx[a].child /\ tx'[a].parent = "same"
    BY <1>0, <2>2, <2>3 DEF SameTask
  <2>5. TakesRow(a, Own(a)) /\ SameRows /\ retries' = retries
    BY <1>2 DEF WriteChild, TakesRow, SameRows
  <2>. QED
    BY <1>0, <1>1, <1>2, <2>3, <2>4, <2>5
<1>3. CASE row[Own(a)] = "gone" /\ v.op = "retry"
  <2>1. Moves(a) /\ Ended(a)
    BY <1>0, <1>3, EndedDoes DEF WriteChild, Idle
  <2>2. LocksFreed(a) /\ SameRows /\ retries' = retries
    BY <1>0, <1>3 DEF WriteChild, SameRows
  <2>3. tx'[a].parent = "same"
    BY <2>1 DEF Ended
  <2>. QED
    BY <1>0, <1>1, <1>3, <2>1, <2>2, <2>3
<1>4. CASE row[Own(a)] = "gone" /\ v.op # "retry"
  <2>. DEFINE u == [v EXCEPT !.pc = "parent", !.child = "same"]
  <2>1. tx' = [tx EXCEPT ![a] = u]
    BY <1>0, <1>4 DEF WriteChild, TypeInv, BulkTypeOK
  <2>2. /\ u \in SoundWork /\ u.pc = "parent" /\ u.op = v.op /\ u.whole = v.whole
        /\ u.bulk = v.bulk /\ u.store = v.store /\ u.todo = v.todo
        /\ u.child = "same" /\ u.parent = "same"
    <3>1. /\ u \in Work /\ u.pc = "parent" /\ u.op = v.op /\ u.whole = v.whole
          /\ u.bulk = v.bulk /\ u.store = v.store /\ u.todo = v.todo
          /\ u.child = "same" /\ u.parent = v.parent
      BY DEF Work
    <3>2. v.parent = "same" /\ v.bulk \in Bulks
      BY <1>0 DEF Sound, PastChild
    <3>. HIDE DEF u
    <3>3. Sound(u)
      BY <1>1, <1>4, <3>1, <3>2 DEF Sound, PastChild
    <3>. QED
      BY <3>1, <3>2, <3>3 DEF SoundWork
  <2>. HIDE DEF u
  <2>3. Moves(a) /\ tx'[a] = u
    BY <2>1, <2>2, OneWork
  <2>4. SameTask(a) /\ tx'[a].pc = "parent" /\ tx'[a].child = "same" /\ tx'[a].parent = "same"
    BY <1>0, <2>2, <2>3 DEF SameTask
  <2>5. SameLocks /\ SameRows /\ retries' = retries
    BY <1>0, <1>4 DEF WriteChild, SameLocks, SameRows
  <2>. QED
    BY <1>0, <1>1, <1>4, <2>3, <2>4, <2>5
<1>. QED
  BY <1>2, <1>3, <1>4

LEMMA LockParentDoes ==
    ASSUME TypeInv, NEW a \in Actors, LockParent(a)
    PROVE  /\ tx[a].pc = "parent" /\ tx[a].op \in {"finalize", "cancel", "retry", "settle"}
           /\ Moves(a) /\ SameTask(a) /\ tx'[a].child = tx[a].child
           /\ SameRows /\ retries' = retries
           /\ \/ /\ TakesRow(a, OwnParent(a)) /\ tx[a].op = "retry" /\ row[OwnParent(a)] # "gone"
                 /\ tx'[a].pc = "commit" /\ tx'[a].parent = "running"
              \/ /\ TakesRow(a, OwnParent(a)) /\ tx[a].op # "retry" /\ row[OwnParent(a)] = "running"
                 /\ tx'[a].pc = "check" /\ tx'[a].parent = "same"
              \/ /\ SameLocks /\ tx'[a].pc = "commit" /\ tx'[a].parent = "same"
                 /\ IF tx[a].op = "retry" THEN row[OwnParent(a)] = "gone" ELSE row[OwnParent(a)] # "running"
<1>0. PICK v \in Work : v = tx[a] /\ Sound(v) /\ v.pc = "parent"
  BY DEF TypeInv, SoundWork, LockParent
<1>1. v.op \in {"finalize", "cancel", "retry", "settle"} /\ v.parent = "same"
  BY <1>0 DEF Sound, PastChild
<1>2. SameRows /\ retries' = retries
  BY DEF LockParent, SameRows
<1>. DEFINE p == OwnParent(a)
            wanted == IF v.op = "retry" THEN row[p] # "gone" ELSE row[p] = "running"
<1>3. CASE /\ wanted /\ lock[p] = Nobody /\ lock' = [lock EXCEPT ![p] = a]
           /\ tx' = [tx EXCEPT ![a] = IF @.op = "retry" THEN [@ EXCEPT !.pc = "commit", !.parent = "running"]
                                      ELSE [@ EXCEPT !.pc = "check"]]
  <2>1. TakesRow(a, p)
    BY <1>3 DEF LockParent, TakesRow
  <2>2. CASE v.op = "retry"
    <3>. DEFINE u == [v EXCEPT !.pc = "commit", !.parent = "running"]
    <3>1. tx' = [tx EXCEPT ![a] = u]
      BY <1>0, <1>3, <2>2 DEF TypeInv, BulkTypeOK
    <3>2. /\ u \in SoundWork /\ u.pc = "commit" /\ u.op = v.op /\ u.whole = v.whole
          /\ u.bulk = v.bulk /\ u.store = v.store /\ u.todo = v.todo
          /\ u.child = v.child /\ u.parent = "running"
      BY <1>0, <1>1, <2>2 DEF SoundWork, Work, Sound, PastChild, States, Unfinished
    <3>. HIDE DEF u
    <3>3. Moves(a) /\ tx'[a] = u
      BY <3>1, <3>2, OneWork
    <3>. QED
      BY <1>0, <1>1, <1>2, <1>3, <2>1, <2>2, <3>2, <3>3 DEF SameTask
  <2>3. CASE v.op # "retry"
    <3>. DEFINE u == [v EXCEPT !.pc = "check"]
    <3>1. tx' = [tx EXCEPT ![a] = u]
      BY <1>0, <1>3, <2>3 DEF TypeInv, BulkTypeOK
    <3>2. /\ u \in SoundWork /\ u.pc = "check" /\ u.op = v.op /\ u.whole = v.whole
          /\ u.bulk = v.bulk /\ u.store = v.store /\ u.todo = v.todo
          /\ u.child = v.child /\ u.parent = "same"
      BY <1>0, <1>1, <2>3 DEF SoundWork, Work, Sound, PastChild
    <3>. HIDE DEF u
    <3>3. Moves(a) /\ tx'[a] = u
      BY <3>1, <3>2, OneWork
    <3>. QED
      BY <1>0, <1>1, <1>2, <1>3, <2>1, <2>3, <3>2, <3>3 DEF SameTask
  <2>. QED
    BY <2>2, <2>3
<1>4. CASE /\ ~wanted /\ lock' = lock
           /\ tx' = [tx EXCEPT ![a].pc = "commit"]
  <2>. DEFINE u == [v EXCEPT !.pc = "commit"]
  <2>1. tx' = [tx EXCEPT ![a] = u]
    BY <1>0, <1>4 DEF TypeInv, BulkTypeOK
  <2>2. /\ u \in SoundWork /\ u.pc = "commit" /\ u.op = v.op /\ u.whole = v.whole
        /\ u.bulk = v.bulk /\ u.store = v.store /\ u.todo = v.todo
        /\ u.child = v.child /\ u.parent = "same"
    BY <1>0, <1>1 DEF SoundWork, Work, Sound, PastChild
  <2>. HIDE DEF u
  <2>3. Moves(a) /\ tx'[a] = u
    BY <2>1, <2>2, OneWork
  <2>4. SameLocks
    BY <1>4 DEF LockParent, SameLocks
  <2>5. IF v.op = "retry" THEN row[p] = "gone" ELSE row[p] # "running"
    BY <1>4
  <2>. HIDE DEF wanted, p
  <2>6. SameTask(a)
    BY <1>0, <2>2, <2>3 DEF SameTask
  <2>. QED
    BY <1>0, <1>1, <1>2, <2>2, <2>3, <2>4, <2>5, <2>6 DEF p
<1>. QED
  BY <1>0, <1>3, <1>4 DEF LockParent

LEMMA CheckChildrenDoes ==
    ASSUME TypeInv, NEW a \in Actors, CheckChildren(a)
    PROVE  /\ tx[a].pc = "check" /\ tx[a].op \in {"finalize", "cancel", "settle"}
           /\ tx'[a].pc = "commit" /\ Moves(a) /\ SameTask(a) /\ tx'[a].child = tx[a].child
           /\ tx'[a].parent = IF SeesRunning(a) THEN "same" ELSE "finished"
           /\ SameRows /\ SameLocks /\ retries' = retries
<1>0. PICK v \in Work : v = tx[a] /\ Sound(v) /\ v.pc = "check"
  BY DEF TypeInv, SoundWork, CheckChildren
<1>1. v.op \in {"finalize", "cancel", "settle"}
  BY <1>0 DEF Sound, PastChild
<1>2. PICK parent \in {"same", "finished"} : parent = IF SeesRunning(a) THEN "same" ELSE "finished"
  OBVIOUS
<1>. DEFINE u == [v EXCEPT !.pc = "commit", !.parent = parent]
<1>3. tx' = [tx EXCEPT ![a] = u]
  BY <1>0, <1>2 DEF CheckChildren, TypeInv, BulkTypeOK
<1>4. /\ u \in SoundWork /\ u.pc = "commit" /\ u.op = v.op /\ u.whole = v.whole
      /\ u.bulk = v.bulk /\ u.store = v.store /\ u.todo = v.todo
      /\ u.child = v.child /\ u.parent = parent
  <2>1. /\ u \in Work /\ u.pc = "commit" /\ u.op = v.op /\ u.whole = v.whole
        /\ u.bulk = v.bulk /\ u.store = v.store /\ u.todo = v.todo
        /\ u.child = v.child /\ u.parent = parent
    <3>1. parent \in States \cup {"same"}
      BY DEF States, Finished
    <3>. QED
      BY <3>1, WithParent
  <2>2. Sound(u)
    <3>. HIDE DEF u
    <3>. QED
      BY <1>0, <1>1, <2>1 DEF Sound, PastChild
  <2>. HIDE DEF u
  <2>. QED
    BY <2>1, <2>2 DEF SoundWork
<1>. HIDE DEF u
<1>5. Moves(a) /\ tx'[a] = u
  BY <1>3, <1>4, OneWork
<1>6. SameTask(a) /\ SameRows /\ SameLocks /\ retries' = retries
  BY <1>0, <1>4, <1>5 DEF CheckChildren, SameTask, SameRows, SameLocks
<1>. QED
  BY <1>0, <1>1, <1>2, <1>4, <1>5, <1>6

\* What a commit makes of a row.
Written(a, r) ==
    IF r = Own(a) /\ tx[a].child # "same" THEN tx[a].child
    ELSE IF r = OwnParent(a) /\ tx[a].parent # "same" THEN tx[a].parent
    ELSE row[r]

LEMMA CommitDoes ==
    ASSUME TypeInv, NEW a \in Actors, Commit(a)
    PROVE  /\ tx[a].pc = "commit" /\ tx[a].op \in {"finalize", "cancel", "retry", "settle"}
           /\ tx[a].bulk \in Bulks
           /\ Moves(a) /\ Ended(a) /\ LocksFreed(a) /\ retries' = retries
           /\ latch' = latch /\ history' = history
           /\ \A r \in Rows : row'[r] = Written(a, r)
           /\ row' \in [Rows -> States]
           /\ old' = {r \in old : row'[r] \in Finished}
           /\ answered' = IF tx[a].op = "settle" /\ tx[a].whole THEN answered \cup {tx[a].bulk} ELSE answered
<1>0. PICK v \in Work : v = tx[a] /\ Sound(v) /\ v.pc = "commit"
  BY DEF TypeInv, SoundWork, Commit
<1>1. v.op \in {"finalize", "cancel", "retry", "settle"} /\ v.bulk \in Bulks
  BY <1>0 DEF Sound, PastChild
<1>2. Moves(a) /\ Ended(a)
  BY <1>0, <1>1, EndedDoes DEF Commit, Idle
<1>3. row' = [r \in Rows |-> Written(a, r)]
  BY DEF Commit, Written
<1>4. row' \in [Rows -> States]
  <2>1. \A r \in Rows : Written(a, r) \in States
    BY <1>0 DEF Written, Work, TypeInv, BulkTypeOK
  <2>. QED
    BY <1>3, <2>1
<1>. QED
  BY <1>0, <1>1, <1>2, <1>3, <1>4 DEF Commit

LEMMA RolledBackDoes ==
    ASSUME TypeInv, NEW a \in Actors, RolledBack(a)
    PROVE  /\ Moves(a) /\ tx'[a] = NoWork /\ tx'[a].store = 0
           /\ LocksFreed(a) /\ SameRows /\ retries' = retries
<1>1. Moves(a) /\ tx'[a] = NoWork
  BY NoWorkSound, OneWork DEF RolledBack
<1>. QED
  BY <1>1, NoWorkIs DEF RolledBack, SameRows

----------------------------------------------------------------------------
(* Types *)

LEMMA ActorTypes ==
    ASSUME TypeInv, NEW a \in Actors,
           \/ Step(a) \/ Reopens(a) \/ RolledBack(a) \/ Asks(a) \/ Finds(a)
    PROVE  TypeInv'
<1>. USE DEF TypeInv, BulkTypeOK
<1>0. ASSUME Moves(a), row' \in [Rows -> States], old' \subseteq Rows, latch' \subseteq Bulks,
             lock' \in [Rows -> Everybody \cup {Nobody}], storeLock' \in [Stores -> Actors \cup {Nobody}],
             answered' \subseteq Bulks, retries' \in 0..MaxRetries, history' = history
      PROVE  TypeInv'
  BY <1>0 DEF Moves
<1>1. SameRows => row' \in [Rows -> States] /\ old' \subseteq Rows /\ latch' \subseteq Bulks
                  /\ answered' \subseteq Bulks /\ history' = history
  BY DEF SameRows
<1>2. SameLocks => lock' \in [Rows -> Everybody \cup {Nobody}]
                   /\ storeLock' \in [Stores -> Actors \cup {Nobody}]
  BY DEF SameLocks
<1>3. ASSUME NEW s, TakesStore(a, s)
      PROVE  lock' \in [Rows -> Everybody \cup {Nobody}] /\ storeLock' \in [Stores -> Actors \cup {Nobody}]
  BY <1>3 DEF TakesStore
<1>4. ASSUME NEW r, TakesRow(a, r)
      PROVE  lock' \in [Rows -> Everybody \cup {Nobody}] /\ storeLock' \in [Stores -> Actors \cup {Nobody}]
  BY <1>4, Constants DEF TakesRow
<1>5. LocksFreed(a) => lock' \in [Rows -> Everybody \cup {Nobody}]
                       /\ storeLock' \in [Stores -> Actors \cup {Nobody}]
  BY FreedTypes
<1>6. CASE InsertChild(a)
  BY <1>0, <1>1, <1>3, <1>6, InsertChildDoes
<1>7. CASE CommitStart(a)
  BY <1>0, <1>5, <1>7, CommitStartDoes
<1>8. CASE LatchBulk(a)
  BY <1>0, <1>2, <1>8, LatchBulkDoes
<1>9. CASE NextChild(a)
  BY <1>0, <1>1, <1>2, <1>9, NextChildDoes
<1>10. CASE LockStore(a)
  BY <1>0, <1>1, <1>2, <1>3, <1>10, LockStoreDoes
<1>11. CASE WriteChild(a)
  BY <1>0, <1>1, <1>2, <1>4, <1>5, <1>11, WriteChildDoes
<1>12. CASE LockParent(a)
  BY <1>0, <1>1, <1>2, <1>4, <1>12, LockParentDoes
<1>13. CASE CheckChildren(a)
  BY <1>0, <1>1, <1>2, <1>13, CheckChildrenDoes
<1>14. CASE Commit(a)
  BY <1>0, <1>5, <1>14, CommitDoes
<1>15. CASE Reopens(a)
  <2>1. row' \in [Rows -> States]
    BY <1>15, ReopensDoes DEF States, Unfinished
  <2>. QED
    BY <2>1, <1>0, <1>2, <1>15, ReopensDoes
<1>16. CASE RolledBack(a)
  BY <1>0, <1>1, <1>5, <1>16, RolledBackDoes
<1>17. CASE Asks(a) \/ Finds(a)
  <2>1. ASSUME NEW op, NEW whole, NEW pc, NEW b, NEW s, NEW todo, Begins(a, op, whole, pc, b, s, todo),
               SameRows, SameLocks, retries' = retries
        PROVE  TypeInv'
    BY <2>1, <1>0, <1>1, <1>2 DEF Begins
  <2>. HIDE DEF TypeInv, BulkTypeOK
  <2>2. ASSUME NEW b \in Bulks, StartBulk(a, b) PROVE TypeInv'
    BY <2>1, <2>2, StartBulkDoes
  <2>3. ASSUME NEW b \in Bulks, CancelBulk(a, b) PROVE TypeInv'
    BY <2>1, <2>3, CancelBulkDoes
  <2>4. ASSUME NEW b \in Bulks, RetryBulk(a, b) PROVE TypeInv'
    BY <2>1, <2>4, RetryBulkDoes
  <2>5. ASSUME NEW b \in Bulks, EndParent(a, b) PROVE TypeInv'
    BY <2>1, <2>5, EndParentDoes
  <2>6. ASSUME NEW b \in Bulks, NEW s \in Stores, AskChild(a, b, s) \/ EndChild(a, b, s) PROVE TypeInv'
    BY <2>1, <2>6, AskChildDoes
  <2>. QED
    BY <1>17, <2>2, <2>3, <2>4, <2>5, <2>6 DEF Asks, Finds
<1>. QED
  BY <1>6, <1>7, <1>8, <1>9, <1>10, <1>11, <1>12, <1>13, <1>14, <1>15, <1>16, <1>17 DEF Step

\* Steps that are no request's and no loop's.
World ==
    \/ \E h \in Histories : SweepStep(h) \/ SweepRolledBack(h)
    \/ \E b \in Bulks, s \in Stores : ItemsEnd(b, s)
    \/ \E s \in Stores : StoreDeleted(s)
    \/ \E r \in Rows : Ages(r)

LEMMA NextSteps ==
    ASSUME Next
    PROVE  \/ \E a \in Actors : Step(a) \/ Reopens(a) \/ RolledBack(a) \/ Asks(a) \/ Finds(a)
           \/ World
<1>1. ASSUME NEW a \in Everybody, DeadlockFound(a)
      PROVE  (a \in Actors /\ RolledBack(a)) \/ World
  BY <1>1 DEF DeadlockFound, World, Everybody, Actors
<1>2. ASSUME NEW a \in Actors, Step(a) \/ Reopens(a) \/ Fails(a)
      PROVE  Step(a) \/ Reopens(a) \/ RolledBack(a)
  BY <1>2 DEF Fails
<1>3. ASSUME NEW h \in Histories, SweepStep(h) \/ SweepFails(h)
      PROVE  World
  BY <1>3 DEF SweepFails, World
<1>. QED
  BY <1>1, <1>2, <1>3 DEF Next, World, Actors

\* What the world does: sweeps take and free rows that no actor has.
LEMMA WorldDoes ==
    ASSUME TypeInv, World
    PROVE  /\ tx' = tx /\ storeLock' = storeLock /\ latch' = latch /\ answered' = answered /\ retries' = retries
           /\ \A r \in Rows, a \in Actors : lock'[r] = a <=> lock[r] = a
           /\ row' \in [Rows -> States] /\ old' \subseteq Rows
           /\ lock' \in [Rows -> Everybody \cup {Nobody}]
           /\ history' \in [Histories -> SUBSET Rows]
<1>0. /\ row \in [Rows -> States] /\ old \subseteq Rows /\ lock \in [Rows -> Everybody \cup {Nobody}]
      /\ history \in [Histories -> SUBSET Rows]
  BY DEF TypeInv, BulkTypeOK
<1>1. ASSUME NEW h \in Histories, lock' = [r \in Rows |-> IF lock[r] = h THEN Nobody ELSE lock[r]]
      PROVE  /\ \A r \in Rows, a \in Actors : lock'[r] = a <=> lock[r] = a
             /\ lock' \in [Rows -> Everybody \cup {Nobody}]
  BY <1>1, <1>0, Constants
<1>2. ASSUME NEW h \in Histories, SweepHistory(h) PROVE \A r \in Rows, a \in Actors : lock'[r] = a <=> lock[r] = a
  BY <1>2 DEF SweepHistory
<1>3. ASSUME NEW h \in Histories, SweepHistory(h)
      PROVE  row' = row /\ old' = old /\ lock' = lock /\ history' \in [Histories -> SUBSET Rows]
  BY <1>3, <1>0 DEF SweepHistory
<1>4. ASSUME NEW h \in Histories, NEW r \in Rows, SweepRow(h, r)
      PROVE  /\ \A q \in Rows, a \in Actors : lock'[q] = a <=> lock[q] = a
             /\ lock' \in [Rows -> Everybody \cup {Nobody}]
             /\ row' = row /\ old' = old /\ history' \in [Histories -> SUBSET Rows]
  <2>1. lock' = lock \/ lock' = [lock EXCEPT ![r] = h]
    BY <1>4 DEF SweepRow
  <2>2. lock[r] = Nobody
    BY <1>4 DEF SweepRow
  <2>3. history' \in [Histories -> SUBSET Rows] /\ row' = row /\ old' = old
    BY <1>4, <1>0 DEF SweepRow
  <2>. QED
    BY <2>1, <2>2, <2>3, <1>0, Constants
<1>5. ASSUME NEW h \in Histories, SweepEnds(h)
      PROVE  row' \in [Rows -> States] /\ old' \subseteq Rows /\ history' = history
  <2>1. old' = old \ Held(h) /\ row' = [r \in Rows |-> IF lock[r] = h THEN "gone" ELSE row[r]]
        /\ history' = history
    BY <1>5 DEF SweepEnds
  <2>. QED
    BY <2>1, <1>0 DEF States
<1>6. ASSUME NEW h \in Histories, SweepRolledBack(h)
      PROVE  row' = row /\ old' = old /\ history' \in [Histories -> SUBSET Rows]
  BY <1>6, <1>0 DEF SweepRolledBack
<1>7. ASSUME NEW b \in Bulks, NEW s \in Stores, ItemsEnd(b, s)
      PROVE  row' \in [Rows -> States] /\ old' = old /\ lock' = lock /\ history' = history
  BY <1>7, <1>0 DEF ItemsEnd, States, Unfinished
<1>8. ASSUME NEW s \in Stores, StoreDeleted(s)
      PROVE  row' \in [Rows -> States] /\ old' \subseteq Rows /\ lock' = lock /\ history' = history
  BY <1>8, <1>0 DEF StoreDeleted, States
<1>9. ASSUME NEW r \in Rows, Ages(r)
      PROVE  row' = row /\ old' \subseteq Rows /\ lock' = lock /\ history' = history
  BY <1>9, <1>0 DEF Ages
<1>10. tx' = tx /\ storeLock' = storeLock /\ latch' = latch /\ answered' = answered /\ retries' = retries
  BY DEF World, SweepStep, SweepHistory, SweepRow, SweepEnds, SweepRolledBack, ItemsEnd, StoreDeleted, Ages
<1>11. ASSUME NEW h \in Histories, SweepEnds(h) \/ SweepRolledBack(h)
       PROVE  lock' = [r \in Rows |-> IF lock[r] = h THEN Nobody ELSE lock[r]]
  BY <1>11 DEF SweepEnds, SweepRolledBack
<1>. QED
  BY <1>0, <1>1, <1>2, <1>3, <1>4, <1>5, <1>6, <1>7, <1>8, <1>9, <1>10, <1>11 DEF World, SweepStep

LEMMA NextTypes ==
    ASSUME TypeInv, [Next]_vars
    PROVE  TypeInv'
<1>1. CASE UNCHANGED vars
  BY <1>1 DEF TypeInv, BulkTypeOK, vars
<1>2. CASE World
  BY <1>2, WorldDoes DEF TypeInv, BulkTypeOK
<1>. QED
  BY <1>1, <1>2, ActorTypes, NextSteps

(***************************************************************************)
(* The variables have their types: a transaction has written only what its *)
(* place allows.                                                           *)
(***************************************************************************)
THEOREM BulkTyped == Spec => []TypeInv
  BY InitTypes, NextTypes, PTL DEF Spec

----------------------------------------------------------------------------
(* The invariants *)

\* What a transaction has locked, by the place at which it is.
HasLocked(a) ==
    LET w == tx[a] IN
    /\ w.pc \in {"child"} \cup PastChild /\ w.op # "settle" => storeLock[w.store] = a
    /\ w.pc \in PastChild /\ w.child # "same" => lock[Own(a)] = a
    /\ w.pc = "check" \/ w.parent # "same" => lock[OwnParent(a)] = a

\* It has nothing else locked; a start locks its stores in order.
LockedOnly(a) ==
    LET w == tx[a] IN
    /\ \A r \in Rows : lock[r] = a =>
          \/ w.pc \in PastChild /\ w.child # "same" /\ r = Own(a)
          \/ w.pc \in {"check", "commit"} /\ r = OwnParent(a)
    /\ \A s \in Stores : storeLock[s] = a =>
          \/ w.pc \in {"child"} \cup PastChild /\ w.op # "settle" /\ s = w.store
          \/ w.pc = "insert" /\ \A t \in w.todo : s < t

Discipline == \A a \in Actors : HasLocked(a) /\ LockedOnly(a)

\* Rows and their history; two requests never start one bulk.
Ground ==
    /\ \A b \in Bulks, s \in Stores : row[C(b, s)] # "finished"
    /\ \A b \in Bulks : row[P(b)] \in {"none", "gone", "running", "finished"}
    /\ \A b \in Bulks : row[P(b)] = "none" => \A s \in Stores : row[C(b, s)] = "none"
    /\ \A a \in Actors : tx[a].op = "start" => row[OwnParent(a)] = "none"
    /\ \A a, c \in Actors : tx[a].op = "start" /\ tx[c].op = "start" /\ tx[a].bulk = tx[c].bulk => a = c
    /\ \A r \in old : row[r] \in Finished
    /\ \A h \in Histories, r \in Rows : lock[r] = h => r \in old

\* What was read of the child under the lock of its store still holds, but that a
\* sweep may have taken the row until it is locked itself.
ReadOfChild(a) ==
    LET w == tx[a] IN
    w.pc \in {"child"} \cup PastChild /\ w.op # "settle" =>
        \/ w.child \in Outcomes(w.op, row[Own(a)])
        \/ row[Own(a)] = "gone" /\ (w.pc = "child" \/ w.child = "same")

\* What was read of the parent under its lock.
ReadOfParent(a) ==
    LET w == tx[a] IN
    /\ w.pc = "check" \/ w.parent = "finished" => row[OwnParent(a)] = "running"
    /\ w.parent = "running" => row[OwnParent(a)] # "gone"
    /\ w.pc = "commit" /\ w.op = "retry" => w.parent = "running" \/ row[OwnParent(a)] = "gone"

\* A transaction that ends the parent saw no child run, and none has come to run since.
EndsParent(a) == tx[a].parent = "finished" => ~SeesRunning(a)

\* One that ends a child only leaves the parent to another child that ran then, and
\* whose transaction waits for the parent's lock.
LeavesParent(a) ==
    LET w == tx[a] IN
    w.pc = "commit" /\ w.child # "same" /\ w.op # "retry" /\ w.parent = "same" =>
        \/ row[Own(a)] \notin Unfinished
        \/ row[OwnParent(a)] = "gone"
        \/ /\ lock[OwnParent(a)] = a /\ row[OwnParent(a)] = "running"
           /\ \E s \in Stores \ {w.store} : row[C(w.bulk, s)] \in Unfinished \cup {"gone"}

\* A child that no transaction can write again.
Over(b, s) ==
    /\ row[P(b)] # "none"
    /\ row[C(b, s)] \in {"none", "gone", "switched", "cancelled"}

\* The cancel of a bulk has got through the children that it has not still to come to.
Cancels(a) ==
    LET w == tx[a] IN
    /\ w.op = "cancel" /\ w.whole =>
          /\ row[P(w.bulk)] # "none"
          /\ \A s \in Stores \ w.todo : w.pc \in {"latch", "next"} \/ s # w.store => Over(w.bulk, s)
    /\ w.op = "settle" /\ w.whole => \A s \in Stores : Over(w.bulk, s)

AnswersHold == \A b \in answered, s \in Stores : Over(b, s)

----------------------------------------------------------------------------
(* The discipline of the locks *)

\* A step that is not c's.
Untouched(c) ==
    /\ tx'[c] = tx[c]
    /\ \A r \in Rows : lock'[r] = c <=> lock[r] = c
    /\ \A s \in Stores : storeLock'[s] = c <=> storeLock[s] = c

\* What the locks of others see of the steps of `a`.
LEMMA OthersLocks ==
    ASSUME TypeInv, NEW a \in Actors,
           \/ SameLocks \/ LocksFreed(a)
           \/ \E s : TakesStore(a, s)
           \/ \E r : TakesRow(a, r)
    PROVE  \A c \in Everybody \ {a} :
              /\ \A r \in Rows : lock'[r] = c <=> lock[r] = c
              /\ \A s \in Stores : storeLock'[s] = c <=> storeLock[s] = c
<1>0. /\ lock \in [Rows -> Everybody \cup {Nobody}] /\ storeLock \in [Stores -> Actors \cup {Nobody}]
      /\ a # Nobody /\ Nobody \notin Everybody
  BY Constants DEF TypeInv, BulkTypeOK
<1>1. CASE SameLocks
  BY <1>1 DEF SameLocks
<1>2. CASE LocksFreed(a)
  BY <1>2, <1>0 DEF LocksFreed
<1>3. ASSUME NEW s, TakesStore(a, s)
      PROVE  \A c \in Everybody \ {a} :
              /\ \A r \in Rows : lock'[r] = c <=> lock[r] = c
              /\ \A t \in Stores : storeLock'[t] = c <=> storeLock[t] = c
  BY <1>3, <1>0 DEF TakesStore
<1>4. ASSUME NEW q, TakesRow(a, q)
      PROVE  \A c \in Everybody \ {a} :
              /\ \A r \in Rows : lock'[r] = c <=> lock[r] = c
              /\ \A t \in Stores : storeLock'[t] = c <=> storeLock[t] = c
  BY <1>4, <1>0 DEF TakesRow
<1>. QED
  BY <1>1, <1>2, <1>3, <1>4

LEMMA AskLocks ==
    ASSUME TypeInv, NEW a \in Actors, Asks(a) \/ Finds(a)
    PROVE  SameLocks /\ SameRows /\ retries' = retries /\ Moves(a)
           /\ \E op, whole, pc, b, s, todo : Begins(a, op, whole, pc, b, s, todo)
<1>1. ASSUME NEW b \in Bulks, NEW s \in Stores, AskChild(a, b, s) \/ EndChild(a, b, s)
      PROVE  SameLocks /\ SameRows /\ retries' = retries
             /\ \E op, whole, pc, d, t, todo : Begins(a, op, whole, pc, d, t, todo)
  BY <1>1, AskChildDoes
<1>2. ASSUME NEW b \in Bulks, StartBulk(a, b)
      PROVE  SameLocks /\ SameRows /\ retries' = retries
             /\ \E op, whole, pc, d, t, todo : Begins(a, op, whole, pc, d, t, todo)
  BY <1>2, StartBulkDoes
<1>3. ASSUME NEW b \in Bulks, CancelBulk(a, b)
      PROVE  SameLocks /\ SameRows /\ retries' = retries
             /\ \E op, whole, pc, d, t, todo : Begins(a, op, whole, pc, d, t, todo)
  BY <1>3, CancelBulkDoes
<1>4. ASSUME NEW b \in Bulks, RetryBulk(a, b)
      PROVE  SameLocks /\ SameRows /\ retries' = retries
             /\ \E op, whole, pc, d, t, todo : Begins(a, op, whole, pc, d, t, todo)
  BY <1>4, RetryBulkDoes
<1>5. ASSUME NEW b \in Bulks, EndParent(a, b)
      PROVE  SameLocks /\ SameRows /\ retries' = retries
             /\ \E op, whole, pc, d, t, todo : Begins(a, op, whole, pc, d, t, todo)
  BY <1>5, EndParentDoes
<1>6. SameLocks /\ SameRows /\ retries' = retries
      /\ \E op, whole, pc, b, s, todo : Begins(a, op, whole, pc, b, s, todo)
  BY <1>1, <1>2, <1>3, <1>4, <1>5 DEF Asks, Finds
<1>. QED
  BY <1>6 DEF Begins

LEMMA OthersUntouched ==
    ASSUME TypeInv, NEW a \in Actors,
           \/ Step(a) \/ Reopens(a) \/ RolledBack(a) \/ Asks(a) \/ Finds(a)
    PROVE  /\ Moves(a) /\ \A c \in Actors \ {a} : Untouched(c)
           /\ \A h \in Histories, r \in Rows : lock'[r] = h <=> lock[r] = h
<1>1. Moves(a)
  BY InsertChildDoes, CommitStartDoes, LatchBulkDoes, NextChildDoes, LockStoreDoes, WriteChildDoes,
     LockParentDoes, CheckChildrenDoes, CommitDoes, ReopensDoes, RolledBackDoes, AskLocks DEF Step
<1>2. SameLocks \/ LocksFreed(a) \/ (\E s : TakesStore(a, s)) \/ (\E r : TakesRow(a, r))
  BY InsertChildDoes, CommitStartDoes, LatchBulkDoes, NextChildDoes, LockStoreDoes, WriteChildDoes,
     LockParentDoes, CheckChildrenDoes, CommitDoes, ReopensDoes, RolledBackDoes, AskLocks DEF Step
<1>. QED
  BY <1>1, <1>2, OthersLocks, Constants DEF Moves, Untouched

LEMMA WorldUntouched ==
    ASSUME TypeInv, World
    PROVE  \A c \in Actors : Untouched(c)
  BY WorldDoes DEF Untouched

LEMMA UntouchedDiscipline ==
    ASSUME TypeInv, NEW c \in Actors, HasLocked(c), LockedOnly(c), Untouched(c)
    PROVE  HasLocked(c)' /\ LockedOnly(c)'
<1>0. tx[c] \in Work /\ Sound(tx[c])
  BY DEF TypeInv, SoundWork
<1>1. HasLocked(c)'
  <2>1. tx[c].pc \in {"child"} \cup PastChild /\ tx[c].op # "settle" => tx[c].store \in Stores
    BY <1>0 DEF Sound
  <2>2. tx[c].pc \in PastChild /\ tx[c].child # "same" => Own(c) \in Rows
    BY <1>0, RowNames DEF Sound, Own, PastChild
  <2>3. tx[c].pc = "check" \/ tx[c].parent # "same" => OwnParent(c) \in Rows
    BY <1>0, RowNames DEF Sound, OwnParent, PastChild
  <2>4. Own(c)' = Own(c) /\ OwnParent(c)' = OwnParent(c)
    BY DEF Untouched, Own, OwnParent
  <2>. QED
    BY <2>1, <2>2, <2>3, <2>4 DEF Untouched, HasLocked
<1>2. LockedOnly(c)'
  BY DEF Untouched, LockedOnly, Own, OwnParent
<1>. QED
  BY <1>1, <1>2

\* A transaction that ends, or has not begun, has nothing locked.
LEMMA FreeDiscipline ==
    ASSUME TypeInv', NEW a \in Actors,
           \A r \in Rows : lock'[r] # a, \A s \in Stores : storeLock'[s] # a,
           \/ tx'[a].pc \in {"idle", "insert", "latch", "next", "store"}
           \/ tx'[a].pc = "parent" /\ tx'[a].op = "settle"
    PROVE  HasLocked(a)' /\ LockedOnly(a)'
<1>1. Sound(tx[a])'
  BY DEF TypeInv, SoundWork
<1>2. tx'[a].parent = "same" /\ tx'[a].child = "same"
  BY <1>1 DEF Sound, PastChild
<1>. QED
  BY <1>2 DEF HasLocked, LockedOnly, PastChild

LEMMA FreedLocks ==
    ASSUME NEW a \in Actors, LocksFreed(a)
    PROVE  (\A r \in Rows : lock'[r] # a) /\ \A s \in Stores : storeLock'[s] # a
  BY Constants DEF LocksFreed

LEMMA EndedPlace ==
    ASSUME NEW a \in Actors, Ended(a)
    PROVE  tx'[a].pc \in {"idle", "next"}
  BY NoWorkIs DEF Ended

LEMMA ActorDiscipline ==
    ASSUME TypeInv, NEW a \in Actors, HasLocked(a), LockedOnly(a),
           \/ Step(a) \/ Reopens(a) \/ RolledBack(a) \/ Asks(a) \/ Finds(a)
    PROVE  HasLocked(a)' /\ LockedOnly(a)'
<1>. DEFINE w == tx[a]
            v == tx'[a]
<1>0. /\ w \in Work /\ Sound(w) /\ TypeInv' /\ Sound(v) /\ v \in Work
      /\ lock \in [Rows -> Everybody \cup {Nobody}] /\ storeLock \in [Stores -> Actors \cup {Nobody}]
      /\ a # Nobody
  BY ActorTypes, Constants DEF TypeInv, BulkTypeOK, SoundWork
<1>1. CASE /\ w.pc \in {"idle", "latch", "next", "store"} /\ SameLocks
           /\ \/ v.pc \in {"idle", "insert", "latch", "next", "store"}
              \/ (v.pc = "parent" /\ v.op = "settle")
  <2>1. (\A r \in Rows : lock'[r] # a) /\ \A s \in Stores : storeLock'[s] # a
    BY <1>1 DEF LockedOnly, SameLocks, PastChild
  <2>. QED
    BY <2>1, <1>0, <1>1, FreeDiscipline
<1>2. CASE LocksFreed(a) /\ v.pc \in {"idle", "next"}
  <2>1. (\A r \in Rows : lock'[r] # a) /\ \A s \in Stores : storeLock'[s] # a
    BY <1>2, FreedLocks
  <2>. QED
    BY <2>1, <1>0, <1>2, FreeDiscipline
<1>3. CASE InsertChild(a)
  <2>. DEFINE s == Min(w.todo)
  <2>1. /\ w.pc = "insert" /\ v.pc = "insert" /\ TakesStore(a, s) /\ s \in w.todo
        /\ (\A t \in w.todo : s <= t) /\ v.todo = w.todo \ {s} /\ v.parent = "same"
        /\ w.todo \subseteq Stores /\ Stores \subseteq Nat
    BY <1>0, <1>3, InsertChildDoes, Constants DEF Work
  <2>. HIDE DEF s
  <2>2. ASSUME NEW t \in v.todo PROVE s < t
    <3>. t \in w.todo /\ t # s
      BY <2>1, <2>2
    <3>. s \in Nat /\ t \in Nat /\ s <= t
      BY <2>1
    <3>. QED
      OBVIOUS
  <2>3. ASSUME NEW t \in Stores, storeLock'[t] = a PROVE \A u \in v.todo : t < u
    <3>1. CASE t = s
      BY <3>1, <2>2
    <3>2. CASE t # s
      BY <3>2, <2>1, <2>3, <1>0 DEF TakesStore, LockedOnly, PastChild
    <3>. QED
      BY <3>1, <3>2
  <2>4. \A r \in Rows : lock'[r] # a
    BY <2>1 DEF TakesStore, LockedOnly, PastChild
  <2>. QED
    BY <2>1, <2>3, <2>4 DEF HasLocked, LockedOnly, PastChild
<1>4. CASE CommitStart(a)
  BY <1>2, <1>4, CommitStartDoes
<1>5. CASE LatchBulk(a)
  BY <1>1, <1>5, LatchBulkDoes
<1>6. CASE NextChild(a)
  BY <1>1, <1>6, NextChildDoes
<1>7. CASE LockStore(a)
  <2>1. CASE Ended(a) /\ SameLocks
    BY <2>1, <1>1, <1>7, LockStoreDoes, EndedPlace
  <2>2. CASE v.pc = "child" /\ SameTask(a) /\ TakesStore(a, w.store)
    <3>1. w.pc = "store" /\ w.store \in Stores /\ v.parent = "same" /\ v.store = w.store /\ v.op # "settle"
      BY <1>7, <2>2, LockStoreDoes DEF SameTask
    <3>2. storeLock'[v.store] = a /\ (\A r \in Rows : lock'[r] # a)
          /\ \A s \in Stores : storeLock'[s] = a => s = v.store
      BY <3>1, <2>2, <1>0 DEF TakesStore, LockedOnly, PastChild
    <3>. QED
      BY <2>2, <3>1, <3>2 DEF HasLocked, LockedOnly, PastChild
  <2>. QED
    BY <2>1, <2>2, <1>7, LockStoreDoes
<1>8. CASE WriteChild(a)
  <2>0. w.pc = "child" /\ w.store \in Stores /\ w.op # "settle" /\ v.parent = "same" /\ w.child # "same"
    BY <1>8, <1>0, WriteChildDoes DEF Sound
  <2>1. CASE LocksFreed(a) /\ Ended(a)
    BY <2>1, <1>2, EndedPlace
  <2>2. CASE v.pc = "parent" /\ SameTask(a) /\ v.child = w.child /\ TakesRow(a, Own(a))
    <3>1. v.store = w.store /\ v.op = w.op /\ Own(a)' = Own(a) /\ Own(a) \in Rows
      BY <2>2, <2>0, <1>0, RowNames DEF SameTask, Own, Sound
    <3>2. /\ storeLock'[v.store] = a /\ lock'[Own(a)] = a
          /\ \A r \in Rows : lock'[r] = a => r = Own(a)
          /\ \A s \in Stores : storeLock'[s] = a => s = v.store
      BY <2>0, <2>2, <3>1, <1>0 DEF TakesRow, LockedOnly, HasLocked, PastChild
    <3>. QED
      BY <2>0, <2>2, <3>1, <3>2 DEF HasLocked, LockedOnly, PastChild
  <2>3. CASE v.pc = "parent" /\ SameTask(a) /\ v.child = "same" /\ SameLocks
    <3>1. v.store = w.store /\ v.op = w.op
      BY <2>3 DEF SameTask
    <3>2. /\ storeLock'[v.store] = a /\ (\A r \in Rows : lock'[r] # a)
          /\ \A s \in Stores : storeLock'[s] = a => s = v.store
      BY <2>0, <2>3, <3>1, <1>0 DEF SameLocks, LockedOnly, HasLocked, PastChild
    <3>. QED
      BY <2>0, <2>3, <3>1, <3>2 DEF HasLocked, LockedOnly, PastChild
  <2>. QED
    BY <2>1, <2>2, <2>3, <1>8, WriteChildDoes
<1>9. CASE LockParent(a) \/ CheckChildren(a)
  <2>0. /\ w.pc \in {"parent", "check"} /\ v.pc \in {"check", "commit"} /\ SameTask(a) /\ v.child = w.child
        /\ w.parent = "same"
    BY <1>9, <1>0, LockParentDoes, CheckChildrenDoes DEF Sound
  <2>1. /\ Own(a)' = Own(a) /\ OwnParent(a)' = OwnParent(a) /\ v.store = w.store /\ v.op = w.op
        /\ OwnParent(a) \in Rows /\ w.bulk \in Bulks
        /\ w.child # "same" => w.store \in Stores /\ Own(a) \in Rows
    BY <2>0, <1>0, RowNames DEF SameTask, Own, OwnParent, Sound, PastChild
  <2>2. storeLock' = storeLock
    BY <1>9, LockParentDoes, CheckChildrenDoes DEF SameLocks, TakesRow
  <2>3. CASE TakesRow(a, OwnParent(a))
    <3>1. /\ lock'[OwnParent(a)] = a
          /\ \A r \in Rows \ {OwnParent(a)} : lock'[r] = lock[r]
          /\ w.child # "same" => Own(a) # OwnParent(a)
      BY <2>1, <2>3, <1>0, RowNames DEF TakesRow, Own, OwnParent
    <3>2. HasLocked(a)'
      BY <2>0, <2>1, <2>2, <3>1 DEF HasLocked, PastChild
    <3>3. LockedOnly(a)'
      BY <2>0, <2>1, <2>2, <3>1 DEF LockedOnly, PastChild
    <3>. QED
      BY <3>2, <3>3
  <2>4. CASE SameLocks /\ (w.pc = "check" \/ (v.pc = "commit" /\ v.parent = "same"))
    <3>1. HasLocked(a)'
      BY <2>0, <2>1, <2>2, <2>4 DEF HasLocked, PastChild, SameLocks
    <3>2. LockedOnly(a)'
      BY <2>0, <2>1, <2>2, <2>4 DEF LockedOnly, PastChild, SameLocks
    <3>. QED
      BY <3>1, <3>2
  <2>5. CASE LockParent(a)
    BY <2>3, <2>4, <2>5, LockParentDoes
  <2>6. CASE CheckChildren(a)
    <3>1. SameLocks /\ tx[a].pc = "check"
      BY <2>6, CheckChildrenDoes
    <3>. QED
      BY <3>1, <2>4
  <2>. QED
    BY <2>5, <2>6, <1>9
<1>10. CASE Commit(a)
  BY <1>2, <1>10, CommitDoes, EndedPlace
<1>11. CASE Reopens(a)
  BY <1>1, <1>11, ReopensDoes, EndedPlace
<1>12. CASE RolledBack(a)
  BY <1>2, <1>12, RolledBackDoes, NoWorkIs
<1>13. CASE Asks(a) \/ Finds(a)
  <2>1. SameLocks /\ w.pc = "idle"
    BY <1>13, AskLocks DEF Begins
  <2>2. ASSUME NEW b \in Bulks, StartBulk(a, b) PROVE v.pc = "insert"
    BY <2>2, StartBulkDoes DEF Begins
  <2>3. ASSUME NEW b \in Bulks, CancelBulk(a, b) PROVE v.pc = "latch"
    BY <2>3, CancelBulkDoes DEF Begins
  <2>4. ASSUME NEW b \in Bulks, RetryBulk(a, b) PROVE v.pc = "next"
    BY <2>4, RetryBulkDoes DEF Begins
  <2>5. ASSUME NEW b \in Bulks, EndParent(a, b) PROVE v.pc = "parent" /\ v.op = "settle"
    BY <2>5, EndParentDoes DEF Begins
  <2>6. ASSUME NEW b \in Bulks, NEW s \in Stores, AskChild(a, b, s) \/ EndChild(a, b, s) PROVE v.pc = "store"
    BY <2>6, AskChildDoes DEF Begins
  <2>7. v.pc \in {"insert", "latch", "next", "store"} \/ (v.pc = "parent" /\ v.op = "settle")
    BY <1>13, <2>2, <2>3, <2>4, <2>5, <2>6, Zenon DEF Asks, Finds
  <2>. QED
    BY <2>1, <2>7, <1>1
<1>. QED
  BY <1>3, <1>4, <1>5, <1>6, <1>7, <1>8, <1>9, <1>10, <1>11, <1>12, <1>13 DEF Step

LEMMA NextDiscipline ==
    ASSUME TypeInv, Discipline, [Next]_vars
    PROVE  Discipline'
<1>1. CASE UNCHANGED vars
  BY <1>1 DEF vars, Discipline, HasLocked, LockedOnly, Own, OwnParent
<1>2. CASE World
  BY <1>2, WorldUntouched, UntouchedDiscipline DEF Discipline
<1>3. ASSUME NEW a \in Actors, Step(a) \/ Reopens(a) \/ RolledBack(a) \/ Asks(a) \/ Finds(a)
      PROVE  Discipline'
  BY <1>3, OthersUntouched, UntouchedDiscipline, ActorDiscipline DEF Discipline
<1>. QED
  BY <1>1, <1>2, <1>3, NextSteps

----------------------------------------------------------------------------
(* How a row changes *)

\* What the proofs about rows go by.
Reads == \A a \in Actors : ReadOfChild(a) /\ ReadOfParent(a)
Core == TypeInv /\ Discipline /\ Ground /\ Reads

ByCommit(a, r) ==
    /\ Commit(a) /\ lock[r] = a /\ row[r] \notin {"none", "gone"}
    /\ \/ /\ r = Own(a) /\ tx[a].child # "same" /\ row'[r] = tx[a].child
          /\ tx[a].store \in Stores /\ storeLock[tx[a].store] = a
          /\ tx[a].child \in Outcomes(tx[a].op, row[r])
       \/ r = OwnParent(a) /\ tx[a].parent # "same" /\ row'[r] = tx[a].parent

ByStart(a, r) ==
    /\ CommitStart(a) /\ tx[a].op = "start" /\ tx[a].bulk \in Bulks /\ r[1] = tx[a].bulk
    /\ row[OwnParent(a)] = "none" /\ row[r] = "none"
    /\ row'[OwnParent(a)] = "running" /\ row'[r] \in {"running", "ready"}

ByItems(r) ==
    /\ row[r] \in Unfinished /\ row'[r] \in Unfinished
    /\ r[2] \in Stores /\ storeLock[r[2]] = Nobody

BySweep(r) ==
    /\ row[r] # "none" /\ row'[r] = "gone"
    /\ \/ r[2] \in Stores /\ storeLock[r[2]] = Nobody /\ lock[r] = Nobody
       \/ row[r] \in Finished /\ \E h \in Histories : lock[r] = h

LEMMA OutcomesAre ==
    ASSUME NEW op, NEW state, NEW outcome \in Outcomes(op, state)
    PROVE  \/ op = "finalize" /\ state \in Unfinished /\ outcome \in {"switched", "failed"}
           \/ op = "cancel" /\ state \in Unfinished \cup {"failed"} /\ outcome = "cancelled"
           \/ op = "retry" /\ state = "failed" /\ outcome = "running"
  BY DEF Outcomes, Unfinished

LEMMA CommitRows ==
    ASSUME Core, NEW a \in Actors, Commit(a), NEW r \in Rows, row'[r] # row[r]
    PROVE  ByCommit(a, r)
<1>. DEFINE w == tx[a]
<1>0. /\ w.pc = "commit" /\ row'[r] = Written(a, r) /\ w.bulk \in Bulks
      /\ HasLocked(a) /\ ReadOfChild(a) /\ ReadOfParent(a) /\ w \in Work /\ Sound(w)
  BY CommitDoes DEF Core, Reads, Discipline, TypeInv, SoundWork
<1>1. CASE r = Own(a) /\ w.child # "same"
  <2>1. w.op # "settle" /\ w.store \in Stores /\ storeLock[w.store] = a /\ lock[r] = a
    BY <1>0, <1>1 DEF Sound, HasLocked, PastChild
  <2>2. w.child \in Outcomes(w.op, row[r])
    BY <1>0, <1>1, <2>1 DEF ReadOfChild, PastChild
  <2>3. row[r] \notin {"none", "gone"}
    BY <2>2, OutcomesAre DEF Unfinished
  <2>. QED
    BY <1>0, <1>1, <2>1, <2>2, <2>3 DEF ByCommit, Written
<1>2. CASE r = OwnParent(a) /\ w.parent # "same" /\ ~(r = Own(a) /\ w.child # "same")
  <2>1. lock[r] = a /\ row'[r] = w.parent
    BY <1>0, <1>2 DEF HasLocked, Written
  <2>2. CASE w.parent = "finished"
    BY <1>0, <1>2, <2>1, <2>2 DEF ReadOfParent, ByCommit
  <2>3. CASE w.parent # "finished"
    <3>1. w.op = "retry" /\ w.parent = "running" /\ w.store \in Stores /\ w.child = "running"
      BY <1>0, <1>2, <2>3 DEF Sound, PastChild
    <3>2. w.child \in Outcomes(w.op, row[Own(a)])
      BY <1>0, <3>1 DEF ReadOfChild, PastChild
    <3>3. row[Own(a)] # "none"
      BY <3>2, OutcomesAre DEF Unfinished
    <3>4. row[r] # "none"
      BY <1>0, <1>2, <3>1, <3>3 DEF Core, Ground, Own, OwnParent
    <3>. QED
      BY <1>0, <1>2, <2>1, <3>1, <3>4 DEF ReadOfParent, ByCommit
  <2>. QED
    BY <2>2, <2>3
<1>. QED
  BY <1>0, <1>1, <1>2 DEF Written

LEMMA ActorRows ==
    ASSUME Core, NEW a \in Actors,
           \/ Step(a) \/ Reopens(a) \/ RolledBack(a) \/ Asks(a) \/ Finds(a),
           NEW r \in Rows, row'[r] # row[r]
    PROVE  ByCommit(a, r) \/ ByStart(a, r) \/ (Reopens(a) /\ ByItems(r))
<1>0. TypeInv
  BY DEF Core
<1>1. Commit(a) \/ CommitStart(a) \/ Reopens(a)
  BY <1>0, InsertChildDoes, LatchBulkDoes, NextChildDoes, LockStoreDoes, WriteChildDoes,
     LockParentDoes, CheckChildrenDoes, RolledBackDoes, AskLocks DEF Step, SameRows
<1>2. CASE CommitStart(a)
  <2>1. /\ tx[a].op = "start" /\ r[1] = tx[a].bulk /\ row'[r] \in {"running", "ready"}
        /\ row'[OwnParent(a)] = "running"
    BY <1>0, <1>2, CommitStartDoes DEF OwnParent
  <2>2. row[OwnParent(a)] = "none" /\ tx[a].bulk \in Bulks
    BY <2>1, RowNames DEF Core, Ground
  <2>3. row[r] = "none"
    BY <2>1, <2>2, RowNames DEF Core, Ground, OwnParent
  <2>. QED
    BY <1>2, <2>1, <2>2, <2>3 DEF ByStart
<1>3. CASE Reopens(a)
  <2>1. /\ tx[a].store \in Stores /\ storeLock[tx[a].store] = Nobody /\ row[Own(a)] = "ready"
        /\ row' = [row EXCEPT ![Own(a)] = "running"] /\ tx[a].bulk \in Bulks
    BY <1>0, <1>3, ReopensDoes
  <2>2. r = Own(a) /\ row'[r] = "running"
    BY <2>1, <1>0 DEF TypeInv, BulkTypeOK
  <2>. QED
    BY <1>3, <2>1, <2>2, RowNames DEF ByItems, Own, Unfinished
<1>. QED
  BY <1>1, <1>2, <1>3, CommitRows

LEMMA WorldRows ==
    ASSUME Core, World, NEW r \in Rows, row'[r] # row[r]
    PROVE  ByItems(r) \/ BySweep(r)
<1>0. row \in [Rows -> States] /\ \A h \in Histories, q \in Rows : lock[q] = h => row[q] \in Finished
  BY DEF Core, Ground, TypeInv, BulkTypeOK
<1>1. ASSUME NEW b \in Bulks, NEW s \in Stores, ItemsEnd(b, s) PROVE ByItems(r)
  <2>1. PICK state \in {"ready", "broken"} : row' = [row EXCEPT ![C(b, s)] = state]
    BY <1>1 DEF ItemsEnd
  <2>2. r = C(b, s) /\ row'[r] = state
    BY <2>1, <1>0
  <2>. QED
    BY <1>1, <2>1, <2>2, RowNames DEF ByItems, ItemsEnd, Unfinished
<1>2. ASSUME NEW s \in Stores, StoreDeleted(s) PROVE BySweep(r)
  <2>1. r[2] = s /\ row[r] # "none" /\ row'[r] = "gone"
    BY <1>2, <1>0 DEF StoreDeleted
  <2>2. r[1] \in Bulks /\ r = C(r[1], s)
    BY <2>1, RowNames, Constants
  <2>3. lock[r] = Nobody /\ storeLock[s] = Nobody
    BY <1>2, <2>2 DEF StoreDeleted
  <2>. QED
    BY <2>1, <2>3 DEF BySweep
<1>3. ASSUME NEW h \in Histories, SweepEnds(h) PROVE BySweep(r)
  <2>1. lock[r] = h /\ row'[r] = "gone"
    BY <1>3, <1>0 DEF SweepEnds
  <2>2. row[r] \in Finished
    BY <2>1, <1>0
  <2>. QED
    BY <2>1, <2>2 DEF BySweep, Finished
<1>4. ASSUME NEW h \in Histories, NEW q \in Rows, SweepHistory(h) \/ SweepRow(h, q) \/ SweepRolledBack(h)
      PROVE FALSE
  BY <1>4 DEF SweepHistory, SweepRow, SweepRolledBack
<1>5. ASSUME NEW q \in Rows, Ages(q) PROVE FALSE
  BY <1>5 DEF Ages
<1>. QED
  BY <1>1, <1>2, <1>3, <1>4, <1>5 DEF World, SweepStep

LEMMA NextRows ==
    ASSUME Core, Next, NEW r \in Rows, row'[r] # row[r]
    PROVE  (\E a \in Actors : ByCommit(a, r) \/ ByStart(a, r)) \/ ByItems(r) \/ BySweep(r)
  BY NextSteps, ActorRows, WorldRows

\* A commit writes an outcome of the child, or ends or opens the parent.
LEMMA CommitWrites ==
    ASSUME Core, NEW a \in Actors, NEW r \in Rows, ByCommit(a, r)
    PROVE  /\ row[r] \notin {"none", "gone"} /\ tx[a].pc = "commit" /\ tx[a].bulk \in Bulks
           /\ \/ /\ r[2] \in Stores /\ r[2] = tx[a].store /\ r[1] = tx[a].bulk
                 /\ tx[a].op \in {"finalize", "cancel", "retry"}
                 /\ tx[a].child \in Outcomes(tx[a].op, row[r])
                 /\ row'[r] = tx[a].child /\ row'[r] \in {"switched", "failed", "cancelled", "running"}
                 /\ row[r] \in Unfinished \cup {"failed"}
                 /\ storeLock[tx[a].store] = a
              \/ /\ r[2] = 0 /\ r = OwnParent(a) /\ r[1] = tx[a].bulk /\ row'[r] = tx[a].parent
                 /\ row'[r] \in {"running", "finished"}
<1>0. tx[a].pc = "commit" /\ tx[a].bulk \in Bulks /\ Sound(tx[a])
  BY CommitDoes DEF ByCommit, Core, TypeInv, SoundWork
<1>1. CASE /\ r = Own(a) /\ tx[a].child # "same" /\ row'[r] = tx[a].child
           /\ tx[a].store \in Stores /\ storeLock[tx[a].store] = a
           /\ tx[a].child \in Outcomes(tx[a].op, row[r])
  BY <1>0, <1>1, OutcomesAre, RowNames DEF ByCommit, Own
<1>2. CASE r = OwnParent(a) /\ tx[a].parent # "same" /\ row'[r] = tx[a].parent
  BY <1>0, <1>2, RowNames DEF ByCommit, OwnParent, Sound
<1>. QED
  BY <1>1, <1>2 DEF ByCommit

LEMMA RowsStay ==
    ASSUME Core, Next, NEW r \in Rows
    PROVE  /\ row[r] = "gone" => row'[r] = "gone"
           /\ row[r] # "none" => row'[r] # "none"
           /\ row'[r] # row[r] /\ row[r] = "none" => \E a \in Actors : ByStart(a, r)
<1>1. ASSUME NEW a \in Actors, ByCommit(a, r)
      PROVE  row[r] \notin {"none", "gone"} /\ row'[r] # "none"
  BY <1>1, CommitWrites
<1>2. ASSUME NEW a \in Actors, ByStart(a, r) PROVE row[r] = "none"
  BY <1>2 DEF ByStart
<1>3. ASSUME ByItems(r) PROVE row[r] \notin {"none", "gone"} /\ row'[r] # "none"
  BY <1>3 DEF ByItems, Unfinished
<1>4. ASSUME BySweep(r) PROVE row[r] # "none" /\ row'[r] = "gone"
  BY <1>4 DEF BySweep
<1>. QED
  BY <1>1, <1>2, <1>3, <1>4, NextRows

----------------------------------------------------------------------------
(* Rows and starts *)

LEMMA Starters ==
    ASSUME TypeInv, Next, NEW c \in Actors, tx'[c].op = "start"
    PROVE  \/ tx[c].op = "start" /\ tx'[c].bulk = tx[c].bulk /\ ~CommitStart(c)
           \/ /\ \E b \in Bulks : StartBulk(c, b) /\ tx'[c].bulk = b
              /\ row' = row
<1>1. ASSUME NEW a \in Actors, Step(a) \/ Reopens(a) \/ RolledBack(a) \/ Asks(a) \/ Finds(a), a # c
      PROVE  tx'[c] = tx[c]
  BY <1>1, OthersUntouched DEF Untouched
<1>2. ASSUME World PROVE tx'[c] = tx[c]
  BY <1>2, WorldDoes
<1>3. CASE tx'[c] = tx[c]
  <2>1. ~CommitStart(c)
    <3>1. CommitStart(c) => tx'[c].op # "start"
      BY CommitStartDoes
    <3>. QED
      BY <3>1
  <2>. QED
    BY <1>3, <2>1
<1>4. ASSUME Ended(c), tx[c].op # "start" PROVE FALSE
  BY <1>4, NoWorkIs DEF Ended
<1>5. CASE Step(c) \/ Reopens(c) \/ RolledBack(c)
  <2>1. CASE InsertChild(c)
    <3>1. ~CommitStart(c)
      BY CommitStartDoes
    <3>. QED
      BY <2>1, <3>1, InsertChildDoes
  <2>2. CASE CommitStart(c)
    BY <2>2, CommitStartDoes
  <2>3. CASE LatchBulk(c) \/ LockParent(c) \/ CheckChildren(c)
    BY <2>3, LatchBulkDoes, LockParentDoes, CheckChildrenDoes DEF SameTask
  <2>4. CASE NextChild(c)
    BY <2>4, NextChildDoes
  <2>5. CASE LockStore(c)
    BY <2>5, <1>4, LockStoreDoes DEF SameTask
  <2>6. CASE WriteChild(c)
    BY <2>6, <1>4, WriteChildDoes DEF SameTask
  <2>7. CASE Commit(c) \/ Reopens(c)
    BY <2>7, <1>4, CommitDoes, ReopensDoes
  <2>8. CASE RolledBack(c)
    BY <2>8, RolledBackDoes, NoWorkIs
  <2>. QED
    BY <1>5, <2>1, <2>2, <2>3, <2>4, <2>5, <2>6, <2>7, <2>8 DEF Step
<1>6. CASE Asks(c) \/ Finds(c)
  <2>1. ASSUME NEW b \in Bulks, StartBulk(c, b) PROVE tx'[c].bulk = b /\ row' = row
    BY <2>1, StartBulkDoes DEF Begins, SameRows
  <2>2. ASSUME NEW b \in Bulks, CancelBulk(c, b) \/ RetryBulk(c, b) \/ EndParent(c, b) PROVE FALSE
    BY <2>2, CancelBulkDoes, RetryBulkDoes, EndParentDoes DEF Begins
  <2>3. ASSUME NEW b \in Bulks, NEW s \in Stores, AskChild(c, b, s) \/ EndChild(c, b, s) PROVE FALSE
    BY <2>3, AskChildDoes DEF Begins
  <2>. QED
    BY <1>6, <2>1, <2>2, <2>3 DEF Asks, Finds
<1>. QED
  BY <1>1, <1>2, <1>3, <1>5, <1>6, NextSteps

LEMMA NextGround ==
    ASSUME Core, Next
    PROVE  Ground'
<1>0. TypeInv /\ Ground
  BY DEF Core
<1>1. ASSUME NEW b \in Bulks, NEW s \in Stores PROVE row'[C(b, s)] # "finished"
  <2>. DEFINE r == C(b, s)
  <2>0. r \in Rows /\ r[2] = s /\ row[r] # "finished" /\ s # 0
    BY <1>0, RowNames, Constants DEF Ground
  <2>. HIDE DEF r
  <2>1. ASSUME NEW a \in Actors, ByCommit(a, r) PROVE row'[r] # "finished"
    BY <2>0, <2>1, CommitWrites
  <2>2. ASSUME NEW a \in Actors, ByStart(a, r) PROVE row'[r] # "finished"
    BY <2>2 DEF ByStart
  <2>3. ByItems(r) \/ BySweep(r) => row'[r] # "finished"
    BY DEF ByItems, BySweep, Unfinished
  <2>. QED
    BY <2>0, <2>1, <2>2, <2>3, NextRows DEF r
<1>6. ASSUME NEW b \in Bulks PROVE row'[P(b)] \in {"none", "gone", "running", "finished"}
  <2>. DEFINE r == P(b)
  <2>0. r \in Rows /\ r[1] = b /\ r[2] = 0 /\ row[r] \in {"none", "gone", "running", "finished"}
    BY <1>0, RowNames DEF Ground
  <2>1. ASSUME NEW a \in Actors, ByStart(a, r) PROVE row'[r] = "running"
    BY <2>0, <2>1 DEF ByStart, OwnParent
  <2>. HIDE DEF r
  <2>2. ASSUME NEW a \in Actors, ByCommit(a, r) PROVE row'[r] \in {"running", "finished"}
    BY <2>0, <2>2, CommitWrites, Constants
  <2>3. ~ByItems(r) /\ (BySweep(r) => row'[r] = "gone")
    BY <2>0, Constants DEF ByItems, BySweep
  <2>. QED
    BY <2>0, <2>1, <2>2, <2>3, NextRows DEF r
<1>2. ASSUME NEW b \in Bulks, row'[P(b)] = "none", NEW s \in Stores PROVE row'[C(b, s)] = "none"
  <2>1. row[P(b)] = "none" /\ row[C(b, s)] = "none" /\ P(b) \in Rows /\ C(b, s) \in Rows /\ C(b, s)[1] = b
    BY <1>0, <1>2, RowsStay, RowNames DEF Ground
  <2>2. ASSUME NEW a \in Actors, ByStart(a, C(b, s)) PROVE FALSE
    BY <1>2, <2>1, <2>2 DEF ByStart, OwnParent
  <2>. QED
    BY <2>1, <2>2, RowsStay
<1>3. ASSUME NEW c \in Actors, tx'[c].op = "start" PROVE row'[P(tx'[c].bulk)] = "none"
  <2>1. CASE tx[c].op = "start" /\ tx'[c].bulk = tx[c].bulk /\ ~CommitStart(c)
    <3>1. tx[c].bulk \in Bulks /\ row[P(tx[c].bulk)] = "none"
      BY <2>1, <1>0 DEF Ground, OwnParent, TypeInv, SoundWork, Sound
    <3>2. ASSUME NEW a \in Actors, ByStart(a, P(tx[c].bulk)) PROVE FALSE
      <4>1. tx[a].op = "start" /\ tx[a].bulk = tx[c].bulk /\ CommitStart(a)
        BY <3>1, <3>2, RowNames DEF ByStart
      <4>2. a = c
        BY <4>1, <2>1, <1>0 DEF Ground
      <4>. QED
        BY <4>1, <4>2, <2>1
    <3>. QED
      BY <2>1, <3>1, <3>2, RowsStay, RowNames
  <2>2. ASSUME NEW b \in Bulks, StartBulk(c, b), tx'[c].bulk = b, row' = row PROVE row'[P(tx'[c].bulk)] = "none"
    BY <2>2, <1>0, StartBulkDoes
  <2>. QED
    BY <1>0, <1>3, <2>1, <2>2, Starters
<1>4. ASSUME NEW a \in Actors, NEW c \in Actors, tx'[a].op = "start", tx'[c].op = "start",
             tx'[a].bulk = tx'[c].bulk, a # c
      PROVE  FALSE
  <2>1. ASSUME NEW d \in Actors, NEW e \in Actors, d # e, NEW b \in Bulks, StartBulk(d, b), tx'[d].bulk = b,
               tx'[e].op = "start", tx'[e].bulk = b
        PROVE FALSE
    <3>1. tx'[e] = tx[e]
      <4>1. Moves(d)
        BY <2>1, <1>0, StartBulkDoes DEF Begins
      <4>. QED
        BY <4>1, <2>1 DEF Moves
    <3>. QED
      BY <2>1, <3>1, <1>0, StartBulkDoes
  <2>2. (tx[a].op = "start" /\ tx'[a].bulk = tx[a].bulk) \/ \E b \in Bulks : StartBulk(a, b) /\ tx'[a].bulk = b
    BY <1>0, <1>4, Starters
  <2>3. (tx[c].op = "start" /\ tx'[c].bulk = tx[c].bulk) \/ \E b \in Bulks : StartBulk(c, b) /\ tx'[c].bulk = b
    BY <1>0, <1>4, Starters
  <2>. QED
    BY <1>0, <1>4, <2>1, <2>2, <2>3 DEF Ground
<1>5. (\A r \in old' : row'[r] \in Finished) /\ \A h \in Histories, r \in Rows : lock'[r] = h => r \in old'
  <2>0. /\ \A r \in old : row[r] \in Finished /\ r \in Rows
        /\ \A h \in Histories, r \in Rows : lock[r] = h => r \in old
        /\ lock \in [Rows -> Everybody \cup {Nobody}]
    BY <1>0 DEF Ground, TypeInv, BulkTypeOK
  <2>1. ASSUME NEW a \in Actors, Step(a) \/ Reopens(a) \/ RolledBack(a) \/ Asks(a) \/ Finds(a)
        PROVE  (\A r \in old' : row'[r] \in Finished) /\ \A h \in Histories, r \in Rows : lock'[r] = h => r \in old'
    <3>1. \A h \in Histories, r \in Rows : lock'[r] = h => lock[r] = h
      BY <1>0, <2>1, OthersUntouched
    <3>2. CASE Commit(a)
      <4>1. old' = {r \in old : row'[r] \in Finished}
        BY <1>0, <3>2, CommitDoes
      <4>2. ASSUME NEW h \in Histories, NEW r \in Rows, lock[r] = h PROVE row'[r] \in Finished
        <5>1. row'[r] = row[r]
          BY <3>2, <4>2, CommitRows, Constants DEF ByCommit
        <5>. QED
          BY <5>1, <4>2, <2>0
      <4>. QED
        BY <4>1, <4>2, <3>1, <2>0
    <3>3. CASE ~Commit(a)
      <4>1. old' = old
        BY <1>0, <2>1, <3>3, InsertChildDoes, CommitStartDoes, LatchBulkDoes, NextChildDoes, LockStoreDoes,
           WriteChildDoes, LockParentDoes, CheckChildrenDoes, ReopensDoes, RolledBackDoes, AskLocks DEF Step, SameRows
      <4>2. ASSUME NEW r \in old PROVE row'[r] = row[r]
        <5>1. ASSUME ByCommit(a, r) \/ ByStart(a, r) \/ ByItems(r) PROVE FALSE
          BY <5>1, <3>3, <2>0 DEF ByCommit, ByStart, ByItems, Finished, Unfinished
        <5>. QED
          BY <5>1, <2>0, <2>1, ActorRows
      <4>. QED
        BY <4>1, <4>2, <3>1, <2>0
    <3>. QED
      BY <3>2, <3>3
  <2>2. CASE World
    <3>1. ASSUME NEW h \in Histories, SweepHistory(h) \/ SweepRolledBack(h)
          PROVE (\A r \in old' : row'[r] \in Finished) /\ \A g \in Histories, r \in Rows : lock'[r] = g => r \in old'
      BY <3>1, <2>0, Constants DEF SweepHistory, SweepRolledBack
    <3>2. ASSUME NEW h \in Histories, NEW q \in Rows, SweepRow(h, q)
          PROVE (\A r \in old' : row'[r] \in Finished) /\ \A g \in Histories, r \in Rows : lock'[r] = g => r \in old'
      <4>1. /\ row' = row /\ old' = old
            /\ lock' = IF q \in old THEN [lock EXCEPT ![q] = h] ELSE lock
        BY <3>2 DEF SweepRow
      <4>. QED
        BY <4>1, <2>0, Constants
    <3>3. ASSUME NEW h \in Histories, SweepEnds(h)
          PROVE (\A r \in old' : row'[r] \in Finished) /\ \A g \in Histories, r \in Rows : lock'[r] = g => r \in old'
      <4>1. /\ row' = [r \in Rows |-> IF lock[r] = h THEN "gone" ELSE row[r]]
            /\ old' = old \ Held(h)
            /\ lock' = [r \in Rows |-> IF lock[r] = h THEN Nobody ELSE lock[r]]
        BY <3>3 DEF SweepEnds
      <4>2. \A g \in Histories : g # Nobody
        BY Constants
      <4>. QED
        BY <4>1, <4>2, <2>0 DEF Held
    <3>4. ASSUME NEW b \in Bulks, NEW s \in Stores, ItemsEnd(b, s)
          PROVE (\A r \in old' : row'[r] \in Finished) /\ \A g \in Histories, r \in Rows : lock'[r] = g => r \in old'
      <4>1. /\ old' = old /\ lock' = lock /\ row[C(b, s)] = "running"
            /\ \E state : row' = [row EXCEPT ![C(b, s)] = state]
        BY <3>4 DEF ItemsEnd
      <4>2. C(b, s) \notin old
        BY <4>1, <2>0 DEF Finished
      <4>. QED
        BY <4>1, <4>2, <2>0
    <3>5. ASSUME NEW s \in Stores, StoreDeleted(s)
          PROVE (\A r \in old' : row'[r] \in Finished) /\ \A g \in Histories, r \in Rows : lock'[r] = g => r \in old'
      <4>1. /\ old' = {r \in old : r[2] # s} /\ lock' = lock
            /\ row' = [r \in Rows |-> IF r[2] = s /\ row[r] # "none" THEN "gone" ELSE row[r]]
            /\ \A b \in Bulks : lock[C(b, s)] = Nobody
        BY <3>5 DEF StoreDeleted
      <4>2. \A r \in Rows : r[2] = s => lock[r] = Nobody
        BY <4>1, RowNames, Constants
      <4>3. \A g \in Histories : g # Nobody
        BY Constants
      <4>. QED
        BY <4>1, <4>2, <4>3, <2>0
    <3>6. ASSUME NEW q \in Rows, Ages(q)
          PROVE (\A r \in old' : row'[r] \in Finished) /\ \A g \in Histories, r \in Rows : lock'[r] = g => r \in old'
      BY <3>6, <2>0 DEF Ages
    <3>. QED
      BY <2>2, <3>1, <3>2, <3>3, <3>4, <3>5, <3>6 DEF World, SweepStep
  <2>. QED
    BY <2>1, <2>2, NextSteps
<1>. QED
  BY <1>1, <1>2, <1>3, <1>4, <1>5, <1>6 DEF Ground, OwnParent

----------------------------------------------------------------------------
(* What a transaction has read still holds *)

\* Nothing has been read yet.
LEMMA NothingRead ==
    ASSUME NEW c \in Actors, tx'[c].parent = "same",
           \/ tx'[c].pc \in {"idle", "insert", "latch", "next", "store"}
           \/ (tx'[c].pc = "parent" /\ tx'[c].op = "settle")
    PROVE  ReadOfChild(c)' /\ ReadOfParent(c)'
  BY DEF ReadOfChild, ReadOfParent, PastChild

\* The places at which a task begins.
LEMMA AskPlaces ==
    ASSUME TypeInv, NEW a \in Actors, Asks(a) \/ Finds(a)
    PROVE  /\ tx'[a].child = "same" /\ tx'[a].parent = "same"
           /\ \/ tx'[a].pc \in {"insert", "latch", "next", "store"}
              \/ (tx'[a].pc = "parent" /\ tx'[a].op = "settle")
<1>2. ASSUME NEW b \in Bulks, StartBulk(a, b) PROVE tx'[a].pc = "insert"
  BY <1>2, StartBulkDoes DEF Begins
<1>3. ASSUME NEW b \in Bulks, CancelBulk(a, b) PROVE tx'[a].pc = "latch"
  BY <1>3, CancelBulkDoes DEF Begins
<1>4. ASSUME NEW b \in Bulks, RetryBulk(a, b) PROVE tx'[a].pc = "next"
  BY <1>4, RetryBulkDoes DEF Begins
<1>5. ASSUME NEW b \in Bulks, EndParent(a, b) PROVE tx'[a].pc = "parent" /\ tx'[a].op = "settle"
  BY <1>5, EndParentDoes DEF Begins
<1>6. ASSUME NEW b \in Bulks, NEW s \in Stores, AskChild(a, b, s) \/ EndChild(a, b, s) PROVE tx'[a].pc = "store"
  BY <1>6, AskChildDoes DEF Begins
<1>7. tx'[a].child = "same" /\ tx'[a].parent = "same"
  BY AskLocks DEF Begins
<1>. QED
  BY <1>2, <1>3, <1>4, <1>5, <1>6, <1>7 DEF Asks, Finds

LEMMA UntouchedReads ==
    ASSUME Core, Next, NEW c \in Actors, Untouched(c)
    PROVE  ReadOfChild(c)' /\ ReadOfParent(c)'
<1>. DEFINE w == tx[c]
<1>0. /\ TypeInv /\ Sound(w) /\ w \in Work /\ HasLocked(c) /\ ReadOfChild(c) /\ ReadOfParent(c)
      /\ tx'[c] = w /\ Own(c)' = Own(c) /\ OwnParent(c)' = OwnParent(c)
      /\ c # Nobody /\ c \notin Histories
  BY Constants DEF Core, Discipline, Reads, TypeInv, SoundWork, Untouched, Own, OwnParent
<1>1. ~Commit(c)
  <2>1. ASSUME Commit(c) PROVE FALSE
    BY <1>0, <2>1, CommitDoes, EndedPlace
  <2>. QED
    BY <2>1
<1>2. ReadOfChild(c)'
  <2>1. SUFFICES ASSUME w.pc \in {"child"} \cup PastChild, w.op # "settle"
                 PROVE  \/ w.child \in Outcomes(w.op, row'[Own(c)])
                        \/ row'[Own(c)] = "gone" /\ (w.pc = "child" \/ w.child = "same")
    BY <1>0 DEF ReadOfChild
  <2>. DEFINE r == Own(c)
  <2>2. /\ w.store \in Stores /\ storeLock[w.store] = c /\ r \in Rows /\ r[2] = w.store
        /\ w.store # 0 /\ r[1] = w.bulk
    <3>1. w.store \in Stores /\ w.bulk \in Bulks
      BY <1>0, <2>1 DEF Sound, PastChild
    <3>2. storeLock[w.store] = c
      BY <1>0, <2>1 DEF HasLocked
    <3>. QED
      <4>1. Own(c) \in Rows /\ Own(c)[2] = w.store /\ Own(c)[1] = w.bulk
        BY <3>1, RowNames DEF Own
      <4>. QED
        BY <3>1, <3>2, <4>1, Constants
  <2>. HIDE DEF r
  <2>3. CASE row[r] = "gone" /\ (w.pc = "child" \/ w.child = "same")
    BY <2>2, <2>3, RowsStay DEF r
  <2>4. CASE w.child \in Outcomes(w.op, row[r])
    <3>1. row[r] \in Unfinished \cup {"failed"} /\ w.child # "same" /\ row[r] \notin {"none", "gone"}
      BY <2>4, OutcomesAre DEF Unfinished
    <3>2. ASSUME NEW a \in Actors, ByCommit(a, r) PROVE FALSE
      <4>1. storeLock[r[2]] = a
        BY <2>2, <3>2, CommitWrites
      <4>. QED
        BY <4>1, <2>2, <3>2, <1>1 DEF ByCommit
    <3>3. ASSUME NEW a \in Actors, ByStart(a, r) PROVE FALSE
      BY <3>1, <3>3 DEF ByStart
    <3>4. ASSUME ByItems(r) PROVE FALSE
      BY <3>4, <2>2, <1>0 DEF ByItems
    <3>5. ASSUME BySweep(r) PROVE row'[r] = "gone" /\ w.pc = "child"
      <4>1. row'[r] = "gone" /\ \E h \in Histories : lock[r] = h
        BY <3>5, <2>2, <1>0 DEF BySweep
      <4>2. w.pc \in PastChild => lock[r] = c
        BY <1>0, <2>1, <3>1 DEF HasLocked, r
      <4>. QED
        BY <4>1, <4>2, <2>1, <1>0
    <3>. QED
      BY <2>2, <2>4, <3>2, <3>3, <3>4, <3>5, NextRows DEF r
  <2>. QED
    BY <1>0, <2>1, <2>3, <2>4 DEF ReadOfChild, r
<1>3. ReadOfParent(c)'
  <2>1. w.pc = "check" \/ w.parent # "same" \/ w.pc = "commit" => OwnParent(c) \in Rows /\ OwnParent(c)[2] = 0
    BY <1>0, RowNames DEF Sound, PastChild, OwnParent
  <2>2. ASSUME w.pc = "check" \/ w.parent # "same"
        PROVE  row'[OwnParent(c)] = row[OwnParent(c)] \/ row[OwnParent(c)] = "none"
    <3>. DEFINE r == OwnParent(c)
    <3>1. lock[r] = c /\ r \in Rows /\ r[2] \notin Stores
      BY <1>0, <2>1, <2>2, Constants DEF HasLocked
    <3>. HIDE DEF r
    <3>2. ASSUME NEW a \in Actors, ByCommit(a, r) PROVE FALSE
      BY <3>1, <3>2, <1>1 DEF ByCommit
    <3>3. ASSUME NEW a \in Actors, ByStart(a, r) PROVE row[r] = "none"
      BY <3>3 DEF ByStart
    <3>4. ByItems(r) \/ BySweep(r) => FALSE
      BY <3>1, <1>0 DEF ByItems, BySweep
    <3>. QED
      BY <3>1, <3>2, <3>3, <3>4, NextRows DEF r
  <2>3. w.pc = "commit" /\ row[OwnParent(c)] = "gone" => row'[OwnParent(c)] = "gone"
    BY <2>1, RowsStay
  <2>4. ASSUME w.parent = "running" PROVE row'[OwnParent(c)] # "gone"
    <3>1. CASE row[OwnParent(c)] = "none"
      <4>1. OwnParent(c) \in Rows
        BY <2>1, <2>4
      <4>2. ASSUME NEW a \in Actors, ByStart(a, OwnParent(c)) PROVE row'[OwnParent(c)] # "gone"
        BY <4>2 DEF ByStart
      <4>. QED
        BY <3>1, <4>1, <4>2, RowsStay
    <3>. QED
      BY <1>0, <2>2, <2>4, <3>1 DEF ReadOfParent
  <2>5. ASSUME w.pc = "check" \/ w.parent = "finished" PROVE row'[OwnParent(c)] = "running"
    BY <1>0, <2>2, <2>5 DEF ReadOfParent
  <2>. QED
    BY <1>0, <2>3, <2>4, <2>5 DEF ReadOfParent
<1>. QED
  BY <1>2, <1>3

LEMMA ActorReads ==
    ASSUME Core, NEW a \in Actors,
           \/ Step(a) \/ Reopens(a) \/ RolledBack(a) \/ Asks(a) \/ Finds(a)
    PROVE  ReadOfChild(a)' /\ ReadOfParent(a)'
<1>. DEFINE w == tx[a]
            v == tx'[a]
<1>0. TypeInv /\ Sound(w) /\ w \in Work /\ ReadOfChild(a) /\ ReadOfParent(a)
  BY DEF Core, Reads, TypeInv, SoundWork
<1>1. CASE v.parent = "same" /\ v.pc \in {"idle", "insert", "latch", "next", "store"}
  BY <1>1, NothingRead
<1>2. CASE Ended(a)
  BY <1>1, <1>2, EndedPlace DEF Ended
<1>3. CASE InsertChild(a) \/ LatchBulk(a)
  BY <1>0, <1>1, <1>3, InsertChildDoes, LatchBulkDoes
<1>4. CASE CommitStart(a)
  BY <1>0, <1>1, <1>4, CommitStartDoes
<1>5. CASE NextChild(a)
  BY <1>0, <1>5, NextChildDoes, NothingRead
<1>6. CASE LockStore(a)
  <2>1. CASE v.pc = "child" /\ SameTask(a) /\ v.child \in Outcomes(w.op, row[Own(a)])
    <3>1. v.parent = "same" /\ row' = row /\ Own(a)' = Own(a) /\ v.op = w.op
      BY <1>0, <1>6, <2>1, LockStoreDoes DEF SameTask, SameRows, Own
    <3>. QED
      BY <2>1, <3>1 DEF ReadOfChild, ReadOfParent, PastChild
  <2>. QED
    BY <1>0, <1>2, <1>6, <2>1, LockStoreDoes
<1>7. CASE WriteChild(a)
  <2>1. CASE v.pc = "parent" /\ SameTask(a)
    <3>1. v.parent = "same" /\ row' = row /\ Own(a)' = Own(a) /\ v.op = w.op /\ w.pc = "child"
      BY <1>0, <1>7, <2>1, WriteChildDoes DEF SameTask, SameRows, Own
    <3>2. (row[Own(a)] # "gone" /\ v.child = w.child) \/ (row[Own(a)] = "gone" /\ v.child = "same") \/ Ended(a)
      BY <1>0, <1>7, WriteChildDoes
    <3>3. ~Ended(a)
      BY <2>1, EndedPlace
    <3>4. ReadOfChild(a)'
      BY <1>0, <3>1, <3>2, <3>3 DEF ReadOfChild, PastChild
    <3>. QED
      BY <2>1, <3>1, <3>4 DEF ReadOfParent
  <2>. QED
    BY <1>0, <1>2, <1>7, <2>1, WriteChildDoes
<1>8. CASE LockParent(a) \/ CheckChildren(a)
  <2>1. SameTask(a) /\ v.child = w.child /\ row' = row /\ w.pc \in {"parent", "check"} /\ v.pc \in {"check", "commit"}
    BY <1>0, <1>8, LockParentDoes, CheckChildrenDoes DEF SameRows
  <2>2. Own(a)' = Own(a) /\ OwnParent(a)' = OwnParent(a) /\ v.op = w.op
    BY <2>1 DEF SameTask, Own, OwnParent
  <2>3. ReadOfChild(a)'
    BY <1>0, <2>1, <2>2 DEF ReadOfChild, PastChild
  <2>4. CASE LockParent(a)
    BY <1>0, <2>1, <2>2, <2>3, <2>4, LockParentDoes DEF ReadOfParent
  <2>5. CASE CheckChildren(a)
    <3>1. w.op # "retry" /\ v.parent \in {"same", "finished"} /\ w.pc = "check"
      BY <1>0, <2>5, CheckChildrenDoes
    <3>. QED
      BY <1>0, <2>1, <2>2, <2>3, <3>1 DEF ReadOfParent
  <2>. QED
    BY <1>8, <2>4, <2>5
<1>9. CASE Commit(a) \/ Reopens(a)
  BY <1>0, <1>2, <1>9, CommitDoes, ReopensDoes
<1>10. CASE RolledBack(a)
  BY <1>0, <1>1, <1>10, RolledBackDoes, NoWorkIs
<1>11. CASE Asks(a) \/ Finds(a)
  BY <1>0, <1>11, AskPlaces, NothingRead
<1>. QED
  BY <1>3, <1>4, <1>5, <1>6, <1>7, <1>8, <1>9, <1>10, <1>11 DEF Step

LEMMA NextCore ==
    ASSUME Core, [Next]_vars
    PROVE  Core'
<1>1. CASE UNCHANGED vars
  BY <1>1, NextTypes, NextDiscipline
     DEF vars, Core, Ground, Reads, ReadOfChild, ReadOfParent, Own, OwnParent
<1>2. CASE Next
  <2>1. TypeInv' /\ Discipline' /\ Ground'
    BY <1>2, NextTypes, NextDiscipline, NextGround DEF Core
  <2>2. ASSUME NEW c \in Actors PROVE ReadOfChild(c)' /\ ReadOfParent(c)'
    BY <1>2, NextSteps, UntouchedReads, ActorReads, OthersUntouched, WorldUntouched DEF Core
  <2>. QED
    BY <2>1, <2>2 DEF Core, Reads
<1>. QED
  BY <1>1, <1>2

LEMMA InitCore == Init => Core
<1>. SUFFICES ASSUME Init PROVE Core
  OBVIOUS
<1>1. /\ TypeInv /\ \A a \in Actors : tx[a] = NoWork
      /\ \A r \in Rows : row[r] = "none" /\ lock[r] = Nobody
      /\ \A s \in Stores : storeLock[s] = Nobody
      /\ old = {}
  BY InitTypes DEF Init
<1>2. Discipline
  BY <1>1, NoWorkIs, Constants DEF Discipline, HasLocked, LockedOnly, PastChild
<1>3. Ground
  <2>1. \A b \in Bulks : row[P(b)] = "none" /\ \A s \in Stores : row[C(b, s)] = "none"
    BY <1>1, RowNames
  <2>2. \A a \in Actors : tx[a].op # "start"
    BY <1>1, NoWorkIs
  <2>3. \A h \in Histories, r \in Rows : lock[r] # h
    BY <1>1, Constants
  <2>. QED
    BY <1>1, <2>1, <2>2, <2>3 DEF Ground
<1>4. Reads
  BY <1>1, NoWorkIs DEF Reads, ReadOfChild, ReadOfParent, PastChild
<1>. QED
  BY <1>1, <1>2, <1>3, <1>4 DEF Core

(***************************************************************************)
(* The locks that a transaction has follow from its place, and what it has *)
(* read under them still holds.                                            *)
(***************************************************************************)
THEOREM BulkCore == Spec => []Core
  BY InitCore, NextCore, PTL DEF Spec

----------------------------------------------------------------------------
(* Deadlocks *)

\* The store that a transaction is to lock next.
Wanted(a) == IF tx[a].pc = "store" THEN tx[a].store ELSE Min(tx[a].todo)

LEMMA WaitsForStores ==
    ASSUME TypeInv, Discipline, NEW S \in SUBSET Actors, Stuck(S), NEW a \in S
    PROVE  /\ tx[a].pc = "store" \/ (tx[a].pc = "insert" /\ tx[a].todo # {})
           /\ Wanted(a) \in Stores /\ storeLock[Wanted(a)] \in S
<1>. DEFINE w == tx[a]
<1>0. /\ \A c \in S : /\ tx[c] \in Work /\ Sound(tx[c]) /\ HasLocked(c) /\ LockedOnly(c)
                      /\ c \in Actors /\ c \notin Histories
      /\ Blockers(a) # {} /\ Blockers(a) \subseteq S
  BY Constants DEF TypeInv, SoundWork, Discipline, Stuck
<1>1. ASSUME NEW c \in S PROVE tx[c].pc \notin {"check", "commit"}
  <2>1. Blockers(c) # {}
    BY DEF Stuck
  <2>. QED
    BY <2>1, <1>0 DEF Blockers
<1>2. ASSUME w.pc = "child" PROVE FALSE
  <2>1. Blockers(a) = {lock[Own(a)]} \ {Nobody}
    BY <1>0, <1>2 DEF Blockers
  <2>2. PICK c \in S : lock[Own(a)] = c
    BY <2>1, <1>0
  <2>3. w.store \in Stores /\ storeLock[w.store] = a /\ w.bulk \in Bulks
    BY <1>0, <1>2 DEF Sound, HasLocked, PastChild
  <2>4. Own(a) \in Rows /\ Own(a)[2] = w.store /\ w.store # 0
    BY <2>3, RowNames, Constants DEF Own
  <2>5. tx[c].pc \in PastChild /\ tx[c].child # "same" /\ Own(a) = Own(c)
    BY <2>2, <2>4, <1>0, <1>1 DEF LockedOnly
  <2>6. tx[c].op # "settle" /\ tx[c].store \in Stores /\ tx[c].bulk \in Bulks
    BY <2>5, <1>0 DEF Sound, PastChild
  <2>7. tx[c].store = w.store
    BY <2>3, <2>5, <2>6, RowNames DEF Own
  <2>8. storeLock[w.store] = c
    BY <2>5, <2>6, <2>7, <1>0 DEF HasLocked
  <2>. QED
    BY <2>3, <2>5, <2>8, <1>2 DEF PastChild
<1>3. ASSUME w.pc \in {"parent", "latch"} PROVE FALSE
  <2>1. Blockers(a) \subseteq {lock[OwnParent(a)]}
    BY <1>0, <1>3 DEF Blockers
  <2>2. PICK c \in S : lock[OwnParent(a)] = c
    BY <2>1, <1>0
  <2>3. OwnParent(a) \in Rows /\ OwnParent(a)[2] = 0
    BY <1>0, <1>3, RowNames DEF Sound, OwnParent
  <2>4. tx[c].pc \in PastChild /\ tx[c].child # "same" /\ OwnParent(a) = Own(c)
    BY <2>2, <2>3, <1>0, <1>1 DEF LockedOnly
  <2>5. tx[c].store \in Stores /\ tx[c].bulk \in Bulks
    BY <2>4, <1>0 DEF Sound, PastChild
  <2>6. Own(c)[2] = tx[c].store
    BY <2>5, RowNames DEF Own
  <2>. QED
    BY <2>3, <2>4, <2>5, <2>6, Constants
<1>4. w.pc = "store" \/ (w.pc = "insert" /\ w.todo # {})
  <2>1. ~(w.pc = "insert" /\ w.todo = {}) /\ w.pc \notin {"idle", "next", "check", "commit"}
    BY <1>0 DEF Blockers
  <2>. QED
    BY <2>1, <1>0, <1>2, <1>3 DEF Work
<1>5. Wanted(a) \in Stores
  <2>1. w.pc = "store" => w.store \in Stores
    BY <1>0 DEF Sound
  <2>2. w.todo # {} => Min(w.todo) \in Stores
    BY <1>0, SetMinimum DEF Work
  <2>. QED
    BY <2>1, <2>2, <1>4 DEF Wanted
<1>6. storeLock[Wanted(a)] \in S
  <2>1. Blockers(a) = {storeLock[Wanted(a)]} \ {Nobody}
    BY <1>0, <1>4 DEF Blockers, Wanted
  <2>. QED
    BY <2>1, <1>0
<1>. QED
  BY <1>4, <1>5, <1>6

\* Whoever has the store that another waits for waits for a later one.
LEMMA LaterStore ==
    ASSUME TypeInv, Discipline, NEW S \in SUBSET Actors, Stuck(S), NEW a \in S
    PROVE  \E c \in S : Wanted(a) < Wanted(c)
<1>1. PICK c \in S : storeLock[Wanted(a)] = c
  BY WaitsForStores
<1>2. Wanted(a) \in Stores /\ LockedOnly(c) /\ tx[c] \in Work
  BY WaitsForStores DEF Discipline, TypeInv, BulkTypeOK
<1>3. tx[c].pc = "store" \/ (tx[c].pc = "insert" /\ tx[c].todo # {})
  BY WaitsForStores
<1>4. tx[c].pc = "insert" /\ tx[c].todo # {} /\ \A t \in tx[c].todo : Wanted(a) < t
  BY <1>1, <1>2, <1>3 DEF LockedOnly, PastChild
<1>5. Wanted(c) \in tx[c].todo
  BY <1>2, <1>4, SetMinimum DEF Wanted, Work
<1>. QED
  BY <1>4, <1>5

LEMMA NobodyStuck ==
    ASSUME TypeInv, Discipline
    PROVE  OnlySweepsDeadlock
<1>1. ASSUME NEW S \in SUBSET Actors, Stuck(S), S # {} PROVE FALSE
  <2>. DEFINE T == {Wanted(a) : a \in S}
  <2>1. T \in SUBSET Stores /\ T # {}
    BY <1>1, WaitsForStores
  <2>2. PICK n \in T : \A t \in T : t <= n
    BY <2>1, SetMaximum
  <2>3. PICK a \in S : n = Wanted(a)
    BY <2>2
  <2>4. PICK c \in S : Wanted(a) < Wanted(c)
    BY <1>1, LaterStore
  <2>5. Wanted(c) <= Wanted(a) /\ Wanted(a) \in Nat /\ Wanted(c) \in Nat
    BY <2>1, <2>2, <2>3, Constants
  <2>. QED
    BY <2>4, <2>5
<1>. QED
  BY <1>1 DEF OnlySweepsDeadlock

(***************************************************************************)
(* Requests and loops never wait for each other in a circle, for any       *)
(* number of stores: they lock stores before jobs, stores in order, and a  *)
(* child before its parent.  A circle needs a history sweep.               *)
(***************************************************************************)
THEOREM NoDeadlock == Spec => []OnlySweepsDeadlock
<1>1. Core => OnlySweepsDeadlock
  BY NobodyStuck DEF Core
<1>. QED
  BY <1>1, BulkCore, PTL

----------------------------------------------------------------------------
(* The end of a bulk *)

Ending == FinishedBulkIsDone /\ \A a \in Actors : EndsParent(a)

\* While a transaction has a running parent locked, no other child comes to run.
LEMMA NoChildOpens ==
    ASSUME Core, Next, NEW c \in Actors, tx'[c] = tx[c], NEW b \in Bulks, NEW s \in Stores,
           lock[P(b)] = c, row[P(b)] = "running",
           row[C(b, s)] \notin Unfinished
    PROVE  row'[C(b, s)] \notin Unfinished
<1>. DEFINE r == C(b, s)
<1>0. /\ TypeInv /\ r \in Rows /\ r[1] = b /\ r[2] = s /\ s # 0 /\ P(b) \in Rows
      /\ tx[c] \in Work /\ Sound(tx[c])
  BY RowNames, Constants DEF Core, TypeInv, SoundWork
<1>. HIDE DEF r
<1>1. SUFFICES ASSUME row'[r] # row[r], row'[r] \in Unfinished PROVE FALSE
  BY DEF r
<1>2. ASSUME NEW a \in Actors, ByCommit(a, r) PROVE FALSE
  <2>1. /\ Commit(a) /\ tx[a].pc = "commit" /\ tx[a].child = "running" /\ tx[a].bulk = b
        /\ tx[a].child \in Outcomes(tx[a].op, row[r])
    BY <1>0, <1>1, <1>2, CommitWrites DEF ByCommit, Unfinished
  <2>2. tx[a].op = "retry"
    BY <2>1, OutcomesAre
  <2>3. tx[a].parent = "running"
    BY <2>1, <2>2 DEF Core, Reads, ReadOfParent, OwnParent
  <2>4. lock[P(b)] = a
    BY <2>1, <2>3 DEF Core, Discipline, HasLocked, OwnParent
  <2>5. tx'[a].pc # "commit"
    BY <1>0, <2>1, CommitDoes, EndedPlace
  <2>. QED
    BY <2>1, <2>4, <2>5
<1>3. ASSUME NEW a \in Actors, ByStart(a, r) PROVE FALSE
  BY <1>0, <1>3 DEF ByStart, OwnParent
<1>4. ByItems(r) \/ BySweep(r) => FALSE
  BY <1>1 DEF ByItems, BySweep, Unfinished, r
<1>. QED
  BY <1>0, <1>1, <1>2, <1>3, <1>4, NextRows

LEMMA UntouchedEnds ==
    ASSUME Core, Next, NEW c \in Actors, EndsParent(c), tx'[c] = tx[c]
    PROVE  EndsParent(c)'
<1>. DEFINE w == tx[c]
<1>1. SUFFICES ASSUME w.parent = "finished", NEW s \in Stores
               PROVE  ~(Seen(c, C(w.bulk, s))' \in Unfinished)
  BY DEF EndsParent, SeesRunning
<1>2. /\ w.bulk \in Bulks /\ lock[P(w.bulk)] = c /\ row[P(w.bulk)] = "running"
  BY <1>1 DEF Core, TypeInv, SoundWork, Sound, PastChild, Discipline, HasLocked, Reads, ReadOfParent, OwnParent
<1>3. Seen(c, C(w.bulk, s)) \notin Unfinished
  BY <1>1 DEF EndsParent, SeesRunning
<1>4. CASE C(w.bulk, s) = Own(c) /\ w.child # "same"
  BY <1>3, <1>4 DEF Seen, Own
<1>5. CASE ~(C(w.bulk, s) = Own(c) /\ w.child # "same")
  <2>1. row[C(w.bulk, s)] \notin Unfinished
    BY <1>3, <1>5 DEF Seen
  <2>2. row'[C(w.bulk, s)] \notin Unfinished
    BY <1>2, <2>1, NoChildOpens
  <2>. QED
    BY <1>5, <2>2 DEF Seen, Own
<1>. QED
  BY <1>4, <1>5

LEMMA ActorEnds ==
    ASSUME TypeInv, NEW a \in Actors,
           \/ Step(a) \/ Reopens(a) \/ RolledBack(a) \/ Asks(a) \/ Finds(a)
    PROVE  EndsParent(a)'
<1>1. CASE CheckChildren(a)
  <2>1. SeesRunning(a)' = SeesRunning(a) /\ (tx'[a].parent = "finished" => ~SeesRunning(a))
    BY <1>1, CheckChildrenDoes DEF SeesRunning, Seen, Own, SameTask, SameRows
  <2>. QED
    BY <2>1 DEF EndsParent
<1>2. CASE ~CheckChildren(a)
  <2>1. tx'[a].parent # "finished"
    BY <1>2, InsertChildDoes, CommitStartDoes, LatchBulkDoes, NextChildDoes, LockStoreDoes, WriteChildDoes,
       LockParentDoes, CommitDoes, ReopensDoes, RolledBackDoes, NoWorkIs, AskPlaces DEF Step, Ended
  <2>. QED
    BY <2>1 DEF EndsParent
<1>. QED
  BY <1>1, <1>2

LEMMA NextEnding ==
    ASSUME Core, Ending, [Next]_vars
    PROVE  Ending'
<1>1. CASE UNCHANGED vars
  BY <1>1 DEF vars, Ending, FinishedBulkIsDone, EndsParent, SeesRunning, Seen, Own
<1>2. CASE Next
  <2>1. ASSUME NEW c \in Actors PROVE EndsParent(c)'
    BY <1>2, NextSteps, UntouchedEnds, ActorEnds, OthersUntouched, WorldDoes DEF Core, Ending, Untouched
  <2>2. ASSUME NEW b \in Bulks, row'[P(b)] = "finished", NEW s \in Stores
        PROVE  row'[C(b, s)] \notin Unfinished
    <3>. DEFINE p == P(b)
                r == C(b, s)
    <3>0. /\ TypeInv /\ p \in Rows /\ r \in Rows /\ p[1] = b /\ p[2] = 0 /\ r[1] = b /\ r[2] = s /\ s # 0
          /\ p # r
      BY RowNames, Constants DEF Core
    <3>. HIDE DEF p, r
    <3>1. CASE row[p] = "finished"
      <4>1. row[r] \notin Unfinished
        BY <3>1 DEF Ending, FinishedBulkIsDone, p, r
      <4>2. SUFFICES ASSUME row'[r] # row[r], row'[r] \in Unfinished PROVE FALSE
        BY <4>1 DEF r
      <4>3. ASSUME NEW a \in Actors, ByCommit(a, r) PROVE FALSE
        <5>1. /\ Commit(a) /\ tx[a].pc = "commit" /\ tx[a].child = "running" /\ tx[a].bulk = b
              /\ tx[a].child \in Outcomes(tx[a].op, row[r])
          BY <3>0, <4>2, <4>3, CommitWrites DEF ByCommit, Unfinished
        <5>2. tx[a].op = "retry"
          BY <5>1, OutcomesAre
        <5>3. tx[a].parent = "running"
          BY <3>1, <5>1, <5>2 DEF Core, Reads, ReadOfParent, OwnParent, p
        <5>4. row'[p] = Written(a, p) /\ OwnParent(a) = p
          BY <3>0, <5>1, CommitDoes DEF OwnParent, p
        <5>5. tx[a].store \in Stores
          BY <5>1, <5>2 DEF Core, TypeInv, SoundWork, Sound, PastChild
        <5>6. Own(a) # p
          BY <5>1, <5>5, RowNames DEF Own, p
        <5>. QED
          BY <2>2, <5>3, <5>4, <5>6 DEF Written, p
      <4>4. ASSUME NEW a \in Actors, ByStart(a, r) PROVE FALSE
        BY <3>0, <3>1, <4>4 DEF ByStart, OwnParent, p
      <4>5. ByItems(r) \/ BySweep(r) => FALSE
        BY <4>1, <4>2 DEF ByItems, BySweep, Unfinished
      <4>. QED
        BY <1>2, <3>0, <4>2, <4>3, <4>4, <4>5, NextRows
    <3>2. CASE row[p] # "finished"
      <4>1. PICK a \in Actors : ByCommit(a, p)
        <5>1. ASSUME NEW a \in Actors, ByStart(a, p) PROVE FALSE
          BY <2>2, <5>1 DEF ByStart, p
        <5>2. ByItems(p) \/ BySweep(p) => FALSE
          BY <2>2, <3>0, Constants DEF ByItems, BySweep, p
        <5>. QED
          BY <1>2, <2>2, <3>0, <3>2, <5>1, <5>2, NextRows DEF p
      <4>2. p = OwnParent(a) /\ tx[a].bulk = b /\ tx[a].parent = "finished" /\ Commit(a)
        BY <2>2, <3>0, <4>1, CommitWrites, Constants DEF ByCommit, p
      <4>3. ~SeesRunning(a)
        BY <4>2 DEF Ending, EndsParent
      <4>4. Seen(a, r) \notin Unfinished
        BY <4>2, <4>3 DEF SeesRunning, r
      <4>5. row'[r] = Written(a, r)
        BY <3>0, <4>2, CommitDoes
      <4>. QED
        BY <3>0, <4>2, <4>4, <4>5 DEF Seen, Written, r
    <3>. QED
      BY <3>1, <3>2
  <2>. QED
    BY <2>1, <2>2 DEF Ending, FinishedBulkIsDone
<1>. QED
  BY <1>1, <1>2

LEMMA InitEnding == Init => Ending
<1>. SUFFICES ASSUME Init PROVE Ending
  OBVIOUS
<1>1. (\A a \in Actors : tx[a] = NoWork) /\ \A r \in Rows : row[r] = "none"
  BY DEF Init
<1>. QED
  BY <1>1, NoWorkIs, RowNames DEF Ending, FinishedBulkIsDone, EndsParent

(***************************************************************************)
(* No parent is finished while a child of it runs.  A transaction that has *)
(* seen no child run has the parent's lock, and whoever opens a child      *)
(* writes the parent too.                                                  *)
(***************************************************************************)
THEOREM FinishedBulks == Spec => []FinishedBulkIsDone
<1>1. Ending => FinishedBulkIsDone
  BY DEF Ending
<1>. QED
  BY <1>1, InitEnding, NextEnding, BulkCore, PTL DEF Spec

----------------------------------------------------------------------------
(* The last child *)

Leaving == \A a \in Actors : LeavesParent(a)

\* While a transaction has a running parent locked, a child that runs goes on or is gone.
LEMMA NoOtherEnds ==
    ASSUME Core, Leaving, Next, NEW c \in Actors, tx'[c] = tx[c], NEW b \in Bulks, NEW s \in Stores,
           lock[P(b)] = c, row[P(b)] = "running",
           row[C(b, s)] \in Unfinished \cup {"gone"}
    PROVE  row'[C(b, s)] \in Unfinished \cup {"gone"}
<1>. DEFINE r == C(b, s)
<1>0. /\ TypeInv /\ r \in Rows /\ r[1] = b /\ r[2] = s /\ s # 0
  BY RowNames, Constants DEF Core
<1>. HIDE DEF r
<1>1. SUFFICES ASSUME row'[r] # row[r], row[r] \in Unfinished, row'[r] \notin Unfinished PROVE row'[r] = "gone"
  BY <1>0, RowsStay DEF r
<1>2. ASSUME NEW a \in Actors, ByCommit(a, r) PROVE FALSE
  <2>1. /\ Commit(a) /\ tx[a].pc = "commit" /\ tx[a].bulk = b /\ tx[a].store = s
        /\ tx[a].child \in Outcomes(tx[a].op, row[r]) /\ tx[a].child = row'[r]
    BY <1>0, <1>2, CommitWrites DEF ByCommit
  <2>2. tx[a].op # "retry" /\ tx[a].child # "same"
    BY <2>1, <1>1, OutcomesAre DEF Unfinished
  <2>3. a # c
    <3>1. tx'[a].pc # "commit"
      BY <1>0, <2>1, CommitDoes, EndedPlace
    <3>. QED
      BY <3>1, <2>1
  <2>4. tx[a].parent # "same" => lock[P(b)] = a
    BY <2>1 DEF Core, Discipline, HasLocked, OwnParent
  <2>5. tx[a].parent = "same" => lock[P(b)] = a
    <3>1. LeavesParent(a) /\ Own(a) = r /\ OwnParent(a) = P(b)
      BY <2>1 DEF Leaving, Own, OwnParent, r
    <3>. QED
      BY <3>1, <2>1, <2>2, <1>1 DEF LeavesParent
  <2>. QED
    BY <2>3, <2>4, <2>5
<1>3. ASSUME NEW a \in Actors, ByStart(a, r) PROVE FALSE
  BY <1>1, <1>3 DEF ByStart, Unfinished
<1>4. ~ByItems(r) /\ (BySweep(r) => row'[r] = "gone")
  BY <1>1 DEF ByItems, BySweep
<1>. QED
  BY <1>0, <1>1, <1>2, <1>3, <1>4, NextRows

LEMMA UntouchedLeaves ==
    ASSUME Core, Leaving, Next, NEW c \in Actors, Untouched(c)
    PROVE  LeavesParent(c)'
<1>. DEFINE w == tx[c]
<1>0. /\ TypeInv /\ Sound(w) /\ w \in Work /\ tx'[c] = w /\ Own(c)' = Own(c) /\ OwnParent(c)' = OwnParent(c)
      /\ c # Nobody /\ c \notin Histories /\ HasLocked(c) /\ ReadOfChild(c)
  BY Constants DEF Core, Discipline, Reads, TypeInv, SoundWork, Untouched, Own, OwnParent
<1>1. SUFFICES ASSUME w.pc = "commit", w.child # "same", w.op # "retry", w.parent = "same"
               PROVE  \/ row'[Own(c)] \notin Unfinished
                      \/ row'[OwnParent(c)] = "gone"
                      \/ /\ lock'[OwnParent(c)] = c /\ row'[OwnParent(c)] = "running"
                         /\ \E s \in Stores \ {w.store} : row'[C(w.bulk, s)] \in Unfinished \cup {"gone"}
  BY <1>0 DEF LeavesParent
<1>2. /\ w.bulk \in Bulks /\ w.op # "settle" /\ w.store \in Stores
      /\ lock[Own(c)] = c /\ storeLock[w.store] = c /\ w.child \in Outcomes(w.op, row[Own(c)])
  <2>1. w.bulk \in Bulks /\ w.op # "settle" /\ w.store \in Stores
    BY <1>0, <1>1 DEF Sound, PastChild
  <2>2. lock[Own(c)] = c /\ storeLock[w.store] = c
    BY <1>0, <1>1, <2>1 DEF HasLocked, PastChild
  <2>3. w.child \in Outcomes(w.op, row[Own(c)])
    BY <1>0, <1>1, <2>1 DEF ReadOfChild, PastChild
  <2>. QED
    BY <2>1, <2>2, <2>3
<1>3. ~Commit(c)
  <2>1. ASSUME Commit(c) PROVE FALSE
    BY <1>0, <2>1, CommitDoes, EndedPlace
  <2>. QED
    BY <2>1
<1>4. OwnParent(c) = P(w.bulk) /\ P(w.bulk) \in Rows /\ P(w.bulk)[2] = 0 /\ 0 \notin Stores
  BY <1>2, RowNames, Constants DEF OwnParent
<1>5. CASE row[Own(c)] \notin Unfinished
  <2>. DEFINE r == Own(c)
  <2>0. r \in Rows /\ r[2] = w.store
    BY <1>2, RowNames DEF Own
  <2>. HIDE DEF r
  <2>1. row[r] \notin {"none", "gone"}
    BY <1>2, OutcomesAre DEF Unfinished, r
  <2>2. ASSUME NEW a \in Actors, ByCommit(a, r) PROVE FALSE
    BY <1>2, <1>3, <2>2 DEF ByCommit, r
  <2>3. ASSUME NEW a \in Actors, ByStart(a, r) PROVE FALSE
    BY <2>1, <2>3 DEF ByStart
  <2>4. ByItems(r) \/ BySweep(r) => FALSE
    BY <1>0, <1>2, <2>0 DEF ByItems, BySweep, r
  <2>5. row'[r] = row[r]
    BY <2>0, <2>2, <2>3, <2>4, NextRows
  <2>. QED
    BY <1>5, <2>5 DEF r
<1>6. CASE row[OwnParent(c)] = "gone"
  BY <1>4, <1>6, RowsStay
<1>7. CASE /\ lock[OwnParent(c)] = c /\ row[OwnParent(c)] = "running"
           /\ \E s \in Stores \ {w.store} : row[C(w.bulk, s)] \in Unfinished \cup {"gone"}
  <2>. DEFINE p == OwnParent(c)
  <2>0. p \in Rows /\ p[2] \notin Stores /\ lock[p] = c /\ row[p] = "running"
    BY <1>4, <1>7
  <2>. HIDE DEF p
  <2>1. ASSUME NEW a \in Actors, ByCommit(a, p) PROVE FALSE
    BY <1>3, <2>0, <2>1 DEF ByCommit
  <2>2. ASSUME NEW a \in Actors, ByStart(a, p) PROVE FALSE
    BY <2>0, <2>2 DEF ByStart
  <2>3. ByItems(p) \/ BySweep(p) => FALSE
    BY <1>0, <2>0 DEF ByItems, BySweep
  <2>4. row'[p] = "running"
    BY <2>0, <2>1, <2>2, <2>3, NextRows
  <2>5. lock'[p] = c
    BY <2>0 DEF Untouched
  <2>6. PICK s \in Stores \ {w.store} : row[C(w.bulk, s)] \in Unfinished \cup {"gone"}
    BY <1>7
  <2>7. row'[C(w.bulk, s)] \in Unfinished \cup {"gone"}
    BY <1>0, <1>2, <1>4, <2>0, <2>6, NoOtherEnds DEF p
  <2>. QED
    BY <2>4, <2>5, <2>6, <2>7 DEF p
<1>. QED
  BY <1>1, <1>5, <1>6, <1>7 DEF Leaving, LeavesParent

LEMMA ActorLeaves ==
    ASSUME Core, Ending, NEW a \in Actors,
           \/ Step(a) \/ Reopens(a) \/ RolledBack(a) \/ Asks(a) \/ Finds(a)
    PROVE  LeavesParent(a)'
<1>. DEFINE w == tx[a]
            v == tx'[a]
<1>0. TypeInv /\ Sound(w) /\ w \in Work /\ HasLocked(a) /\ ReadOfParent(a)
  BY DEF Core, Discipline, Reads, TypeInv, SoundWork
<1>1. CASE ~(LockParent(a) \/ CheckChildren(a))
  <2>1. v.pc # "commit"
    BY <1>0, <1>1, InsertChildDoes, CommitStartDoes, LatchBulkDoes, NextChildDoes, LockStoreDoes, WriteChildDoes,
       CommitDoes, ReopensDoes, RolledBackDoes, NoWorkIs, AskPlaces, EndedPlace DEF Step
  <2>. QED
    BY <2>1 DEF LeavesParent
<1>2. CASE LockParent(a) \/ CheckChildren(a)
  <2>0. /\ SameTask(a) /\ v.child = w.child /\ row' = row /\ w.pc \in {"parent", "check"}
        /\ Own(a)' = Own(a) /\ OwnParent(a)' = OwnParent(a) /\ v.op = w.op /\ v.store = w.store /\ v.bulk = w.bulk
    BY <1>0, <1>2, LockParentDoes, CheckChildrenDoes DEF SameRows, SameTask, Own, OwnParent
  <2>1. SUFFICES ASSUME v.pc = "commit", w.child # "same", w.op # "retry", v.parent = "same",
                        row[Own(a)] \in Unfinished
                 PROVE  \/ row[OwnParent(a)] = "gone"
                        \/ /\ lock'[OwnParent(a)] = a /\ row[OwnParent(a)] = "running"
                           /\ \E s \in Stores \ {w.store} : row[C(w.bulk, s)] \in Unfinished \cup {"gone"}
    BY <2>0 DEF LeavesParent
  <2>2. w.bulk \in Bulks /\ w.store \in Stores
    BY <1>0, <2>0, <2>1 DEF Sound, PastChild
  <2>3. CASE LockParent(a)
    <3>1. row[OwnParent(a)] # "running"
      BY <1>0, <2>0, <2>1, <2>3, LockParentDoes
    <3>2. row[P(w.bulk)] \notin {"none", "finished"}
      BY <2>1, <2>2 DEF Core, Ground, Ending, FinishedBulkIsDone, Own, Unfinished
    <3>. QED
      BY <2>2, <3>1, <3>2 DEF Core, Ground, OwnParent
  <2>4. CASE CheckChildren(a)
    <3>1. SeesRunning(a) /\ SameLocks /\ w.pc = "check"
      BY <1>0, <2>1, <2>4, CheckChildrenDoes
    <3>2. PICK s \in Stores : Seen(a, C(w.bulk, s)) \in Unfinished
      BY <3>1 DEF SeesRunning
    <3>3. w.child \notin Unfinished
      BY <1>0, <2>1 DEF Sound, Unfinished
    <3>4. row[C(w.bulk, s)] \in Unfinished /\ s # w.store
      BY <2>1, <3>2, <3>3 DEF Seen, Own
    <3>5. lock'[OwnParent(a)] = a /\ row[OwnParent(a)] = "running"
      BY <1>0, <3>1 DEF HasLocked, ReadOfParent, SameLocks
    <3>. QED
      BY <3>4, <3>5
  <2>. QED
    BY <1>2, <2>3, <2>4
<1>. QED
  BY <1>1, <1>2

LEMMA NextLeaving ==
    ASSUME Core, Ending, Leaving, [Next]_vars
    PROVE  Leaving'
<1>1. CASE UNCHANGED vars
  BY <1>1 DEF vars, Leaving, LeavesParent, Own, OwnParent
<1>2. CASE Next
  BY <1>2, NextSteps, UntouchedLeaves, ActorLeaves, OthersUntouched, WorldUntouched DEF Core, Leaving
<1>. QED
  BY <1>1, <1>2

LEMMA InitLeaving == Init => Leaving
  BY NoWorkIs DEF Init, Leaving, LeavesParent

LEMMA LastEnds ==
    ASSUME Core, Ending, Leaving, [Next]_vars, NEW b \in Bulks, Runs(b), ~Runs(b)'
    PROVE  row'[P(b)] \in {"finished", "gone"} \/ \E s \in Stores : row'[C(b, s)] = "gone"
<1>1. CASE UNCHANGED vars
  BY <1>1 DEF vars, Runs
<1>2. CASE Next
  <2>1. PICK s \in Stores : row[C(b, s)] \in Unfinished
    BY DEF Runs
  <2>2. \A t \in Stores : row'[C(b, t)] \notin Unfinished
    BY DEF Runs
  <2>. DEFINE r == C(b, s)
  <2>3. /\ TypeInv /\ r \in Rows /\ r[1] = b /\ r[2] = s /\ s # 0 /\ row[r] \in Unfinished
        /\ row'[r] \notin Unfinished
    BY <2>1, <2>2, RowNames, Constants DEF Core
  <2>. HIDE DEF r
  <2>4. ASSUME BySweep(r) PROVE row'[C(b, s)] = "gone"
    BY <2>4 DEF BySweep, r
  <2>5. ASSUME NEW a \in Actors, ByStart(a, r) PROVE FALSE
    BY <2>3, <2>5 DEF ByStart, Unfinished
  <2>6. ~ByItems(r)
    BY <2>3 DEF ByItems
  <2>7. ASSUME NEW a \in Actors, ByCommit(a, r)
        PROVE  row'[P(b)] \in {"finished", "gone"} \/ \E t \in Stores : row'[C(b, t)] = "gone"
    <3>1. /\ Commit(a) /\ tx[a].pc = "commit" /\ tx[a].bulk = b /\ tx[a].store = s
          /\ tx[a].child \in Outcomes(tx[a].op, row[r]) /\ tx[a].child = row'[r]
      BY <2>3, <2>7, CommitWrites DEF ByCommit
    <3>2. tx[a].op # "retry" /\ tx[a].child # "same"
      BY <2>3, <3>1, OutcomesAre DEF Unfinished
    <3>3. Own(a) = r /\ OwnParent(a) = P(b) /\ P(b) \in Rows /\ P(b) # r
      BY <3>1, RowNames DEF Own, OwnParent, r
    <3>4. CASE tx[a].parent # "same"
      <4>1. tx[a].parent = "finished"
        BY <3>2, <3>4 DEF Core, TypeInv, SoundWork, Sound
      <4>2. row'[P(b)] = Written(a, P(b))
        BY <2>3, <3>1, <3>3, CommitDoes
      <4>. QED
        BY <3>3, <4>1, <4>2 DEF Written
    <3>5. CASE tx[a].parent = "same"
      <4>1. \/ row[P(b)] = "gone"
            \/ \E t \in Stores \ {s} : row[C(b, t)] \in Unfinished \cup {"gone"}
        BY <2>3, <3>1, <3>2, <3>3, <3>5 DEF Leaving, LeavesParent
      <4>2. CASE row[P(b)] = "gone"
        BY <1>2, <3>3, <4>2, RowsStay
      <4>3. ASSUME NEW t \in Stores \ {s}, row[C(b, t)] \in Unfinished \cup {"gone"}
            PROVE  row'[C(b, t)] = "gone"
        <5>1. C(b, t) \in Rows /\ C(b, t) # r /\ C(b, t) # P(b)
          BY RowNames DEF r
        <5>2. row'[C(b, t)] = row[C(b, t)]
          BY <2>3, <3>1, <3>3, <5>1, CommitDoes DEF Written
        <5>. QED
          BY <2>2, <4>3, <5>2
      <4>. QED
        BY <4>1, <4>2, <4>3
    <3>. QED
      BY <3>4, <3>5
  <2>8. row'[r] # row[r]
    BY <2>3
  <2>. QED
    BY <1>2, <2>3, <2>4, <2>5, <2>6, <2>7, <2>8, NextRows
<1>. QED
  BY <1>1, <1>2

(***************************************************************************)
(* With the last commit that ends a child of a bulk the parent is          *)
(* finished: of children that end together, the one that gets the parent's *)
(* lock last sees the others.                                              *)
(***************************************************************************)
THEOREM LastChildEnds == Spec => LastChildEndsParent
<1>1. Core /\ Ending /\ Leaving /\ [Next]_vars =>
        [\A b \in Bulks : Runs(b) /\ ~Runs(b)' =>
            row'[P(b)] \in {"finished", "gone"} \/ \E s \in Stores : row'[C(b, s)] = "gone"]_vars
  BY LastEnds
<1>. QED
  BY <1>1, InitEnding, NextEnding, InitLeaving, NextLeaving, BulkCore, PTL DEF Spec, LastChildEndsParent

----------------------------------------------------------------------------
(* A cancelled bulk *)

Cancelling == AnswersHold /\ \A a \in Actors : Cancels(a)

LEMMA OverStays ==
    ASSUME Core, Next, NEW b \in Bulks, NEW s \in Stores, Over(b, s)
    PROVE  Over(b, s)'
<1>. DEFINE r == C(b, s)
<1>0. /\ r \in Rows /\ r[1] = b /\ r[2] = s /\ s # 0 /\ P(b) \in Rows /\ row[P(b)] # "none"
      /\ row[r] \in {"none", "gone", "switched", "cancelled"}
  BY RowNames, Constants DEF Over
<1>. HIDE DEF r
<1>1. row'[P(b)] # "none"
  BY <1>0, RowsStay
<1>2. ASSUME NEW a \in Actors, ByCommit(a, r) PROVE FALSE
  BY <1>0, <1>2, CommitWrites DEF Unfinished
<1>3. ASSUME NEW a \in Actors, ByStart(a, r) PROVE FALSE
  BY <1>0, <1>3 DEF ByStart, OwnParent
<1>4. ~ByItems(r) /\ (BySweep(r) => row'[r] = "gone")
  BY <1>0 DEF ByItems, BySweep, Unfinished
<1>5. row'[r] \in {"none", "gone", "switched", "cancelled"}
  BY <1>0, <1>2, <1>3, <1>4, NextRows
<1>. QED
  BY <1>1, <1>5 DEF Over, r

LEMMA UntouchedCancels ==
    ASSUME Core, Next, NEW c \in Actors, Cancels(c), tx'[c] = tx[c]
    PROVE  Cancels(c)'
<1>1. CASE tx[c].op \in {"cancel", "settle"}
  <2>1. tx[c].bulk \in Bulks /\ P(tx[c].bulk) \in Rows
    BY <1>1, RowNames DEF Core, TypeInv, SoundWork, Sound
  <2>. QED
    BY <2>1, OverStays, RowsStay DEF Cancels
<1>2. CASE tx[c].op \notin {"cancel", "settle"}
  BY <1>2 DEF Cancels
<1>. QED
  BY <1>1, <1>2

\* A child that a cancel finds nothing to do for, or has cancelled, is over.
LEMMA NothingToCancel ==
    ASSUME Core, NEW b \in Bulks, NEW s \in Stores, row[P(b)] # "none",
           row[C(b, s)] \notin Unfinished \cup {"failed"}
    PROVE  Over(b, s)
<1>1. row[C(b, s)] \in States /\ row[C(b, s)] # "finished"
  BY RowNames DEF Core, Ground, TypeInv, BulkTypeOK
<1>. QED
  BY <1>1 DEF Over, States, Finished

LEMMA CommitCancels ==
    ASSUME Core, Next, NEW a \in Actors, Cancels(a), Commit(a)
    PROVE  Cancels(a)'
<1>. DEFINE w == tx[a]
<1>0. /\ TypeInv /\ Sound(w) /\ w \in Work /\ ReadOfChild(a) /\ Ended(a)
      /\ w.pc = "commit" /\ w.bulk \in Bulks
      /\ \A r \in Rows : row'[r] = Written(a, r)
  BY CommitDoes DEF Core, Reads, TypeInv, SoundWork
<1>b. PICK b \in Bulks : b = w.bulk
  BY <1>0
<1>1. SUFFICES ASSUME w.op = "cancel", w.whole, tx'[a].pc = "next", tx'[a].bulk = b, tx'[a].todo = w.todo
               PROVE  row'[P(b)] # "none" /\ \A s \in Stores \ w.todo : Over(b, s)'
  BY <1>0, <1>b, NoWorkIs DEF Cancels, Ended
<1>2. row'[P(b)] # "none"
  BY <1>0, <1>b, <1>1, RowsStay, RowNames DEF Cancels
<1>3. ASSUME NEW s \in Stores \ w.todo, s # w.store PROVE Over(b, s)'
  BY <1>0, <1>b, <1>1, <1>3, OverStays DEF Cancels
<1>t. PICK t \in Stores : t = w.store
  BY <1>0, <1>1 DEF Sound, PastChild
<1>4. Own(a) = C(b, t) /\ Own(a) \in Rows /\ Own(a) # OwnParent(a)
  BY <1>b, <1>t, RowNames DEF Own, OwnParent
<1>5. row'[C(b, t)] \in {"gone", "cancelled"}
  <2>1. CASE w.child \in Outcomes(w.op, row[Own(a)])
    <3>1. w.child = "cancelled"
      BY <1>1, <2>1, OutcomesAre
    <3>. QED
      BY <1>0, <1>4, <3>1 DEF Written
  <2>2. CASE row[Own(a)] = "gone"
    BY <1>4, <2>2, RowsStay
  <2>. QED
    BY <1>0, <1>1, <2>1, <2>2 DEF ReadOfChild, PastChild
<1>6. Over(b, t)'
  BY <1>2, <1>5 DEF Over
<1>. QED
  BY <1>2, <1>3, <1>t, <1>6

LEMMA ActorCancels ==
    ASSUME Core, Next, NEW a \in Actors, Cancels(a),
           \/ Step(a) \/ Reopens(a) \/ RolledBack(a) \/ Asks(a) \/ Finds(a)
    PROVE  Cancels(a)'
<1>. DEFINE w == tx[a]
            v == tx'[a]
<1>0. TypeInv /\ Sound(w) /\ w \in Work
  BY DEF Core, TypeInv, SoundWork
<1>1. CASE v.op \notin {"cancel", "settle"} \/ v.whole = FALSE
  BY <1>1 DEF Cancels
<1>2. CASE SameRows /\ SameTask(a) /\ (v.pc \notin {"latch", "next"} \/ w.pc \in {"latch", "next"})
  <2>1. /\ row' = row /\ v.op = w.op /\ v.whole = w.whole /\ v.bulk = w.bulk /\ v.todo = w.todo
        /\ v.store = w.store
    BY <1>2 DEF SameRows, SameTask
  <2>2. ASSUME NEW b, NEW s PROVE Over(b, s)' = Over(b, s)
    BY <2>1 DEF Over
  <2>3. PICK b : b = w.bulk
    OBVIOUS
  <2>4. ASSUME w.op = "cancel", w.whole
        PROVE  /\ row'[P(b)] # "none"
               /\ \A s \in Stores \ w.todo : v.pc \in {"latch", "next"} \/ s # w.store => Over(b, s)'
    <3>1. /\ row[P(b)] # "none"
          /\ \A s \in Stores \ w.todo : w.pc \in {"latch", "next"} \/ s # w.store => Over(b, s)
      BY <2>3, <2>4 DEF Cancels
    <3>2. ASSUME NEW s \in Stores \ w.todo, v.pc \in {"latch", "next"} \/ s # w.store PROVE Over(b, s)'
      BY <3>1, <3>2, <2>2, <1>2
    <3>. QED
      BY <2>1, <3>1, <3>2
  <2>5. ASSUME w.op = "settle", w.whole PROVE \A s \in Stores : Over(b, s)'
    BY <2>2, <2>3, <2>5 DEF Cancels
  <2>. QED
    BY <2>1, <2>3, <2>4, <2>5 DEF Cancels
<1>3. CASE InsertChild(a) \/ CommitStart(a)
  BY <1>0, <1>1, <1>3, InsertChildDoes, CommitStartDoes
<1>4. CASE LatchBulk(a)
  <2>1. row' = row /\ SameTask(a) /\ w.pc = "latch" /\ v.pc = "next"
    BY <1>0, <1>4, LatchBulkDoes
  <2>2. \A b, s : Over(b, s)' = Over(b, s)
    BY <2>1 DEF Over
  <2>. QED
    BY <2>1, <2>2 DEF Cancels, SameTask
<1>5. CASE NextChild(a)
  <2>1. row' = row /\ w.pc = "next" /\ w.whole = TRUE
    BY <1>0, <1>5, NextChildDoes DEF SameRows, Sound, Work
  <2>2. \A b, s : Over(b, s)' = Over(b, s)
    BY <2>1 DEF Over
  <2>3. CASE /\ v.pc = "store" /\ v.op = w.op /\ v.whole = w.whole
             /\ v.bulk = w.bulk /\ v.todo = w.todo \ {v.store}
    BY <1>0, <1>5, <2>1, <2>2, <2>3, NextChildDoes DEF Cancels
  <2>4. CASE w.todo = {} /\ w.op = "cancel" /\ v.op = "settle" /\ v.bulk = w.bulk
    BY <2>1, <2>2, <2>4 DEF Cancels
  <2>5. CASE v.op = "none"
    BY <1>1, <2>5
  <2>. QED
    BY <1>0, <1>5, <2>3, <2>4, <2>5, NextChildDoes
<1>6. CASE LockStore(a)
  <2>1. SameRows /\ w.pc = "store" /\ w.store \in Stores /\ row' = row /\ w.bulk \in Bulks
    BY <1>0, <1>6, LockStoreDoes DEF SameRows, Sound
  <2>2. CASE SameTask(a) /\ v.pc = "child"
    BY <1>2, <2>1, <2>2
  <2>3. CASE Ended(a) /\ (w.op = "cancel" => Outcomes(w.op, row[Own(a)]) = {})
    <3>1. SUFFICES ASSUME w.op = "cancel", w.whole, v.pc = "next", v.op = "cancel", v.bulk = w.bulk, v.todo = w.todo
                   PROVE  row[P(w.bulk)] # "none" /\ \A s \in Stores \ w.todo : Over(w.bulk, s)
      <4>1. \A b, s : Over(b, s)' = Over(b, s)
        BY <2>1 DEF Over
      <4>. QED
        BY <1>0, <2>1, <2>3, <4>1, NoWorkIs DEF Cancels, Ended
    <3>2. row[C(w.bulk, w.store)] \notin Unfinished \cup {"failed"}
      BY <2>3, <3>1 DEF Outcomes, Own
    <3>3. row[P(w.bulk)] # "none"
      BY <3>1 DEF Cancels
    <3>4. Over(w.bulk, w.store)
      BY <2>1, <3>2, <3>3, NothingToCancel
    <3>. QED
      BY <2>1, <3>1, <3>3, <3>4 DEF Cancels
  <2>. QED
    BY <1>0, <1>6, <2>2, <2>3, LockStoreDoes
<1>7. CASE WriteChild(a)
  <2>1. SameRows /\ w.pc = "child"
    BY <1>0, <1>7, WriteChildDoes
  <2>2. CASE SameTask(a) /\ v.pc = "parent"
    BY <1>2, <2>1, <2>2
  <2>3. CASE w.op = "retry" /\ Ended(a)
    BY <1>1, <2>3, NoWorkIs DEF Ended
  <2>. QED
    BY <1>0, <1>7, <2>2, <2>3, WriteChildDoes
<1>8. CASE LockParent(a) \/ CheckChildren(a)
  <2>1. SameRows /\ SameTask(a) /\ v.pc \in {"check", "commit"}
    BY <1>0, <1>8, LockParentDoes, CheckChildrenDoes
  <2>. QED
    BY <1>2, <2>1
<1>9. CASE Commit(a)
  BY <1>9, CommitCancels
<1>10. CASE Reopens(a)
  <2>1. Ended(a) /\ w.op = "finalize"
    BY <1>0, <1>10, ReopensDoes
  <2>. QED
    BY <1>1, <2>1, NoWorkIs DEF Ended
<1>11. CASE RolledBack(a)
  BY <1>0, <1>1, <1>11, RolledBackDoes, NoWorkIs
<1>12. CASE Asks(a) \/ Finds(a)
  <2>1. ASSUME NEW b \in Bulks, StartBulk(a, b) \/ RetryBulk(a, b)
        PROVE  v.op \notin {"cancel", "settle"}
    BY <1>0, <2>1, StartBulkDoes, RetryBulkDoes DEF Begins
  <2>2. ASSUME NEW b \in Bulks, EndParent(a, b) PROVE v.whole = FALSE
    BY <1>0, <2>2, EndParentDoes DEF Begins
  <2>3. ASSUME NEW b \in Bulks, NEW s \in Stores, AskChild(a, b, s) \/ EndChild(a, b, s) PROVE v.whole = FALSE
    BY <1>0, <2>3, AskChildDoes DEF Begins
  <2>4. ASSUME NEW b \in Bulks, CancelBulk(a, b) PROVE Cancels(a)'
    <3>1. /\ row' = row /\ row[P(b)] # "none" /\ v.op = "cancel" /\ v.bulk = b
          /\ v.todo = {s \in Stores : row[C(b, s)] \in Unfinished \cup {"failed"}}
      BY <1>0, <2>4, CancelBulkDoes DEF Begins, SameRows
    <3>2. \A s \in Stores \ v.todo : Over(b, s)
      BY <3>1, NothingToCancel
    <3>3. \A s : Over(b, s)' = Over(b, s)
      BY <3>1 DEF Over
    <3>. QED
      BY <3>1, <3>2, <3>3 DEF Cancels
  <2>. QED
    BY <1>1, <1>12, <2>1, <2>2, <2>3, <2>4 DEF Asks, Finds
<1>. QED
  BY <1>3, <1>4, <1>5, <1>6, <1>7, <1>8, <1>9, <1>10, <1>11, <1>12 DEF Step

LEMMA NextCancelling ==
    ASSUME Core, Cancelling, [Next]_vars
    PROVE  Cancelling'
<1>1. CASE UNCHANGED vars
  BY <1>1 DEF vars, Cancelling, AnswersHold, Cancels, Over
<1>2. CASE Next
  <2>0. TypeInv /\ answered \subseteq Bulks
    BY DEF Core, TypeInv, BulkTypeOK
  <2>1. ASSUME NEW c \in Actors PROVE Cancels(c)'
    BY <1>2, NextSteps, UntouchedCancels, ActorCancels, OthersUntouched, WorldDoes DEF Core, Cancelling, Untouched
  <2>2. ASSUME NEW b \in answered', NEW s \in Stores PROVE Over(b, s)'
    <3>1. CASE b \in answered
      BY <1>2, <2>0, <3>1, OverStays DEF Cancelling, AnswersHold
    <3>2. CASE b \notin answered
      <4>1. PICK a \in Actors : Commit(a) /\ tx[a].op = "settle" /\ tx[a].whole /\ b = tx[a].bulk
        <5>1. ASSUME NEW a \in Actors, Step(a) \/ Reopens(a) \/ RolledBack(a) \/ Asks(a) \/ Finds(a), ~Commit(a)
              PROVE  answered' = answered
          BY <2>0, <5>1, InsertChildDoes, CommitStartDoes, LatchBulkDoes, NextChildDoes, LockStoreDoes,
             WriteChildDoes, LockParentDoes, CheckChildrenDoes, ReopensDoes, RolledBackDoes, AskLocks DEF Step, SameRows
        <5>2. PICK a \in Actors : Commit(a)
          BY <1>2, <2>0, <2>2, <3>2, <5>1, NextSteps, WorldDoes
        <5>3. answered' = IF tx[a].op = "settle" /\ tx[a].whole THEN answered \cup {tx[a].bulk} ELSE answered
          BY <2>0, <5>2, CommitDoes
        <5>. QED
          BY <2>2, <3>2, <5>2, <5>3
      <4>2. Over(b, s) /\ b \in Bulks
        BY <4>1, CommitDoes, <2>0 DEF Cancelling, Cancels
      <4>. QED
        BY <1>2, <4>2, OverStays
    <3>. QED
      BY <3>1, <3>2
  <2>. QED
    BY <2>1, <2>2 DEF Cancelling, AnswersHold
<1>. QED
  BY <1>1, <1>2

LEMMA InitCancelling == Init => Cancelling
  BY NoWorkIs DEF Init, Cancelling, AnswersHold, Cancels

(***************************************************************************)
(* When the cancel of a bulk is answered, each child has switched or is    *)
(* cancelled and stays so: the request has got through the children that   *)
(* could still run, and nothing can open one that it has passed.           *)
(***************************************************************************)
THEOREM CancelledBulks == Spec => []CancelledBulkIsOver
<1>1. Cancelling => CancelledBulkIsOver
  BY DEF Cancelling, AnswersHold, Over, CancelledBulkIsOver
<1>. QED
  BY <1>1, InitCancelling, NextCancelling, BulkCore, PTL DEF Spec
=============================================================================
