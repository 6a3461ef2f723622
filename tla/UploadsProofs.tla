--------------------------- MODULE UploadsProofs ---------------------------
(***************************************************************************)
(* Proofs about Uploads, for any number of uploads, parts, requests and    *)
(* sweepers and for any limits.                                            *)
(*                                                                         *)
(* The invariant adds to the types what the locks are for: a request that  *)
(* is past the lock works on a pending upload (so nothing ends an upload   *)
(* twice), and while the owner's advisory lock is held there is room for   *)
(* one more upload.  The clock of a transaction stands still, the real one *)
(* does not: what a request takes for lapsed has lapsed, so it counts at   *)
(* least the uploads that are open.                                        *)
(***************************************************************************)
EXTENDS Uploads, FiniteSetTheorems, TLAPS

Open == Pending \ due

AtWorkOnOne ==
    \A c \in Clients : client[c].pc \in {"begun", "locked"} => client[c].id \in Ids

LockedIsPending ==
    \A c \in Clients : client[c].pc = "locked" => status[client[c].id] = "pending"

PastIsPast == \A c \in Clients : client[c].past \subseteq due

PartsFit ==
    \A id \in Ids : IsFiniteSet(parts[id]) /\ Cardinality(parts[id]) <= Declared

RoomForOne ==
    /\ Cardinality(Open) <= MaxPending
    /\ creating \in Clients => Cardinality(Open) < MaxPending

UploadsInv ==
    /\ UploadsTypeOK
    /\ AtWorkOnOne
    /\ LockedIsPending
    /\ PastIsPast
    /\ PartsFit
    /\ RoomForOne

\* What EndedIsFinal says of one step.
KeepsEnded ==
    \A id \in Ids : status[id] \in Terminal =>
        /\ status'[id] \in {status[id], "old"}
        /\ parts'[id] \subseteq parts[id]
        /\ id \in files' => id \in files

Right == UploadsInv' /\ KeepsEnded

LEMMA OpenIsFinite == IsFiniteSet(Open) /\ Cardinality(Open) \in Nat
<1>1. Open \subseteq Ids
    BY DEF Open, Pending
<1>2. IsFiniteSet(Open)
    BY <1>1, UploadsAssumption, FS_Subset DEF UploadsAssumption
<1>3. QED
    BY <1>2, FS_CardinalityType

\* Room is not lost when no upload opens and nobody takes the owner's lock.
LEMMA RoomIsKept ==
    ASSUME RoomForOne, Open' \subseteq Open, creating' \in {creating, Nobody}
    PROVE  RoomForOne'
<1>1. Cardinality(Open') <= Cardinality(Open) /\ Cardinality(Open') \in Nat
    BY OpenIsFinite, FS_Subset, FS_CardinalityType
<1>2. MaxPending \in Nat /\ Nobody \notin Clients
    BY UploadsAssumption DEF UploadsAssumption
<1>3. QED
    BY <1>1, <1>2, OpenIsFinite DEF RoomForOne

LEMMA OneMore ==
    ASSUME NEW S, NEW x, IsFiniteSet(S)
    PROVE  /\ IsFiniteSet(S \cup {x})
           /\ Cardinality(S) \in Nat
           /\ Cardinality(S \cup {x}) \in Nat
           /\ Cardinality(S \cup {x}) <= Cardinality(S) + 1
<1>1. /\ IsFiniteSet(S \cup {x})
      /\ Cardinality(S \cup {x}) = IF x \in S THEN Cardinality(S) ELSE Cardinality(S) + 1
    BY FS_AddElement
<1>2. Cardinality(S) \in Nat
    BY FS_CardinalityType
<1>3. QED
    BY <1>1, <1>2

\* Fewer parts fit as well.
LEMMA FewerFit ==
    ASSUME PartsFit, \A id \in Ids : parts'[id] \subseteq parts[id]
    PROVE  PartsFit'
<1> SUFFICES ASSUME NEW id \in Ids
             PROVE  IsFiniteSet(parts'[id]) /\ Cardinality(parts'[id]) <= Declared
    BY DEF PartsFit
<1>1. IsFiniteSet(parts[id]) /\ Cardinality(parts[id]) <= Declared
    BY DEF PartsFit
<1>2. IsFiniteSet(parts'[id]) /\ Cardinality(parts'[id]) <= Cardinality(parts[id])
    BY <1>1, FS_Subset
<1>3. Cardinality(parts'[id]) \in Nat /\ Cardinality(parts[id]) \in Nat /\ Declared \in Nat
    BY <1>1, <1>2, FS_CardinalityType, UploadsAssumption DEF UploadsAssumption
<1>4. QED
    BY <1>1, <1>2, <1>3

---------------------------------------------------------------------------
(* Create *)

LEMMA BeginCreateRight ==
    ASSUME UploadsInv, NEW c \in Clients, BeginCreate(c) PROVE Right
<1> USE DEF UploadsInv, BeginCreate
<1>1. UploadsTypeOK'
    BY DEF UploadsTypeOK, Requests, Operations
<1>2. AtWorkOnOne' /\ LockedIsPending' /\ PastIsPast'
    BY DEF AtWorkOnOne, LockedIsPending, PastIsPast, UploadsTypeOK, NoRequest
<1>3. PartsFit' /\ RoomForOne'
    BY DEF PartsFit, RoomForOne, Open, Pending
<1>4. QED
    BY <1>1, <1>2, <1>3 DEF Right, KeepsEnded

\* What it counted are at least the open uploads, and it counted fewer than the
\* limit.
LEMMA CountPendingRight ==
    ASSUME UploadsInv, NEW c \in Clients, CountPending(c) PROVE Right
<1> USE DEF UploadsInv, CountPending
<1>1. UploadsTypeOK'
    BY UploadsAssumption DEF UploadsTypeOK, Requests, UploadsAssumption
<1>2. AtWorkOnOne' /\ LockedIsPending' /\ PastIsPast'
    BY DEF AtWorkOnOne, LockedIsPending, PastIsPast, UploadsTypeOK
<1>3. PartsFit'
    BY DEF PartsFit
<1>4. RoomForOne'
    <2> DEFINE counted == Counted(client[c].past)
    <2>1. Open \subseteq counted /\ counted \subseteq Ids
        BY DEF Open, Counted, Pending, PastIsPast
    <2>2. IsFiniteSet(counted)
        BY <2>1, UploadsAssumption, FS_Subset DEF UploadsAssumption
    <2>3. Cardinality(Open) <= Cardinality(counted) /\ Cardinality(counted) \in Nat
        BY <2>1, <2>2, FS_Subset, FS_CardinalityType
    <2>4. Cardinality(counted) < MaxPending /\ Open' = Open
        BY DEF Open, Pending
    <2>5. QED
        BY <2>3, <2>4, OpenIsFinite, UploadsAssumption DEF RoomForOne, UploadsAssumption
<1>5. QED
    BY <1>1, <1>2, <1>3, <1>4 DEF Right, KeepsEnded

LEMMA TooManyPendingRight ==
    ASSUME UploadsInv, NEW c \in Clients, TooManyPending(c) PROVE Right
<1> USE DEF UploadsInv, TooManyPending, Ended
<1>1. UploadsTypeOK'
    BY UploadsAssumption DEF UploadsTypeOK, Requests, NoRequest, Operations, UploadsAssumption
<1>2. AtWorkOnOne' /\ LockedIsPending' /\ PastIsPast'
    BY DEF AtWorkOnOne, LockedIsPending, PastIsPast, UploadsTypeOK, NoRequest
<1>3. PartsFit' /\ RoomForOne'
    BY DEF PartsFit, RoomForOne, Open, Pending
<1>4. QED
    BY <1>1, <1>2, <1>3 DEF Right, KeepsEnded

LEMMA InsertUploadRight ==
    ASSUME UploadsInv, NEW c \in Clients, NEW u \in Ids, InsertUpload(c, u) PROVE Right
<1> USE DEF UploadsInv, InsertUpload, Ended
<1>0. creating = c
    BY DEF UploadsTypeOK
<1>1. UploadsTypeOK'
    BY <1>0, UploadsAssumption
       DEF UploadsTypeOK, Requests, NoRequest, Operations, Terminal, UploadsAssumption
<1>2. AtWorkOnOne' /\ LockedIsPending' /\ PastIsPast'
    BY DEF AtWorkOnOne, LockedIsPending, PastIsPast, UploadsTypeOK, NoRequest
<1>3. PartsFit'
    BY DEF PartsFit
<1>4. RoomForOne'
    <2>1. Open' \subseteq Open \cup {u}
        BY DEF Open, Pending, UploadsTypeOK
    <2>2. Cardinality(Open \cup {u}) <= Cardinality(Open) + 1 /\ IsFiniteSet(Open \cup {u})
        BY OpenIsFinite, OneMore
    <2>3. Cardinality(Open') <= Cardinality(Open \cup {u}) /\ Cardinality(Open') \in Nat
        BY <2>1, <2>2, FS_Subset, FS_CardinalityType
    <2>4. Cardinality(Open \cup {u}) \in Nat /\ Cardinality(Open) < MaxPending
        BY <1>0, <2>2, FS_CardinalityType DEF RoomForOne
    <2>5. QED
        BY <2>2, <2>3, <2>4, OpenIsFinite, UploadsAssumption DEF RoomForOne, UploadsAssumption
<1>5. KeepsEnded
    BY DEF KeepsEnded, Terminal, UploadsTypeOK
<1>6. QED
    BY <1>1, <1>2, <1>3, <1>4, <1>5 DEF Right

---------------------------------------------------------------------------
(* Add a part, complete, cancel *)

LEMMA BeginRight ==
    ASSUME UploadsInv, NEW c \in Clients, NEW op \in Operations, NEW u \in Ids,
           Begin(c, op, u)
    PROVE  Right
<1> USE DEF UploadsInv, Begin
<1>1. UploadsTypeOK'
    BY UploadsAssumption DEF UploadsTypeOK, Requests, Operations, UploadsAssumption
<1>2. AtWorkOnOne' /\ LockedIsPending' /\ PastIsPast'
    BY DEF AtWorkOnOne, LockedIsPending, PastIsPast, UploadsTypeOK
<1>3. PartsFit' /\ RoomForOne'
    BY DEF PartsFit, RoomForOne, Open, Pending
<1>4. QED
    BY <1>1, <1>2, <1>3 DEF Right, KeepsEnded

LEMMA LockPendingUploadRight ==
    ASSUME UploadsInv, NEW c \in Clients, LockPendingUpload(c) PROVE Right
<1> USE DEF UploadsInv, LockPendingUpload, Ended
<1>0. client[c].id \in Ids
    BY DEF AtWorkOnOne
<1>1. UploadsTypeOK'
    <2>1. CASE Accepts(c)
        <3>1. client' \in [Clients -> Requests] /\ lock' \in [Ids -> Clients \cup {Nobody}]
            BY <2>1 DEF UploadsTypeOK, Requests
        <3>2. \A d \in Clients : /\ client'[d].pc = (IF d = c THEN "locked" ELSE client[d].pc)
                                /\ client'[d].id = client[d].id
            BY <2>1 DEF UploadsTypeOK, Requests
        <3>3. \A d \in Clients : creating' = d <=> client'[d].pc = "insert"
            BY <3>2 DEF UploadsTypeOK
        <3>4. \A d \in Clients, id \in Ids :
                  lock'[id] = d <=> client'[d].pc = "locked" /\ client'[d].id = id
            BY <1>0, <2>1, <3>2, UploadsAssumption DEF UploadsTypeOK, UploadsAssumption
        <3>5. QED
            BY <3>1, <3>3, <3>4 DEF UploadsTypeOK
    <2>2. CASE ~Accepts(c)
        BY <1>0, <2>2 DEF UploadsTypeOK, Requests, NoRequest, Operations
    <2>3. QED
        BY <2>1, <2>2
<1>2. AtWorkOnOne' /\ LockedIsPending' /\ PastIsPast'
    <2>1. CASE Accepts(c)
        <3>1. /\ client' = [client EXCEPT ![c].pc = "locked"]
              /\ status[client[c].id] = "pending"
              /\ UNCHANGED <<status, due>>
            BY <2>1 DEF Accepts
        <3>2. client \in [Clients -> Requests]
            BY DEF UploadsTypeOK
        <3>3. \A d \in Clients : /\ client'[d].id = client[d].id
                                /\ client'[d].past = client[d].past
                                /\ d # c => client'[d].pc = client[d].pc
            BY <3>1, <3>2 DEF Requests
        <3>4. QED
            BY <1>0, <3>1, <3>3 DEF AtWorkOnOne, LockedIsPending, PastIsPast
    <2>2. CASE ~Accepts(c)
        BY <2>2 DEF AtWorkOnOne, LockedIsPending, PastIsPast, UploadsTypeOK, NoRequest
    <2>3. QED
        BY <2>1, <2>2
<1>3. PartsFit' /\ RoomForOne'
    BY DEF PartsFit, RoomForOne, Open, Pending
<1>4. QED
    BY <1>1, <1>2, <1>3 DEF Right, KeepsEnded

\* A request past the lock holds the lock of a pending upload, and alone.
LEMMA WorkingHolds ==
    ASSUME UploadsInv, NEW c \in Clients, client[c].pc = "locked"
    PROVE  /\ client[c].id \in Ids
           /\ lock[client[c].id] = c
           /\ status[client[c].id] = "pending"
           /\ creating # c
BY DEF UploadsInv, UploadsTypeOK, AtWorkOnOne, LockedIsPending

\* What a request leaves behind when it gives its locks back.
LEMMA UnlocksRight ==
    ASSUME UploadsInv, NEW c \in Clients, client[c].pc = "locked", Unlocks(c),
           creating' = creating,
           due' = due,
           status' \in [Ids -> {"none", "pending", "old"} \cup Terminal],
           \A id \in Ids : id # client[c].id => status'[id] = status[id]
    PROVE  /\ lock' \in [Ids -> Clients \cup {Nobody}]
           /\ client' \in [Clients -> Requests]
           /\ \A d \in Clients : creating' = d <=> client'[d].pc = "insert"
           /\ \A d \in Clients, id \in Ids :
                  lock'[id] = d <=> client'[d].pc = "locked" /\ client'[d].id = id
           /\ AtWorkOnOne'
           /\ LockedIsPending'
           /\ PastIsPast'
<1> USE DEF UploadsInv, Unlocks, Ended
<1>1. /\ client[c].id \in Ids
      /\ lock[client[c].id] = c
      /\ creating # c
    BY WorkingHolds
<1>2. /\ lock' \in [Ids -> Clients \cup {Nobody}]
      /\ client' \in [Clients -> Requests]
    BY DEF UploadsTypeOK, Requests, NoRequest, Operations
<1>3. \A d \in Clients : creating' = d <=> client'[d].pc = "insert"
    BY <1>1 DEF UploadsTypeOK, NoRequest
<1>4. \A d \in Clients, id \in Ids :
          lock'[id] = d <=> client'[d].pc = "locked" /\ client'[d].id = id
    BY <1>1, UploadsAssumption DEF UploadsTypeOK, NoRequest, UploadsAssumption
<1>5. AtWorkOnOne' /\ PastIsPast'
    BY DEF AtWorkOnOne, PastIsPast, UploadsTypeOK, NoRequest
<1>6. LockedIsPending'
    <2> SUFFICES ASSUME NEW d \in Clients, client'[d].pc = "locked"
                 PROVE  status'[client'[d].id] = "pending"
        BY DEF LockedIsPending
    <2>1. d # c /\ client'[d] = client[d]
        BY DEF UploadsTypeOK, NoRequest
    <2>2. lock[client[d].id] = d /\ client[d].id \in Ids /\ status[client[d].id] = "pending"
        BY <2>1, WorkingHolds
    <2>3. client[d].id # client[c].id
        BY <1>1, <2>1, <2>2
    <2>4. QED
        BY <2>1, <2>2, <2>3
<1>7. QED
    BY <1>2, <1>3, <1>4, <1>5, <1>6

LEMMA AddUploadPartRight ==
    ASSUME UploadsInv, NEW c \in Clients, NEW p \in PartIds, AddUploadPart(c, p)
    PROVE  Right
<1> DEFINE u == client[c].id
<1> USE DEF UploadsInv, AddUploadPart, Working
<1>1. u \in Ids /\ status[u] = "pending"
    BY WorkingHolds
<1>2. /\ parts' = [parts EXCEPT ![u] = parts[u] \cup {p}]
      /\ parts \in [Ids -> SUBSET PartIds]
      /\ sent' \subseteq PartIds
    BY DEF UploadsTypeOK
<1>3. /\ parts' \in [Ids -> SUBSET PartIds]
      /\ parts'[u] = parts[u] \cup {p}
      /\ \A id \in Ids : id # u => parts'[id] = parts[id]
    BY <1>1, <1>2
<1>4. UploadsTypeOK' /\ AtWorkOnOne' /\ LockedIsPending' /\ PastIsPast'
    BY <1>2, <1>3, UnlocksRight DEF UploadsTypeOK
<1>5. PartsFit'
    <2>1. IsFiniteSet(parts[u]) /\ Cardinality(parts[u]) + 1 <= Declared
        BY <1>1 DEF PartsFit
    <2>2. IsFiniteSet(parts[u] \cup {p}) /\ Cardinality(parts[u] \cup {p}) <= Declared
        <3>1. /\ IsFiniteSet(parts[u] \cup {p})
              /\ Cardinality(parts[u]) \in Nat
              /\ Cardinality(parts[u] \cup {p}) \in Nat
              /\ Cardinality(parts[u] \cup {p}) <= Cardinality(parts[u]) + 1
            BY <2>1, OneMore
        <3>2. Declared \in Nat
            BY UploadsAssumption DEF UploadsAssumption
        <3>3. QED
            BY <2>1, <3>1, <3>2
    <2>3. QED
        BY <1>3, <2>1, <2>2 DEF PartsFit
<1>6. RoomForOne'
    BY RoomIsKept DEF Open, Pending
<1>7. KeepsEnded
    BY <1>1, <1>3 DEF KeepsEnded, Terminal
<1>8. QED
    BY <1>4, <1>5, <1>6, <1>7 DEF Right

\* Completing and cancelling: the upload ends and its parts go.
LEMMA EndRight ==
    ASSUME UploadsInv, NEW c \in Clients, client[c].pc = "locked", Unlocks(c),
           NEW outcome \in {"completed", "cancelled"},
           status' = [status EXCEPT ![client[c].id] = outcome],
           parts' = [parts EXCEPT ![client[c].id] = {}],
           files' \subseteq files \cup {client[c].id},
           UNCHANGED <<due, sent, creating, sweep>>
    PROVE  Right
<1> DEFINE u == client[c].id
<1> USE DEF UploadsInv
<1>1. u \in Ids /\ status[u] = "pending"
    BY WorkingHolds
<1>2. /\ status' \in [Ids -> {"none", "pending", "old"} \cup Terminal]
      /\ parts' \in [Ids -> SUBSET PartIds]
      /\ files' \subseteq Ids
    BY <1>1 DEF UploadsTypeOK, Terminal
<1>3. \A id \in Ids : /\ id # u => status'[id] = status[id]
                      /\ parts'[id] \subseteq parts[id]
    BY <1>1 DEF UploadsTypeOK
<1>4. UploadsTypeOK' /\ AtWorkOnOne' /\ LockedIsPending' /\ PastIsPast'
    BY <1>2, <1>3, UnlocksRight DEF UploadsTypeOK
<1>5. PartsFit'
    BY <1>3, FewerFit
<1>6. RoomForOne'
    <2>1. status'[u] # "pending"
        BY <1>1 DEF UploadsTypeOK
    <2>2. Open' \subseteq Open
        BY <1>3, <2>1 DEF Open, Pending
    <2>3. QED
        BY <2>2, RoomIsKept
<1>7. KeepsEnded
    BY <1>1, <1>3 DEF KeepsEnded, Terminal
<1>8. QED
    BY <1>4, <1>5, <1>6, <1>7 DEF Right

LEMMA CompleteUploadRight ==
    ASSUME UploadsInv, NEW c \in Clients, NEW named \in SUBSET PartIds,
           CompleteUpload(c, named)
    PROVE  Right
BY EndRight DEF CompleteUpload, Working

LEMMA CancelUploadRight ==
    ASSUME UploadsInv, NEW c \in Clients, CancelUpload(c) PROVE Right
BY EndRight DEF CancelUpload, Working

LEMMA RollBackRight ==
    ASSUME UploadsInv, NEW c \in Clients, RollBack(c) PROVE Right
<1> USE DEF UploadsInv, RollBack, Ended
<1>1. UploadsTypeOK'
    BY UploadsAssumption DEF UploadsTypeOK, Requests, NoRequest, Operations, UploadsAssumption
<1>2. AtWorkOnOne' /\ LockedIsPending' /\ PastIsPast'
    BY DEF AtWorkOnOne, LockedIsPending, PastIsPast, UploadsTypeOK, NoRequest
<1>3. PartsFit'
    BY DEF PartsFit
<1>4. RoomForOne'
    BY RoomIsKept DEF Open, Pending
<1>5. QED
    BY <1>1, <1>2, <1>3, <1>4 DEF Right, KeepsEnded

---------------------------------------------------------------------------
(* Time and the expiry sweeper *)

LEMMA LapseRight ==
    ASSUME UploadsInv, NEW u \in Ids, Lapse(u) PROVE Right
<1> USE DEF UploadsInv, Lapse
<1>1. UploadsTypeOK' /\ AtWorkOnOne' /\ LockedIsPending' /\ PastIsPast' /\ PartsFit'
    BY DEF UploadsTypeOK, AtWorkOnOne, LockedIsPending, PastIsPast, PartsFit
<1>2. RoomForOne'
    BY RoomIsKept DEF Open, Pending
<1>3. QED
    BY <1>1, <1>2 DEF Right, KeepsEnded

LEMMA StartPassRight ==
    ASSUME UploadsInv, NEW s \in Sweepers, StartPass(s) PROVE Right
<1> USE DEF UploadsInv, StartPass
<1>1. UNION {parts[id] : id \in Ids} \subseteq PartIds
    BY DEF UploadsTypeOK
<1>2. UploadsTypeOK'
    BY <1>1 DEF UploadsTypeOK, Passes, Pending
<1>3. AtWorkOnOne' /\ LockedIsPending' /\ PastIsPast' /\ PartsFit' /\ RoomForOne'
    BY DEF AtWorkOnOne, LockedIsPending, PastIsPast, PartsFit, RoomForOne, Open, Pending
<1>4. QED
    BY <1>2, <1>3 DEF Right, KeepsEnded

LEMMA SkipRowRight ==
    ASSUME UploadsInv, NEW s \in Sweepers, NEW u \in Ids, SkipRow(s, u) PROVE Right
<1> USE DEF UploadsInv, SkipRow, Done
<1>1. UploadsTypeOK'
    BY DEF UploadsTypeOK, Passes
<1>2. AtWorkOnOne' /\ LockedIsPending' /\ PastIsPast' /\ PartsFit' /\ RoomForOne'
    BY DEF AtWorkOnOne, LockedIsPending, PastIsPast, PartsFit, RoomForOne, Open, Pending
<1>3. QED
    BY <1>1, <1>2 DEF Right, KeepsEnded

\* A row that ends while nobody holds its lock; what it keeps of its parts is open.
LEMMA RowEnds ==
    ASSUME UploadsInv, NEW u \in Ids, NEW outcome \in {"expired", "old"},
           \A c \in Clients : client[c].pc = "locked" => client[c].id # u,
           status' = [status EXCEPT ![u] = outcome],
           parts' \in [Ids -> SUBSET PartIds],
           \A id \in Ids : parts'[id] \subseteq parts[id],
           sweep' \in [Sweepers -> Passes],
           UNCHANGED <<due, sent, files, lock, creating, client>>
    PROVE  UploadsInv'
<1> USE DEF UploadsInv
<1>1. UploadsTypeOK'
    <2>1. status' \in [Ids -> {"none", "pending", "old"} \cup Terminal]
        BY DEF UploadsTypeOK, Terminal
    <2>2. QED
        BY <2>1 DEF UploadsTypeOK
<1>2. AtWorkOnOne' /\ PastIsPast'
    BY DEF AtWorkOnOne, PastIsPast
<1>3. LockedIsPending'
    BY DEF LockedIsPending, AtWorkOnOne, UploadsTypeOK
<1>4. PartsFit'
    BY FewerFit
<1>5. RoomForOne'
    <2>1. Open' \subseteq Open
        BY DEF Open, Pending, UploadsTypeOK
    <2>2. QED
        BY <2>1, RoomIsKept
<1>6. QED
    BY <1>1, <1>2, <1>3, <1>4, <1>5

LEMMA ExpireRowRight ==
    ASSUME UploadsInv, NEW s \in Sweepers, NEW u \in Ids, ExpireRow(s, u) PROVE Right
<1> USE DEF ExpireRow, Done
<1>1. \A c \in Clients : client[c].pc = "locked" => client[c].id # u
    BY WorkingHolds, UploadsAssumption DEF UploadsAssumption
<1>2. /\ parts' = [parts EXCEPT ![u] = parts[u] \ sweep[s].seen]
      /\ parts \in [Ids -> SUBSET PartIds]
      /\ sweep \in [Sweepers -> Passes]
    BY DEF UploadsInv, UploadsTypeOK
<1>3. /\ parts' \in [Ids -> SUBSET PartIds]
      /\ \A id \in Ids : parts'[id] \subseteq parts[id]
    BY <1>2
<1>4. sweep' \in [Sweepers -> Passes]
    BY <1>2 DEF Passes
<1>5. UploadsInv'
    BY <1>1, <1>3, <1>4, RowEnds
<1>6. KeepsEnded
    BY <1>3 DEF KeepsEnded, Terminal, UploadsInv, UploadsTypeOK
<1>7. QED
    BY <1>5, <1>6 DEF Right

LEMMA DeleteOldRight ==
    ASSUME UploadsInv, NEW u \in Ids, DeleteOld(u) PROVE Right
<1> USE DEF DeleteOld
<1>1. /\ parts' \in [Ids -> SUBSET PartIds]
      /\ \A id \in Ids : parts'[id] \subseteq parts[id]
      /\ sweep' \in [Sweepers -> Passes]
    BY DEF UploadsInv, UploadsTypeOK
<1>2. UploadsInv'
    BY <1>1, RowEnds
<1>3. KeepsEnded
    BY <1>1 DEF KeepsEnded, Terminal, UploadsInv, UploadsTypeOK
<1>4. QED
    BY <1>2, <1>3 DEF Right

---------------------------------------------------------------------------
(* Every step, and the theorems *)

LEMMA InitRight == Init => UploadsInv
<1> SUFFICES ASSUME Init PROVE UploadsInv
    OBVIOUS
<1> USE DEF Init
<1>1. UploadsTypeOK
    BY UploadsAssumption
       DEF UploadsTypeOK, Requests, NoRequest, Operations, Passes, NoPass, UploadsAssumption
<1>2. AtWorkOnOne /\ LockedIsPending /\ PastIsPast
    BY DEF AtWorkOnOne, LockedIsPending, PastIsPast, NoRequest
<1>3. PartsFit
    BY FS_EmptySet, UploadsAssumption DEF PartsFit, UploadsAssumption
<1>4. RoomForOne
    <2>1. Open = {}
        BY DEF Open, Pending
    <2>2. QED
        BY <2>1, FS_EmptySet, UploadsAssumption DEF RoomForOne, UploadsAssumption
<1>5. QED
    BY <1>1, <1>2, <1>3, <1>4 DEF UploadsInv

LEMMA NextRight == UploadsInv /\ [Next]_vars => UploadsInv' /\ (Next => KeepsEnded)
<1> SUFFICES ASSUME UploadsInv, [Next]_vars
             PROVE  UploadsInv' /\ (Next => KeepsEnded)
    OBVIOUS
<1>1. CASE UNCHANGED vars
    BY <1>1 DEF UploadsInv, UploadsTypeOK, AtWorkOnOne, LockedIsPending, PastIsPast, PartsFit,
                RoomForOne, Open, Pending, KeepsEnded, vars
<1>2. ASSUME NEW c \in Clients, Request(c) PROVE Right
    BY <1>2, BeginCreateRight, CountPendingRight, TooManyPendingRight, InsertUploadRight,
       BeginRight, LockPendingUploadRight, AddUploadPartRight, CompleteUploadRight,
       CancelUploadRight, RollBackRight
       DEF Request, Finish
<1>3. ASSUME NEW s \in Sweepers, Expire(s) PROVE Right
    BY <1>3, StartPassRight, SkipRowRight, ExpireRowRight DEF Expire
<1>4. ASSUME NEW u \in Ids, Lapse(u) \/ DeleteOld(u) PROVE Right
    BY <1>4, LapseRight, DeleteOldRight
<1>5. QED
    BY <1>1, <1>2, <1>3, <1>4 DEF Next, Right

LEMMA Invariant == Spec => []UploadsInv
<1>1. UploadsInv /\ [Next]_vars => UploadsInv'
    BY NextRight
<1>2. QED
    BY <1>1, InitRight, PTL DEF Spec

(***************************************************************************)
(* The rows, the transactions and the passes stay well formed, and a lock  *)
(* is always held by the request that works under it.                      *)
(***************************************************************************)
THEOREM UploadsTyped == Spec => []UploadsTypeOK
<1>1. UploadsInv => UploadsTypeOK
    BY DEF UploadsInv
<1>2. QED
    BY <1>1, Invariant, PTL

(***************************************************************************)
(* However many requests race, the parts of an upload never exceed its     *)
(* declared size, and an owner's open uploads never exceed the limit.      *)
(***************************************************************************)
THEOREM InBounds == Spec => []UploadsStayInBounds
<1>1. UploadsInv => UploadsStayInBounds
    BY DEF UploadsInv, UploadsStayInBounds, PartsFit, RoomForOne, Open
<1>2. QED
    BY <1>1, Invariant, PTL

(***************************************************************************)
(* No request and no expiry pass changes the outcome of an upload that has *)
(* ended, and none gives it a part or a file.                              *)
(***************************************************************************)
THEOREM EndedStaysEnded == Spec => EndedIsFinal
<1>1. UploadsInv /\ [Next]_vars => [KeepsEnded]_vars
    BY NextRight
<1>2. QED
    BY <1>1, Invariant, PTL DEF Spec, EndedIsFinal, KeepsEnded
============================================================================
