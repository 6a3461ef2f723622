------------------------------ MODULE Uploads ------------------------------
(***************************************************************************)
(* The Uploads API on the database: an owner's upload is created, receives *)
(* parts, and is completed into a file, cancelled or expired.  Requests    *)
(* run on several gateways; each is one transaction that locks the row of  *)
(* its upload first.                                                       *)
(*                                                                         *)
(* Granularity.  A transaction begins (its now() is that moment for good), *)
(* locks its upload, and commits or fails.  The expiry pass is a statement *)
(* with one snapshot: what it sees of the parts is what was committed when *)
(* it began.                                                               *)
(*                                                                         *)
(* One owner is modelled: uploads of two owners share nothing.  A part is  *)
(* a unit of size, so that the order of parts and the md5 are left out.    *)
(***************************************************************************)
EXTENDS Naturals, FiniteSets

CONSTANTS
    Ids,         \* uploads created in one behaviour
    PartIds,     \* parts sent in one behaviour
    Declared,    \* parts that every upload declares as its size
    MaxPending,  \* MAX_PENDING_UPLOADS_PER_OWNER
    Clients,     \* requests at a time
    Sweepers,    \* expiry sweepers, one per gateway
    Nobody

ASSUME UploadsAssumption ==
    /\ IsFiniteSet(Ids)
    /\ IsFiniteSet(PartIds)
    /\ Declared \in Nat \ {0}
    /\ MaxPending \in Nat \ {0}
    /\ Nobody \notin Ids \cup Clients

VARIABLES
    status,   \* of each upload; "none": not created yet, "old": deleted with its parts
    due,      \* uploads whose expires_at has passed
    parts,    \* fs_upload_parts, by upload
    sent,     \* parts that were sent
    files,    \* uploads that became a file
    lock,     \* holder of each upload's row lock
    creating, \* holder of the owner's advisory lock
    client,   \* what each request is doing
    sweep     \* what each expiry pass is doing

vars == <<status, due, parts, sent, files, lock, creating, client, sweep>>

Terminal == {"completed", "cancelled", "expired"}

Operations == {"part", "complete", "cancel"}

\* past: the uploads, of those it asks about, whose deadline had passed when the
\* transaction began.
Requests == [pc : {"idle", "create", "insert", "begun", "locked"},
             op : Operations, id : Ids \cup {Nobody}, past : SUBSET Ids]
NoRequest == [pc |-> "idle", op |-> "part", id |-> Nobody, past |-> {}]

\* seen: the parts in the statement's snapshot.
Passes == [todo : SUBSET Ids, seen : SUBSET PartIds]
NoPass == [todo |-> {}, seen |-> {}]

\* With it, that a lock is held by a request that is at work under it.
UploadsTypeOK ==
    /\ status \in [Ids -> {"none", "pending", "old"} \cup Terminal]
    /\ due \subseteq Ids
    /\ parts \in [Ids -> SUBSET PartIds]
    /\ sent \subseteq PartIds
    /\ files \subseteq Ids
    /\ lock \in [Ids -> Clients \cup {Nobody}]
    /\ creating \in Clients \cup {Nobody}
    /\ client \in [Clients -> Requests]
    /\ sweep \in [Sweepers -> Passes]
    /\ \A c \in Clients : creating = c <=> client[c].pc = "insert"
    /\ \A c \in Clients, id \in Ids :
           lock[id] = c <=> client[c].pc = "locked" /\ client[c].id = id

Init ==
    /\ status = [id \in Ids |-> "none"]
    /\ due = {}
    /\ parts = [id \in Ids |-> {}]
    /\ sent = {}
    /\ files = {}
    /\ lock = [id \in Ids |-> Nobody]
    /\ creating = Nobody
    /\ client = [c \in Clients |-> NoRequest]
    /\ sweep = [s \in Sweepers |-> NoPass]

Pending == {id \in Ids : status[id] = "pending"}

Ended(c) == client' = [client EXCEPT ![c] = NoRequest]

---------------------------------------------------------------------------
(* Create *)

BeginCreate(c) ==
    /\ client[c].pc = "idle"
    /\ client' = [client EXCEPT ![c] = [pc |-> "create", op |-> "part", id |-> Nobody,
                                     past |-> due]]
    /\ UNCHANGED <<status, due, parts, sent, files, lock, creating, sweep>>

\* A lapsed upload counts for as long as it holds parts.
Counted(past) == {id \in Pending : id \notin past \/ parts[id] # {}}

\* Seeded fault: counted before the owner's lock is had.
CountPending_NoLock(c) ==
    /\ client[c].pc = "create"
    /\ Cardinality(Counted(client[c].past)) < MaxPending
    /\ creating' = c
    /\ client' = [client EXCEPT ![c].pc = "insert"]
    /\ UNCHANGED <<status, due, parts, sent, files, lock, sweep>>

CountPending(c) ==
    /\ client[c].pc = "create"
    /\ creating = Nobody
    /\ Cardinality(Counted(client[c].past)) < MaxPending
    /\ creating' = c
    /\ client' = [client EXCEPT ![c].pc = "insert"]
    /\ UNCHANGED <<status, due, parts, sent, files, lock, sweep>>

TooManyPending(c) ==
    /\ client[c].pc = "create"
    /\ creating = Nobody
    /\ Cardinality(Counted(client[c].past)) >= MaxPending
    /\ Ended(c)
    /\ UNCHANGED <<status, due, parts, sent, files, lock, creating, sweep>>

InsertUpload(c, id) ==
    /\ client[c].pc = "insert"
    /\ status[id] = "none"
    /\ status' = [status EXCEPT ![id] = "pending"]
    /\ creating' = Nobody
    /\ Ended(c)
    /\ UNCHANGED <<due, parts, sent, files, lock, sweep>>

---------------------------------------------------------------------------
(* Add a part, complete, cancel *)

Begin(c, op, id) ==
    /\ client[c].pc = "idle"
    /\ status[id] # "none"
    /\ client' = [client EXCEPT ![c] = [pc |-> "begun", op |-> op, id |-> id,
                                     past |-> due \cap {id}]]
    /\ UNCHANGED <<status, due, parts, sent, files, lock, creating, sweep>>

\* Seeded fault: only the deadline is looked at.
Accepts_DeadlineOnly(c) == client[c].id \notin client[c].past

Accepts(c) == status[client[c].id] = "pending" /\ client[c].id \notin client[c].past

\* A pending upload past its deadline is expired, marked or not.
LockPendingUpload(c) ==
    LET id == client[c].id IN
    /\ client[c].pc = "begun"
    /\ lock[id] = Nobody
    /\ IF Accepts(c)
       THEN /\ lock' = [lock EXCEPT ![id] = c]
            /\ client' = [client EXCEPT ![c].pc = "locked"]
       ELSE UNCHANGED lock /\ Ended(c)
    /\ UNCHANGED <<status, due, parts, sent, files, creating, sweep>>

Working(c, op) == client[c].pc = "locked" /\ client[c].op = op

Unlocks(c) == lock' = [lock EXCEPT ![client[c].id] = Nobody] /\ Ended(c)

AddUploadPart(c, p) ==
    LET id == client[c].id IN
    /\ Working(c, "part")
    /\ p \notin sent
    /\ Cardinality(parts[id]) + 1 <= Declared
    /\ parts' = [parts EXCEPT ![id] = @ \cup {p}]
    /\ sent' = sent \cup {p}
    /\ Unlocks(c)
    /\ UNCHANGED <<status, due, files, creating, sweep>>

\* The parts it names must be parts of the upload and have its declared size;
\* all parts go.  The file, its blob and the upload commit together.
CompleteUpload(c, named) ==
    LET id == client[c].id IN
    /\ Working(c, "complete")
    /\ named \subseteq parts[id]
    /\ Cardinality(named) = Declared
    /\ status' = [status EXCEPT ![id] = "completed"]
    /\ parts' = [parts EXCEPT ![id] = {}]
    /\ files' = files \cup {id}
    /\ Unlocks(c)
    /\ UNCHANGED <<due, sent, creating, sweep>>

CancelUpload(c) ==
    LET id == client[c].id IN
    /\ Working(c, "cancel")
    /\ status' = [status EXCEPT ![id] = "cancelled"]
    /\ parts' = [parts EXCEPT ![id] = {}]
    /\ Unlocks(c)
    /\ UNCHANGED <<due, sent, files, creating, sweep>>

\* Seeded fault: the locks are not given back.
RollBack_KeepsLocks(c) ==
    /\ client[c].pc # "idle"
    /\ Ended(c)
    /\ UNCHANGED <<status, due, parts, sent, files, lock, creating, sweep>>

\* A refusal, an error or a crash: the transaction is rolled back.
RollBack(c) ==
    /\ client[c].pc # "idle"
    /\ lock' = [id \in Ids |-> IF lock[id] = c THEN Nobody ELSE lock[id]]
    /\ creating' = IF creating = c THEN Nobody ELSE creating
    /\ Ended(c)
    /\ UNCHANGED <<status, due, parts, sent, files, sweep>>

---------------------------------------------------------------------------
(* Time and the expiry sweeper *)

Lapse(id) ==
    /\ status[id] = "pending"
    /\ due' = due \cup {id}
    /\ UNCHANGED <<status, parts, sent, files, lock, creating, client, sweep>>

\* The statement begins: its snapshot.
StartPass(s) ==
    /\ sweep[s].todo = {}
    /\ Pending \cap due # {}
    /\ sweep' = [sweep EXCEPT ![s] = [todo |-> Pending \cap due,
                                      seen |-> UNION {parts[id] : id \in Ids}]]
    /\ UNCHANGED <<status, due, parts, sent, files, lock, creating, client>>

\* It comes to a row: one that is locked it skips, one that has changed it
\* looks at again.
Done(s, id) == sweep' = [sweep EXCEPT ![s].todo = @ \ {id}]

SkipRow(s, id) ==
    /\ id \in sweep[s].todo
    /\ lock[id] # Nobody \/ status[id] # "pending"
    /\ Done(s, id)
    /\ UNCHANGED <<status, due, parts, sent, files, lock, creating, client>>

\* Seeded fault: an upload that has no parts is left alone.
ExpireRow_WithParts(s, id) ==
    /\ id \in sweep[s].todo
    /\ lock[id] = Nobody
    /\ status[id] = "pending"
    /\ status' = [status EXCEPT ![id] = IF parts[id] # {} THEN "expired" ELSE @]
    /\ parts' = [parts EXCEPT ![id] = @ \ sweep[s].seen]
    /\ Done(s, id)
    /\ UNCHANGED <<due, sent, files, lock, creating, client>>

ExpireRow(s, id) ==
    /\ id \in sweep[s].todo
    /\ lock[id] = Nobody
    /\ status[id] = "pending"
    /\ status' = [status EXCEPT ![id] = "expired"]
    /\ parts' = [parts EXCEPT ![id] = @ \ sweep[s].seen]
    /\ Done(s, id)
    /\ UNCHANGED <<due, sent, files, lock, creating, client>>

\* A terminal upload is deleted thirty days after its creation, no request on
\* it being that old.
DeleteOld(id) ==
    /\ status[id] \in Terminal
    /\ \A c \in Clients : client[c].id # id
    /\ status' = [status EXCEPT ![id] = "old"]
    /\ parts' = [parts EXCEPT ![id] = {}]
    /\ UNCHANGED <<due, sent, files, lock, creating, client, sweep>>

---------------------------------------------------------------------------

Finish(c) ==
    \/ \E p \in PartIds : AddUploadPart(c, p)
    \/ \E named \in SUBSET PartIds : CompleteUpload(c, named)
    \/ CancelUpload(c)
    \/ RollBack(c)

Request(c) ==
    \/ BeginCreate(c) \/ CountPending(c) \/ TooManyPending(c)
    \/ \E id \in Ids : InsertUpload(c, id) \/ \E op \in Operations : Begin(c, op, id)
    \/ LockPendingUpload(c)
    \/ Finish(c)

Expire(s) == StartPass(s) \/ \E id \in Ids : SkipRow(s, id) \/ ExpireRow(s, id)

Next ==
    \/ \E c \in Clients : Request(c)
    \/ \E s \in Sweepers : Expire(s)
    \/ \E id \in Ids : Lapse(id) \/ DeleteOld(id)

Spec == Init /\ [][Next]_vars

---------------------------------------------------------------------------
(* Safety *)

(***************************************************************************)
(* Parts that arrive together never bring an upload over its declared      *)
(* size, and the uploads that still accept parts never exceed the owner's  *)
(* limit, however creates are interleaved.                                 *)
(***************************************************************************)
UploadsStayInBounds ==
    /\ \A id \in Ids : Cardinality(parts[id]) <= Declared
    /\ Cardinality(Pending \ due) <= MaxPending

(***************************************************************************)
(* Of two operations that end an upload the second sees the first one's    *)
(* outcome: an upload that ended keeps its status and gets no part and no  *)
(* file, whatever the second one had found before it waited for the lock.  *)
(***************************************************************************)
EndedIsFinal == [][
    \A id \in Ids : status[id] \in Terminal =>
        /\ status'[id] \in {status[id], "old"}
        /\ parts'[id] \subseteq parts[id]
        /\ id \in files' => id \in files]_vars

---------------------------------------------------------------------------
(* Liveness *)

\* A pass starts over and over and works off its rows, and every request ends.
Fairness ==
    /\ \A s \in Sweepers : /\ WF_vars(Expire(s))
                           /\ \A id \in Ids : SF_vars(ExpireRow(s, id))
    /\ \A c \in Clients : WF_vars(Finish(c) \/ LockPendingUpload(c))

FairSpec == Spec /\ Fairness

(***************************************************************************)
(* A lapsed upload does not stay pending, although the expiry pass skips   *)
(* it whenever a request holds it.                                         *)
(***************************************************************************)
LapsedUploadsEnd == \A id \in Ids : id \in due /\ status[id] = "pending" ~> status[id] # "pending"
============================================================================
