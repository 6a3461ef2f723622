----------------------------- MODULE SiemExport -----------------------------
(***************************************************************************)
(* The export of events to SIEM endpoints: a gateway appends an event to a *)
(* stream; an admin process reads it as a member of a consumer group,      *)
(* writes it to the outbox and acknowledges it; its dispatcher sends what  *)
(* is pending for a sink and settles it; its reconciliation adds the       *)
(* delivery rows that are missing.                                         *)
(*                                                                         *)
(* Granularity.  Every statement commits on its own, so an action is one   *)
(* statement, one call of the stream or one answer of a sink.  The domain  *)
(* tables are read by nobody here: their insert and the read of the        *)
(* configuration are one step.  An admin process has one consumer loop,    *)
(* one dispatch at a time for each sink and one reconciliation at a time;  *)
(* a rolling update runs two processes.                                    *)
(*                                                                         *)
(* Backoff and intervals are left out: a dispatch may begin at any time.   *)
(* The configuration is forwarding to all sinks, and no row is older than  *)
(* the reconciliation's look-back.                                         *)
(***************************************************************************)
EXTENDS Naturals, Sequences, FiniteSets

CONSTANTS
    Events,
    Kinds,       \* what events may be like: [Events -> Fates]
    Sinks,
    Admins,      \* processes
    BatchSize,   \* rows per dispatch
    MaxAttempts, \* DEFAULT_MAX_ATTEMPTS
    MaxFaults,   \* bound of this model: faults of any kind in one behaviour
    Ingest,      \* as the writer of a delivery row: the ingest path
    NoEvent

\* The database rejects an event with a data error, a sink rejects it for good, or
\* neither does.
Fates == {"good", "rejected", "poison"}

ASSUME SiemAssumption ==
    /\ Kinds \subseteq [Events -> Fates]
    /\ BatchSize \in Nat \ {0}
    /\ MaxAttempts \in Nat \ {0}
    /\ MaxFaults \in Nat
    /\ Ingest \notin Admins
    /\ IsFiniteSet(Admins)
    /\ NoEvent \notin Events

VARIABLES
    kind,     \* of each event, for good
    entry,    \* of each event, in the stream and its consumer group
    outbox,   \* SiemOutbox: the events written, in order
    delivery, \* SiemDelivery
    sent,     \* <<row, sink>>: what the sink has received
    consumer, \* each process's consumer loop
    dispatch, \* each process's dispatch to each sink
    missing,  \* what each process's reconciliation is about to insert
    faults    \* so far

vars == <<kind, entry, outbox, delivery, sent, consumer, dispatch, missing, faults>>

Rows == 1..Len(outbox)

\* by: who inserted the row. Two rows may be about the same event and sink.
Deliveries == [row : Nat, sink : Sinks, by : Admins \cup {Ingest},
               status : {"pending", "delivered", "expired"}, attempts : Nat]

Pending(r, s, by) ==
    [row |-> r, sink |-> s, by |-> by, status |-> "pending", attempts |-> 0]

\* todo: the entries it was given and has not dealt with; event: the one at hand.
Loops == [pc : {"next", "outbox", "deliver", "ack"}, todo : SUBSET Events,
          event : Events \cup {NoEvent}, sinks : SUBSET Sinks, row : Nat]
Waiting(todo) == [pc |-> "next", todo |-> todo, event |-> NoEvent, sinks |-> {}, row |-> 0]

\* rest: the rows still to be sent one by one; seen: the rows as markFailed read them.
Dispatches == [pc : {"read", "send", "mark", "failed", "update"},
               batch : SUBSET Nat, rest : SUBSET Nat, seen : SUBSET Deliveries]
At(pc, batch, rest, seen) == [pc |-> pc, batch |-> batch, rest |-> rest, seen |-> seen]
NoBatch == At("read", {}, {}, {})

SiemTypeOK ==
    /\ kind \in Kinds
    /\ entry \in [Events -> {"none", "new", "claimed", "idle", "acked", "lost"}]
    /\ outbox \in Seq(Events)
    /\ delivery \subseteq Deliveries
    /\ \A d \in delivery : d.row \in Rows
    /\ sent \subseteq Rows \X Sinks
    /\ consumer \in [Admins -> Loops]
    /\ dispatch \in [Admins -> [Sinks -> Dispatches]]
    /\ missing \in [Admins -> SUBSET (Rows \X Sinks)]
    /\ faults \in 0..MaxFaults

Init ==
    /\ kind \in Kinds
    /\ entry = [e \in Events |-> "none"]
    /\ outbox = <<>>
    /\ delivery = {}
    /\ sent = {}
    /\ consumer = [a \in Admins |-> Waiting({})]
    /\ dispatch = [a \in Admins |-> [s \in Sinks |-> NoBatch]]
    /\ missing = [a \in Admins |-> {}]
    /\ faults = 0

Fault == faults < MaxFaults /\ faults' = faults + 1

---------------------------------------------------------------------------
(* The stream *)

Publish(e) ==
    /\ entry[e] = "none"
    /\ entry' = [entry EXCEPT ![e] = "new"]
    /\ UNCHANGED <<kind, outbox, delivery, sent, consumer, dispatch, missing, faults>>

\* The stream is trimmed to its length, or starts over empty.
Forget(e) ==
    /\ entry[e] \in {"new", "claimed", "idle"}
    /\ Fault
    /\ entry' = [entry EXCEPT ![e] = "lost"]
    /\ UNCHANGED <<kind, outbox, delivery, sent, consumer, dispatch, missing>>

Held(e) == \E a \in Admins : e \in consumer[a].todo

\* Nobody has acknowledged the entry for RECLAIM_MIN_IDLE_MS.
Abandoned(e) == entry[e] = "claimed" /\ ~Held(e)

LapseIdle(e) ==
    /\ Abandoned(e)
    /\ entry' = [entry EXCEPT ![e] = "idle"]
    /\ UNCHANGED <<kind, outbox, delivery, sent, consumer, dispatch, missing, faults>>

\* A consumer needs longer than that for the entries it was given.
LapseHeld(e) ==
    /\ entry[e] = "claimed"
    /\ Held(e)
    /\ Fault
    /\ entry' = [entry EXCEPT ![e] = "idle"]
    /\ UNCHANGED <<kind, outbox, delivery, sent, consumer, dispatch, missing>>

---------------------------------------------------------------------------
(* Ingest *)

Given(a, state) ==
    LET given == {e \in Events : entry[e] = state} IN
    /\ consumer[a].todo = {}
    /\ given # {}
    /\ entry' = [e \in Events |-> IF e \in given THEN "claimed" ELSE entry[e]]
    /\ consumer' = [consumer EXCEPT ![a] = Waiting(given)]
    /\ UNCHANGED <<kind, outbox, delivery, sent, dispatch, missing, faults>>

ReclaimPending(a) == Given(a, "idle")

ReadGroup(a) == Given(a, "new")

Acked(e) == entry' = [entry EXCEPT ![e] = IF @ = "lost" THEN @ ELSE "acked"]

\* The entry is dealt with, or left to be claimed again.
Through(a, e) == consumer' = [consumer EXCEPT ![a] = Waiting(consumer[a].todo \ {e})]

\* Persists the domain event and reads the configuration; an unreadable one
\* does not stop the ingest, but names no sink.
ReadDispatchConfig(a, e) ==
    /\ consumer[a].pc = "next"
    /\ e \in consumer[a].todo
    /\ kind[e] # "rejected"
    /\ \E sinks \in {{}, Sinks} :
           /\ IF sinks = Sinks THEN UNCHANGED faults ELSE Fault
           /\ consumer' = [consumer EXCEPT ![a] = [pc |-> "outbox", todo |-> consumer[a].todo,
                                                  event |-> e, sinks |-> sinks, row |-> 0]]
    /\ UNCHANGED <<kind, entry, outbox, delivery, sent, dispatch, missing>>

AckRejected(a, e) ==
    /\ consumer[a].pc = "next"
    /\ e \in consumer[a].todo
    /\ kind[e] = "rejected"
    /\ Acked(e)
    /\ Through(a, e)
    /\ UNCHANGED <<kind, outbox, delivery, sent, dispatch, missing, faults>>

\* Seeded fault: the deliveries come first.
InsertEvent_DeliveriesFirst(a) ==
    /\ consumer[a].pc = "outbox"
    /\ delivery' = delivery \cup {Pending(Len(outbox) + 1, s, Ingest) : s \in consumer[a].sinks}
    /\ consumer' = [consumer EXCEPT ![a] = [consumer[a] EXCEPT !.pc = "ack"]]
    /\ UNCHANGED <<kind, entry, outbox, sent, dispatch, missing, faults>>

\* writeToOutbox: the event, and then its deliveries.
InsertEvent(a) ==
    /\ consumer[a].pc = "outbox"
    /\ outbox' = Append(outbox, consumer[a].event)
    /\ consumer' = [consumer EXCEPT
           ![a] = [pc |-> IF consumer[a].sinks = {} THEN "ack" ELSE "deliver",
                   todo |-> consumer[a].todo, event |-> consumer[a].event,
                   sinks |-> consumer[a].sinks, row |-> Len(outbox) + 1]]
    /\ UNCHANGED <<kind, entry, delivery, sent, dispatch, missing, faults>>

InsertDeliveries(a) ==
    /\ consumer[a].pc = "deliver"
    /\ delivery' = delivery \cup {Pending(consumer[a].row, s, Ingest) : s \in consumer[a].sinks}
    /\ consumer' = [consumer EXCEPT ![a].pc = "ack"]
    /\ UNCHANGED <<kind, entry, outbox, sent, dispatch, missing, faults>>

Ack(a) ==
    /\ consumer[a].pc = "ack"
    /\ Acked(consumer[a].event)
    /\ Through(a, consumer[a].event)
    /\ UNCHANGED <<kind, outbox, delivery, sent, dispatch, missing, faults>>

\* Seeded fault: it is acknowledged all the same.
LeaveUnacked_Acks(a, e) ==
    /\ e \in consumer[a].todo
    /\ consumer[a].pc # "next" => consumer[a].event = e
    /\ Fault
    /\ Acked(e)
    /\ Through(a, e)
    /\ UNCHANGED <<kind, outbox, delivery, sent, dispatch, missing>>

\* Any of its statements fails: the entry stays unacknowledged.
LeaveUnacked(a, e) ==
    /\ e \in consumer[a].todo
    /\ consumer[a].pc # "next" => consumer[a].event = e
    /\ Fault
    /\ Through(a, e)
    /\ UNCHANGED <<kind, entry, outbox, delivery, sent, dispatch, missing>>

\* So does the rest of what the consumer was given, where the acknowledgement of
\* a rejected entry fails.
AckRejectedFails(a, e) ==
    /\ consumer[a].pc = "next"
    /\ e \in consumer[a].todo
    /\ kind[e] = "rejected"
    /\ Fault
    /\ consumer' = [consumer EXCEPT ![a] = Waiting({})]
    /\ UNCHANGED <<kind, entry, outbox, delivery, sent, dispatch, missing>>

---------------------------------------------------------------------------
(* Reconciliation *)

Covered(r, s) == \E d \in delivery : d.row = r /\ d.sink = s

ScanOutbox(a) ==
    LET found == {p \in Rows \X Sinks : ~Covered(p[1], p[2])} IN
    /\ missing[a] = {}
    /\ found # {}
    /\ missing' = [missing EXCEPT ![a] = found]
    /\ UNCHANGED <<kind, entry, outbox, delivery, sent, consumer, dispatch, faults>>

InsertMissing(a) ==
    /\ missing[a] # {}
    /\ delivery' = delivery \cup {Pending(p[1], p[2], a) : p \in missing[a]}
    /\ missing' = [missing EXCEPT ![a] = {}]
    /\ UNCHANGED <<kind, entry, outbox, sent, consumer, dispatch, faults>>

ReconcileFails(a) ==
    /\ missing[a] # {}
    /\ Fault
    /\ missing' = [missing EXCEPT ![a] = {}]
    /\ UNCHANGED <<kind, entry, outbox, delivery, sent, consumer, dispatch>>

---------------------------------------------------------------------------
(* Dispatch *)

\* Seeded fault: what failed once is not read again.
Undelivered_Fresh(s) == {d \in delivery : d.sink = s /\ d.status = "pending" /\ d.attempts = 0}

Undelivered(s) == {d \in delivery : d.sink = s /\ d.status = "pending"}

Step(a, s, next) == dispatch' = [dispatch EXCEPT ![a][s] = next]

\* As many as the limit allows, and the events that they are about. The oldest
\* come first in the code; any may here.
ReadUndelivered(a, s) ==
    /\ dispatch[a][s].pc = "read"
    /\ \E first \in SUBSET Undelivered(s) :
           /\ first # {}
           /\ Cardinality(first) = BatchSize \/ first = Undelivered(s)
           /\ Cardinality(first) <= BatchSize
           /\ Step(a, s, At("send", {d.row : d \in first}, {}, {}))
    /\ UNCHANGED <<kind, entry, outbox, delivery, sent, consumer, missing, faults>>

Poisoned(batch) == \E r \in batch : kind[outbox[r]] = "poison"

\* The first of the rows is sent on its own, the others wait for their turn.
OneByOne(a, s, rows) ==
    \E r \in rows : Step(a, s, At("send", {r}, rows \ {r}, {}))

\* The batch is settled.
Settled(a, s) ==
    LET d == dispatch[a][s] IN
    IF d.rest = {} THEN Step(a, s, NoBatch) ELSE OneByOne(a, s, d.rest)

\* Seeded fault: the batch is settled as a whole.
SendFails_Whole(a, s, retryable) ==
    LET d == dispatch[a][s] IN Step(a, s, At("failed", d.batch, d.rest, {}))

\* Which row of a batch is at fault is found by sending each on its own, if that
\* may help: not when the sink is down, and not for a batch of one.
SendFails(a, s, retryable) ==
    LET d == dispatch[a][s] IN
    IF ~retryable /\ Cardinality(d.batch) > 1
    THEN OneByOne(a, s, d.batch)
    ELSE Step(a, s, At("failed", d.batch, d.rest, {}))

SendAccepted(a, s) ==
    LET d == dispatch[a][s] IN
    /\ d.pc = "send"
    /\ ~Poisoned(d.batch)
    /\ sent' = sent \cup (d.batch \X {s})
    /\ Step(a, s, At("mark", d.batch, d.rest, {}))
    /\ UNCHANGED <<kind, entry, outbox, delivery, consumer, missing, faults>>

SendRejected(a, s) ==
    /\ dispatch[a][s].pc = "send"
    /\ Poisoned(dispatch[a][s].batch)
    /\ SendFails(a, s, FALSE)
    /\ UNCHANGED <<kind, entry, outbox, delivery, sent, consumer, missing, faults>>

\* The sink is down, its answer is lost, or it refuses whatever it is sent.
SinkFails(a, s) ==
    LET d == dispatch[a][s] IN
    /\ d.pc = "send"
    /\ Fault
    /\ \/ SendFails(a, s, TRUE) /\ UNCHANGED sent
       \/ /\ ~Poisoned(d.batch)
          /\ sent' = sent \cup (d.batch \X {s})
          /\ SendFails(a, s, TRUE)
       \/ SendFails(a, s, FALSE) /\ UNCHANGED sent
    /\ UNCHANGED <<kind, entry, outbox, delivery, consumer, missing>>

\* Seeded fault: the sink's name alone.
About_Sink(batch, s) == {d \in delivery : d.sink = s}

\* Every row about the event and the sink, whoever inserted it.
About(batch, s) == {d \in delivery : d.row \in batch /\ d.sink = s}

MarkDelivered(a, s) ==
    LET marked == About(dispatch[a][s].batch, s) IN
    /\ dispatch[a][s].pc = "mark"
    /\ delivery' = (delivery \ marked) \cup {[d EXCEPT !.status = "delivered"] : d \in marked}
    /\ Settled(a, s)
    /\ UNCHANGED <<kind, entry, outbox, sent, consumer, missing, faults>>

\* It counts as a failure to send.
MarkDeliveredFails(a, s) ==
    LET d == dispatch[a][s] IN
    /\ d.pc = "mark"
    /\ Fault
    /\ Step(a, s, At("failed", d.batch, d.rest, {}))
    /\ UNCHANGED <<kind, entry, outbox, delivery, sent, consumer, missing>>

\* markFailed: reads the attempts, then updates one row after the other.
ReadAttempts(a, s) ==
    LET d == dispatch[a][s] IN
    /\ d.pc = "failed"
    /\ Step(a, s, At("update", d.batch, d.rest, About(d.batch, s)))
    /\ UNCHANGED <<kind, entry, outbox, delivery, sent, consumer, missing, faults>>

Same(d, e) == d.row = e.row /\ d.sink = e.sink /\ d.by = e.by

\* Only a row that expires has its status set.
Failed(d, attempts) ==
    [row |-> d.row, sink |-> d.sink, by |-> d.by, attempts |-> attempts,
     status |-> IF attempts >= MaxAttempts THEN "expired" ELSE d.status]

UpdateFailed(a, s) ==
    LET d == dispatch[a][s] IN
    /\ d.pc = "update"
    /\ \E row \in d.seen :
           /\ delivery' = {IF Same(e, row) THEN Failed(e, row.attempts + 1) ELSE e : e \in delivery}
           /\ IF d.seen = {row} THEN Settled(a, s)
              ELSE Step(a, s, At("update", d.batch, d.rest, d.seen \ {row}))
    /\ UNCHANGED <<kind, entry, outbox, sent, consumer, missing, faults>>

\* The dispatch ends, the rows it did not reach with it.
MarkFailedFails(a, s) ==
    /\ dispatch[a][s].pc \in {"failed", "update"}
    /\ Fault
    /\ Step(a, s, NoBatch)
    /\ UNCHANGED <<kind, entry, outbox, delivery, sent, consumer, missing>>

---------------------------------------------------------------------------

Crash(a) ==
    /\ Fault
    /\ consumer' = [consumer EXCEPT ![a] = Waiting({})]
    /\ dispatch' = [dispatch EXCEPT ![a] = [s \in Sinks |-> NoBatch]]
    /\ missing' = [missing EXCEPT ![a] = {}]
    /\ UNCHANGED <<kind, entry, outbox, delivery, sent>>

Handle(a) ==
    \/ \E e \in Events : ReadDispatchConfig(a, e) \/ AckRejected(a, e)
    \/ InsertEvent(a) \/ InsertDeliveries(a) \/ Ack(a)

Reconcile(a) == ScanOutbox(a) \/ InsertMissing(a)

Dispatch(a, s) ==
    \/ ReadUndelivered(a, s)
    \/ SendAccepted(a, s) \/ SendRejected(a, s)
    \/ MarkDelivered(a, s) \/ ReadAttempts(a, s) \/ UpdateFailed(a, s)

Stops(a) ==
    \/ \E e \in Events : LeaveUnacked(a, e) \/ AckRejectedFails(a, e)
    \/ \E s \in Sinks : SinkFails(a, s) \/ MarkDeliveredFails(a, s) \/ MarkFailedFails(a, s)
    \/ ReconcileFails(a)
    \/ Crash(a)

Next ==
    \/ \E e \in Events : Publish(e) \/ Forget(e) \/ LapseIdle(e) \/ LapseHeld(e)
    \/ \E a \in Admins :
           \/ ReclaimPending(a) \/ ReadGroup(a) \/ Handle(a)
           \/ Reconcile(a)
           \/ \E s \in Sinks : Dispatch(a, s)
           \/ Stops(a)

Spec == Init /\ [][Next]_vars

---------------------------------------------------------------------------
(* Safety *)

Stored(e) == \E r \in Rows : outbox[r] = e

(***************************************************************************)
(* The stream is no storage: an acknowledged event is in the outbox, unless *)
(* the database refuses it, whichever statement failed on the way and      *)
(* whichever process took the entry over.                                  *)
(***************************************************************************)
AckedIsStored == \A e \in Events : entry[e] = "acked" /\ kind[e] # "rejected" => Stored(e)

(***************************************************************************)
(* Nothing is reported as delivered that the sink has not received,        *)
(* although an update names the event and not the delivery.                *)
(***************************************************************************)
DeliveredWasSent == \A d \in delivery : d.status = "delivered" => <<d.row, d.sink>> \in sent

(***************************************************************************)
(* An event that the sink accepts is charged with faults only, never with  *)
(* the poison in its batch: it keeps its attempts for real outages.        *)
(***************************************************************************)
HealthyIsSpared == \A d \in delivery : kind[outbox[d.row]] # "poison" => d.attempts <= faults

---------------------------------------------------------------------------
(* Liveness *)

Fairness ==
    /\ \A e \in Events : WF_vars(LapseIdle(e))
    /\ \A a \in Admins :
           /\ WF_vars(ReclaimPending(a)) /\ WF_vars(ReadGroup(a)) /\ WF_vars(Handle(a))
           /\ WF_vars(Reconcile(a))
           /\ \A s \in Sinks : WF_vars(Dispatch(a, s))

FairSpec == Spec /\ Fairness

Drained ==
    /\ \A e \in Events : entry[e] \in {"none", "acked", "lost"}
    /\ \A r \in Rows, s \in Sinks : Covered(r, s)
    /\ \A d \in delivery : d.status # "pending"

(***************************************************************************)
(* The pipeline runs dry: every entry ends acknowledged, every row of the  *)
(* outbox gets a delivery for every sink, also when the ingest could not   *)
(* write it, and every delivery ends, whatever poison is in front of it.   *)
(***************************************************************************)
PipelineDrains == <>[]Drained
============================================================================
