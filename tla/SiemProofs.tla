----------------------------- MODULE SiemProofs -----------------------------
(***************************************************************************)
(* Proofs about SiemExport, for any number of events, sinks, processes and *)
(* faults, any batch size and any limit of attempts.                       *)
(*                                                                         *)
(* The invariant says what a process between two statements relies on: a   *)
(* consumer that acknowledges has the row of its entry in the outbox, and  *)
(* a dispatch that marks has sent what it marks.  For the attempts it      *)
(* counts in advance: a failure that is not yet written is charged to the  *)
(* rows it will be written to, and the attempts of a row together with     *)
(* what it is charged with never exceed the faults.  A row that markFailed *)
(* has read counts as it was read, because that is what it writes.         *)
(***************************************************************************)
EXTENDS SiemExport, FiniteSetTheorems, TLAPS

IngestSound ==
    \A a \in Admins :
        /\ consumer[a].pc # "next" =>
               consumer[a].event \in consumer[a].todo /\ kind[consumer[a].event] # "rejected"
        /\ consumer[a].pc \in {"deliver", "ack"} =>
               consumer[a].row \in Rows /\ outbox[consumer[a].row] = consumer[a].event

DispatchSound ==
    \A a \in Admins, s \in Sinks :
        /\ dispatch[a][s].batch \subseteq Rows
        /\ dispatch[a][s].rest \subseteq Rows
        /\ IsFiniteSet(dispatch[a][s].batch)
        /\ dispatch[a][s].pc # "read" => dispatch[a][s].batch # {}
        /\ dispatch[a][s].pc = "mark" => dispatch[a][s].batch \X {s} \subseteq sent
        /\ \A e \in dispatch[a][s].seen : e.row \in Rows /\ e.sink = s

\* A row is known by its event, its sink and who inserted it.
KeysSound ==
    /\ \A d, e \in delivery : Same(d, e) => d = e
    /\ \A a \in Admins, s \in Sinks : \A d, e \in dispatch[a][s].seen : Same(d, e) => d = e
    /\ \A a \in Admins : consumer[a].pc = "deliver" =>
           /\ \A d \in delivery : d.row = consumer[a].row => d.by # Ingest
           /\ \A b \in Admins : /\ b # a
                                /\ consumer[b].pc = "deliver"
                                => consumer[b].row # consumer[a].row
    /\ \A a \in Admins : \A p \in missing[a] : \A d \in delivery :
           d.row = p[1] /\ d.sink = p[2] => d.by # a

Healthy(r) == kind[outbox[r]] # "poison"

\* The processes that are about to raise the attempts of a row.
Charging(r, s, by) ==
    {a \in Admins : \/ dispatch[a][s].pc = "failed" /\ r \in dispatch[a][s].batch
                    \/ /\ dispatch[a][s].pc = "update"
                       /\ \E e \in dispatch[a][s].seen : e.row = r /\ e.sink = s /\ e.by = by}

Charged(r, s, by) == Cardinality(Charging(r, s, by))

Writers == Admins \cup {Ingest}

ChargesFit ==
    /\ \A r \in Rows, s \in Sinks, by \in Writers : Healthy(r) => Charged(r, s, by) <= faults
    /\ \A d \in delivery :
           Healthy(d.row) => d.attempts + Charged(d.row, d.sink, d.by) <= faults
    /\ \A a \in Admins, s \in Sinks : \A d \in dispatch[a][s].seen :
           Healthy(d.row) => d.attempts + Charged(d.row, d.sink, d.by) <= faults

SiemInv ==
    /\ SiemTypeOK
    /\ IngestSound
    /\ AckedIsStored
    /\ DispatchSound
    /\ DeliveredWasSent
    /\ KeysSound
    /\ ChargesFit

---------------------------------------------------------------------------
(* Counting *)

LEMMA AdminSets ==
    ASSUME NEW S \in SUBSET Admins
    PROVE  IsFiniteSet(S) /\ Cardinality(S) \in Nat
<1>1. IsFiniteSet(S)
    BY SiemAssumption, FS_Subset DEF SiemAssumption
<1>2. QED
    BY <1>1, FS_CardinalityType

LEMMA Fewer ==
    ASSUME NEW S \in SUBSET Admins, NEW T \in SUBSET S
    PROVE  Cardinality(T) <= Cardinality(S)
BY AdminSets, FS_Subset

LEMMA OneMore ==
    ASSUME NEW S \in SUBSET Admins, NEW T \in SUBSET Admins, NEW a \in Admins,
           T \subseteq S \cup {a}
    PROVE  Cardinality(T) <= Cardinality(S) + 1
<1>1. IsFiniteSet(S)
    BY AdminSets
<1>2. /\ IsFiniteSet(S \cup {a})
      /\ Cardinality(S \cup {a}) \in {Cardinality(S), Cardinality(S) + 1}
    BY <1>1, FS_AddElement
<1>3. Cardinality(T) <= Cardinality(S \cup {a})
    BY <1>2, FS_Subset
<1>4. Cardinality(S) \in Nat /\ Cardinality(T) \in Nat
    BY AdminSets
<1>5. QED
    BY <1>2, <1>3, <1>4

LEMMA OneLess ==
    ASSUME NEW S \in SUBSET Admins, NEW a \in S, NEW T \in SUBSET Admins,
           T \subseteq S \ {a}
    PROVE  Cardinality(T) + 1 <= Cardinality(S)
<1>1. IsFiniteSet(S)
    BY AdminSets
<1>2. IsFiniteSet(S \ {a}) /\ Cardinality(S \ {a}) = Cardinality(S) - 1
    BY <1>1, FS_RemoveElement
<1>3. Cardinality(T) <= Cardinality(S \ {a})
    BY <1>2, FS_Subset
<1>4. Cardinality(S) \in Nat /\ Cardinality(T) \in Nat
    BY AdminSets
<1>5. QED
    BY <1>2, <1>3, <1>4

LEMMA ChargedIsNat ==
    ASSUME NEW r, NEW s, NEW by
    PROVE  /\ Charging(r, s, by) \subseteq Admins
           /\ Charged(r, s, by) \in Nat
           /\ Charging(r, s, by)' \subseteq Admins
           /\ Charged(r, s, by)' \in Nat
<1>1. Charging(r, s, by) \subseteq Admins /\ Charging(r, s, by)' \subseteq Admins
    BY DEF Charging
<1>2. QED
    BY <1>1, AdminSets DEF Charged

\* The same row, read before or after.
Counted(d) ==
    \/ \E e \in delivery : Same(d, e) /\ d.attempts = e.attempts
    \/ \E a \in Admins, s \in Sinks : \E e \in dispatch[a][s].seen :
           Same(d, e) /\ d.attempts = e.attempts

\* No row is charged with more than the faults that came with it.
LEMMA ChargesStay ==
    ASSUME SiemInv, SiemTypeOK', kind' = kind,
           \A r \in Rows : r \in Rows' /\ outbox'[r] = outbox[r],
           \A r \in Rows, s \in Sinks, by \in Writers :
               Healthy(r) => Charged(r, s, by)' + faults <= Charged(r, s, by) + faults',
           \A r \in Rows', s \in Sinks, by \in Writers : r \notin Rows => Charged(r, s, by)' = 0,
           \A d \in delivery' : Counted(d) \/ (d.attempts = 0 /\ d.sink \in Sinks /\ d.by \in Writers),
           \A a \in Admins, s \in Sinks : \A d \in (dispatch[a][s].seen)' : Counted(d)
    PROVE  ChargesFit'
<1>1. faults \in Nat /\ faults' \in Nat
    BY SiemAssumption DEF SiemInv, SiemTypeOK, SiemAssumption
<1>2. \A r \in Rows', s \in Sinks, by \in Writers :
          Healthy(r)' => Charged(r, s, by)' <= faults'
    <2> SUFFICES ASSUME NEW r \in Rows', NEW s \in Sinks, NEW by \in Writers, Healthy(r)'
                 PROVE  Charged(r, s, by)' <= faults'
        OBVIOUS
    <2>1. CASE r \notin Rows
        BY <1>1, <2>1
    <2>2. CASE r \in Rows
        <3>1. Healthy(r)
            BY <2>2 DEF Healthy
        <3>2. Charged(r, s, by) <= faults
            BY <2>2, <3>1 DEF SiemInv, ChargesFit
        <3>3. Charged(r, s, by)' + faults <= Charged(r, s, by) + faults'
            BY <2>2, <3>1
        <3>4. QED
            BY <1>1, <3>2, <3>3, ChargedIsNat
    <2>3. QED
        BY <2>1, <2>2
<1>3. ASSUME NEW d, Counted(d), Healthy(d.row)'
      PROVE  d.attempts + Charged(d.row, d.sink, d.by)' <= faults'
    <2>1. PICK e : /\ Same(d, e) /\ d.attempts = e.attempts
                   /\ \/ e \in delivery
                      \/ \E a \in Admins, s \in Sinks : e \in dispatch[a][s].seen
        BY <1>3 DEF Counted
    <2>2. e \in Deliveries /\ e.row \in Rows
        BY <2>1 DEF SiemInv, SiemTypeOK, DispatchSound, Dispatches
    <2>3. /\ d.row = e.row /\ d.sink = e.sink /\ d.by = e.by
          /\ e.sink \in Sinks /\ e.by \in Writers /\ e.attempts \in Nat
        BY <2>1, <2>2 DEF Same, Deliveries, Writers
    <2>4. Healthy(e.row)
        BY <1>3, <2>2, <2>3 DEF Healthy
    <2>5. e.attempts + Charged(e.row, e.sink, e.by) <= faults
        BY <2>1, <2>4 DEF SiemInv, ChargesFit
    <2>6. Charged(e.row, e.sink, e.by)' + faults <= Charged(e.row, e.sink, e.by) + faults'
        BY <2>2, <2>3, <2>4
    <2>7. e.attempts + Charged(e.row, e.sink, e.by)' <= faults'
        BY <1>1, <2>3, <2>5, <2>6, ChargedIsNat
    <2>8. QED
        BY <2>1, <2>3, <2>7
<1>4. ASSUME NEW d \in delivery', Healthy(d.row)'
      PROVE  d.attempts + Charged(d.row, d.sink, d.by)' <= faults'
    <2>1. CASE Counted(d)
        BY <1>3, <1>4, <2>1
    <2>2. CASE d.attempts = 0 /\ d.sink \in Sinks /\ d.by \in Writers
        <3>1. d.row \in Rows'
            BY DEF SiemTypeOK
        <3>2. Charged(d.row, d.sink, d.by)' <= faults'
            BY <1>2, <1>4, <2>2, <3>1
        <3>3. QED
            BY <2>2, <3>2, ChargedIsNat
    <2>3. QED
        BY <2>1, <2>2
<1>5. \A a \in Admins, s \in Sinks : \A d \in (dispatch[a][s].seen)' :
          Healthy(d.row)' => d.attempts + Charged(d.row, d.sink, d.by)' <= faults'
    BY <1>3
<1>6. QED
    BY <1>2, <1>4, <1>5 DEF ChargesFit

---------------------------------------------------------------------------
(* Ingest *)

LEMMA Appended ==
    ASSUME NEW q \in Seq(Events), NEW e \in Events
    PROVE  /\ Append(q, e) \in Seq(Events)
           /\ Len(q) \in Nat
           /\ Len(Append(q, e)) = Len(q) + 1
           /\ \A i \in 1..Len(q) : Append(q, e)[i] = q[i]
           /\ Append(q, e)[Len(q) + 1] = e
OBVIOUS

\* What no step of the stream or of a consumer touches.
LEMMA DispatchUntouched ==
    ASSUME SiemInv, SiemTypeOK', UNCHANGED <<kind, delivery, sent, dispatch>>,
           faults <= faults',
           outbox' = outbox \/ \E e \in Events : outbox' = Append(outbox, e)
    PROVE  DispatchSound' /\ DeliveredWasSent' /\ ChargesFit'
<1>1. \A r \in Rows : r \in Rows' /\ outbox'[r] = outbox[r]
    <2>1. outbox \in Seq(Events)
        BY DEF SiemInv, SiemTypeOK
    <2>2. CASE outbox' = outbox
        BY <2>2 DEF Rows
    <2>3. ASSUME NEW e \in Events, outbox' = Append(outbox, e)
          PROVE  \A r \in Rows : r \in Rows' /\ outbox'[r] = outbox[r]
        BY <2>1, <2>3, Appended DEF Rows
    <2>4. QED
        BY <2>2, <2>3
<1>2. DispatchSound'
    BY <1>1 DEF SiemInv, DispatchSound
<1>3. DeliveredWasSent'
    BY DEF SiemInv, DeliveredWasSent
<1>4. \A r, s, by : Charging(r, s, by)' = Charging(r, s, by)
    BY DEF Charging
<1>5. \A r, s, by : Charged(r, s, by)' = Charged(r, s, by)
    BY <1>4 DEF Charged
<1>6. ASSUME NEW r \in Rows', NEW s \in Sinks, NEW by \in Writers, r \notin Rows
      PROVE  Charged(r, s, by)' = 0
    <2>1. Charging(r, s, by) = {}
        BY <1>6 DEF Charging, SiemInv, DispatchSound
    <2>2. QED
        BY <1>5, <2>1, FS_EmptySet DEF Charged
<1>7. faults \in Nat /\ faults' \in Nat
    BY SiemAssumption DEF SiemInv, SiemTypeOK, SiemAssumption
<1>8. \A r \in Rows, s \in Sinks, by \in Writers :
          Charged(r, s, by)' + faults <= Charged(r, s, by) + faults'
    BY <1>5, <1>7, ChargedIsNat
<1>9. /\ \A d \in delivery' : Counted(d)
      /\ \A a \in Admins, s \in Sinks : \A d \in (dispatch[a][s].seen)' : Counted(d)
    BY DEF Counted, Same
<1>10. ChargesFit'
    BY <1>1, <1>6, <1>8, <1>9, ChargesStay
<1>11. QED
    BY <1>2, <1>3, <1>10

\* A consumer goes on, or entries change their state in the group.
LEMMA ConsumerMoves ==
    ASSUME SiemInv, NEW a \in Admins, NEW c \in Loops,
           consumer' = [consumer EXCEPT ![a] = c],
           c.pc # "deliver",
           c.pc # "next" => c.event \in c.todo /\ kind[c.event] # "rejected",
           c.pc = "ack" => c.row \in Rows /\ outbox[c.row] = c.event,
           UNCHANGED <<kind, outbox, delivery, sent, dispatch, missing>>,
           faults' \in 0..MaxFaults, faults <= faults',
           entry' \in [Events -> {"none", "new", "claimed", "idle", "acked", "lost"}],
           \A e \in Events : entry'[e] = "acked" =>
               entry[e] = "acked" \/ kind[e] = "rejected" \/ Stored(e)
    PROVE  SiemInv'
<1>1. \A b \in Admins : consumer'[b] = IF b = a THEN c ELSE consumer[b]
    BY DEF SiemInv, SiemTypeOK
<1>2. SiemTypeOK'
    BY DEF SiemInv, SiemTypeOK, Rows
<1>3. IngestSound'
    BY <1>1 DEF SiemInv, IngestSound, Rows
<1>4. AckedIsStored'
    BY DEF SiemInv, AckedIsStored, Stored, Rows
<1>5. DispatchSound' /\ DeliveredWasSent' /\ ChargesFit'
    BY <1>2, DispatchUntouched
<1>6. KeysSound'
    BY <1>1 DEF SiemInv, KeysSound, Same
<1>7. QED
    BY <1>2, <1>3, <1>4, <1>5, <1>6 DEF SiemInv

LEMMA FaultCounts ==
    ASSUME SiemInv, Fault
    PROVE  faults' \in 0..MaxFaults /\ faults <= faults' /\ faults' = faults + 1
BY SiemAssumption DEF SiemInv, SiemTypeOK, Fault, SiemAssumption

LEMMA StreamRight ==
    ASSUME SiemInv, NEW e \in Events, Publish(e) \/ Forget(e) \/ LapseIdle(e) \/ LapseHeld(e)
    PROVE  SiemInv'
<1>1. /\ entry' \in [Events -> {"none", "new", "claimed", "idle", "acked", "lost"}]
      /\ \A d \in Events : entry'[d] = "acked" => entry[d] = "acked"
    BY DEF SiemInv, SiemTypeOK, Publish, Forget, LapseIdle, LapseHeld
<1>2. UNCHANGED <<kind, outbox, delivery, sent, consumer, dispatch, missing>>
    BY DEF Publish, Forget, LapseIdle, LapseHeld
<1>3. faults' \in 0..MaxFaults /\ faults <= faults'
    <2>1. CASE UNCHANGED faults
        BY <2>1, SiemAssumption DEF SiemInv, SiemTypeOK, SiemAssumption
    <2>2. CASE Fault
        BY <2>2, FaultCounts
    <2>3. QED
        BY <2>1, <2>2 DEF Publish, Forget, LapseIdle, LapseHeld
<1>4. SiemTypeOK'
    BY <1>1, <1>2, <1>3 DEF SiemInv, SiemTypeOK, Rows
<1>5. IngestSound' /\ KeysSound'
    BY <1>2 DEF SiemInv, IngestSound, KeysSound, Rows, Same
<1>6. AckedIsStored'
    BY <1>1, <1>2 DEF SiemInv, AckedIsStored, Stored, Rows
<1>7. DispatchSound' /\ DeliveredWasSent' /\ ChargesFit'
    BY <1>2, <1>3, <1>4, DispatchUntouched
<1>8. QED
    BY <1>4, <1>5, <1>6, <1>7 DEF SiemInv

LEMMA WaitingIsLoop ==
    ASSUME NEW todo \in SUBSET Events
    PROVE  Waiting(todo) \in Loops /\ Waiting(todo).pc = "next"
BY DEF Waiting, Loops

LEMMA GivenRight ==
    ASSUME SiemInv, NEW a \in Admins, ReclaimPending(a) \/ ReadGroup(a)
    PROVE  SiemInv'
<1>1. PICK state \in {"idle", "new"} : Given(a, state)
    BY DEF ReclaimPending, ReadGroup
<1> DEFINE given == {e \in Events : entry[e] = state}
<1>2. Waiting(given) \in Loops /\ Waiting(given).pc = "next"
    BY WaitingIsLoop
<1>3. /\ entry' \in [Events -> {"none", "new", "claimed", "idle", "acked", "lost"}]
      /\ \A e \in Events : entry'[e] = "acked" => entry[e] = "acked"
    BY <1>1 DEF Given, SiemInv, SiemTypeOK
<1>4. faults' \in 0..MaxFaults /\ faults <= faults'
    BY <1>1, SiemAssumption DEF Given, SiemInv, SiemTypeOK, SiemAssumption
<1>5. QED
    BY <1>1, <1>2, <1>3, <1>4, ConsumerMoves DEF Given

LEMMA ReadDispatchConfigRight ==
    ASSUME SiemInv, NEW a \in Admins, NEW e \in Events, ReadDispatchConfig(a, e)
    PROVE  SiemInv'
<1>1. PICK sinks \in {{}, Sinks} :
          /\ IF sinks = Sinks THEN UNCHANGED faults ELSE Fault
          /\ consumer' = [consumer EXCEPT ![a] = [pc |-> "outbox", todo |-> consumer[a].todo,
                                                 event |-> e, sinks |-> sinks, row |-> 0]]
    BY DEF ReadDispatchConfig
<1> DEFINE c == [pc |-> "outbox", todo |-> consumer[a].todo,
                 event |-> e, sinks |-> sinks, row |-> 0]
<1>2. c \in Loops
    BY DEF SiemInv, SiemTypeOK, Loops
<1>3. faults' \in 0..MaxFaults /\ faults <= faults'
    BY <1>1, FaultCounts, SiemAssumption DEF SiemInv, SiemTypeOK, SiemAssumption
<1>4. c.pc = "outbox" /\ c.event \in c.todo /\ kind[c.event] # "rejected"
    BY DEF ReadDispatchConfig
<1>5. entry' \in [Events -> {"none", "new", "claimed", "idle", "acked", "lost"}]
    BY DEF ReadDispatchConfig, SiemInv, SiemTypeOK
<1> HIDE DEF c
<1>6. QED
    BY <1>1, <1>2, <1>3, <1>4, <1>5, ConsumerMoves DEF ReadDispatchConfig, c

\* An entry that a consumer is through with, acknowledged or not.
LEMMA ThroughRight ==
    ASSUME SiemInv, NEW a \in Admins, NEW todo \in SUBSET Events,
           consumer' = [consumer EXCEPT ![a] = Waiting(todo)],
           UNCHANGED <<kind, outbox, delivery, sent, dispatch, missing>>,
           UNCHANGED faults \/ Fault,
           \/ UNCHANGED entry
           \/ \E e \in Events : Acked(e) /\ (kind[e] = "rejected" \/ Stored(e))
    PROVE  SiemInv'
<1>1. faults' \in 0..MaxFaults /\ faults <= faults'
    BY FaultCounts, SiemAssumption DEF SiemInv, SiemTypeOK, SiemAssumption
<1>2. /\ entry' \in [Events -> {"none", "new", "claimed", "idle", "acked", "lost"}]
      /\ \A e \in Events : entry'[e] = "acked" =>
             entry[e] = "acked" \/ kind[e] = "rejected" \/ Stored(e)
    BY DEF Acked, SiemInv, SiemTypeOK
<1>3. Waiting(todo) \in Loops /\ Waiting(todo).pc = "next"
    BY WaitingIsLoop
<1>4. QED
    BY <1>1, <1>2, <1>3, ConsumerMoves

LEMMA ConsumerEndsRight ==
    ASSUME SiemInv, NEW a \in Admins, NEW e \in Events,
           AckRejected(a, e) \/ LeaveUnacked(a, e) \/ AckRejectedFails(a, e)
    PROVE  SiemInv'
<1>1. consumer[a].todo \in SUBSET Events
    BY DEF SiemInv, SiemTypeOK, Loops
<1>2. CASE AckRejected(a, e)
    BY <1>1, <1>2, ThroughRight DEF AckRejected, Through
<1>3. CASE LeaveUnacked(a, e)
    BY <1>1, <1>3, ThroughRight DEF LeaveUnacked, Through
<1>4. CASE AckRejectedFails(a, e)
    <2>1. {} \in SUBSET Events
        OBVIOUS
    <2>2. QED
        BY <1>4, <2>1, ThroughRight DEF AckRejectedFails
<1>5. QED
    BY <1>2, <1>3, <1>4

LEMMA AckRight ==
    ASSUME SiemInv, NEW a \in Admins, Ack(a)
    PROVE  SiemInv'
<1>1. /\ consumer[a].todo \in SUBSET Events
      /\ consumer[a].event \in consumer[a].todo
      /\ Stored(consumer[a].event)
    BY DEF Ack, SiemInv, SiemTypeOK, Loops, IngestSound, Stored
<1>2. QED
    BY <1>1, ThroughRight DEF Ack, Through

LEMMA InsertEventRight ==
    ASSUME SiemInv, NEW a \in Admins, InsertEvent(a)
    PROVE  SiemInv'
<1> DEFINE e == consumer[a].event
           c == [pc |-> IF consumer[a].sinks = {} THEN "ack" ELSE "deliver",
                 todo |-> consumer[a].todo, event |-> consumer[a].event,
                 sinks |-> consumer[a].sinks, row |-> Len(outbox) + 1]
<1>0. /\ consumer[a] \in Loops
      /\ e \in consumer[a].todo /\ kind[e] # "rejected"
    BY DEF InsertEvent, SiemInv, SiemTypeOK, IngestSound
<1>1. e \in Events /\ outbox \in Seq(Events) /\ outbox' = Append(outbox, e)
    BY <1>0 DEF InsertEvent, SiemInv, SiemTypeOK, Loops
<1>2. /\ outbox' \in Seq(Events)
      /\ Len(outbox) \in Nat /\ Len(outbox') = Len(outbox) + 1
      /\ \A r \in Rows : r \in Rows' /\ outbox'[r] = outbox[r]
      /\ Len(outbox) + 1 \in Rows' /\ Len(outbox) + 1 \notin Rows
      /\ outbox'[Len(outbox) + 1] = e
    BY <1>1, Appended DEF Rows
<1>3. c \in Loops
    BY <1>0, <1>2 DEF Loops
<1>4. consumer' = [consumer EXCEPT ![a] = c]
    BY DEF InsertEvent
<1>5. /\ c.pc \in {"ack", "deliver"} /\ c.row = Len(outbox) + 1
      /\ c.event = e /\ c.todo = consumer[a].todo
    OBVIOUS
<1> HIDE DEF e, c
<1>6. \A b \in Admins : consumer'[b] = IF b = a THEN c ELSE consumer[b]
    BY <1>4 DEF SiemInv, SiemTypeOK
<1>7. UNCHANGED <<kind, entry, delivery, sent, dispatch, missing, faults>>
    BY DEF InsertEvent
<1>8. SiemTypeOK'
    <2>1. sent' \subseteq Rows' \X Sinks /\ missing' \in [Admins -> SUBSET (Rows' \X Sinks)]
        BY <1>2, <1>7 DEF SiemInv, SiemTypeOK
    <2>2. consumer' \in [Admins -> Loops]
        BY <1>3, <1>4 DEF SiemInv, SiemTypeOK
    <2>3. QED
        BY <1>2, <1>7, <2>1, <2>2 DEF SiemInv, SiemTypeOK
<1>9. IngestSound'
    BY <1>0, <1>2, <1>5, <1>6, <1>7 DEF SiemInv, IngestSound
<1>10. AckedIsStored'
    BY <1>2, <1>7 DEF SiemInv, AckedIsStored, Stored
<1>11. KeysSound'
    <2>1. \A b \in Admins : b # a /\ consumer'[b].pc = "deliver" =>
              consumer'[b] = consumer[b] /\ consumer[b].row \in Rows
        BY <1>6 DEF SiemInv, IngestSound
    <2>2. consumer'[a].row = Len(outbox) + 1 /\ Len(outbox) + 1 \notin Rows
        BY <1>2, <1>5, <1>6
    <2>3. \A d \in delivery : d.row \in Rows
        BY DEF SiemInv, SiemTypeOK
    <2>4. \A b \in Admins : consumer'[b].pc = "deliver" =>
              \A d \in delivery : d.row = consumer'[b].row => d.by # Ingest
        BY <2>1, <2>2, <2>3 DEF SiemInv, KeysSound
    <2>5. \A b, f \in Admins :
              b # f /\ consumer'[b].pc = "deliver" /\ consumer'[f].pc = "deliver"
                  => consumer'[b].row # consumer'[f].row
        BY <2>1, <2>2 DEF SiemInv, KeysSound
    <2>6. QED
        BY <1>7, <2>4, <2>5 DEF SiemInv, KeysSound, Same
<1>12. DispatchSound' /\ DeliveredWasSent' /\ ChargesFit'
    <2>1. faults <= faults'
        BY <1>7, SiemAssumption DEF SiemInv, SiemTypeOK, SiemAssumption
    <2>2. QED
        BY <1>1, <1>7, <1>8, <2>1, DispatchUntouched
<1>13. QED
    BY <1>8, <1>9, <1>10, <1>11, <1>12 DEF SiemInv

\* New rows for events that are in the outbox, not sent and not failed yet.
LEMMA NewRows ==
    ASSUME SiemInv, SiemTypeOK', UNCHANGED <<kind, outbox, sent, dispatch, faults>>,
           NEW N \in SUBSET Deliveries, delivery' = delivery \cup N,
           \A d \in N : d.attempts = 0 /\ d.status = "pending"
    PROVE  DispatchSound' /\ DeliveredWasSent' /\ ChargesFit'
<1>1. DispatchSound' /\ DeliveredWasSent'
    BY DEF SiemInv, DispatchSound, DeliveredWasSent, Rows
<1>2. \A r, s, by : Charging(r, s, by)' = Charging(r, s, by)
    BY DEF Charging
<1>3. \A r, s, by : Charged(r, s, by)' = Charged(r, s, by)
    BY <1>2 DEF Charged
<1>4. faults \in Nat
    BY SiemAssumption DEF SiemInv, SiemTypeOK, SiemAssumption
<1>5. \A r \in Rows, s \in Sinks, by \in Writers :
          Charged(r, s, by)' + faults <= Charged(r, s, by) + faults'
    BY <1>3, <1>4, ChargedIsNat
<1>6. /\ \A d \in delivery' :
             Counted(d) \/ (d.attempts = 0 /\ d.sink \in Sinks /\ d.by \in Writers)
      /\ \A a \in Admins, s \in Sinks : \A d \in (dispatch[a][s].seen)' : Counted(d)
    BY DEF Counted, Same, Deliveries, Writers
<1>7. Rows' = Rows
    BY DEF Rows
<1>8. ChargesFit'
    BY <1>5, <1>6, <1>7, ChargesStay
<1>9. QED
    BY <1>1, <1>8

LEMMA PendingIsRow ==
    ASSUME NEW r \in Rows, NEW s \in Sinks, NEW by \in Writers
    PROVE  /\ Pending(r, s, by) \in Deliveries
           /\ Pending(r, s, by).row = r /\ Pending(r, s, by).sink = s
           /\ Pending(r, s, by).by = by /\ Pending(r, s, by).attempts = 0
           /\ Pending(r, s, by).status = "pending"
BY DEF Pending, Deliveries, Writers, Rows

LEMMA InsertDeliveriesRight ==
    ASSUME SiemInv, NEW a \in Admins, InsertDeliveries(a)
    PROVE  SiemInv'
<1> DEFINE N == {Pending(consumer[a].row, s, Ingest) : s \in consumer[a].sinks}
<1>0. /\ consumer[a] \in Loops
      /\ consumer[a].row \in Rows /\ outbox[consumer[a].row] = consumer[a].event
      /\ consumer[a].sinks \subseteq Sinks
    BY DEF InsertDeliveries, SiemInv, SiemTypeOK, IngestSound, Loops
<1>1. \A d \in N : /\ d \in Deliveries
                   /\ d.row = consumer[a].row
                   /\ d.by = Ingest
                   /\ d.attempts = 0
                   /\ d.status = "pending"
    BY <1>0, PendingIsRow DEF Writers
<1>2. \A d, e \in N : d.sink = e.sink => d = e
    BY <1>0, PendingIsRow DEF Writers
<1>3. /\ delivery' = delivery \cup N
      /\ consumer' = [consumer EXCEPT ![a].pc = "ack"]
      /\ UNCHANGED <<kind, entry, outbox, sent, dispatch, missing, faults>>
      /\ consumer[a].pc = "deliver"
    BY DEF InsertDeliveries
<1> HIDE DEF N
<1>4. /\ consumer' \in [Admins -> Loops]
      /\ \A b \in Admins : /\ consumer'[b].pc = (IF b = a THEN "ack" ELSE consumer[b].pc)
                           /\ consumer'[b].event = consumer[b].event
                           /\ consumer'[b].todo = consumer[b].todo
                           /\ consumer'[b].row = consumer[b].row
    <2> DEFINE c == [consumer[a] EXCEPT !.pc = "ack"]
    <2>1. /\ c \in Loops /\ c.pc = "ack" /\ c.event = consumer[a].event
          /\ c.todo = consumer[a].todo /\ c.row = consumer[a].row
        BY <1>0 DEF Loops
    <2>2. consumer' = [consumer EXCEPT ![a] = c] /\ consumer \in [Admins -> Loops]
        BY <1>3 DEF SiemInv, SiemTypeOK
    <2> HIDE DEF c
    <2>3. QED
        BY <2>1, <2>2
<1>5. SiemTypeOK'
    BY <1>0, <1>1, <1>3, <1>4 DEF SiemInv, SiemTypeOK, Rows
<1>6. IngestSound'
    BY <1>0, <1>3, <1>4 DEF SiemInv, IngestSound, Rows
<1>7. AckedIsStored'
    BY <1>3 DEF SiemInv, AckedIsStored, Stored, Rows
<1>8. DispatchSound' /\ DeliveredWasSent' /\ ChargesFit'
    <2>1. N \in SUBSET Deliveries
        BY <1>1
    <2>2. QED
        BY <1>1, <1>3, <1>5, <2>1, NewRows
<1>9. KeysSound'
    <2>1. \A d, e \in delivery' : Same(d, e) => d = e
        BY <1>1, <1>2, <1>3 DEF SiemInv, KeysSound, Same
    <2>2. \A b \in Admins : consumer'[b].pc = "deliver" =>
              /\ \A d \in delivery' : d.row = consumer'[b].row => d.by # Ingest
              /\ \A b2 \in Admins : /\ b2 # b
                                    /\ consumer'[b2].pc = "deliver"
                                    => consumer'[b2].row # consumer'[b].row
        BY <1>1, <1>3, <1>4 DEF SiemInv, KeysSound
    <2>3. \A b \in Admins : \A p \in missing'[b] : \A d \in delivery' :
              d.row = p[1] /\ d.sink = p[2] => d.by # b
        BY <1>1, <1>3, SiemAssumption DEF SiemInv, KeysSound, SiemAssumption
    <2>4. \A b \in Admins, s \in Sinks : \A d, e \in dispatch'[b][s].seen : Same(d, e) => d = e
        BY <1>3 DEF SiemInv, KeysSound, Same
    <2>5. QED
        BY <2>1, <2>2, <2>3, <2>4 DEF KeysSound, Same
<1>10. QED
    BY <1>5, <1>6, <1>7, <1>8, <1>9 DEF SiemInv

---------------------------------------------------------------------------
(* Reconciliation *)

LEMMA ReconcileMoves ==
    ASSUME SiemInv, NEW a \in Admins, ScanOutbox(a) \/ ReconcileFails(a)
    PROVE  SiemInv'
<1>1. UNCHANGED <<kind, entry, outbox, delivery, sent, consumer, dispatch>>
    BY DEF ScanOutbox, ReconcileFails
<1>2. faults' \in 0..MaxFaults /\ faults <= faults'
    <2>1. CASE UNCHANGED faults
        BY <2>1, SiemAssumption DEF SiemInv, SiemTypeOK, SiemAssumption
    <2>2. CASE Fault
        BY <2>2, FaultCounts
    <2>3. QED
        BY <2>1, <2>2 DEF ScanOutbox, ReconcileFails
<1>3. PICK found \in SUBSET (Rows \X Sinks) :
          /\ missing' = [missing EXCEPT ![a] = found]
          /\ \A p \in found : ~Covered(p[1], p[2])
    BY DEF ScanOutbox, ReconcileFails
<1>4. SiemTypeOK'
    BY <1>1, <1>2, <1>3 DEF SiemInv, SiemTypeOK, Rows
<1>5. IngestSound' /\ AckedIsStored'
    BY <1>1 DEF SiemInv, IngestSound, AckedIsStored, Stored, Rows
<1>6. DispatchSound' /\ DeliveredWasSent' /\ ChargesFit'
    BY <1>1, <1>2, <1>4, DispatchUntouched
<1>7. KeysSound'
    <2>1. \A b \in Admins : missing'[b] = IF b = a THEN found ELSE missing[b]
        BY <1>3 DEF SiemInv, SiemTypeOK
    <2>2. \A b \in Admins : \A p \in missing'[b] : \A d \in delivery' :
              d.row = p[1] /\ d.sink = p[2] => d.by # b
        BY <1>1, <1>3, <2>1 DEF SiemInv, KeysSound, Covered
    <2>3. QED
        BY <1>1, <2>2 DEF SiemInv, KeysSound, Same
<1>8. QED
    BY <1>4, <1>5, <1>6, <1>7 DEF SiemInv

LEMMA InsertMissingRight ==
    ASSUME SiemInv, NEW a \in Admins, InsertMissing(a)
    PROVE  SiemInv'
<1> DEFINE N == {Pending(p[1], p[2], a) : p \in missing[a]}
<1>0. missing[a] \subseteq Rows \X Sinks
    BY DEF SiemInv, SiemTypeOK
<1>1. \A p \in missing[a] : LET d == Pending(p[1], p[2], a) IN
          /\ d \in Deliveries
          /\ d.row = p[1] /\ d.sink = p[2] /\ d.by = a
          /\ d.attempts = 0 /\ d.status = "pending"
    BY <1>0, PendingIsRow DEF Writers
<1>2. \A d \in N : /\ d \in Deliveries /\ d.row \in Rows
                   /\ d.by = a /\ d.attempts = 0 /\ d.status = "pending"
                   /\ \E p \in missing[a] : d.row = p[1] /\ d.sink = p[2]
    BY <1>0, <1>1
<1>3. \A d, e \in N : Same(d, e) => d = e
    BY <1>0, <1>1 DEF Same
<1>4. /\ delivery' = delivery \cup N
      /\ missing' = [missing EXCEPT ![a] = {}]
      /\ UNCHANGED <<kind, entry, outbox, sent, consumer, dispatch, faults>>
    BY DEF InsertMissing
<1> HIDE DEF N
<1>5. SiemTypeOK'
    BY <1>2, <1>4 DEF SiemInv, SiemTypeOK, Rows
<1>6. IngestSound' /\ AckedIsStored'
    BY <1>4 DEF SiemInv, IngestSound, AckedIsStored, Stored, Rows
<1>7. DispatchSound' /\ DeliveredWasSent' /\ ChargesFit'
    <2>1. N \in SUBSET Deliveries
        BY <1>2
    <2>2. QED
        BY <1>2, <1>4, <1>5, <2>1, NewRows
<1>8. KeysSound'
    <2>1. \A d \in delivery, e \in N : ~Same(d, e) /\ ~Same(e, d)
        BY <1>2 DEF SiemInv, KeysSound, Same
    <2>2. \A d, e \in delivery' : Same(d, e) => d = e
        BY <1>3, <1>4, <2>1 DEF SiemInv, KeysSound
    <2>3. \A b \in Admins : \A p \in missing'[b] : \A d \in delivery' :
              d.row = p[1] /\ d.sink = p[2] => d.by # b
        BY <1>2, <1>4 DEF SiemInv, SiemTypeOK, KeysSound
    <2>4. \A d \in N : d.by # Ingest
        BY <1>2, SiemAssumption DEF SiemAssumption
    <2>5. QED
        BY <1>4, <2>2, <2>3, <2>4 DEF SiemInv, KeysSound, Same
<1>9. QED
    BY <1>5, <1>6, <1>7, <1>8 DEF SiemInv

---------------------------------------------------------------------------
(* Dispatch *)

LEMMA Steps ==
    ASSUME SiemInv, NEW a \in Admins, NEW s \in Sinks, NEW next \in Dispatches, Step(a, s, next)
    PROVE  /\ dispatch' \in [Admins -> [Sinks -> Dispatches]]
           /\ dispatch'[a][s] = next
           /\ \A b \in Admins, t \in Sinks : b # a \/ t # s => dispatch'[b][t] = dispatch[b][t]
BY DEF Step, SiemInv, SiemTypeOK

\* What a step makes of the rows: it forgets none, and counts no attempt.
Kept(d) ==
    \E e \in delivery : /\ Same(d, e)
                        /\ d.attempts = e.attempts
                        /\ d.status = "delivered" =>
                               e.status = "delivered" \/ <<d.row, d.sink>> \in sent

(***************************************************************************)
(* A dispatch that does not count attempts: it may end up owing one, to    *)
(* rows that the sink refuses or with a fault.                             *)
(***************************************************************************)
LEMMA DispatchMoves ==
    ASSUME SiemInv, NEW a \in Admins, NEW s \in Sinks, NEW next \in Dispatches,
           Step(a, s, next),
           next.batch \subseteq Rows, next.rest \subseteq Rows, IsFiniteSet(next.batch),
           next.pc # "read" => next.batch # {},
           next.pc = "mark" => next.batch \X {s} \subseteq sent',
           next.pc # "update", next.seen = {},
           UNCHANGED <<kind, entry, outbox, consumer, missing>>,
           sent \subseteq sent', sent' \subseteq Rows \X Sinks,
           delivery' \subseteq Deliveries,
           \A d \in delivery' : Kept(d),
           \A d, e \in delivery' : Same(d, e) => d = e,
           \/ faults' = faults /\ (next.pc = "failed" => \A r \in next.batch : ~Healthy(r))
           \/ Fault
    PROVE  SiemInv'
<1>1. /\ dispatch' \in [Admins -> [Sinks -> Dispatches]]
      /\ dispatch'[a][s] = next
      /\ \A b \in Admins, t \in Sinks : b # a \/ t # s => dispatch'[b][t] = dispatch[b][t]
    BY Steps
<1>2. Rows' = Rows
    BY DEF Rows
<1>3. faults \in Nat /\ faults' \in 0..MaxFaults /\ faults' \in {faults, faults + 1}
    BY FaultCounts, SiemAssumption DEF SiemInv, SiemTypeOK, SiemAssumption
<1>4. SiemTypeOK'
    <2>1. \A d \in delivery' : d.row \in Rows
        BY DEF Kept, Same, SiemInv, SiemTypeOK
    <2>2. QED
        BY <1>1, <1>2, <1>3, <2>1 DEF SiemInv, SiemTypeOK
<1>5. IngestSound' /\ AckedIsStored'
    BY <1>2 DEF SiemInv, IngestSound, AckedIsStored, Stored
<1>6. DispatchSound'
    <2> SUFFICES ASSUME NEW b \in Admins, NEW t \in Sinks
                 PROVE  /\ dispatch'[b][t].batch \subseteq Rows
                        /\ dispatch'[b][t].rest \subseteq Rows
                        /\ IsFiniteSet(dispatch'[b][t].batch)
                        /\ dispatch'[b][t].pc # "read" => dispatch'[b][t].batch # {}
                        /\ dispatch'[b][t].pc = "mark" => dispatch'[b][t].batch \X {t} \subseteq sent'
                        /\ \A e \in dispatch'[b][t].seen : e.row \in Rows /\ e.sink = t
        BY <1>2 DEF DispatchSound
    <2>1. CASE b = a /\ t = s
        BY <1>1, <2>1
    <2>2. CASE b # a \/ t # s
        BY <1>1, <2>2 DEF SiemInv, DispatchSound
    <2>3. QED
        BY <2>1, <2>2
<1>7. DeliveredWasSent'
    BY DEF DeliveredWasSent, Kept, Same, SiemInv
<1>8. KeysSound'
    <2>1. \A b \in Admins, t \in Sinks : \A d, e \in dispatch'[b][t].seen : Same(d, e) => d = e
        BY <1>1 DEF SiemInv, KeysSound
    <2>2. \A d \in delivery' : \E e \in delivery : d.row = e.row /\ d.sink = e.sink /\ d.by = e.by
        BY DEF Kept, Same
    <2>3. QED
        BY <2>1, <2>2 DEF SiemInv, KeysSound, Same
<1>9. ASSUME NEW r \in Rows, NEW t \in Sinks, NEW by \in Writers, Healthy(r)
      PROVE  Charged(r, t, by)' + faults <= Charged(r, t, by) + faults'
    <2>1. CASE faults' = faults /\ (next.pc = "failed" => \A q \in next.batch : ~Healthy(q))
        <3>1. Charging(r, t, by)' \subseteq Charging(r, t, by)
            BY <1>1, <1>9, <2>1 DEF Charging
        <3>2. Charged(r, t, by)' <= Charged(r, t, by)
            BY <3>1, ChargedIsNat, Fewer DEF Charged
        <3>3. QED
            BY <1>3, <2>1, <3>2, ChargedIsNat
    <2>2. CASE Fault
        <3>1. Charging(r, t, by)' \subseteq Charging(r, t, by) \cup {a}
            BY <1>1 DEF Charging
        <3>2. Charged(r, t, by)' <= Charged(r, t, by) + 1
            BY <3>1, ChargedIsNat, OneMore DEF Charged
        <3>3. faults' = faults + 1
            BY <2>2 DEF Fault
        <3>4. QED
            BY <1>3, <3>2, <3>3, ChargedIsNat
    <2>3. QED
        BY <2>1, <2>2
<1>10. ChargesFit'
    <2>1. \A d \in delivery' : Counted(d)
        BY DEF Kept, Counted
    <2>2. \A b \in Admins, t \in Sinks : \A d \in (dispatch[b][t].seen)' : Counted(d)
        BY <1>1 DEF Counted, Same
    <2>3. QED
        BY <1>2, <1>4, <1>9, <2>1, <2>2, ChargesStay
<1>11. QED
    BY <1>4, <1>5, <1>6, <1>7, <1>8, <1>10 DEF SiemInv

LEMMA SameRowsKept ==
    ASSUME SiemInv
    PROVE  /\ delivery \subseteq Deliveries
           /\ \A d \in delivery : Kept(d)
           /\ \A d, e \in delivery : Same(d, e) => d = e
           /\ sent \subseteq Rows \X Sinks
BY DEF SiemInv, SiemTypeOK, KeysSound, Kept, Same

LEMMA AtIsDispatch ==
    ASSUME NEW pc \in {"read", "send", "mark", "failed", "update"}, NEW batch \in SUBSET Rows,
           NEW rest \in SUBSET Rows, NEW seen \in SUBSET Deliveries
    PROVE  /\ At(pc, batch, rest, seen) \in Dispatches
           /\ At(pc, batch, rest, seen).pc = pc
           /\ At(pc, batch, rest, seen).batch = batch
           /\ At(pc, batch, rest, seen).rest = rest
           /\ At(pc, batch, rest, seen).seen = seen
BY DEF At, Dispatches, Rows

LEMMA ReadUndeliveredRight ==
    ASSUME SiemInv, NEW a \in Admins, NEW s \in Sinks, ReadUndelivered(a, s)
    PROVE  SiemInv'
<1>1. PICK first \in SUBSET Undelivered(s) :
          /\ first # {}
          /\ Cardinality(first) <= BatchSize
          /\ Step(a, s, At("send", {d.row : d \in first}, {}, {}))
          /\ Cardinality(first) = BatchSize \/ first = Undelivered(s)
    BY DEF ReadUndelivered
<1> DEFINE batch == {d.row : d \in first}
           next == At("send", batch, {}, {})
<1>2. batch \in SUBSET Rows /\ batch # {}
    BY <1>1 DEF Undelivered, SiemInv, SiemTypeOK
<1>3. IsFiniteSet(batch)
    <2>1. IsFiniteSet(1..Len(outbox))
        BY FS_Interval DEF SiemInv, SiemTypeOK
    <2>2. QED
        BY <1>2, <2>1, FS_Subset DEF Rows
<1> HIDE DEF batch
<1>4. /\ next \in Dispatches /\ next.pc = "send" /\ next.batch = batch
      /\ next.rest = {} /\ next.seen = {}
    BY <1>2, AtIsDispatch
<1>5. Step(a, s, next)
    BY <1>1 DEF batch
<1> HIDE DEF next
<1>6. UNCHANGED <<kind, entry, outbox, delivery, sent, consumer, missing, faults>>
    BY DEF ReadUndelivered
<1>7. \A d \in delivery' : Kept(d)
    BY <1>6, SameRowsKept
<1>8. QED
    BY <1>2, <1>3, <1>4, <1>5, <1>6, <1>7, SameRowsKept, DispatchMoves

\* A position without a snapshot, with rows of the outbox.
Plain(next) ==
    /\ next \in Dispatches
    /\ next.batch \subseteq Rows /\ next.rest \subseteq Rows /\ IsFiniteSet(next.batch)
    /\ next.pc # "read" => next.batch # {}
    /\ next.pc # "update" /\ next.seen = {}

LEMMA BatchOf ==
    ASSUME SiemInv, NEW a \in Admins, NEW s \in Sinks
    PROVE  /\ dispatch[a][s] \in Dispatches
           /\ dispatch[a][s].batch \in SUBSET Rows
           /\ dispatch[a][s].rest \in SUBSET Rows
           /\ IsFiniteSet(dispatch[a][s].batch)
           /\ dispatch[a][s].pc # "read" => dispatch[a][s].batch # {}
BY DEF SiemInv, SiemTypeOK, DispatchSound

LEMMA PlainAt ==
    ASSUME SiemInv, NEW pc \in {"read", "send", "mark", "failed"}, NEW batch \in SUBSET Rows,
           NEW rest \in SUBSET Rows, IsFiniteSet(batch), pc # "read" => batch # {}
    PROVE  /\ Plain(At(pc, batch, rest, {}))
           /\ At(pc, batch, rest, {}).pc = pc
           /\ At(pc, batch, rest, {}).batch = batch
<1>1. {} \in SUBSET Deliveries
    OBVIOUS
<1>2. QED
    BY <1>1, AtIsDispatch DEF Plain

LEMMA OneByOneStep ==
    ASSUME SiemInv, NEW a \in Admins, NEW s \in Sinks, NEW rows \in SUBSET Rows,
           OneByOne(a, s, rows)
    PROVE  \E next : Plain(next) /\ next.pc = "send" /\ Step(a, s, next)
<1>1. PICK r \in rows : Step(a, s, At("send", {r}, rows \ {r}, {}))
    BY DEF OneByOne
<1>2. {r} \in SUBSET Rows /\ {r} # {} /\ rows \ {r} \in SUBSET Rows /\ IsFiniteSet({r})
    BY FS_Singleton
<1>3. QED
    BY <1>1, <1>2, PlainAt

LEMMA SettledStep ==
    ASSUME SiemInv, NEW a \in Admins, NEW s \in Sinks, Settled(a, s)
    PROVE  \E next : Plain(next) /\ next.pc \in {"read", "send"} /\ Step(a, s, next)
<1>1. {} \in SUBSET Rows /\ IsFiniteSet({})
    BY FS_EmptySet
<1>2. CASE dispatch[a][s].rest = {}
    BY <1>1, <1>2, PlainAt DEF Settled, NoBatch
<1>3. CASE dispatch[a][s].rest # {}
    BY <1>3, BatchOf, OneByOneStep DEF Settled
<1>4. QED
    BY <1>2, <1>3

\* A failed batch is sent row by row, or owes its attempt: then it cannot be split.
LEMMA SendFailsStep ==
    ASSUME SiemInv, NEW a \in Admins, NEW s \in Sinks, NEW retryable \in BOOLEAN,
           dispatch[a][s].pc = "send", SendFails(a, s, retryable)
    PROVE  \E next : /\ Plain(next) /\ Step(a, s, next)
                     /\ \/ next.pc = "send"
                        \/ /\ next.pc = "failed"
                           /\ next.batch = dispatch[a][s].batch
                           /\ retryable \/ ~(Cardinality(dispatch[a][s].batch) > 1)
<1> DEFINE d == dispatch[a][s]
<1>1. CASE ~retryable /\ Cardinality(d.batch) > 1
    BY <1>1, BatchOf, OneByOneStep DEF SendFails
<1>2. CASE ~(~retryable /\ Cardinality(d.batch) > 1)
    <2>1. Step(a, s, At("failed", d.batch, d.rest, {}))
        BY <1>2 DEF SendFails
    <2>2. d.batch # {}
        BY BatchOf
    <2>3. QED
        BY <1>2, <2>1, <2>2, BatchOf, PlainAt
<1>3. QED
    BY <1>1, <1>2

LEMMA SendAcceptedRight ==
    ASSUME SiemInv, NEW a \in Admins, NEW s \in Sinks, SendAccepted(a, s)
    PROVE  SiemInv'
<1> DEFINE d == dispatch[a][s]
           next == At("mark", d.batch, d.rest, {})
<1>1. /\ d.pc = "send" /\ sent' = sent \cup (d.batch \X {s}) /\ Step(a, s, next)
      /\ UNCHANGED <<kind, entry, outbox, delivery, consumer, missing, faults>>
    BY DEF SendAccepted
<1>2. Plain(next) /\ next.pc = "mark" /\ next.batch = d.batch
    BY <1>1, BatchOf, PlainAt
<1>3. sent \subseteq sent' /\ sent' \subseteq Rows \X Sinks /\ d.batch \X {s} \subseteq sent'
    BY <1>1, BatchOf, SameRowsKept
<1> HIDE DEF next
<1>4. \A e \in delivery' : Kept(e)
    BY <1>1, SameRowsKept
<1>5. QED
    BY <1>1, <1>2, <1>3, <1>4, SameRowsKept, DispatchMoves DEF Plain

LEMMA OneOnly ==
    ASSUME NEW S, IsFiniteSet(S), Cardinality(S) <= 1, NEW p \in S, NEW r \in S
    PROVE  r = p
<1> SUFFICES ASSUME r # p PROVE FALSE
    OBVIOUS
<1>1. IsFiniteSet({p}) /\ Cardinality({p}) = 1
    BY FS_Singleton
<1>2. r \notin {p}
    OBVIOUS
<1>3. Cardinality({p} \cup {r}) = Cardinality({p}) + 1
    BY <1>1, <1>2, FS_AddElement
<1>4. {p} \cup {r} \in SUBSET S
    OBVIOUS
<1>5. Cardinality({p} \cup {r}) <= Cardinality(S)
    BY <1>4, FS_Subset
<1>6. Cardinality(S) \in Nat
    BY FS_CardinalityType
<1>7. Cardinality({p} \cup {r}) = 2
    BY <1>1, <1>3
<1>8. QED
    BY <1>5, <1>6, <1>7

\* A batch of one that the sink refuses is the poison itself.
LEMMA SendRejectedRight ==
    ASSUME SiemInv, NEW a \in Admins, NEW s \in Sinks, SendRejected(a, s)
    PROVE  SiemInv'
<1> DEFINE d == dispatch[a][s]
<1>1. /\ d.pc = "send" /\ Poisoned(d.batch) /\ SendFails(a, s, FALSE)
      /\ UNCHANGED <<kind, entry, outbox, delivery, sent, consumer, missing, faults>>
    BY DEF SendRejected
<1>2. PICK next : /\ Plain(next) /\ Step(a, s, next)
                  /\ \/ next.pc = "send"
                     \/ /\ next.pc = "failed"
                        /\ next.batch = d.batch
                        /\ ~(Cardinality(d.batch) > 1)
    BY <1>1, SendFailsStep
<1>3. next.pc = "failed" => \A r \in next.batch : ~Healthy(r)
    <2> SUFFICES ASSUME next.pc = "failed" PROVE \A r \in d.batch : ~Healthy(r)
        BY <1>2
    <2>1. PICK p \in d.batch : kind[outbox[p]] = "poison"
        BY <1>1 DEF Poisoned
    <2>2. \A r \in d.batch : r = p
        <3>1. IsFiniteSet(d.batch) /\ Cardinality(d.batch) \in Nat
            BY BatchOf, FS_CardinalityType
        <3>2. Cardinality(d.batch) <= 1
            BY <1>2, <3>1
        <3>3. QED
            BY <3>1, <3>2, OneOnly
    <2>3. QED
        BY <2>1, <2>2 DEF Healthy
<1>4. \A e \in delivery' : Kept(e)
    BY <1>1, SameRowsKept
<1>5. QED
    BY <1>1, <1>2, <1>3, <1>4, SameRowsKept, DispatchMoves DEF Plain

LEMMA SinkFailsRight ==
    ASSUME SiemInv, NEW a \in Admins, NEW s \in Sinks, SinkFails(a, s)
    PROVE  SiemInv'
<1> DEFINE d == dispatch[a][s]
<1>1. /\ d.pc = "send" /\ Fault
      /\ UNCHANGED <<kind, entry, outbox, delivery, consumer, missing>>
      /\ sent' = sent \/ sent' = sent \cup (d.batch \X {s})
      /\ SendFails(a, s, TRUE) \/ SendFails(a, s, FALSE)
    BY DEF SinkFails
<1>2. PICK next : Plain(next) /\ Step(a, s, next) /\ next.pc # "mark"
    BY <1>1, SendFailsStep
<1>3. sent \subseteq sent' /\ sent' \subseteq Rows \X Sinks
    BY <1>1, BatchOf, SameRowsKept
<1>4. \A e \in delivery' : Kept(e)
    BY <1>1, SameRowsKept
<1>5. QED
    BY <1>1, <1>2, <1>3, <1>4, SameRowsKept, DispatchMoves DEF Plain

LEMMA MarkDeliveredFailsRight ==
    ASSUME SiemInv, NEW a \in Admins, NEW s \in Sinks, MarkDeliveredFails(a, s)
    PROVE  SiemInv'
<1> DEFINE d == dispatch[a][s]
           next == At("failed", d.batch, d.rest, {})
<1>1. /\ d.pc = "mark" /\ Fault /\ Step(a, s, next)
      /\ UNCHANGED <<kind, entry, outbox, delivery, sent, consumer, missing>>
    BY DEF MarkDeliveredFails
<1>2. Plain(next) /\ next.pc = "failed"
    BY <1>1, BatchOf, PlainAt
<1> HIDE DEF next
<1>3. \A e \in delivery' : Kept(e)
    BY <1>1, SameRowsKept
<1>4. QED
    BY <1>1, <1>2, <1>3, SameRowsKept, DispatchMoves DEF Plain

LEMMA MarkFailedFailsRight ==
    ASSUME SiemInv, NEW a \in Admins, NEW s \in Sinks, MarkFailedFails(a, s)
    PROVE  SiemInv'
<1>1. /\ Fault /\ Step(a, s, NoBatch)
      /\ UNCHANGED <<kind, entry, outbox, delivery, sent, consumer, missing>>
    BY DEF MarkFailedFails
<1>2. Plain(NoBatch) /\ NoBatch.pc = "read"
    <2>1. {} \in SUBSET Rows /\ IsFiniteSet({})
        BY FS_EmptySet
    <2>2. QED
        BY <2>1, PlainAt DEF NoBatch
<1>3. \A e \in delivery' : Kept(e)
    BY <1>1, SameRowsKept
<1>4. QED
    BY <1>1, <1>2, <1>3, SameRowsKept, DispatchMoves DEF Plain

LEMMA MarkDeliveredRight ==
    ASSUME SiemInv, NEW a \in Admins, NEW s \in Sinks, MarkDelivered(a, s)
    PROVE  SiemInv'
<1> DEFINE marked == About(dispatch[a][s].batch, s)
           Marked(d) == [d EXCEPT !.status = "delivered"]
<1>1. /\ dispatch[a][s].pc = "mark"
      /\ delivery' = (delivery \ marked) \cup {Marked(d) : d \in marked}
      /\ Settled(a, s)
      /\ UNCHANGED <<kind, entry, outbox, sent, consumer, missing, faults>>
    BY DEF MarkDelivered
<1>2. PICK next : Plain(next) /\ next.pc \in {"read", "send"} /\ Step(a, s, next)
    BY <1>1, SettledStep
<1>3. \A d \in marked : /\ d \in delivery /\ d \in Deliveries
                        /\ <<d.row, d.sink>> \in sent
    <2>1. dispatch[a][s].batch \X {s} \subseteq sent
        BY <1>1 DEF SiemInv, DispatchSound
    <2>2. QED
        BY <2>1 DEF About, SiemInv, SiemTypeOK
<1>4. \A d \in Deliveries : /\ Marked(d) \in Deliveries
                           /\ Marked(d).row = d.row /\ Marked(d).sink = d.sink
                           /\ Marked(d).by = d.by /\ Marked(d).attempts = d.attempts
    BY DEF Deliveries
<1> HIDE DEF marked, Marked
<1>5. \A e \in delivery' : e \in delivery \/ \E d \in marked : e = Marked(d)
    BY <1>1
<1>6. \A e \in delivery' : e \in Deliveries /\ Kept(e)
    <2> SUFFICES ASSUME NEW e \in delivery' PROVE e \in Deliveries /\ Kept(e)
        OBVIOUS
    <2>1. CASE e \in delivery
        BY <2>1, SameRowsKept
    <2>2. CASE e \notin delivery
        <3>1. PICK d \in marked : e = Marked(d)
            BY <1>5, <2>2
        <3>2. /\ d \in delivery /\ d \in Deliveries /\ <<d.row, d.sink>> \in sent
              /\ e \in Deliveries /\ e.row = d.row /\ e.sink = d.sink
              /\ e.by = d.by /\ e.attempts = d.attempts
            BY <1>3, <1>4, <3>1
        <3>3. QED
            BY <3>2 DEF Kept, Same
    <2>3. QED
        BY <2>1, <2>2
<1>7. \A d, e \in delivery' : Same(d, e) => d = e
    <2> SUFFICES ASSUME NEW d \in delivery', NEW e \in delivery', Same(d, e) PROVE d = e
        OBVIOUS
    <2>1. PICK f \in delivery : IF f \in marked THEN d = Marked(f) ELSE d = f
        BY <1>1, <1>3
    <2>2. PICK g \in delivery : IF g \in marked THEN e = Marked(g) ELSE e = g
        BY <1>1, <1>3
    <2>3. f \in Deliveries /\ g \in Deliveries
        BY SameRowsKept
    <2>4. d.row = f.row /\ d.sink = f.sink /\ d.by = f.by
        BY <1>4, <2>1, <2>3
    <2>5. e.row = g.row /\ e.sink = g.sink /\ e.by = g.by
        BY <1>4, <2>2, <2>3
    <2>6. Same(f, g)
        BY <2>4, <2>5 DEF Same
    <2>7. f = g
        BY <2>6, SameRowsKept
    <2>8. QED
        BY <2>1, <2>2, <2>7
<1>8. QED
    BY <1>1, <1>2, <1>6, <1>7, SameRowsKept, DispatchMoves DEF Plain

\* markFailed reads what it is about to write: the same rows stay charged.
LEMMA ReadAttemptsRight ==
    ASSUME SiemInv, NEW a \in Admins, NEW s \in Sinks, ReadAttempts(a, s)
    PROVE  SiemInv'
<1> DEFINE d == dispatch[a][s]
           seen == About(d.batch, s)
           next == At("update", d.batch, d.rest, seen)
<1>1. /\ d.pc = "failed" /\ Step(a, s, next)
      /\ UNCHANGED <<kind, entry, outbox, delivery, sent, consumer, missing, faults>>
    BY DEF ReadAttempts
<1>2. seen \subseteq delivery /\ \A e \in seen : e.row \in d.batch /\ e.sink = s
    BY DEF About
<1>3. /\ next \in Dispatches /\ next.pc = "update" /\ next.batch = d.batch
      /\ next.rest = d.rest /\ next.seen = seen
    BY <1>2, BatchOf, SameRowsKept, AtIsDispatch
<1> HIDE DEF next, seen
<1>4. /\ dispatch' \in [Admins -> [Sinks -> Dispatches]]
      /\ dispatch'[a][s] = next
      /\ \A b \in Admins, t \in Sinks : b # a \/ t # s => dispatch'[b][t] = dispatch[b][t]
    BY <1>1, <1>3, Steps
<1>5. Rows' = Rows /\ faults \in Nat
    BY <1>1, SiemAssumption DEF Rows, SiemInv, SiemTypeOK, SiemAssumption
<1>6. SiemTypeOK'
    BY <1>1, <1>4, <1>5 DEF SiemInv, SiemTypeOK
<1>7. IngestSound' /\ AckedIsStored' /\ DeliveredWasSent'
    BY <1>1, <1>5 DEF SiemInv, IngestSound, AckedIsStored, Stored, DeliveredWasSent
<1>8. DispatchSound'
    <2>1. /\ next.batch \subseteq Rows /\ next.rest \subseteq Rows /\ IsFiniteSet(next.batch)
          /\ next.batch # {}
          /\ \A e \in next.seen : e.row \in Rows /\ e.sink = s
        BY <1>1, <1>2, <1>3, BatchOf
    <2>2. QED
        BY <1>1, <1>3, <1>4, <1>5, <2>1 DEF SiemInv, DispatchSound
<1>9. KeysSound'
    <2>1. \A b \in Admins, t \in Sinks : \A e, f \in dispatch'[b][t].seen : Same(e, f) => e = f
        BY <1>2, <1>3, <1>4 DEF SiemInv, KeysSound
    <2>2. QED
        BY <1>1, <2>1 DEF SiemInv, KeysSound, Same
<1>10. ASSUME NEW r \in Rows, NEW t \in Sinks, NEW by \in Writers
       PROVE  Charged(r, t, by)' + faults <= Charged(r, t, by) + faults'
    <2>1. Charging(r, t, by)' \subseteq Charging(r, t, by)
        BY <1>1, <1>2, <1>3, <1>4 DEF Charging
    <2>2. Charged(r, t, by)' <= Charged(r, t, by)
        BY <2>1, ChargedIsNat, Fewer DEF Charged
    <2>3. QED
        BY <1>1, <1>5, <2>2, ChargedIsNat
<1>11. ChargesFit'
    <2>1. \A e \in delivery' : Counted(e)
        BY <1>1 DEF Counted, Same
    <2>2. \A b \in Admins, t \in Sinks : \A e \in (dispatch[b][t].seen)' : Counted(e)
        BY <1>2, <1>3, <1>4 DEF Counted, Same
    <2>3. QED
        BY <1>1, <1>5, <1>6, <1>10, <2>1, <2>2, ChargesStay
<1>12. QED
    BY <1>6, <1>7, <1>8, <1>9, <1>11 DEF SiemInv

LEMMA FailedIsRow ==
    ASSUME NEW d \in Deliveries, NEW n \in Nat
    PROVE  /\ Failed(d, n) \in Deliveries
           /\ Same(Failed(d, n), d)
           /\ Failed(d, n).attempts = n
           /\ Failed(d, n).status = "delivered" => d.status = "delivered"
BY DEF Failed, Deliveries, Same

LEMMA UpdateFailedRight ==
    ASSUME SiemInv, NEW a \in Admins, NEW s \in Sinks, UpdateFailed(a, s)
    PROVE  SiemInv'
<1> DEFINE d == dispatch[a][s]
<1>1. PICK row \in d.seen :
          /\ d.pc = "update"
          /\ delivery' = {IF Same(e, row) THEN Failed(e, row.attempts + 1) ELSE e : e \in delivery}
          /\ IF d.seen = {row} THEN Settled(a, s)
             ELSE Step(a, s, At("update", d.batch, d.rest, d.seen \ {row}))
          /\ UNCHANGED <<kind, entry, outbox, sent, consumer, missing, faults>>
    BY DEF UpdateFailed
<1>2. /\ d.seen \in SUBSET Deliveries
      /\ row \in Deliveries /\ row.attempts + 1 \in Nat /\ row.row \in Rows /\ row.sink = s
    BY <1>1, BatchOf DEF Dispatches, Deliveries, SiemInv, DispatchSound
<1>3. PICK next : /\ next \in Dispatches /\ Step(a, s, next)
                  /\ next.batch \subseteq Rows /\ next.rest \subseteq Rows
                  /\ IsFiniteSet(next.batch)
                  /\ next.pc # "read" => next.batch # {}
                  /\ next.pc \in {"read", "send", "update"}
                  /\ next.seen \subseteq d.seen \ {row}
    <2>1. CASE d.seen = {row}
        BY <1>1, <2>1, SettledStep DEF Plain
    <2>2. CASE d.seen # {row}
        <3>1. d.seen \ {row} \in SUBSET Deliveries
            BY <1>2
        <3>2. QED
            BY <1>1, <2>2, <3>1, BatchOf, AtIsDispatch
    <2>3. QED
        BY <2>1, <2>2
<1>4. /\ dispatch' \in [Admins -> [Sinks -> Dispatches]]
      /\ dispatch'[a][s] = next
      /\ \A b \in Admins, t \in Sinks : b # a \/ t # s => dispatch'[b][t] = dispatch[b][t]
    BY <1>3, Steps
<1>5. Rows' = Rows /\ faults \in Nat
    BY <1>1, SiemAssumption DEF Rows, SiemInv, SiemTypeOK, SiemAssumption
<1>6. \A e \in delivery' : \E f \in delivery :
          /\ e \in Deliveries /\ Same(e, f)
          /\ e.status = "delivered" => f.status = "delivered"
          /\ e = IF Same(f, row) THEN Failed(f, row.attempts + 1) ELSE f
          /\ IF Same(f, row) THEN e.attempts = row.attempts + 1 ELSE e = f
    <2>1. \A f \in delivery : f \in Deliveries
        BY SameRowsKept
    <2>2. QED
        BY <1>1, <1>2, <2>1, FailedIsRow DEF Same
<1>7. SiemTypeOK'
    <2>1. delivery' \subseteq Deliveries /\ \A e \in delivery' : e.row \in Rows'
        BY <1>5, <1>6 DEF Same, SiemInv, SiemTypeOK
    <2>2. QED
        BY <1>1, <1>4, <1>5, <2>1 DEF SiemInv, SiemTypeOK
<1>8. IngestSound' /\ AckedIsStored'
    BY <1>1, <1>5 DEF SiemInv, IngestSound, AckedIsStored, Stored
<1>9. DeliveredWasSent'
    BY <1>1, <1>6 DEF SiemInv, DeliveredWasSent, Same
<1>10. DispatchSound'
    BY <1>1, <1>3, <1>4, <1>5 DEF SiemInv, DispatchSound
<1>11. KeysSound'
    <2>1. \A b \in Admins, t \in Sinks : \A e, f \in dispatch'[b][t].seen : Same(e, f) => e = f
        BY <1>3, <1>4 DEF SiemInv, KeysSound
    <2>2. \A e, f \in delivery' : Same(e, f) => e = f
        BY <1>6 DEF SiemInv, KeysSound, Same
    <2>3. \A e \in delivery' : \E f \in delivery : e.row = f.row /\ e.sink = f.sink /\ e.by = f.by
        BY <1>6 DEF Same
    <2>4. QED
        BY <1>1, <2>1, <2>2, <2>3 DEF SiemInv, KeysSound, Same
<1>12. ASSUME NEW r \in Rows, NEW t \in Sinks, NEW by \in Writers
       PROVE  Charged(r, t, by)' <= Charged(r, t, by)
    <2>1. Charging(r, t, by)' \subseteq Charging(r, t, by)
        BY <1>1, <1>3, <1>4 DEF Charging
    <2>2. QED
        BY <2>1, ChargedIsNat, Fewer DEF Charged
<1>13. Charged(row.row, row.sink, row.by)' + 1 <= Charged(row.row, row.sink, row.by)
    <2>1. a \in Charging(row.row, row.sink, row.by)
        BY <1>1, <1>2 DEF Charging
    <2>2. \A e \in d.seen \ {row} : ~(e.row = row.row /\ e.sink = row.sink /\ e.by = row.by)
        BY <1>1 DEF SiemInv, KeysSound, Same
    <2>3. Charging(row.row, row.sink, row.by)' \subseteq Charging(row.row, row.sink, row.by) \ {a}
        BY <1>1, <1>2, <1>3, <1>4, <2>2 DEF Charging
    <2>4. QED
        BY <2>1, <2>3, ChargedIsNat, OneLess DEF Charged
<1>14. ChargesFit'
    <2>1. \A r \in Rows', t \in Sinks, by \in Writers : Healthy(r)' => Charged(r, t, by)' <= faults'
        BY <1>1, <1>5, <1>12, ChargedIsNat DEF SiemInv, ChargesFit, Healthy
    <2>2. ASSUME NEW e \in Deliveries, e.row \in Rows, Healthy(e.row),
                 e.attempts + Charged(e.row, e.sink, e.by) <= faults
          PROVE  e.attempts + Charged(e.row, e.sink, e.by)' <= faults'
        <3>1. e.sink \in Sinks /\ e.by \in Writers /\ e.attempts \in Nat
            BY DEF Deliveries, Writers
        <3>2. Charged(e.row, e.sink, e.by)' <= Charged(e.row, e.sink, e.by)
            BY <1>12, <2>2, <3>1
        <3>3. QED
            BY <1>1, <1>5, <2>2, <3>1, <3>2, ChargedIsNat
    <2>3. ASSUME NEW e \in delivery', Healthy(e.row)'
          PROVE  e.attempts + Charged(e.row, e.sink, e.by)' <= faults'
        <3>1. PICK f \in delivery : /\ Same(e, f)
                                    /\ IF Same(f, row) THEN e.attempts = row.attempts + 1 ELSE e = f
            BY <1>6
        <3>2. f \in Deliveries /\ f.row \in Rows /\ Healthy(f.row)
            BY <1>1, <2>3, <3>1 DEF Same, Healthy, SiemInv, SiemTypeOK
        <3>3. CASE ~Same(f, row)
            BY <2>2, <3>1, <3>2, <3>3 DEF SiemInv, ChargesFit
        <3>4. CASE Same(f, row)
            <4>1. /\ e.row = row.row /\ e.sink = row.sink /\ e.by = row.by
                  /\ e.attempts = row.attempts + 1 /\ Healthy(row.row)
                BY <3>1, <3>2, <3>4 DEF Same
            <4>2. row.attempts + Charged(row.row, row.sink, row.by) <= faults
                BY <1>1, <4>1 DEF SiemInv, ChargesFit
            <4>3. row.attempts \in Nat
                BY <1>2 DEF Deliveries
            <4>4. row.attempts + 1 + Charged(row.row, row.sink, row.by)' <= faults'
                BY <1>1, <1>5, <1>13, <4>2, <4>3, ChargedIsNat
            <4>5. QED
                BY <4>1, <4>4
        <3>5. QED
            BY <3>3, <3>4
    <2>4. ASSUME NEW b \in Admins, NEW t \in Sinks, NEW e \in dispatch'[b][t].seen,
                 Healthy(e.row)'
          PROVE  e.attempts + Charged(e.row, e.sink, e.by)' <= faults'
        <3>1. e \in dispatch[b][t].seen
            BY <1>3, <1>4
        <3>2. e \in Deliveries /\ e.row \in Rows /\ Healthy(e.row)
            BY <1>1, <2>4, <3>1, BatchOf DEF Dispatches, SiemInv, DispatchSound, Healthy
        <3>3. e.attempts + Charged(e.row, e.sink, e.by) <= faults
            BY <3>1, <3>2 DEF SiemInv, ChargesFit
        <3>4. QED
            BY <2>2, <3>2, <3>3
    <2>5. QED
        BY <2>1, <2>3, <2>4 DEF ChargesFit
<1>15. QED
    BY <1>7, <1>8, <1>9, <1>10, <1>11, <1>14 DEF SiemInv

---------------------------------------------------------------------------

LEMMA CrashRight ==
    ASSUME SiemInv, NEW a \in Admins, Crash(a)
    PROVE  SiemInv'
<1>1. /\ Fault
      /\ UNCHANGED <<kind, entry, outbox, delivery, sent>>
      /\ consumer' = [consumer EXCEPT ![a] = Waiting({})]
      /\ dispatch' = [dispatch EXCEPT ![a] = [s \in Sinks |-> NoBatch]]
      /\ missing' = [missing EXCEPT ![a] = {}]
    BY DEF Crash
<1>2. faults' \in 0..MaxFaults /\ faults' = faults + 1 /\ faults \in Nat
    BY <1>1, FaultCounts, SiemAssumption DEF SiemInv, SiemTypeOK, SiemAssumption
<1>3. Waiting({}) \in Loops /\ Waiting({}).pc = "next"
    <2>1. {} \in SUBSET Events
        OBVIOUS
    <2>2. QED
        BY <2>1, WaitingIsLoop
<1>4. /\ NoBatch \in Dispatches /\ NoBatch.pc = "read"
      /\ NoBatch.batch = {} /\ NoBatch.rest = {} /\ NoBatch.seen = {}
    BY DEF NoBatch, At, Dispatches
<1>5. Rows' = Rows
    BY <1>1 DEF Rows
<1>6. /\ dispatch' \in [Admins -> [Sinks -> Dispatches]]
      /\ \A b \in Admins, s \in Sinks :
             dispatch'[b][s] = IF b = a THEN NoBatch ELSE dispatch[b][s]
    BY <1>1, <1>4 DEF SiemInv, SiemTypeOK
<1>7. /\ consumer' \in [Admins -> Loops]
      /\ \A b \in Admins : consumer'[b] = IF b = a THEN Waiting({}) ELSE consumer[b]
    BY <1>1, <1>3 DEF SiemInv, SiemTypeOK
<1>8. /\ missing' \in [Admins -> SUBSET (Rows \X Sinks)]
      /\ \A b \in Admins : missing'[b] = IF b = a THEN {} ELSE missing[b]
    BY <1>1 DEF SiemInv, SiemTypeOK
<1>9. SiemTypeOK'
    BY <1>1, <1>2, <1>5, <1>6, <1>7, <1>8 DEF SiemInv, SiemTypeOK
<1>10. IngestSound' /\ AckedIsStored' /\ DeliveredWasSent'
    BY <1>1, <1>3, <1>5, <1>7
    DEF SiemInv, IngestSound, AckedIsStored, Stored, DeliveredWasSent
<1>11. DispatchSound'
    <2>1. IsFiniteSet({})
        BY FS_EmptySet
    <2>2. \A b \in Admins, s \in Sinks : IsFiniteSet(dispatch'[b][s].batch)
        <3> SUFFICES ASSUME NEW b \in Admins, NEW s \in Sinks
                     PROVE  IsFiniteSet(dispatch'[b][s].batch)
            OBVIOUS
        <3>1. CASE b = a
            <4>1. dispatch'[b][s].batch = {}
                BY <1>4, <1>6, <3>1
            <4>2. QED
                BY <2>1, <4>1
        <3>2. CASE b # a
            <4>1. dispatch'[b][s] = dispatch[b][s]
                BY <1>6, <3>2
            <4>2. IsFiniteSet(dispatch[b][s].batch)
                BY DEF SiemInv, DispatchSound
            <4>3. QED
                BY <4>1, <4>2
        <3>3. QED
            BY <3>1, <3>2
    <2>3. \A b \in Admins, s \in Sinks :
              /\ dispatch'[b][s].batch \subseteq Rows
              /\ dispatch'[b][s].rest \subseteq Rows
              /\ dispatch'[b][s].pc # "read" => dispatch'[b][s].batch # {}
              /\ dispatch'[b][s].pc = "mark" => dispatch'[b][s].batch \X {s} \subseteq sent
              /\ \A e \in dispatch'[b][s].seen : e.row \in Rows /\ e.sink = s
        BY <1>4, <1>6 DEF SiemInv, DispatchSound
    <2>4. QED
        BY <1>1, <1>5, <2>2, <2>3 DEF DispatchSound
<1>12. KeysSound'
    BY <1>1, <1>3, <1>4, <1>6, <1>7, <1>8 DEF SiemInv, KeysSound, Same
<1>13. ASSUME NEW r \in Rows, NEW s \in Sinks, NEW by \in Writers
       PROVE  Charged(r, s, by)' + faults <= Charged(r, s, by) + faults'
    <2>1. Charging(r, s, by)' \subseteq Charging(r, s, by)
        BY <1>4, <1>6 DEF Charging
    <2>2. Charged(r, s, by)' <= Charged(r, s, by)
        BY <2>1, ChargedIsNat, Fewer DEF Charged
    <2>3. QED
        BY <1>2, <2>2, ChargedIsNat
<1>14. ChargesFit'
    <2>1. \A d \in delivery' : Counted(d)
        BY <1>1 DEF Counted, Same
    <2>2. \A b \in Admins, s \in Sinks : \A d \in (dispatch[b][s].seen)' : Counted(d)
        BY <1>4, <1>6 DEF Counted, Same
    <2>3. \A r \in Rows : r \in Rows' /\ outbox'[r] = outbox[r]
        BY <1>1, <1>5
    <2>4. QED
        BY <1>1, <1>5, <1>9, <1>13, <2>1, <2>2, <2>3, ChargesStay
<1>15. QED
    BY <1>9, <1>10, <1>11, <1>12, <1>14 DEF SiemInv

LEMMA InitRight ==
    ASSUME Init
    PROVE  SiemInv
<1>1. /\ kind \in Kinds /\ entry = [e \in Events |-> "none"] /\ outbox = <<>>
      /\ delivery = {} /\ sent = {} /\ faults = 0
      /\ missing = [a \in Admins |-> {}]
      /\ \A a \in Admins : consumer[a] = Waiting({})
      /\ \A a \in Admins, s \in Sinks : dispatch[a][s] = NoBatch
    BY DEF Init
<1>2. Waiting({}) \in Loops /\ Waiting({}).pc = "next"
    <2>1. {} \in SUBSET Events
        OBVIOUS
    <2>2. QED
        BY <2>1, WaitingIsLoop
<1>3. /\ NoBatch \in Dispatches /\ NoBatch.pc = "read"
      /\ NoBatch.batch = {} /\ NoBatch.rest = {} /\ NoBatch.seen = {}
    BY DEF NoBatch, At, Dispatches
<1>4. Rows = {}
    BY <1>1 DEF Rows
<1>5. SiemTypeOK
    <2>1. /\ consumer \in [Admins -> Loops]
          /\ dispatch \in [Admins -> [Sinks -> Dispatches]]
        BY <1>2, <1>3 DEF Init
    <2>2. faults \in 0..MaxFaults
        BY <1>1, SiemAssumption DEF SiemAssumption
    <2>3. outbox \in Seq(Events)
        BY <1>1
    <2>4. /\ entry \in [Events -> {"none", "new", "claimed", "idle", "acked", "lost"}]
          /\ missing \in [Admins -> SUBSET (Rows \X Sinks)]
        BY <1>1
    <2>5. QED
        BY <1>1, <2>1, <2>2, <2>3, <2>4 DEF SiemTypeOK
<1>6. IngestSound /\ AckedIsStored /\ DeliveredWasSent /\ KeysSound
    BY <1>1, <1>2, <1>3 DEF IngestSound, AckedIsStored, DeliveredWasSent, KeysSound
<1>7. DispatchSound
    BY <1>3, <1>1, FS_EmptySet DEF DispatchSound
<1>8. ChargesFit
    BY <1>1, <1>3, <1>4 DEF ChargesFit
<1>9. QED
    BY <1>5, <1>6, <1>7, <1>8 DEF SiemInv

LEMMA StutterRight ==
    ASSUME SiemInv, UNCHANGED vars
    PROVE  SiemInv'
<1>1. UNCHANGED <<kind, entry, outbox, delivery, sent, consumer, dispatch, missing, faults>>
    BY DEF vars
<1>2. Rows' = Rows
    BY <1>1 DEF Rows
<1>3. \A r, s, by : Charged(r, s, by)' = Charged(r, s, by)
    <2>1. \A r, s, by : Charging(r, s, by)' = Charging(r, s, by)
        BY <1>1 DEF Charging
    <2>2. QED
        BY <2>1 DEF Charged
<1>4. SiemTypeOK' /\ IngestSound' /\ AckedIsStored' /\ DeliveredWasSent'
    BY <1>1, <1>2
    DEF SiemInv, SiemTypeOK, IngestSound, AckedIsStored, Stored, DeliveredWasSent
<1>5. DispatchSound' /\ KeysSound'
    BY <1>1, <1>2 DEF SiemInv, DispatchSound, KeysSound, Same
<1>6. ChargesFit'
    BY <1>1, <1>2, <1>3 DEF SiemInv, ChargesFit, Healthy
<1>7. QED
    BY <1>4, <1>5, <1>6 DEF SiemInv

LEMMA NextRight ==
    ASSUME SiemInv, [Next]_vars
    PROVE  SiemInv'
<1>1. CASE UNCHANGED vars
    BY <1>1, StutterRight
<1>2. ASSUME NEW e \in Events, Publish(e) \/ Forget(e) \/ LapseIdle(e) \/ LapseHeld(e)
      PROVE  SiemInv'
    BY <1>2, StreamRight
<1>3. ASSUME NEW a \in Admins, ReclaimPending(a) \/ ReadGroup(a) \/ Handle(a)
      PROVE  SiemInv'
    <2>1. CASE ReclaimPending(a) \/ ReadGroup(a)
        BY <2>1, GivenRight
    <2>2. ASSUME NEW e \in Events, ReadDispatchConfig(a, e)
          PROVE  SiemInv'
        BY <2>2, ReadDispatchConfigRight
    <2>3. ASSUME NEW e \in Events, AckRejected(a, e)
          PROVE  SiemInv'
        BY <2>3, ConsumerEndsRight
    <2>4. CASE InsertEvent(a)
        BY <2>4, InsertEventRight
    <2>5. CASE InsertDeliveries(a)
        BY <2>5, InsertDeliveriesRight
    <2>6. CASE Ack(a)
        BY <2>6, AckRight
    <2>7. QED
        BY <1>3, <2>1, <2>2, <2>3, <2>4, <2>5, <2>6 DEF Handle
<1>4. ASSUME NEW a \in Admins, Reconcile(a) PROVE SiemInv'
    BY <1>4, ReconcileMoves, InsertMissingRight DEF Reconcile
<1>5. ASSUME NEW a \in Admins, NEW s \in Sinks, Dispatch(a, s) PROVE SiemInv'
    BY <1>5, ReadUndeliveredRight, SendAcceptedRight, SendRejectedRight, MarkDeliveredRight,
       ReadAttemptsRight, UpdateFailedRight DEF Dispatch
<1>6. ASSUME NEW a \in Admins, Stops(a) PROVE SiemInv'
    <2>1. ASSUME NEW e \in Events, LeaveUnacked(a, e) \/ AckRejectedFails(a, e)
          PROVE  SiemInv'
        BY <2>1, ConsumerEndsRight
    <2>2. ASSUME NEW s \in Sinks,
                 SinkFails(a, s) \/ MarkDeliveredFails(a, s) \/ MarkFailedFails(a, s)
          PROVE  SiemInv'
        BY <2>2, SinkFailsRight, MarkDeliveredFailsRight, MarkFailedFailsRight
    <2>3. CASE ReconcileFails(a)
        BY <2>3, ReconcileMoves
    <2>4. CASE Crash(a)
        BY <2>4, CrashRight
    <2>5. QED
        BY <1>6, <2>1, <2>2, <2>3, <2>4 DEF Stops
<1>7. QED
    BY <1>1, <1>2, <1>3, <1>4, <1>5, <1>6 DEF Next

LEMMA Invariant == Spec => []SiemInv
<1>1. Init => SiemInv
    BY InitRight
<1>2. SiemInv /\ [Next]_vars => SiemInv'
    BY NextRight
<1>3. QED
    BY <1>1, <1>2, PTL DEF Spec

---------------------------------------------------------------------------

\* The stream, the outbox, the deliveries and the processes keep their shapes.
THEOREM SiemTyped == Spec => []SiemTypeOK
<1>1. SiemInv => SiemTypeOK
    BY DEF SiemInv
<1>2. QED
    BY <1>1, Invariant, PTL

\* No event is lost between the stream and the outbox: whatever fails or takes an
\* entry over, what the group acknowledges has been written, or was refused as invalid.
THEOREM AckedStored == Spec => []AckedIsStored
<1>1. SiemInv => AckedIsStored
    BY DEF SiemInv
<1>2. QED
    BY <1>1, Invariant, PTL

\* The sink has received what is marked as delivered, though marking one delivery
\* marks every row about its event and sink.
THEOREM DeliveredSent == Spec => []DeliveredWasSent
<1>1. SiemInv => DeliveredWasSent
    BY DEF SiemInv
<1>2. QED
    BY <1>1, Invariant, PTL

\* The attempts of an event that its sink would accept are never more than the faults
\* so far, though it may share its batch, its rows and its updates with others.
THEOREM HealthySpared == Spec => []HealthyIsSpared
<1>1. SiemInv => HealthyIsSpared
    <2> SUFFICES ASSUME SiemInv, NEW d \in delivery, kind[outbox[d.row]] # "poison"
                 PROVE  d.attempts <= faults
        BY DEF HealthyIsSpared
    <2>1. d.attempts + Charged(d.row, d.sink, d.by) <= faults
        BY DEF SiemInv, ChargesFit, Healthy
    <2>2. d.attempts \in Nat /\ faults \in Nat
        BY SiemAssumption DEF SiemInv, SiemTypeOK, Deliveries, SiemAssumption
    <2>3. QED
        BY <2>1, <2>2, ChargedIsNat
<1>2. QED
    BY <1>1, Invariant, PTL

============================================================================
