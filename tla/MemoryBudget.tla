---------------------------- MODULE MemoryBudget ---------------------------
(***************************************************************************)
(* The memory reservation of one gateway process.  A worker loop holds a   *)
(* whole file from its extraction to its commit and reserves the bytes     *)
(* first; it waits in arrival order while the budget is full.              *)
(*                                                                         *)
(* The process has one thread: a call, a timer and an abort each run to    *)
(* their end, with every waiter they grant, so each is one action.  A      *)
(* reservation's parts (text and vectors per chunk set) are summed up, and *)
(* a settle that sets one of them sets the sum.                            *)
(***************************************************************************)
EXTENDS Naturals, FiniteSets, SequencesExt

CONSTANTS
    Loops,    \* the worker loops, of a worker that drains and of its successor
    Budget,   \* memoryBudgetBytes, in units
    MaxBytes  \* bound: the largest reservation, above the budget to see one that never fits

ASSUME BudgetAssumption == IsFiniteSet(Loops) /\ Budget \in Nat /\ MaxBytes \in Nat

Sizes == 0..MaxBytes

VARIABLES
    used,     \* bytes of all reservations
    holders,  \* how many reservations there are
    waiting,  \* the queue of waiters
    claim,    \* what each loop does with its claim
    signal    \* the stop signal that a new wait listens to

vars == <<used, holders, waiting, claim, signal>>

\* low is no state of the code: the least the claim has held since it was granted.
Claims ==
    [at : {"idle", "reading", "waiting", "holding", "released"},
     asked : Sizes, held : Sizes, low : Sizes]

NoClaim == [at |-> "idle", asked |-> 0, held |-> 0, low |-> 0]

Init ==
    /\ used = 0 /\ holders = 0 /\ waiting = <<>>
    /\ claim = [c \in Loops |-> NoClaim]
    /\ signal = "none"

\* The sum of f over S, as the number of all units.
Units(f, S) == {u \in S \X (1..MaxBytes) : u[2] <= f[u[1]]}
Total(f, S) == Cardinality(Units(f, S))

Waiting == {c \in Loops : claim[c].at = "waiting"}
Holding == {c \in Loops : claim[c].at = "holding"}

\* The state of the module memoryBudget.ts, as its functions pass it on.
Now == [used |-> used, holders |-> holders, waiting |-> waiting, claim |-> claim]

Becomes(s) ==
    /\ used' = s.used /\ holders' = s.holders
    /\ waiting' = s.waiting /\ claim' = s.claim

---------------------------------------------------------------------------
\* Seeded faults: an empty process is no exception; the new bytes are not counted.
Fits_NeverAlone(s, n) == s.used + n <= Budget
Fits_BeforeAdding(s, n) == s.holders = 0 \/ s.used <= Budget

Fits(s, n) == s.holders = 0 \/ s.used + n <= Budget

Reserved(n) == [at |-> "holding", asked |-> 0, held |-> n, low |-> n]

\* makeReservation, for each of the loops G what it has asked for.
Grant(s, G) ==
    [s EXCEPT !.used = @ + Total([c \in Loops |-> s.claim[c].asked], G),
              !.holders = @ + Cardinality(G),
              !.claim = [c \in Loops |-> IF c \in G THEN Reserved(@[c].asked) ELSE @[c]]]

\* Whether the waiter c fits once the loops G have been granted.
FitsAfter(s, G, c) == Fits(Grant(s, G), s.claim[c].asked)

First(q, k) == {q[i] : i \in 1..k}

\* From the head on, as long as the head fits: k waiters.
Pump(s) ==
    LET q == s.waiting IN
    \E k \in 0..Len(q) :
        /\ \A i \in 1..k : FitsAfter(s, First(q, i - 1), q[i])
        /\ k < Len(q) => ~FitsAfter(s, First(q, k), q[k + 1])
        /\ Becomes([Grant(s, First(q, k)) EXCEPT !.waiting = SubSeq(q, k + 1, Len(q))])

Without(i) ==
    [Now EXCEPT !.waiting = RemoveAt(@, i), !.claim[waiting[i]] = NoClaim]

\* Seeded fault: the next waiter is not looked at.
Leave_NoPump(i) == Becomes(Without(i))

\* The wait of the i-th in the queue ends without memory, and the head may fit now.
Leave(i) == Pump(Without(i))

---------------------------------------------------------------------------
\* startIngestWorker, also while the loops of the worker before it still drain.
Start ==
    /\ signal # "armed"
    /\ signal' = "armed"
    /\ UNCHANGED <<used, holders, waiting, claim>>

(***************************************************************************)
(* The abort ends the waits in the order they began.  A waiter that fits   *)
(* when the one before it has left is granted and goes on, and the last of *)
(* them leaves nobody in the queue.                                        *)
(***************************************************************************)
Stop ==
    /\ signal = "armed"
    /\ signal' = "aborted"
    /\ \E G \in SUBSET Waiting :
          /\ \A i \in 1..Len(waiting) :
                waiting[i] \in G <=>
                    i > 1 /\ FitsAfter(Now, G \cap First(waiting, i - 1), waiting[i])
          /\ Becomes([Grant(Now, G) EXCEPT
                         !.waiting = <<>>,
                         !.claim = [c \in Loops |-> IF c \in Waiting \ G THEN NoClaim ELSE @[c]]])

\* clearMemoryWaitStopSignal, when the last loop has ended and no newer worker started.
Clear ==
    /\ signal = "aborted"
    /\ \A c \in Loops : claim[c].at = "idle"
    /\ signal' = "none"
    /\ UNCHANGED <<used, holders, waiting, claim>>

ClaimFile(c) ==
    /\ signal = "armed"
    /\ claim[c].at = "idle"
    /\ claim' = [claim EXCEPT ![c].at = "reading"]
    /\ UNCHANGED <<used, holders, waiting, signal>>

\* The file ends before it needs memory, or a re-extract only copies it.
EndUnreserved(c) ==
    /\ claim[c].at = "reading"
    /\ claim' = [claim EXCEPT ![c] = NoClaim]
    /\ UNCHANGED <<used, holders, waiting, signal>>

\* Seeded fault: who fits overtakes the queue.
AtOnce_Overtakes(n) == Fits(Now, n)

AtOnce(n) == waiting = <<>> /\ Fits(Now, n)
Refused == signal = "aborted"

ReserveMemory(c, n) ==
    /\ claim[c].at = "reading"
    /\ \/ AtOnce(n) /\ Becomes(Grant([Now EXCEPT !.claim[c].asked = n], {c}))
       \/ /\ ~AtOnce(n) /\ ~Refused
          /\ waiting' = Append(waiting, c)
          /\ claim' = [claim EXCEPT ![c] = [NoClaim EXCEPT !.at = "waiting", !.asked = n]]
          /\ UNCHANGED <<used, holders>>
       \/ ~AtOnce(n) /\ Refused /\ Pump([Now EXCEPT !.claim[c] = NoClaim])
    /\ UNCHANGED signal

\* The timer of a wait.  Once granted, its callback finds the waiter gone.
WaitTimesOut(c) ==
    /\ \E i \in 1..Len(waiting) : waiting[i] = c /\ Leave(i)
    /\ UNCHANGED signal

Resized(e, n) == [e EXCEPT !.held = n, !.low = IF n < @ THEN n ELSE @]

\* The state after the bytes of a reservation became n.
Adjusted(c, n) ==
    [Now EXCEPT !.used = @ - claim[c].held + n,
                !.claim[c] = Resized(@, n)]

\* A settle, or a later part of the claim: down freely, up without waiting.
Settle(c, n) ==
    /\ claim[c].at = "holding"
    /\ \/ n < claim[c].held /\ Pump(Adjusted(c, n))
       \/ n > claim[c].held /\ Becomes(Adjusted(c, n))
    /\ UNCHANGED signal

\* Seeded fault: the holder is still counted.
Release_KeepsHolder(c) ==
    /\ claim[c].at = "holding"
    /\ Pump([Now EXCEPT !.used = @ - claim[c].held,
                        !.claim[c] = [NoClaim EXCEPT !.at = "released"]])
    /\ UNCHANGED signal

\* The commit, or any way out of the claim.
Release(c) ==
    /\ claim[c].at = "holding"
    /\ Pump([Now EXCEPT !.used = @ - claim[c].held, !.holders = @ - 1,
                        !.claim[c] = [NoClaim EXCEPT !.at = "released"]])
    /\ UNCHANGED signal

\* Seeded fault: no released flag.
ReleaseAgain_Counts(c) ==
    /\ claim[c].at = "released"
    /\ Becomes([Now EXCEPT !.holders = @ - 1, !.claim[c] = NoClaim])
    /\ UNCHANGED signal

\* The finally after a catch that released: nothing but the claim's end.
ReleaseAgain(c) ==
    /\ claim[c].at = "released"
    /\ Becomes([Now EXCEPT !.claim[c] = NoClaim])
    /\ UNCHANGED signal

Next ==
    \/ Start \/ Stop \/ Clear
    \/ \E c \in Loops :
          \/ ClaimFile(c)
          \/ EndUnreserved(c)
          \/ \E n \in Sizes : ReserveMemory(c, n)
          \/ WaitTimesOut(c)
          \/ \E n \in Sizes : Settle(c, n)
          \/ Release(c)
          \/ ReleaseAgain(c)

Spec == Init /\ [][Next]_vars

---------------------------------------------------------------------------
TypeOK ==
    /\ claim \in [Loops -> Claims]
    /\ used \in Nat /\ holders \in Nat
    /\ waiting \in Seq(Loops)
    /\ signal \in {"none", "armed", "aborted"}

(***************************************************************************)
(* The two counters are what the reservations hold, and the queue is the   *)
(* loops that wait, each once: no abort, time-out, second release or grant *)
(* in the middle of another call loses or counts one twice.                *)
(***************************************************************************)
CountersMatch ==
    /\ TypeOK
    /\ used = Total([c \in Loops |-> claim[c].held], Holding)
    /\ holders = Cardinality(Holding)
    /\ ToSet(waiting) = Waiting /\ Len(waiting) = Cardinality(Waiting)

(***************************************************************************)
(* "The budget is exceeded at most by such differences": without what they *)
(* grew after they were granted, several reservations fit the budget.      *)
(***************************************************************************)
BudgetExceededByGrowthOnly ==
    Cardinality(Holding) > 1 => Total([c \in Loops |-> claim[c].low], Holding) <= Budget

\* No wake-up is lost: between two calls the head of the queue never fits.
HeadDoesNotFit ==
    waiting # <<>> => ~Fits(Now, claim[Head(waiting)].asked)

(***************************************************************************)
(* Waiters are granted in arrival order: whoever gets memory leaves nobody *)
(* in the queue who was there before it.                                   *)
(***************************************************************************)
GrantedInArrivalOrder ==
    [][\A c, d \in Loops :
         /\ claim[c].at # "holding" /\ claim'[c].at = "holding"
         /\ claim[d].at = "waiting" /\ claim'[d].at = "waiting"
         => /\ claim[c].at = "waiting"
            /\ \E i, k \in 1..Len(waiting) : i < k /\ waiting[i] = c /\ waiting[k] = d]_vars

---------------------------------------------------------------------------
\* Every claim has a deadline and releases on each way out; no time-out is counted on.
FairSpec == Spec /\ \A c \in Loops : WF_vars(Release(c))

\* No file waits forever, one larger than the whole budget neither.
WaitEnds == \A c \in Loops : claim[c].at = "waiting" ~> claim[c].at # "waiting"
============================================================================
