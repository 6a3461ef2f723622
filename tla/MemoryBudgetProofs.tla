------------------------ MODULE MemoryBudgetProofs -------------------------
(***************************************************************************)
(* What the memory budget keeps, for any number of loops and any sizes.    *)
(* First sums over sets of claims, then what a grant, a pump, an abort and *)
(* the preparations of a call do to a sound state, then the calls.         *)
(***************************************************************************)
EXTENDS MemoryBudget, FiniteSetTheorems, SequenceTheorems, WellFoundedInduction, TLAPS

LEMMA UnitsFinite ==
    ASSUME NEW f, NEW S \in SUBSET Loops
    PROVE  /\ IsFiniteSet(S) /\ IsFiniteSet(Units(f, S))
           /\ Cardinality(S) \in Nat /\ Total(f, S) \in Nat
<1>1. IsFiniteSet(S) /\ IsFiniteSet(1..MaxBytes)
  BY BudgetAssumption, FS_Subset, FS_Interval
<1>2. IsFiniteSet(S \X (1..MaxBytes))
  BY <1>1, FS_Product
<1>3. IsFiniteSet(Units(f, S))
  BY <1>2, FS_Subset DEF Units
<1>. QED
  BY <1>1, <1>3, FS_CardinalityType DEF Total

LEMMA TotalAgrees ==
    ASSUME NEW f, NEW g, NEW S \in SUBSET Loops, \A c \in S : f[c] = g[c]
    PROVE  Total(f, S) = Total(g, S)
<1>1. Units(f, S) = Units(g, S)
  BY DEF Units
<1>. QED
  BY <1>1 DEF Total

LEMMA TotalAtMost ==
    ASSUME NEW f, NEW g, NEW S \in SUBSET Loops,
           \A c \in S : f[c] \in Nat /\ g[c] \in Nat /\ f[c] <= g[c]
    PROVE  Total(f, S) <= Total(g, S)
<1>1. Units(f, S) \subseteq Units(g, S)
  BY BudgetAssumption DEF Units
<1>. QED
  BY <1>1, UnitsFinite, FS_Subset DEF Total

LEMMA TotalSplits ==
    ASSUME NEW f, NEW S \in SUBSET Loops, NEW T \in SUBSET Loops, S \cap T = {}
    PROVE  Total(f, S \cup T) = Total(f, S) + Total(f, T)
<1>1. Units(f, S \cup T) = Units(f, S) \cup Units(f, T)
  BY DEF Units
<1>2. Units(f, S) \cap Units(f, T) = {}
  BY DEF Units
<1>3. Cardinality(Units(f, S) \cap Units(f, T)) = 0
  BY <1>2, FS_EmptySet
<1>4. IsFiniteSet(Units(f, S)) /\ IsFiniteSet(Units(f, T)) /\ Total(f, S) \in Nat /\ Total(f, T) \in Nat
  BY UnitsFinite
<1>5. Cardinality(Units(f, S) \cup Units(f, T))
        = Cardinality(Units(f, S)) + Cardinality(Units(f, T)) - Cardinality(Units(f, S) \cap Units(f, T))
  BY <1>4, FS_Union
<1>6. Total(f, S \cup T) = Total(f, S) + Total(f, T) - 0
  BY <1>1, <1>3, <1>5 DEF Total
<1>. QED
  BY <1>4, <1>6

LEMMA TotalOfNone ==
    ASSUME NEW f
    PROVE  Total(f, {}) = 0
<1>1. Units(f, {}) = {}
  BY DEF Units
<1>. QED
  BY <1>1, FS_EmptySet DEF Total

LEMMA TotalOfOne ==
    ASSUME NEW f, NEW c \in Loops, f[c] \in Sizes
    PROVE  Total(f, {c}) = f[c]
<1>1. f[c] \in Nat /\ MaxBytes \in Nat /\ f[c] <= MaxBytes
  BY BudgetAssumption DEF Sizes
<1>. DEFINE b == [i \in 1..f[c] |-> <<c, i>>]
<1>2. b \in Bijection(1..f[c], Units(f, {c}))
  <2>1. \A i \in 1..f[c] : b[i] \in Units(f, {c})
    BY <1>1 DEF Units
  <2>2. b \in Injection(1..f[c], Units(f, {c}))
    BY <2>1 DEF Injection, IsInjective
  <2>3. \A u \in Units(f, {c}) : \E i \in 1..f[c] : b[i] = u
    <3>. TAKE u \in Units(f, {c})
    <3>1. u = <<c, u[2]>> /\ u[2] \in 1..f[c]
      BY <1>1 DEF Units
    <3>. QED
      BY <3>1
  <2>. QED
    BY <2>1, <2>2, <2>3 DEF Bijection, Surjection, Injection
<1>. QED
  BY <1>1, <1>2, FS_CountingElements DEF Total, ExistsBijection

---------------------------------------------------------------------------
States == [used : Nat, holders : Nat, waiting : Seq(Loops), claim : [Loops -> Claims]]

HoldersOf(s) == {c \in Loops : s.claim[c].at = "holding"}
WaitersOf(s) == {c \in Loops : s.claim[c].at = "waiting"}
HeldOf(s) == [c \in Loops |-> s.claim[c].held]
LowOf(s) == [c \in Loops |-> s.claim[c].low]
AskedOf(s) == [c \in Loops |-> s.claim[c].asked]

Counted(s) == s.used = Total(HeldOf(s), HoldersOf(s)) /\ s.holders = Cardinality(HoldersOf(s))

\* The queue is who waits, each once.
Queued(s) ==
    /\ \A i \in 1..Len(s.waiting) : s.claim[s.waiting[i]].at = "waiting"
    /\ \A c \in WaitersOf(s) : \E i \in 1..Len(s.waiting) : s.waiting[i] = c
    /\ \A i, k \in 1..Len(s.waiting) : s.waiting[i] = s.waiting[k] => i = k

Bounded(s) ==
    /\ \A c \in HoldersOf(s) : s.claim[c].low <= s.claim[c].held
    /\ s.holders > 1 => Total(LowOf(s), HoldersOf(s)) <= Budget

Sound(s) == s \in States /\ Counted(s) /\ Queued(s) /\ Bounded(s)

HeadWaits(s) == s.waiting # <<>> => ~Fits(s, s.claim[Head(s.waiting)].asked)

LEMMA ClaimFields ==
    ASSUME NEW e \in Claims
    PROVE  e.asked \in Sizes /\ e.held \in Sizes /\ e.low \in Sizes
           /\ e.asked \in Nat /\ e.held \in Nat /\ e.low \in Nat
  BY BudgetAssumption DEF Claims, Sizes

LEMMA ClaimTypes ==
    /\ NoClaim \in Claims
    /\ \A n \in Sizes : Reserved(n) \in Claims
    /\ \A n \in Sizes : [NoClaim EXCEPT !.at = "waiting", !.asked = n] \in Claims
    /\ [NoClaim EXCEPT !.at = "released"] \in Claims
<1>0. 0 \in Sizes
  BY BudgetAssumption DEF Sizes
<1>1. NoClaim \in Claims
  BY <1>0 DEF NoClaim, Claims
<1>2. \A n \in Sizes : Reserved(n) \in Claims
  BY <1>0 DEF Reserved, Claims
<1>3. \A n \in Sizes : [NoClaim EXCEPT !.at = "waiting", !.asked = n] \in Claims
  BY <1>1 DEF Claims
<1>4. [NoClaim EXCEPT !.at = "released"] \in Claims
  BY <1>1 DEF Claims
<1>. QED
  BY <1>1, <1>2, <1>3, <1>4

LEMMA GrantFields ==
    ASSUME NEW s \in States, NEW G \in SUBSET Loops, NEW t, t = Grant(s, G)
    PROVE  /\ t \in States
           /\ t.used = s.used + Total(AskedOf(s), G)
           /\ t.holders = s.holders + Cardinality(G)
           /\ t.waiting = s.waiting
           /\ \A c \in Loops : t.claim[c] = IF c \in G THEN Reserved(s.claim[c].asked) ELSE s.claim[c]
<1>1. Total(AskedOf(s), G) \in Nat /\ Cardinality(G) \in Nat
  BY UnitsFinite
<1>2. \A c \in Loops : s.claim[c] \in Claims /\ s.claim[c].asked \in Sizes
  BY ClaimFields DEF States
<1>. DEFINE u == s.used + Total(AskedOf(s), G)
            h == s.holders + Cardinality(G)
            cl == [c \in Loops |-> IF c \in G THEN Reserved(s.claim[c].asked) ELSE s.claim[c]]
<1>3. t = [s EXCEPT !.used = u, !.holders = h, !.claim = cl]
  BY DEF Grant, AskedOf, States
<1>4. u \in Nat /\ h \in Nat
  BY <1>1 DEF States
<1>5. cl \in [Loops -> Claims]
  BY <1>2, ClaimTypes
<1>6. \A c \in Loops : cl[c] = IF c \in G THEN Reserved(s.claim[c].asked) ELSE s.claim[c]
  OBVIOUS
<1>7. u = s.used + Total(AskedOf(s), G) /\ h = s.holders + Cardinality(G)
  OBVIOUS
<1>. HIDE DEF u, h, cl
<1>8. t \in States /\ t.used = u /\ t.holders = h /\ t.waiting = s.waiting /\ t.claim = cl
  BY <1>3, <1>4, <1>5 DEF States
<1>. QED
  BY <1>6, <1>7, <1>8

\* What fitting after others means.
LEMMA FitsAfterIs ==
    ASSUME NEW s \in States, NEW G \in SUBSET Loops, NEW c \in Loops
    PROVE  FitsAfter(s, G, c) <=>
             \/ s.holders + Cardinality(G) = 0
             \/ s.used + Total(AskedOf(s), G) + s.claim[c].asked <= Budget
  BY GrantFields DEF FitsAfter, Fits

\* What of the counters, the bound and the queue a grant keeps.
LEMMA GrantDoes ==
    ASSUME NEW s, Sound(s), NEW G \in SUBSET Loops, HoldersOf(s) \cap G = {},
           NEW t, t = Grant(s, G),
           G # {} => \E c \in G : FitsAfter(s, G \ {c}, c)
    PROVE  /\ t \in States /\ Counted(t) /\ Bounded(t) /\ t.waiting = s.waiting
           /\ HoldersOf(t) = HoldersOf(s) \cup G /\ WaitersOf(t) = WaitersOf(s) \ G
<1>1. /\ s \in States /\ Counted(s) /\ Bounded(s)
      /\ G \in SUBSET Loops /\ HoldersOf(s) \in SUBSET Loops /\ HoldersOf(s) \cap G = {}
  BY DEF Sound, HoldersOf
<1>2. /\ t \in States /\ t.waiting = s.waiting
      /\ t.used = s.used + Total(AskedOf(s), G)
      /\ t.holders = s.holders + Cardinality(G)
      /\ \A c \in Loops : t.claim[c] = IF c \in G THEN Reserved(s.claim[c].asked) ELSE s.claim[c]
  BY <1>1, GrantFields
<1>3. \A c \in G : /\ t.claim[c].at = "holding"
                   /\ t.claim[c].held = s.claim[c].asked /\ t.claim[c].low = s.claim[c].asked
  <2>. TAKE c \in G
  <2>1. t.claim[c] = Reserved(s.claim[c].asked)
    BY <1>1, <1>2
  <2>. QED
    BY <2>1 DEF Reserved
<1>4. HoldersOf(t) = HoldersOf(s) \cup G /\ WaitersOf(t) = WaitersOf(s) \ G
  BY <1>1, <1>2, <1>3 DEF HoldersOf, WaitersOf
<1>5. \A c \in Loops : /\ s.claim[c].asked \in Sizes /\ s.claim[c].asked \in Nat
                       /\ t.claim[c].held \in Nat /\ t.claim[c].low \in Nat
  BY <1>1, <1>2, ClaimFields DEF States
<1>6. Counted(t)
  <2>1. Total(HeldOf(t), HoldersOf(s) \cup G) = Total(HeldOf(t), HoldersOf(s)) + Total(HeldOf(t), G)
    BY <1>1, TotalSplits
  <2>2. Total(HeldOf(t), HoldersOf(s)) = Total(HeldOf(s), HoldersOf(s))
    BY <1>1, <1>2, TotalAgrees DEF HeldOf
  <2>3. Total(HeldOf(t), G) = Total(AskedOf(s), G)
    BY <1>1, <1>3, TotalAgrees DEF HeldOf, AskedOf
  <2>4. /\ IsFiniteSet(G) /\ IsFiniteSet(HoldersOf(s)) /\ Cardinality(HoldersOf(s) \cap G) = 0
        /\ Cardinality(G) \in Nat /\ Cardinality(HoldersOf(s)) \in Nat
    BY <1>1, UnitsFinite, FS_EmptySet
  <2>5. Cardinality(HoldersOf(s) \cup G)
          = Cardinality(HoldersOf(s)) + Cardinality(G) - Cardinality(HoldersOf(s) \cap G)
    BY <2>4, FS_Union
  <2>6. Cardinality(HoldersOf(s) \cup G) = Cardinality(HoldersOf(s)) + Cardinality(G)
    BY <2>4, <2>5
  <2>. QED
    BY <1>1, <1>2, <1>4, <2>1, <2>2, <2>3, <2>6 DEF Counted
<1>7. \A c \in HoldersOf(t) : t.claim[c].low <= t.claim[c].held
  <2>1. \A c \in HoldersOf(s) : t.claim[c] = s.claim[c]
    BY <1>1, <1>2
  <2>. QED
    BY <1>1, <1>3, <1>4, <1>5, <2>1 DEF Bounded
<1>8. ASSUME t.holders > 1
      PROVE  Total(LowOf(t), HoldersOf(t)) <= Budget
  <2>1. CASE G = {}
    <3>1. HoldersOf(t) = HoldersOf(s)
      BY <1>4, <2>1
    <3>2. Total(LowOf(t), HoldersOf(s)) = Total(LowOf(s), HoldersOf(s))
      BY <1>1, <1>2, <2>1, TotalAgrees DEF LowOf
    <3>3. t.holders = s.holders
      BY <1>1, <1>2, <2>1, FS_EmptySet DEF States
    <3>. QED
      BY <1>1, <1>8, <3>1, <3>2, <3>3 DEF Bounded
  <2>2. CASE G # {}
    <3>1. PICK c \in G : FitsAfter(s, G \ {c}, c)
      BY <2>2
    <3>2. /\ G \ {c} \in SUBSET Loops /\ {c} \in SUBSET Loops /\ c \in Loops
          /\ (G \ {c}) \cap {c} = {} /\ (G \ {c}) \cup {c} = G
      BY <1>1
    <3>3. Total(AskedOf(s), G) = Total(AskedOf(s), G \ {c}) + Total(AskedOf(s), {c})
      BY <3>2, TotalSplits
    <3>4. Total(AskedOf(s), {c}) = s.claim[c].asked
      BY <1>5, <3>2, TotalOfOne DEF AskedOf
    <3>5. Cardinality(G \ {c}) = Cardinality(G) - 1 /\ Cardinality(G) \in Nat
      BY <1>1, UnitsFinite, FS_RemoveElement
    <3>6. s.holders + Cardinality(G \ {c}) # 0
      BY <1>1, <1>2, <1>8, <3>5 DEF States
    <3>7. s.used + Total(AskedOf(s), G \ {c}) + s.claim[c].asked <= Budget
      BY <1>1, <3>1, <3>2, <3>6, FitsAfterIs
    <3>8. /\ s.used \in Nat /\ Total(AskedOf(s), G \ {c}) \in Nat /\ s.claim[c].asked \in Nat
      BY <1>1, <1>5, <3>2, UnitsFinite DEF States
    <3>9. t.used <= Budget
      BY <1>2, <3>3, <3>4, <3>7, <3>8
    <3>10. HoldersOf(t) \in SUBSET Loops
      BY DEF HoldersOf
    <3>11. Total(LowOf(t), HoldersOf(t)) <= Total(HeldOf(t), HoldersOf(t))
      BY <1>5, <1>7, <3>10, TotalAtMost DEF LowOf, HeldOf
    <3>12. Total(LowOf(t), HoldersOf(t)) \in Nat /\ t.used \in Nat /\ Budget \in Nat
      BY <1>2, <3>10, UnitsFinite, BudgetAssumption DEF States
    <3>. QED
      BY <1>6, <3>9, <3>11, <3>12 DEF Counted
  <2>. QED
    BY <2>1, <2>2
<1>9. Bounded(t)
  BY <1>7, <1>8 DEF Bounded
<1>. QED
  BY <1>2, <1>4, <1>6, <1>9

\* The loops in the first places of the queue.
LEMMA FirstOfQueue ==
    ASSUME NEW s, Sound(s), NEW k \in 0..Len(s.waiting)
    PROVE  /\ First(s.waiting, k) \in SUBSET WaitersOf(s)
           /\ \A i \in 1..Len(s.waiting) : s.waiting[i] \in First(s.waiting, k) <=> i <= k
           /\ k > 0 => /\ s.waiting[k] \in First(s.waiting, k)
                       /\ First(s.waiting, k) \ {s.waiting[k]} = First(s.waiting, k - 1)
<1>1. /\ s.waiting \in Seq(Loops) /\ Queued(s) /\ Len(s.waiting) \in Nat
      /\ \A i \in 1..Len(s.waiting) : s.waiting[i] \in Loops
  BY ElementOfSeq, LenProperties DEF Sound, States
<1>2. \A i \in 1..Len(s.waiting) : s.waiting[i] \in WaitersOf(s)
  BY <1>1 DEF Queued, WaitersOf
<1>3. \A j \in 1..k : j \in 1..Len(s.waiting)
  BY <1>1
<1>4. First(s.waiting, k) \in SUBSET WaitersOf(s)
  BY <1>2, <1>3 DEF First
<1>5. \A i \in 1..Len(s.waiting) : s.waiting[i] \in First(s.waiting, k) <=> i <= k
  BY <1>1 DEF First, Queued
<1>6. ASSUME k > 0
      PROVE  /\ s.waiting[k] \in First(s.waiting, k)
             /\ First(s.waiting, k) \ {s.waiting[k]} = First(s.waiting, k - 1)
  <2>1. \A i \in 1..k : s.waiting[i] = s.waiting[k] <=> i = k
    BY <1>1, <1>6 DEF Queued
  <2>. QED
    BY <1>1, <1>6, <2>1 DEF First
<1>. QED
  BY <1>4, <1>5, <1>6

\* Whoever is granted was in the queue before whoever is left there.
InOrder(s, t) ==
    \A c, d \in Loops :
        s.claim[c].at # "holding" /\ t.claim[c].at = "holding" /\ t.claim[d].at = "waiting"
        => \E i, k \in 1..Len(s.waiting) : i < k /\ s.waiting[i] = c /\ s.waiting[k] = d

\* A record of the module's state is what its fields are.
LEMMA BecomesIs ==
    ASSUME NEW s \in States, Becomes(s)
    PROVE  Now' = s
  BY DEF Becomes, Now, States

LEMMA PumpDoes ==
    ASSUME NEW s, Sound(s), Pump(s)
    PROVE  Sound(Now') /\ HeadWaits(Now') /\ InOrder(s, Now')
<1>. DEFINE q == s.waiting
<1>0. /\ s \in States /\ Queued(s) /\ q \in Seq(Loops) /\ Len(q) \in Nat
      /\ \A i \in 1..Len(q) : q[i] \in Loops
  BY ElementOfSeq, LenProperties DEF Sound, States
<1>1. PICK k \in 0..Len(q) :
        /\ \A i \in 1..k : FitsAfter(s, First(q, i - 1), q[i])
        /\ k < Len(q) => ~FitsAfter(s, First(q, k), q[k + 1])
        /\ Becomes([Grant(s, First(q, k)) EXCEPT !.waiting = SubSeq(q, k + 1, Len(q))])
  BY DEF Pump
<1>2. PICK G : G = First(q, k)
  OBVIOUS
<1>3. /\ G \in SUBSET WaitersOf(s) /\ G \in SUBSET Loops /\ HoldersOf(s) \cap G = {}
      /\ \A i \in 1..Len(q) : q[i] \in G <=> i <= k
  BY <1>2, FirstOfQueue DEF WaitersOf, HoldersOf
<1>4. G # {} => \E c \in G : FitsAfter(s, G \ {c}, c)
  <2>1. CASE k = 0
    BY <1>2, <2>1 DEF First
  <2>2. CASE k # 0
    <3>0. k > 0 /\ k \in 1..k
      BY <1>0, <1>1, <2>2
    <3>1. q[k] \in G /\ G \ {q[k]} = First(q, k - 1)
      BY <1>2, <3>0, FirstOfQueue
    <3>2. FitsAfter(s, First(q, k - 1), q[k])
      BY <1>1, <3>0
    <3>. QED
      BY <3>1, <3>2
  <2>. QED
    BY <2>1, <2>2
<1>5. PICK t : t = Grant(s, G)
  OBVIOUS
<1>6. /\ t \in States /\ Counted(t) /\ Bounded(t) /\ t.waiting = q
      /\ HoldersOf(t) = HoldersOf(s) \cup G /\ WaitersOf(t) = WaitersOf(s) \ G
  BY <1>3, <1>4, <1>5, GrantDoes
<1>7. \A c \in Loops : t.claim[c] = IF c \in G THEN Reserved(s.claim[c].asked) ELSE s.claim[c]
  BY <1>0, <1>3, <1>5, GrantFields
<1>8. PICK r : r = SubSeq(q, k + 1, Len(q))
  OBVIOUS
<1>9. /\ r \in Seq(Loops) /\ Len(r) = Len(q) - k
      /\ \A i \in 1..Len(r) : r[i] = q[k + i] /\ k + i \in 1..Len(q)
  <2>1. k + 1 \in Int /\ Len(q) \in Int /\ \A i \in k + 1..Len(q) : q[i] \in Loops
    BY <1>0
  <2>2. /\ r \in Seq(Loops) /\ Len(r) = IF k + 1 <= Len(q) THEN Len(q) - (k + 1) + 1 ELSE 0
        /\ \A i \in 1..Len(q) - (k + 1) + 1 : r[i] = q[k + 1 + i - 1]
    BY <1>8, <2>1, SubSeqProperties
  <2>. QED
    BY <1>0, <2>2
<1>10. PICK u : u = [t EXCEPT !.waiting = r]
  OBVIOUS
<1>11. /\ u \in States /\ u.used = t.used /\ u.holders = t.holders
       /\ u.claim = t.claim /\ u.waiting = r
  BY <1>6, <1>9, <1>10 DEF States
<1>12. Now' = u
  BY <1>1, <1>2, <1>5, <1>8, <1>10, <1>11, BecomesIs
<1>. HIDE DEF q
<1>13. Counted(u) /\ Bounded(u)
  <2>1. /\ HoldersOf(u) = HoldersOf(t)
        /\ HeldOf(u) = HeldOf(t) /\ LowOf(u) = LowOf(t)
    BY <1>11 DEF HoldersOf, HeldOf, LowOf
  <2>. QED
    BY <1>6, <1>11, <2>1 DEF Counted, Bounded
<1>14. WaitersOf(u) = WaitersOf(s) \ G /\ HoldersOf(u) = HoldersOf(s) \cup G
  BY <1>6, <1>11 DEF WaitersOf, HoldersOf
<1>15. \A i \in 1..Len(r) : r[i] \in WaitersOf(s) \ G
  <2>. TAKE i \in 1..Len(r)
  <2>1. r[i] = q[k + i] /\ k + i \in 1..Len(q) /\ ~(k + i <= k)
    BY <1>0, <1>9
  <2>2. q[k + i] \in Loops /\ q[k + i] \notin G /\ s.claim[q[k + i]].at = "waiting"
    BY <1>0, <1>3, <2>1 DEF Queued, q
  <2>. QED
    BY <2>1, <2>2 DEF WaitersOf
<1>16. \A d \in WaitersOf(s) \ G : \E i \in 1..Len(q) : q[i] = d /\ i > k
  BY <1>0, <1>3 DEF Queued, q
<1>17. Queued(u)
  <2>1. \A i \in 1..Len(r) : u.claim[r[i]].at = "waiting"
    BY <1>14, <1>15 DEF WaitersOf
  <2>2. ASSUME NEW d \in WaitersOf(u)
        PROVE  \E i \in 1..Len(r) : r[i] = d
    <3>1. PICK i \in 1..Len(q) : q[i] = d /\ i > k
      BY <1>14, <1>16
    <3>2. i - k \in 1..Len(r) /\ k + (i - k) = i
      BY <1>0, <1>9, <3>1
    <3>. QED
      BY <1>9, <3>1, <3>2
  <2>3. \A i, j \in 1..Len(r) : r[i] = r[j] => i = j
    BY <1>0, <1>9 DEF Queued, q
  <2>. QED
    BY <1>11, <2>1, <2>2, <2>3 DEF Queued
<1>18. HeadWaits(u)
  <2>1. SUFFICES ASSUME r # <<>>
                 PROVE  ~Fits(u, u.claim[Head(r)].asked)
    BY <1>11 DEF HeadWaits
  <2>2. Len(r) \in Nat \ {0} /\ Head(r) = r[1]
    BY <1>9, <2>1, EmptySeq
  <2>3. k < Len(q) /\ Head(r) = q[k + 1] /\ k + 1 \in 1..Len(q)
    BY <1>0, <1>9, <2>2
  <2>4. Head(r) \notin G /\ Head(r) \in Loops
    BY <1>0, <1>3, <2>3 DEF q
  <2>5. u.claim[Head(r)] = s.claim[Head(r)]
    BY <1>7, <1>11, <2>4
  <2>6. ~Fits(t, s.claim[Head(r)].asked)
    BY <1>1, <1>2, <1>5, <2>3 DEF FitsAfter, q
  <2>. QED
    BY <1>11, <2>5, <2>6 DEF Fits
<1>19. InOrder(s, u)
  <2>1. SUFFICES ASSUME NEW c \in Loops, NEW d \in Loops,
                        s.claim[c].at # "holding", u.claim[c].at = "holding", u.claim[d].at = "waiting"
                 PROVE  \E i, j \in 1..Len(q) : i < j /\ q[i] = c /\ q[j] = d
    BY DEF InOrder, q
  <2>2. c \in G /\ d \in WaitersOf(s) \ G
    BY <1>14, <2>1 DEF HoldersOf, WaitersOf
  <2>3. PICK i \in 1..Len(q) : q[i] = c
    BY <1>0, <1>3, <2>2 DEF Queued, q
  <2>4. PICK j \in 1..Len(q) : q[j] = d /\ j > k
    BY <1>16, <2>2
  <2>5. i <= k
    BY <1>3, <2>2, <2>3
  <2>. QED
    BY <1>0, <2>3, <2>4, <2>5
<1>. QED
  BY <1>11, <1>12, <1>13, <1>17, <1>18, <1>19 DEF Sound

---------------------------------------------------------------------------
\* A claim that neither holds memory nor waits for it is not counted.
LEMMA UncountedChanges ==
    ASSUME NEW s, Sound(s), NEW t \in States, NEW c \in Loops,
           t.used = s.used, t.holders = s.holders, t.waiting = s.waiting,
           \A d \in Loops \ {c} : t.claim[d] = s.claim[d],
           s.claim[c].at \notin {"holding", "waiting"}, t.claim[c].at \notin {"holding", "waiting"}
    PROVE  Sound(t) /\ HoldersOf(t) = HoldersOf(s) /\ WaitersOf(t) = WaitersOf(s)
<1>1. HoldersOf(t) = HoldersOf(s) /\ WaitersOf(t) = WaitersOf(s)
  BY DEF HoldersOf, WaitersOf
<1>2. \A d \in HoldersOf(s) : t.claim[d] = s.claim[d] /\ d \in Loops
  BY DEF HoldersOf
<1>3. HoldersOf(s) \in SUBSET Loops
  BY DEF HoldersOf
<1>4. /\ Total(HeldOf(t), HoldersOf(s)) = Total(HeldOf(s), HoldersOf(s))
      /\ Total(LowOf(t), HoldersOf(s)) = Total(LowOf(s), HoldersOf(s))
  BY <1>2, <1>3, TotalAgrees DEF HeldOf, LowOf
<1>5. Counted(t) /\ Bounded(t)
  BY <1>1, <1>2, <1>4 DEF Sound, Counted, Bounded
<1>6. Queued(t)
  <2>1. s.waiting \in Seq(Loops) /\ \A i \in 1..Len(s.waiting) : s.waiting[i] \in Loops
    BY ElementOfSeq DEF Sound, States
  <2>. QED
    BY <1>1, <2>1 DEF Sound, Queued, WaitersOf
<1>. QED
  BY <1>1, <1>5, <1>6 DEF Sound

LEMMA WithoutDoes ==
    ASSUME Sound(Now), NEW j \in 1..Len(waiting), NEW s, s = Without(j)
    PROVE  /\ Sound(s)
           /\ \A d \in Loops : s.claim[d] = IF d = waiting[j] THEN NoClaim ELSE claim[d]
           /\ s.waiting \in Seq(Loops) /\ Len(s.waiting) = Len(waiting) - 1
           /\ \A i \in 1..Len(waiting) - 1 : s.waiting[i] = IF i < j THEN waiting[i] ELSE waiting[i + 1]
<1>1. /\ Now \in States /\ Now.used = used /\ Now.holders = holders
      /\ Now.waiting = waiting /\ Now.claim = claim
  BY DEF Sound, Now
<1>2. /\ waiting \in Seq(Loops) /\ claim \in [Loops -> Claims] /\ Len(waiting) \in Nat
      /\ \A i \in 1..Len(waiting) : waiting[i] \in Loops
  BY <1>1, ElementOfSeq, LenProperties DEF States
<1>. DEFINE head == SubSeq(waiting, 1, j - 1)
            tail == SubSeq(waiting, j + 1, Len(waiting))
<1>3. head \in Seq(Loops) /\ Len(head) = j - 1 /\ \A i \in 1..j - 1 : head[i] = waiting[i]
  <2>1. 1 \in Int /\ j - 1 \in Int /\ \A i \in 1..j - 1 : waiting[i] \in Loops
    BY <1>2
  <2>2. /\ head \in Seq(Loops) /\ Len(head) = IF 1 <= j - 1 THEN j - 1 - 1 + 1 ELSE 0
        /\ \A i \in 1..j - 1 - 1 + 1 : head[i] = waiting[1 + i - 1]
    BY <2>1, SubSeqProperties
  <2>. QED
    BY <1>2, <2>2
<1>4. /\ tail \in Seq(Loops) /\ Len(tail) = Len(waiting) - j
      /\ \A i \in 1..Len(waiting) - j : tail[i] = waiting[j + i]
  <2>1. j + 1 \in Int /\ Len(waiting) \in Int /\ \A i \in j + 1..Len(waiting) : waiting[i] \in Loops
    BY <1>2
  <2>2. /\ tail \in Seq(Loops)
        /\ Len(tail) = IF j + 1 <= Len(waiting) THEN Len(waiting) - (j + 1) + 1 ELSE 0
        /\ \A i \in 1..Len(waiting) - (j + 1) + 1 : tail[i] = waiting[j + 1 + i - 1]
    BY <2>1, SubSeqProperties
  <2>. QED
    BY <1>2, <2>2
<1>5. PICK r : r = head \o tail
  OBVIOUS
<1>. HIDE DEF head, tail
<1>6. /\ r \in Seq(Loops) /\ Len(r) = Len(waiting) - 1
      /\ \A i \in 1..Len(waiting) - 1 : r[i] = IF i < j THEN waiting[i] ELSE waiting[i + 1]
  <2>1. /\ r \in Seq(Loops) /\ Len(r) = Len(head) + Len(tail)
        /\ \A i \in 1..Len(head) + Len(tail) : r[i] = IF i <= Len(head) THEN head[i] ELSE tail[i - Len(head)]
    BY <1>3, <1>4, <1>5, ConcatProperties
  <2>2. Len(r) = Len(waiting) - 1
    BY <1>2, <1>3, <1>4, <2>1
  <2>3. ASSUME NEW i \in 1..Len(waiting) - 1
        PROVE  r[i] = IF i < j THEN waiting[i] ELSE waiting[i + 1]
    <3>1. r[i] = IF i <= j - 1 THEN head[i] ELSE tail[i - (j - 1)]
      BY <1>2, <1>3, <1>4, <2>1, <2>3
    <3>2. CASE i < j
      BY <1>2, <1>3, <2>3, <3>1, <3>2
    <3>3. CASE ~(i < j)
      <4>1. i - (j - 1) \in 1..Len(waiting) - j /\ j + (i - (j - 1)) = i + 1
        BY <1>2, <2>3, <3>3
      <4>2. r[i] = tail[i - (j - 1)]
        BY <1>2, <2>3, <3>1, <3>3
      <4>. QED
        BY <1>4, <3>3, <4>1, <4>2
    <3>. QED
      BY <3>2, <3>3
  <2>. QED
    BY <2>1, <2>2, <2>3
<1>7. PICK cl : cl = [claim EXCEPT ![waiting[j]] = NoClaim]
  OBVIOUS
<1>8. cl \in [Loops -> Claims]
  BY <1>2, <1>7, ClaimTypes
<1>9. s = [Now EXCEPT !.waiting = r, !.claim = cl]
  BY <1>1, <1>5, <1>7 DEF Without, RemoveAt, head, tail, Now
<1>10. /\ s \in States /\ s.used = used /\ s.holders = holders /\ s.waiting = r /\ s.claim = cl
  BY <1>1, <1>6, <1>8, <1>9 DEF States
<1>11. /\ Counted(Now) /\ Queued(Now) /\ Bounded(Now)
  BY DEF Sound
<1>12. /\ cl[waiting[j]] = NoClaim /\ claim[waiting[j]].at = "waiting"
       /\ \A d \in Loops : d # waiting[j] => cl[d] = claim[d]
  BY <1>1, <1>2, <1>7, <1>11 DEF Queued
<1>13. HoldersOf(s) = HoldersOf(Now) /\ WaitersOf(s) = WaitersOf(Now) \ {waiting[j]}
  BY <1>1, <1>10, <1>12 DEF HoldersOf, WaitersOf, NoClaim
<1>14. \A d \in HoldersOf(Now) : s.claim[d] = claim[d] /\ d \in Loops
  BY <1>1, <1>10, <1>12 DEF HoldersOf
<1>15. /\ Total(HeldOf(s), HoldersOf(Now)) = Total(HeldOf(Now), HoldersOf(Now))
       /\ Total(LowOf(s), HoldersOf(Now)) = Total(LowOf(Now), HoldersOf(Now))
  <2>1. HoldersOf(Now) \in SUBSET Loops
    BY DEF HoldersOf
  <2>. QED
    BY <1>1, <1>14, <2>1, TotalAgrees DEF HeldOf, LowOf
<1>16. Counted(s) /\ Bounded(s)
  BY <1>1, <1>10, <1>11, <1>13, <1>14, <1>15 DEF Counted, Bounded
<1>17. Queued(s)
  <2>1. \A i \in 1..Len(r) : \E h \in 1..Len(waiting) : h # j /\ r[i] = waiting[h] /\ h = IF i < j THEN i ELSE i + 1
    BY <1>2, <1>6
  <2>2. \A i \in 1..Len(waiting) : claim[waiting[i]].at = "waiting"
    BY <1>1, <1>11 DEF Queued
  <2>3. \A i, k \in 1..Len(waiting) : waiting[i] = waiting[k] => i = k
    BY <1>1, <1>11 DEF Queued
  <2>4. \A i \in 1..Len(r) : s.claim[r[i]].at = "waiting"
    BY <1>2, <1>10, <1>12, <2>1, <2>2, <2>3
  <2>5. ASSUME NEW d \in WaitersOf(s)
        PROVE  \E i \in 1..Len(r) : r[i] = d
    <3>1. PICK h \in 1..Len(waiting) : waiting[h] = d /\ h # j
      BY <1>1, <1>11, <1>13 DEF Queued
    <3>2. CASE h < j
      BY <1>2, <1>6, <3>1, <3>2
    <3>3. CASE h > j
      <4>1. h - 1 \in 1..Len(r) /\ ~(h - 1 < j) /\ h - 1 + 1 = h
        BY <1>2, <1>6, <3>1, <3>3
      <4>. QED
        BY <1>6, <3>1, <4>1
    <3>. QED
      BY <3>1, <3>2, <3>3
  <2>6. \A i, k \in 1..Len(r) : r[i] = r[k] => i = k
    BY <1>2, <2>1, <2>3, <1>6
  <2>. QED
    BY <1>10, <2>4, <2>5, <2>6 DEF Queued
<1>. QED
  BY <1>6, <1>10, <1>12, <1>16, <1>17 DEF Sound

\* A reservation's bytes become n.
LEMMA AdjustedDoes ==
    ASSUME Sound(Now), NEW c \in Loops, claim[c].at = "holding", NEW n \in Sizes,
           NEW s, s = Adjusted(c, n)
    PROVE  /\ Sound(s) /\ s.waiting = waiting /\ s.holders = holders
           /\ s.used = used - claim[c].held + n
           /\ \A d \in Loops : s.claim[d].at = claim[d].at /\ s.claim[d].asked = claim[d].asked
<1>1. /\ Now \in States /\ Now.used = used /\ Now.holders = holders
      /\ Now.waiting = waiting /\ Now.claim = claim
      /\ Counted(Now) /\ Queued(Now) /\ Bounded(Now)
  BY DEF Sound, Now
<1>2. /\ claim \in [Loops -> Claims] /\ used \in Nat /\ holders \in Nat
      /\ n \in Nat /\ claim[c].held \in Nat /\ claim[c].low \in Nat
      /\ claim[c].held \in Sizes /\ claim[c].low \in Sizes
  BY <1>1, ClaimFields, BudgetAssumption DEF States, Sizes
<1>3. PICK e \in Claims : /\ e = Resized(claim[c], n)
                          /\ e.at = "holding" /\ e.asked = claim[c].asked /\ e.held = n
                          /\ e.low <= n /\ e.low <= claim[c].low /\ e.low \in Nat
  <2>1. PICK low \in Sizes : /\ low = IF n < claim[c].low THEN n ELSE claim[c].low
                             /\ low <= n /\ low <= claim[c].low /\ low \in Nat
    BY <1>2
  <2>2. PICK f \in Claims : f = claim[c] /\ f.at = "holding"
    BY <1>2
  <2>. DEFINE g == [f EXCEPT !.held = n, !.low = low]
  <2>3. g \in Claims /\ g.at = "holding" /\ g.asked = f.asked /\ g.held = n /\ g.low = low
    BY <2>2 DEF Claims
  <2>4. g = Resized(claim[c], n)
    BY <2>1, <2>2 DEF Resized
  <2>. HIDE DEF g
  <2>. QED
    BY <2>1, <2>2, <2>3, <2>4
<1>4. PICK cl : cl = [claim EXCEPT ![c] = e]
  OBVIOUS
<1>5. cl \in [Loops -> Claims] /\ cl[c] = e /\ \A d \in Loops : d # c => cl[d] = claim[d]
  BY <1>2, <1>3, <1>4
<1>6. HoldersOf(Now) \in SUBSET Loops /\ c \in HoldersOf(Now)
      /\ HoldersOf(Now) \ {c} \in SUBSET Loops /\ {c} \in SUBSET Loops
      /\ (HoldersOf(Now) \ {c}) \cap {c} = {} /\ (HoldersOf(Now) \ {c}) \cup {c} = HoldersOf(Now)
  BY <1>1 DEF HoldersOf
<1>7. /\ used = Total(HeldOf(Now), HoldersOf(Now) \ {c}) + claim[c].held
      /\ Total(HeldOf(Now), HoldersOf(Now) \ {c}) \in Nat
  <2>1. Total(HeldOf(Now), HoldersOf(Now))
          = Total(HeldOf(Now), HoldersOf(Now) \ {c}) + Total(HeldOf(Now), {c})
    BY <1>6, TotalSplits
  <2>2. Total(HeldOf(Now), {c}) = claim[c].held
    BY <1>1, <1>2, TotalOfOne DEF HeldOf
  <2>. QED
    BY <1>1, <1>6, <2>1, <2>2, UnitsFinite DEF Counted
<1>8. PICK v : v = used - claim[c].held + n
  OBVIOUS
<1>9. v \in Nat /\ v = Total(HeldOf(Now), HoldersOf(Now) \ {c}) + n
  BY <1>2, <1>7, <1>8
<1>10. s = [Now EXCEPT !.used = v, !.claim = cl]
  BY <1>1, <1>3, <1>4, <1>8 DEF Adjusted, Now
<1>11. /\ s \in States /\ s.used = v /\ s.holders = holders /\ s.waiting = waiting /\ s.claim = cl
  BY <1>1, <1>5, <1>9, <1>10 DEF States
<1>12. HoldersOf(s) = HoldersOf(Now) /\ WaitersOf(s) = WaitersOf(Now)
  BY <1>1, <1>3, <1>5, <1>11 DEF HoldersOf, WaitersOf
<1>13. Counted(s)
  <2>1. Total(HeldOf(s), HoldersOf(Now)) = Total(HeldOf(s), HoldersOf(Now) \ {c}) + Total(HeldOf(s), {c})
    BY <1>6, TotalSplits
  <2>2. Total(HeldOf(s), {c}) = n
    <3>1. HeldOf(s)[c] = n
      BY <1>3, <1>5, <1>11 DEF HeldOf
    <3>. QED
      BY <3>1, TotalOfOne
  <2>3. Total(HeldOf(s), HoldersOf(Now) \ {c}) = Total(HeldOf(Now), HoldersOf(Now) \ {c})
    BY <1>1, <1>5, <1>6, <1>11, TotalAgrees DEF HeldOf
  <2>. QED
    BY <1>1, <1>9, <1>11, <1>12, <2>1, <2>2, <2>3 DEF Counted
<1>14. Bounded(s)
  <2>1. \A d \in HoldersOf(Now) : s.claim[d].low <= s.claim[d].held
    BY <1>1, <1>3, <1>5, <1>6, <1>11 DEF Bounded
  <2>2. \A d \in HoldersOf(Now) : /\ LowOf(s)[d] \in Nat /\ LowOf(Now)[d] \in Nat
                                  /\ LowOf(s)[d] <= LowOf(Now)[d]
    <3>. TAKE d \in HoldersOf(Now)
    <3>1. d \in Loops /\ LowOf(s)[d] = cl[d].low /\ LowOf(Now)[d] = claim[d].low
      BY <1>1, <1>6, <1>11 DEF LowOf
    <3>2. claim[d].low \in Nat
      BY <1>2, <3>1, ClaimFields
    <3>3. cl[d].low \in Nat /\ cl[d].low <= claim[d].low
      <4>1. CASE d = c
        BY <1>3, <1>5, <4>1
      <4>2. CASE d # c
        BY <1>5, <3>1, <3>2, <4>2
      <4>. QED
        BY <4>1, <4>2
    <3>. QED
      BY <3>1, <3>2, <3>3
  <2>3. Total(LowOf(s), HoldersOf(Now)) <= Total(LowOf(Now), HoldersOf(Now))
    BY <1>6, <2>2, TotalAtMost
  <2>4. Total(LowOf(s), HoldersOf(Now)) \in Nat /\ Total(LowOf(Now), HoldersOf(Now)) \in Nat
    BY <1>6, UnitsFinite
  <2>. QED
    BY <1>1, <1>11, <1>12, <2>1, <2>3, <2>4, BudgetAssumption DEF Bounded
<1>15. \A d \in Loops : s.claim[d].at = claim[d].at /\ s.claim[d].asked = claim[d].asked
  BY <1>3, <1>5, <1>11
<1>16. Queued(s)
  <2>1. \A i \in 1..Len(waiting) : waiting[i] \in Loops
    BY <1>1, ElementOfSeq DEF States
  <2>. QED
    BY <1>1, <1>11, <1>12, <1>15, <2>1 DEF Queued
<1>. QED
  BY <1>8, <1>11, <1>13, <1>14, <1>15, <1>16 DEF Sound

\* The state that a release pumps.
Freed(c) ==
    [Now EXCEPT !.used = @ - claim[c].held, !.holders = @ - 1,
                !.claim[c] = [NoClaim EXCEPT !.at = "released"]]

LEMMA FreedDoes ==
    ASSUME Sound(Now), NEW c \in Loops, claim[c].at = "holding", NEW s, s = Freed(c)
    PROVE  /\ Sound(s) /\ s.waiting = waiting
           /\ \A d \in Loops : d # c => s.claim[d] = claim[d]
<1>1. /\ Now \in States /\ Now.used = used /\ Now.holders = holders
      /\ Now.waiting = waiting /\ Now.claim = claim
      /\ Counted(Now) /\ Queued(Now) /\ Bounded(Now)
  BY DEF Sound, Now
<1>2. /\ claim \in [Loops -> Claims] /\ used \in Nat /\ holders \in Nat
      /\ claim[c].held \in Nat /\ claim[c].held \in Sizes
  BY <1>1, ClaimFields DEF States
<1>3. PICK e \in Claims : e = [NoClaim EXCEPT !.at = "released"] /\ e.at = "released"
  BY ClaimTypes DEF NoClaim
<1>4. PICK cl : cl = [claim EXCEPT ![c] = e]
  OBVIOUS
<1>5. cl \in [Loops -> Claims] /\ cl[c] = e /\ \A d \in Loops : d # c => cl[d] = claim[d]
  BY <1>2, <1>3, <1>4
<1>6. PICK H : H = HoldersOf(Now) \ {c}
  OBVIOUS
<1>7. /\ H \in SUBSET Loops /\ {c} \in SUBSET Loops /\ H \cap {c} = {} /\ H \cup {c} = HoldersOf(Now)
      /\ HoldersOf(Now) \in SUBSET Loops /\ c \in HoldersOf(Now)
  BY <1>1, <1>6 DEF HoldersOf
<1>8. used = Total(HeldOf(Now), H) + claim[c].held /\ Total(HeldOf(Now), H) \in Nat
  <2>1. Total(HeldOf(Now), HoldersOf(Now)) = Total(HeldOf(Now), H) + Total(HeldOf(Now), {c})
    BY <1>7, TotalSplits
  <2>2. Total(HeldOf(Now), {c}) = claim[c].held
    BY <1>1, <1>2, TotalOfOne DEF HeldOf
  <2>. QED
    BY <1>1, <1>7, <2>1, <2>2, UnitsFinite DEF Counted
<1>9. Cardinality(H) = holders - 1 /\ Cardinality(H) \in Nat
  <2>1. Cardinality(H) = Cardinality(HoldersOf(Now)) - 1 /\ Cardinality(H) \in Nat
    BY <1>6, <1>7, UnitsFinite, FS_RemoveElement
  <2>. QED
    BY <1>1, <2>1 DEF Counted
<1>10. PICK v, h : v = used - claim[c].held /\ h = holders - 1
  OBVIOUS
<1>11. v \in Nat /\ v = Total(HeldOf(Now), H) /\ h \in Nat /\ h = Cardinality(H)
  BY <1>2, <1>8, <1>9, <1>10
<1>12. s = [Now EXCEPT !.used = v, !.holders = h, !.claim = cl]
  BY <1>1, <1>3, <1>4, <1>10 DEF Freed, Now
<1>13. /\ s \in States /\ s.used = v /\ s.holders = h /\ s.waiting = waiting /\ s.claim = cl
  BY <1>1, <1>5, <1>11, <1>12 DEF States
<1>14. HoldersOf(s) = H /\ WaitersOf(s) = WaitersOf(Now)
  BY <1>1, <1>3, <1>5, <1>6, <1>13 DEF HoldersOf, WaitersOf
<1>15. \A d \in H : s.claim[d] = claim[d] /\ d \in HoldersOf(Now) /\ d \in Loops
  BY <1>5, <1>6, <1>7, <1>13
<1>16. Counted(s)
  <2>1. Total(HeldOf(s), H) = Total(HeldOf(Now), H)
    BY <1>1, <1>7, <1>15, TotalAgrees DEF HeldOf
  <2>. QED
    BY <1>11, <1>13, <1>14, <2>1 DEF Counted
<1>17. Bounded(s)
  <2>1. \A d \in H : s.claim[d].low <= s.claim[d].held
    BY <1>1, <1>15 DEF Bounded
  <2>2. ASSUME h > 1
        PROVE  Total(LowOf(s), H) <= Budget
    <3>1. Total(LowOf(Now), HoldersOf(Now)) <= Budget
      BY <1>1, <1>2, <1>10, <2>2 DEF Bounded
    <3>2. Total(LowOf(Now), HoldersOf(Now)) = Total(LowOf(Now), H) + Total(LowOf(Now), {c})
      BY <1>7, TotalSplits
    <3>3. Total(LowOf(Now), H) \in Nat /\ Total(LowOf(Now), {c}) \in Nat /\ Budget \in Nat
      BY <1>7, UnitsFinite, BudgetAssumption
    <3>4. Total(LowOf(s), H) = Total(LowOf(Now), H)
      BY <1>1, <1>7, <1>15, TotalAgrees DEF LowOf
    <3>. QED
      BY <3>1, <3>2, <3>3, <3>4
  <2>. QED
    BY <1>13, <1>14, <2>1, <2>2 DEF Bounded
<1>18. Queued(s)
  <2>1. \A i \in 1..Len(waiting) : waiting[i] \in Loops
    BY <1>1, ElementOfSeq DEF States
  <2>2. \A d \in Loops : d # c => s.claim[d] = claim[d]
    BY <1>5, <1>13
  <2>. QED
    BY <1>1, <1>13, <1>14, <2>1, <2>2 DEF Queued
<1>. QED
  BY <1>5, <1>13, <1>16, <1>17, <1>18 DEF Sound

LEMMA LastPlace ==
    ASSUME NEW n \in Nat, NEW T \in SUBSET (1..n), T # {}
    PROVE  \E m \in T : \A i \in T : i <= m
<1>. DEFINE Above(i) == {j \in T : j > i}
            All == {Above(i) : i \in T}
<1>1. IsWellFoundedOn(StrictSubsetOrdering(1..n), SUBSET (1..n))
  <2>1. IsFiniteSet(1..n)
    BY FS_Interval
  <2>. QED
    BY <2>1, FS_StrictSubsetOrderingWellFounded, FS_FiniteSubsetsOfFinite
<1>2. PICK m \in T : \A i \in T : ~(<<Above(i), Above(m)>> \in StrictSubsetOrdering(1..n))
  <2>1. All \subseteq SUBSET (1..n) /\ All # {}
    OBVIOUS
  <2>. HIDE DEF Above
  <2>2. PICK B \in All : \A A \in All : ~(<<A, B>> \in StrictSubsetOrdering(1..n))
    BY <1>1, <2>1, WFMin
  <2>. QED
    BY <2>2
<1>3. ASSUME NEW i \in T, i > m PROVE FALSE
  <2>1. ASSUME NEW j \in Above(i) PROVE j \in Above(m)
    BY <1>3
  <2>2. i \in Above(m) /\ i \notin Above(i)
    BY <1>3
  <2>3. Above(i) \in SUBSET (1..n) /\ Above(m) \in SUBSET (1..n)
    OBVIOUS
  <2>. HIDE DEF Above
  <2>. QED
    BY <2>1, <2>2, <2>3, <1>2 DEF StrictSubsetOrdering
<1>. QED
  BY <1>3

\* What the abort has granted, and that nobody waits after it.
LEMMA StopDoes ==
    ASSUME Sound(Now), Stop
    PROVE  /\ Sound(Now') /\ waiting' = <<>> /\ WaitersOf(Now') = {}
           /\ signal' = "aborted"
<1>. DEFINE q == waiting
<1>0. /\ Now \in States /\ Now.used = used /\ Now.holders = holders
      /\ Now.waiting = waiting /\ Now.claim = claim
      /\ Queued(Now) /\ q \in Seq(Loops) /\ Len(q) \in Nat
      /\ \A i \in 1..Len(q) : q[i] \in Loops
      /\ WaitersOf(Now) = Waiting
  BY ElementOfSeq, LenProperties DEF Sound, Now, States, WaitersOf, Waiting
<1>1. PICK G \in SUBSET Waiting :
        /\ \A i \in 1..Len(waiting) :
              waiting[i] \in G <=>
                  i > 1 /\ FitsAfter(Now, G \cap First(waiting, i - 1), waiting[i])
        /\ Becomes([Grant(Now, G) EXCEPT
                       !.waiting = <<>>,
                       !.claim = [c \in Loops |-> IF c \in Waiting \ G THEN NoClaim ELSE @[c]]])
  BY DEF Stop
<1>2. G \in SUBSET WaitersOf(Now) /\ G \in SUBSET Loops /\ HoldersOf(Now) \cap G = {}
  BY <1>0 DEF WaitersOf, HoldersOf
<1>3. G # {} => \E c \in G : FitsAfter(Now, G \ {c}, c)
  <2>1. SUFFICES ASSUME G # {}
                 PROVE  \E c \in G : FitsAfter(Now, G \ {c}, c)
    OBVIOUS
  <2>. DEFINE T == {i \in 1..Len(q) : q[i] \in G}
  <2>2. \A c \in G : \E i \in T : q[i] = c
    BY <1>0, <1>2 DEF Queued
  <2>3. PICK m \in T : \A i \in T : i <= m
    <3>1. T \in SUBSET (1..Len(q)) /\ T # {} /\ Len(q) \in Nat
      BY <1>0, <2>1, <2>2
    <3>. HIDE DEF T, q
    <3>. QED
      BY <3>1, LastPlace
  <2>4. m \in 1..Len(q) /\ q[m] \in G
    BY <2>3
  <2>5. \A i, k \in 1..Len(q) : q[i] = q[k] => i = k
    BY <1>0 DEF Queued
  <2>6. G \cap First(q, m - 1) = G \ {q[m]}
    <3>1. ASSUME NEW c \in G \ {q[m]}
          PROVE  c \in First(q, m - 1)
      <4>1. PICK i \in T : q[i] = c
        BY <2>2
      <4>2. i \in 1..m - 1
        BY <1>0, <2>3, <2>4, <3>1, <4>1
      <4>. QED
        BY <4>1, <4>2 DEF First
    <3>2. q[m] \notin First(q, m - 1)
      <4>1. \A i \in 1..m - 1 : i \in 1..Len(q) /\ i # m
        BY <1>0, <2>4
      <4>. QED
        BY <2>4, <2>5, <4>1 DEF First
    <3>. QED
      BY <3>1, <3>2
  <2>7. FitsAfter(Now, G \cap First(q, m - 1), q[m])
    BY <1>1, <2>4
  <2>. QED
    BY <2>4, <2>6, <2>7
<1>4. PICK t : t = Grant(Now, G)
  OBVIOUS
<1>5. /\ t \in States /\ Counted(t) /\ Bounded(t)
      /\ HoldersOf(t) = HoldersOf(Now) \cup G /\ WaitersOf(t) = Waiting \ G
  BY <1>0, <1>2, <1>3, <1>4, GrantDoes
<1>6. PICK cl : cl = [c \in Loops |-> IF c \in Waiting \ G THEN NoClaim ELSE t.claim[c]]
  OBVIOUS
<1>7. cl \in [Loops -> Claims] /\ <<>> \in Seq(Loops)
  BY <1>5, <1>6, ClaimTypes, EmptySeq DEF States
<1>8. PICK u : u = [t EXCEPT !.waiting = <<>>, !.claim = cl]
  OBVIOUS
<1>9. /\ u \in States /\ u.used = t.used /\ u.holders = t.holders /\ u.waiting = <<>> /\ u.claim = cl
  BY <1>5, <1>7, <1>8 DEF States
<1>10. Now' = u
  <2>1. Becomes(u)
    BY <1>1, <1>4, <1>6, <1>8
  <2>. QED
    BY <1>9, <2>1, BecomesIs
<1>11. \A c \in Loops : IF c \in WaitersOf(t) THEN cl[c] = NoClaim ELSE cl[c] = t.claim[c]
  BY <1>5, <1>6
<1>12. HoldersOf(u) = HoldersOf(t) /\ WaitersOf(u) = {}
  BY <1>9, <1>11 DEF HoldersOf, WaitersOf, NoClaim
<1>13. HoldersOf(t) \in SUBSET Loops /\ \A c \in HoldersOf(t) : u.claim[c] = t.claim[c]
  BY <1>9, <1>11 DEF HoldersOf, WaitersOf
<1>14. /\ Total(HeldOf(u), HoldersOf(t)) = Total(HeldOf(t), HoldersOf(t))
       /\ Total(LowOf(u), HoldersOf(t)) = Total(LowOf(t), HoldersOf(t))
  BY <1>13, TotalAgrees DEF HeldOf, LowOf
<1>15. Counted(u) /\ Bounded(u)
  BY <1>5, <1>9, <1>12, <1>13, <1>14 DEF Counted, Bounded
<1>16. Queued(u)
  BY <1>9, <1>12, EmptySeq DEF Queued
<1>17. Sound(u)
  BY <1>9, <1>15, <1>16 DEF Sound
<1>18. waiting' = <<>> /\ signal' = "aborted"
  BY <1>1 DEF Becomes, Stop
<1>. QED
  BY <1>10, <1>12, <1>17, <1>18

---------------------------------------------------------------------------
Inv ==
    /\ Sound(Now) /\ HeadWaits(Now)
    /\ signal \in {"none", "armed", "aborted"}

Ordered ==
    \A c, d \in Loops :
        /\ claim[c].at # "holding" /\ claim'[c].at = "holding"
        /\ claim[d].at = "waiting" /\ claim'[d].at = "waiting"
        => /\ claim[c].at = "waiting"
           /\ \E i, k \in 1..Len(waiting) : i < k /\ waiting[i] = c /\ waiting[k] = d

LEMMA PumpFrom ==
    ASSUME Sound(Now), NEW s, Sound(s), Pump(s),
           \A c \in Loops : claim[c].at # "holding" => s.claim[c].at # "holding",
           \A i, k \in 1..Len(s.waiting) : i < k =>
               \E j, m \in 1..Len(waiting) : j < m /\ waiting[j] = s.waiting[i] /\ waiting[m] = s.waiting[k]
    PROVE  Sound(Now') /\ HeadWaits(Now') /\ Ordered
<1>1. Sound(Now') /\ HeadWaits(Now') /\ InOrder(s, Now')
  BY PumpDoes
<1>2. \A i \in 1..Len(waiting) : claim[waiting[i]].at = "waiting"
  BY DEF Sound, Queued, Now
<1>3. Ordered
  BY <1>1, <1>2 DEF Ordered, InOrder, Now
<1>. QED
  BY <1>1, <1>3

LEMMA NowFields ==
    ASSUME Sound(Now)
    PROVE  /\ Now \in States /\ Now.used = used /\ Now.holders = holders
           /\ Now.waiting = waiting /\ Now.claim = claim
           /\ used \in Nat /\ holders \in Nat /\ waiting \in Seq(Loops) /\ claim \in [Loops -> Claims]
           /\ Len(waiting) \in Nat /\ \A i \in 1..Len(waiting) : waiting[i] \in Loops
  BY ElementOfSeq, LenProperties DEF Sound, Now, States

With(c, e) == [Now EXCEPT !.claim = [claim EXCEPT ![c] = e]]

\* The claim of a loop that is not counted becomes one that is not counted.
LEMMA ClaimChanges ==
    ASSUME Sound(Now), NEW c \in Loops, NEW e \in Claims,
           claim[c].at \notin {"holding", "waiting"}, e.at \notin {"holding", "waiting"},
           NEW s, s = With(c, e)
    PROVE  /\ Sound(s) /\ s \in States /\ s.used = used /\ s.holders = holders /\ s.waiting = waiting
           /\ s.claim[c] = e /\ \A d \in Loops : d # c => s.claim[d] = claim[d]
<1>1. PICK cl : cl = [claim EXCEPT ![c] = e]
  OBVIOUS
<1>2. cl \in [Loops -> Claims] /\ cl[c] = e /\ \A d \in Loops : d # c => cl[d] = claim[d]
  BY <1>1, NowFields
<1>3. s \in States /\ s.used = used /\ s.holders = holders /\ s.waiting = waiting /\ s.claim = cl
  BY <1>1, <1>2, NowFields DEF States, With
<1>4. Sound(s)
  <2>1. /\ s.used = Now.used /\ s.holders = Now.holders /\ s.waiting = Now.waiting
        /\ \A d \in Loops \ {c} : s.claim[d] = Now.claim[d]
        /\ Now.claim[c].at \notin {"holding", "waiting"} /\ s.claim[c].at \notin {"holding", "waiting"}
    BY <1>2, <1>3, NowFields
  <2>. QED
    BY <1>3, <2>1, UncountedChanges
<1>. QED
  BY <1>1, <1>2, <1>3, <1>4

LEMMA PumpUnmoved ==
    ASSUME Sound(Now), NEW s, Sound(s), Pump(s), s.waiting = waiting,
           \A c \in Loops : claim[c].at # "holding" => s.claim[c].at # "holding"
    PROVE  Sound(Now') /\ HeadWaits(Now') /\ Ordered
<1>1. \A i, k \in 1..Len(s.waiting) : i < k =>
         \E j, m \in 1..Len(waiting) : j < m /\ waiting[j] = s.waiting[i] /\ waiting[m] = s.waiting[k]
  OBVIOUS
<1>. QED
  BY <1>1, PumpFrom

\* A claim that is not counted changes and nothing else.
LEMMA Uncounted ==
    ASSUME Inv, NEW c \in Loops, NEW e \in Claims,
           claim[c].at \notin {"holding", "waiting"}, e.at \notin {"holding", "waiting"},
           claim' = [claim EXCEPT ![c] = e], UNCHANGED <<used, holders, waiting, signal>>
    PROVE  Inv' /\ Ordered
<1>0. Sound(Now) /\ HeadWaits(Now)
  BY DEF Inv
<1>1. PICK s : s = With(c, e)
  OBVIOUS
<1>2. /\ Sound(s) /\ s \in States /\ s.used = used /\ s.holders = holders /\ s.waiting = waiting
      /\ s.claim[c] = e /\ \A d \in Loops : d # c => s.claim[d] = claim[d]
  BY <1>0, <1>1, ClaimChanges
<1>3. Becomes(s)
  BY <1>0, <1>1, <1>2, NowFields DEF Becomes, With, States
<1>4. Now' = s
  BY <1>2, <1>3, BecomesIs
<1>5. HeadWaits(s)
  <2>1. SUFFICES ASSUME waiting # <<>>
                 PROVE  ~Fits(s, s.claim[Head(waiting)].asked)
    BY <1>2 DEF HeadWaits
  <2>2. Head(waiting) = waiting[1] /\ 1 \in 1..Len(waiting)
    BY <1>0, <2>1, NowFields, EmptySeq
  <2>3. claim[waiting[1]].at = "waiting" /\ waiting[1] \in Loops
    BY <1>0, <2>2, NowFields DEF Sound, Queued
  <2>4. s.claim[Head(waiting)] = claim[Head(waiting)]
    BY <1>2, <2>2, <2>3
  <2>. QED
    BY <1>0, <1>2, <2>1, <2>4, NowFields DEF HeadWaits, Fits
<1>6. Ordered
  BY <1>0, NowFields DEF Ordered
<1>. QED
  BY <1>2, <1>4, <1>5, <1>6 DEF Inv

LEMMA Unmoved ==
    ASSUME Inv, UNCHANGED <<used, holders, waiting, claim>>
    PROVE  Sound(Now') /\ HeadWaits(Now') /\ Ordered
<1>1. Now' = Now
  BY DEF Now
<1>2. Ordered
  BY DEF Ordered
<1>. QED
  BY <1>1, <1>2 DEF Inv

LEMMA NobodyWaits ==
    ASSUME Sound(Now'), waiting' = <<>>
    PROVE  HeadWaits(Now') /\ Ordered
<1>1. Now'.waiting = <<>> /\ Now'.claim = claim'
  BY DEF Now
<1>2. \A d \in Loops : claim'[d].at # "waiting"
  BY <1>1, EmptySeq DEF Sound, Queued, WaitersOf
<1>. QED
  BY <1>1, <1>2 DEF HeadWaits, Ordered

LEMMA NobodyGranted ==
    ASSUME \A c \in Loops : claim[c].at # "holding" => claim'[c].at # "holding"
    PROVE  Ordered
  BY DEF Ordered

LEMMA GrantAtOnce ==
    ASSUME Inv, NEW c \in Loops, NEW n \in Sizes, claim[c].at = "reading", AtOnce(n),
           Becomes(Grant([Now EXCEPT !.claim[c].asked = n], {c}))
    PROVE  Sound(Now') /\ HeadWaits(Now') /\ Ordered
<1>0. Sound(Now) /\ waiting = <<>> /\ Fits(Now, n)
  BY DEF Inv, AtOnce
<1>1. PICK f \in Claims : f = claim[c] /\ f.at = "reading"
  BY <1>0, NowFields
<1>2. PICK e \in Claims : e = [f EXCEPT !.asked = n] /\ e.at = "reading" /\ e.asked = n
  <2>. DEFINE g == [f EXCEPT !.asked = n]
  <2>1. g \in Claims /\ g.at = "reading" /\ g.asked = n
    BY <1>1 DEF Claims
  <2>. HIDE DEF g
  <2>2. g = [f EXCEPT !.asked = n]
    BY DEF g
  <2>. QED
    BY <2>1, <2>2
<1>3. PICK s : s = With(c, e)
  OBVIOUS
<1>4. s = [Now EXCEPT !.claim[c].asked = n]
  BY <1>0, <1>1, <1>2, <1>3, NowFields DEF With
<1>5. /\ Sound(s) /\ s \in States /\ s.used = used /\ s.holders = holders /\ s.waiting = waiting
      /\ s.claim[c] = e
  <2>1. claim[c].at \notin {"holding", "waiting"} /\ e.at \notin {"holding", "waiting"}
    BY <1>1, <1>2
  <2>. QED
    BY <1>0, <1>3, <2>1, ClaimChanges
<1>6. {c} \in SUBSET Loops /\ HoldersOf(s) \cap {c} = {}
  BY <1>2, <1>5 DEF HoldersOf
<1>7. FitsAfter(s, {c} \ {c}, c)
  <2>1. {c} \ {c} = {} /\ {} \in SUBSET Loops
    OBVIOUS
  <2>2. Cardinality({}) = 0 /\ Total(AskedOf(s), {}) = 0
    BY FS_EmptySet, TotalOfNone
  <2>3. holders = 0 \/ used + n <= Budget
    BY <1>0, NowFields DEF Fits
  <2>4. \/ s.holders + Cardinality({}) = 0
        \/ s.used + Total(AskedOf(s), {}) + s.claim[c].asked <= Budget
    BY <1>0, <1>2, <1>5, <2>2, <2>3, NowFields
  <2>. QED
    BY <1>5, <2>1, <2>4, FitsAfterIs
<1>8. PICK t : t = Grant(s, {c})
  OBVIOUS
<1>9. /\ t \in States /\ Counted(t) /\ Bounded(t) /\ t.waiting = <<>>
      /\ WaitersOf(t) \subseteq WaitersOf(s)
  <2>1. {c} # {} => \E d \in {c} : FitsAfter(s, {c} \ {d}, d)
    BY <1>7
  <2>2. PICK G \in SUBSET Loops : G = {c}
    OBVIOUS
  <2>3. t = Grant(s, G) /\ HoldersOf(s) \cap G = {}
    BY <1>6, <1>8, <2>2
  <2>4. G # {} => \E d \in G : FitsAfter(s, G \ {d}, d)
    BY <2>1, <2>2
  <2>5. /\ t \in States /\ Counted(t) /\ Bounded(t) /\ t.waiting = s.waiting
        /\ WaitersOf(t) = WaitersOf(s) \ G
    BY <1>5, <2>3, <2>4, GrantDoes
  <2>. QED
    BY <1>0, <1>5, <2>5
<1>10. Queued(t)
  BY <1>0, <1>5, <1>9, EmptySeq DEF Sound, Queued
<1>11. Becomes(t)
  BY <1>4, <1>8
<1>12. Now' = t /\ Sound(Now') /\ waiting' = <<>>
  BY <1>9, <1>10, <1>11, BecomesIs DEF Sound, Becomes
<1>. QED
  BY <1>12, NobodyWaits

LEMMA Waits ==
    ASSUME Inv, NEW c \in Loops, NEW n \in Sizes, claim[c].at = "reading", ~AtOnce(n),
           waiting' = Append(waiting, c),
           claim' = [claim EXCEPT ![c] = [NoClaim EXCEPT !.at = "waiting", !.asked = n]],
           UNCHANGED <<used, holders>>
    PROVE  Sound(Now') /\ HeadWaits(Now') /\ Ordered
<1>0. Sound(Now) /\ HeadWaits(Now)
  BY DEF Inv
<1>1. /\ Now \in States /\ Now.used = used /\ Now.holders = holders
      /\ Now.waiting = waiting /\ Now.claim = claim
      /\ waiting \in Seq(Loops) /\ claim \in [Loops -> Claims] /\ Len(waiting) \in Nat
      /\ \A i \in 1..Len(waiting) : waiting[i] \in Loops
      /\ Counted(Now) /\ Queued(Now) /\ Bounded(Now)
  BY <1>0, NowFields DEF Sound
<1>2. PICK e \in Claims : /\ e = [NoClaim EXCEPT !.at = "waiting", !.asked = n]
                          /\ e.at = "waiting" /\ e.asked = n
  BY ClaimTypes DEF NoClaim
<1>3. /\ claim' \in [Loops -> Claims] /\ claim'[c] = e
      /\ \A d \in Loops : d # c => claim'[d] = claim[d]
  BY <1>1, <1>2
<1>4. PICK r : r = Append(waiting, c)
  OBVIOUS
<1>5. /\ r \in Seq(Loops) /\ Len(r) = Len(waiting) + 1 /\ r # <<>>
      /\ \A i \in 1..Len(waiting) : r[i] = waiting[i]
      /\ r[Len(waiting) + 1] = c
  BY <1>1, <1>4, AppendProperties
<1>6. PICK u : u = Now'
  OBVIOUS
<1>7. u \in States /\ u.used = used /\ u.holders = holders /\ u.waiting = r /\ u.claim = claim'
  <2>1. u = [used |-> used', holders |-> holders', waiting |-> waiting', claim |-> claim']
    BY <1>6 DEF Now
  <2>. QED
    BY <1>0, <1>3, <1>4, <1>5, <2>1, NowFields DEF States
<1>8. HoldersOf(u) = HoldersOf(Now) /\ WaitersOf(u) = WaitersOf(Now) \cup {c}
  BY <1>1, <1>2, <1>3, <1>7 DEF HoldersOf, WaitersOf
<1>9. /\ HoldersOf(Now) \in SUBSET Loops
      /\ \A d \in HoldersOf(Now) : u.claim[d] = claim[d] /\ d \in Loops
  BY <1>1, <1>3, <1>7 DEF HoldersOf
<1>10. /\ Total(HeldOf(u), HoldersOf(Now)) = Total(HeldOf(Now), HoldersOf(Now))
       /\ Total(LowOf(u), HoldersOf(Now)) = Total(LowOf(Now), HoldersOf(Now))
  BY <1>1, <1>9, TotalAgrees DEF HeldOf, LowOf
<1>11. Counted(u) /\ Bounded(u)
  BY <1>1, <1>7, <1>8, <1>9, <1>10 DEF Counted, Bounded
<1>12. \A i \in 1..Len(waiting) : waiting[i] # c
  BY <1>1 DEF Queued
<1>13. Queued(u)
  <2>1. \A i \in 1..Len(r) : (i \in 1..Len(waiting) /\ r[i] = waiting[i]) \/ (i = Len(waiting) + 1 /\ r[i] = c)
    BY <1>1, <1>5
  <2>2. \A i \in 1..Len(r) : u.claim[r[i]].at = "waiting"
    BY <1>1, <1>2, <1>3, <1>7, <1>12, <2>1 DEF Queued
  <2>3. \A d \in WaitersOf(u) : \E i \in 1..Len(r) : r[i] = d
    <3>1. ASSUME NEW d \in WaitersOf(Now)
          PROVE  \E i \in 1..Len(r) : r[i] = d
      <4>1. PICK i \in 1..Len(waiting) : waiting[i] = d
        BY <1>1, <3>1 DEF Queued
      <4>. QED
        BY <1>1, <1>5, <4>1
    <3>2. Len(waiting) + 1 \in 1..Len(r)
      BY <1>1, <1>5
    <3>. QED
      BY <1>5, <1>8, <3>1, <3>2
  <2>4. \A i, k \in 1..Len(waiting) : waiting[i] = waiting[k] => i = k
    BY <1>1 DEF Queued
  <2>5. \A i, k \in 1..Len(r) : r[i] = r[k] => i = k
    BY <1>12, <2>1, <2>4
  <2>. QED
    BY <1>7, <2>2, <2>3, <2>5 DEF Queued
<1>14. HeadWaits(u)
  <2>1. Head(r) = r[1]
    BY <1>5, EmptySeq
  <2>2. CASE waiting = <<>>
    <3>1. Head(r) = c /\ ~Fits(Now, n)
      BY <1>4, <2>2, HeadTailAppend, <1>1 DEF AtOnce
    <3>. QED
      BY <1>1, <1>2, <1>3, <1>7, <3>1 DEF HeadWaits, Fits
  <2>3. CASE waiting # <<>>
    <3>1. Head(r) = Head(waiting) /\ Head(waiting) = waiting[1] /\ 1 \in 1..Len(waiting)
      BY <1>1, <1>5, <2>1, <2>3, EmptySeq
    <3>2. claim'[Head(r)] = claim[Head(waiting)]
      BY <1>1, <1>3, <1>12, <3>1
    <3>3. ~Fits(Now, claim[Head(waiting)].asked)
      BY <1>0, <1>1, <2>3 DEF HeadWaits
    <3>. QED
      BY <1>1, <1>7, <3>2, <3>3 DEF HeadWaits, Fits
  <2>. QED
    BY <2>2, <2>3
<1>15. Ordered
  BY <1>2, <1>3, NobodyGranted
<1>. QED
  BY <1>6, <1>7, <1>11, <1>13, <1>14, <1>15 DEF Sound

LEMMA Settles ==
    ASSUME Inv, NEW c \in Loops, NEW n \in Sizes, Settle(c, n)
    PROVE  Sound(Now') /\ HeadWaits(Now') /\ Ordered
<1>0. Sound(Now) /\ HeadWaits(Now) /\ claim[c].at = "holding"
  BY DEF Inv, Settle
<1>1. PICK s : s = Adjusted(c, n)
  OBVIOUS
<1>2. /\ Sound(s) /\ s.waiting = waiting /\ s.holders = holders
      /\ s.used = used - claim[c].held + n
      /\ \A d \in Loops : s.claim[d].at = claim[d].at /\ s.claim[d].asked = claim[d].asked
  BY <1>0, <1>1, AdjustedDoes
<1>3. CASE Pump(Adjusted(c, n))
  BY <1>0, <1>1, <1>2, <1>3, PumpUnmoved
<1>4. CASE n > claim[c].held /\ Becomes(Adjusted(c, n))
  <2>1. Now' = s
    BY <1>1, <1>2, <1>4, BecomesIs DEF Sound
  <2>2. HeadWaits(s)
    <3>1. SUFFICES ASSUME waiting # <<>>
                   PROVE  ~Fits(s, s.claim[Head(waiting)].asked)
      BY <1>2 DEF HeadWaits
    <3>2. Head(waiting) = waiting[1] /\ 1 \in 1..Len(waiting) /\ waiting[1] \in Loops
      BY <1>0, <3>1, NowFields, EmptySeq
    <3>3. s.claim[Head(waiting)].asked = claim[Head(waiting)].asked
      BY <1>2, <3>2
    <3>4. claim[Head(waiting)].asked \in Nat /\ claim[c].held \in Nat /\ n \in Nat /\ Budget \in Nat
      BY <1>0, <3>2, NowFields, ClaimFields, BudgetAssumption DEF Sizes
    <3>5. holders # 0 /\ ~(used + claim[Head(waiting)].asked <= Budget)
      BY <1>0, <3>1, NowFields DEF HeadWaits, Fits
    <3>6. s.holders # 0 /\ used \in Nat /\ s.used = used - claim[c].held + n /\ n > claim[c].held
      BY <1>0, <1>2, <1>4, <3>5, NowFields
    <3>7. ~(s.used + claim[Head(waiting)].asked <= Budget)
      BY <3>4, <3>5, <3>6
    <3>. QED
      BY <3>3, <3>6, <3>7 DEF Fits
  <2>3. \A d \in Loops : claim[d].at # "holding" => claim'[d].at # "holding"
    BY <1>2, <2>1 DEF Now
  <2>4. Ordered
    BY <2>3, NobodyGranted
  <2>. QED
    BY <1>2, <2>1, <2>2, <2>4
<1>. QED
  BY <1>3, <1>4 DEF Settle

LEMMA Releases ==
    ASSUME Inv, NEW c \in Loops, Release(c)
    PROVE  Sound(Now') /\ HeadWaits(Now') /\ Ordered
<1>0. Sound(Now) /\ claim[c].at = "holding" /\ Pump(Freed(c))
  BY DEF Inv, Release, Freed
<1>1. PICK s : s = Freed(c)
  OBVIOUS
<1>2. /\ Sound(s) /\ s.waiting = waiting
      /\ \A d \in Loops : d # c => s.claim[d] = claim[d]
  BY <1>0, <1>1, FreedDoes
<1>3. \A d \in Loops : claim[d].at # "holding" => s.claim[d].at # "holding"
  BY <1>0, <1>2
<1>. QED
  BY <1>0, <1>1, <1>2, <1>3, PumpUnmoved

LEMMA IsRefused ==
    ASSUME Inv, NEW c \in Loops, claim[c].at = "reading", Pump([Now EXCEPT !.claim[c] = NoClaim])
    PROVE  Sound(Now') /\ HeadWaits(Now') /\ Ordered
<1>0. Sound(Now)
  BY DEF Inv
<1>1. PICK s : s = With(c, NoClaim)
  OBVIOUS
<1>2. PICK e \in Claims : e = NoClaim /\ e.at \notin {"holding", "waiting"} /\ s = With(c, e)
  BY <1>1, ClaimTypes DEF NoClaim
<1>3. claim[c].at \notin {"holding", "waiting"}
  OBVIOUS
<1>4. /\ Sound(s) /\ s.waiting = waiting /\ s.claim[c] = e
      /\ \A d \in Loops : d # c => s.claim[d] = claim[d]
  BY <1>0, <1>2, <1>3, ClaimChanges
<1>5. s = [Now EXCEPT !.claim[c] = NoClaim]
  BY <1>0, <1>1, NowFields DEF With
<1>6. \A d \in Loops : claim[d].at # "holding" => s.claim[d].at # "holding"
  BY <1>2, <1>4
<1>. QED
  BY <1>0, <1>4, <1>5, <1>6, PumpUnmoved

LEMMA TimesOut ==
    ASSUME Inv, NEW c \in Loops, WaitTimesOut(c)
    PROVE  Sound(Now') /\ HeadWaits(Now') /\ Ordered
<1>0. Sound(Now)
  BY DEF Inv
<1>1. PICK j \in 1..Len(waiting) : waiting[j] = c /\ Pump(Without(j))
  BY DEF WaitTimesOut, Leave
<1>2. PICK s : s = Without(j)
  OBVIOUS
<1>3. /\ Sound(s)
      /\ \A d \in Loops : s.claim[d] = IF d = waiting[j] THEN NoClaim ELSE claim[d]
      /\ s.waiting \in Seq(Loops) /\ Len(s.waiting) = Len(waiting) - 1
      /\ \A i \in 1..Len(waiting) - 1 : s.waiting[i] = IF i < j THEN waiting[i] ELSE waiting[i + 1]
  BY <1>0, <1>1, <1>2, WithoutDoes
<1>4. \A d \in Loops : claim[d].at # "holding" => s.claim[d].at # "holding"
  BY <1>3 DEF NoClaim
<1>5. ASSUME NEW i \in 1..Len(s.waiting), NEW k \in 1..Len(s.waiting), i < k
      PROVE  \E h, m \in 1..Len(waiting) : h < m /\ waiting[h] = s.waiting[i] /\ waiting[m] = s.waiting[k]
  <2>1. Len(waiting) \in Nat /\ j \in Nat /\ i \in Nat /\ k \in Nat
    BY <1>0, <1>1, <1>3, NowFields
  <2>2. PICK h \in 1..Len(waiting) : h = (IF i < j THEN i ELSE i + 1) /\ waiting[h] = s.waiting[i]
    BY <1>1, <1>3, <1>5, <2>1
  <2>3. PICK m \in 1..Len(waiting) : m = (IF k < j THEN k ELSE k + 1) /\ waiting[m] = s.waiting[k]
    BY <1>1, <1>3, <1>5, <2>1
  <2>4. h < m
    BY <1>5, <2>1, <2>2, <2>3
  <2>. QED
    BY <2>2, <2>3, <2>4
<1>6. Pump(s)
  BY <1>1, <1>2
<1>. QED
  BY <1>0, <1>3, <1>4, <1>5, <1>6, PumpFrom

---------------------------------------------------------------------------
LEMMA InvStep ==
    ASSUME Inv, Next
    PROVE  Inv' /\ Ordered
<1>. USE DEF Inv
<1>1. CASE Start
  BY <1>1, Unmoved DEF Start
<1>2. CASE Stop
  BY <1>2, StopDoes, NobodyWaits
<1>3. CASE Clear
  BY <1>3, Unmoved DEF Clear
<1>4. ASSUME NEW c \in Loops, ClaimFile(c)
      PROVE  Inv' /\ Ordered
  <2>1. PICK f \in Claims : f = claim[c] /\ f.at = "idle"
    BY <1>4, NowFields DEF ClaimFile
  <2>2. PICK e : e = [f EXCEPT !.at = "reading"]
    OBVIOUS
  <2>3. e \in Claims /\ e.at \notin {"holding", "waiting"} /\ claim[c].at \notin {"holding", "waiting"}
    BY <2>1, <2>2 DEF Claims
  <2>4. claim' = [claim EXCEPT ![c] = e] /\ UNCHANGED <<used, holders, waiting, signal>>
    BY <1>4, <2>1, <2>2 DEF ClaimFile
  <2>. QED
    BY <2>3, <2>4, Uncounted
<1>5. ASSUME NEW c \in Loops, claim[c].at \in {"reading", "released"},
             claim' = [claim EXCEPT ![c] = NoClaim], UNCHANGED <<used, holders, waiting, signal>>
      PROVE  Inv' /\ Ordered
  <2>1. PICK e \in Claims : e = NoClaim /\ e.at \notin {"holding", "waiting"}
    BY ClaimTypes DEF NoClaim
  <2>2. claim[c].at \notin {"holding", "waiting"}
    BY <1>5
  <2>3. claim' = [claim EXCEPT ![c] = e]
    BY <1>5, <2>1
  <2>. QED
    BY <1>5, <2>1, <2>2, <2>3, Uncounted
<1>6. ASSUME NEW c \in Loops, EndUnreserved(c)
      PROVE  Inv' /\ Ordered
  BY <1>5, <1>6 DEF EndUnreserved
<1>7. ASSUME NEW c \in Loops, NEW n \in Sizes, ReserveMemory(c, n)
      PROVE  Inv' /\ Ordered
  BY <1>7, GrantAtOnce, Waits, IsRefused DEF ReserveMemory
<1>8. ASSUME NEW c \in Loops, WaitTimesOut(c)
      PROVE  Inv' /\ Ordered
  BY <1>8, TimesOut DEF WaitTimesOut
<1>9. ASSUME NEW c \in Loops, NEW n \in Sizes, Settle(c, n)
      PROVE  Inv' /\ Ordered
  BY <1>9, Settles DEF Settle
<1>10. ASSUME NEW c \in Loops, Release(c)
       PROVE  Inv' /\ Ordered
  BY <1>10, Releases DEF Release
<1>11. ASSUME NEW c \in Loops, ReleaseAgain(c)
       PROVE  Inv' /\ Ordered
  <2>1. /\ claim[c].at \in {"reading", "released"}
        /\ claim' = [claim EXCEPT ![c] = NoClaim] /\ UNCHANGED <<used, holders, waiting, signal>>
    BY <1>11, NowFields DEF ReleaseAgain, Becomes, States, Now
  <2>. QED
    BY <1>5, <2>1
<1>. QED
  BY <1>1, <1>2, <1>3, <1>4, <1>6, <1>7, <1>8, <1>9, <1>10, <1>11 DEF Next

LEMMA InvInit == Init => Inv
<1>. SUFFICES ASSUME Init
              PROVE  Inv
  OBVIOUS
<1>1. /\ Now \in States /\ Now.used = 0 /\ Now.holders = 0 /\ Now.waiting = <<>>
      /\ Now.claim = [c \in Loops |-> NoClaim]
  BY ClaimTypes, EmptySeq DEF Init, Now, States
<1>2. \A c \in Loops : Now.claim[c].at = "idle"
  BY <1>1 DEF NoClaim
<1>3. HoldersOf(Now) = {} /\ WaitersOf(Now) = {}
  BY <1>2 DEF HoldersOf, WaitersOf
<1>4. Counted(Now) /\ Bounded(Now)
  BY <1>1, <1>3, TotalOfNone, FS_EmptySet DEF Counted, Bounded
<1>5. Queued(Now) /\ HeadWaits(Now)
  BY <1>1, <1>3, EmptySeq DEF Queued, HeadWaits
<1>. QED
  BY <1>1, <1>4, <1>5 DEF Inv, Sound, Init

LEMMA InvMeans ==
    ASSUME Inv
    PROVE  CountersMatch /\ BudgetExceededByGrowthOnly /\ HeadDoesNotFit
<1>0. /\ Sound(Now) /\ HeadWaits(Now) /\ Counted(Now) /\ Queued(Now) /\ Bounded(Now)
      /\ signal \in {"none", "armed", "aborted"}
  BY DEF Inv, Sound
<1>1. HoldersOf(Now) = Holding /\ WaitersOf(Now) = Waiting
  BY <1>0, NowFields DEF HoldersOf, WaitersOf, Holding, Waiting
<1>2. TypeOK
  BY <1>0, NowFields DEF TypeOK
<1>3. used = Total([c \in Loops |-> claim[c].held], Holding) /\ holders = Cardinality(Holding)
  BY <1>0, <1>1, NowFields DEF Counted, HeldOf
<1>4. ToSet(waiting) = Waiting
  <2>1. DOMAIN waiting = 1..Len(waiting)
    BY <1>0, NowFields, LenProperties
  <2>2. \A i \in 1..Len(waiting) : waiting[i] \in Waiting
    BY <1>0, NowFields DEF Queued, Waiting
  <2>3. \A c \in Waiting : \E i \in 1..Len(waiting) : waiting[i] = c
    BY <1>0, <1>1, NowFields DEF Queued
  <2>. QED
    BY <2>1, <2>2, <2>3 DEF ToSet
<1>5. Len(waiting) = Cardinality(Waiting)
  <2>1. waiting \in [1..Len(waiting) -> Loops] /\ Len(waiting) \in Nat
    BY <1>0, NowFields, LenProperties
  <2>2. \A i \in 1..Len(waiting) : waiting[i] \in Waiting
    BY <1>0, NowFields DEF Queued, Waiting
  <2>3. \A c \in Waiting : \E i \in 1..Len(waiting) : waiting[i] = c
    BY <1>0, <1>1, NowFields DEF Queued
  <2>4. \A i, k \in 1..Len(waiting) : waiting[i] = waiting[k] => i = k
    BY <1>0, NowFields DEF Queued
  <2>5. waiting \in [1..Len(waiting) -> Waiting]
    BY <2>1, <2>2
  <2>6. waiting \in Bijection(1..Len(waiting), Waiting)
    BY <2>3, <2>4, <2>5 DEF Bijection, Injection, IsInjective, Surjection
  <2>. QED
    BY <2>1, <2>6, FS_CountingElements DEF ExistsBijection
<1>6. BudgetExceededByGrowthOnly
  BY <1>0, <1>1, <1>3, NowFields DEF BudgetExceededByGrowthOnly, Bounded, LowOf
<1>7. HeadDoesNotFit
  BY <1>0, NowFields DEF HeadDoesNotFit, HeadWaits
<1>. QED
  BY <1>2, <1>3, <1>4, <1>5, <1>6, <1>7 DEF CountersMatch

LEMMA BudgetInv == Spec => []Inv
<1>1. Inv /\ [Next]_vars => Inv'
  <2>1. Inv /\ Next => Inv'
    BY InvStep
  <2>2. Inv /\ UNCHANGED vars => Inv'
    BY DEF Inv, vars, Now
  <2>. QED
    BY <2>1, <2>2
<1>. QED
  BY <1>1, InvInit, PTL DEF Spec

(***************************************************************************)
(* The counters are what the reservations hold and the queue is who waits, *)
(* for any number of loops and any sizes: no grant, growth, time-out,      *)
(* abort or second release of memoryBudget.ts loses or counts one twice.   *)
(***************************************************************************)
THEOREM Counters == Spec => []CountersMatch
  BY BudgetInv, InvMeans, PTL

(***************************************************************************)
(* Several reservations exceed the budget at most by what they grew after  *)
(* they were granted: the last one that was granted fitted with all the    *)
(* others, and a reservation never counts for more than it then held.      *)
(***************************************************************************)
THEOREM ExceededByGrowth == Spec => []BudgetExceededByGrowthOnly
  BY BudgetInv, InvMeans, PTL

(***************************************************************************)
(* No wake-up is lost: whoever makes room grants the head of the queue,    *)
(* so between two calls the head never fits.                               *)
(***************************************************************************)
THEOREM NoWakeUpLost == Spec => []HeadDoesNotFit
  BY BudgetInv, InvMeans, PTL

(***************************************************************************)
(* Memory is granted in arrival order: a waiter is never granted over one  *)
(* that was there before it, nor is a new request while anybody waits.     *)
(***************************************************************************)
THEOREM ArrivalOrder == Spec => GrantedInArrivalOrder
<1>1. Inv /\ [Next]_vars => [Ordered]_vars
  BY InvStep
<1>2. [Ordered]_vars => [\A c, d \in Loops :
         /\ claim[c].at # "holding" /\ claim'[c].at = "holding"
         /\ claim[d].at = "waiting" /\ claim'[d].at = "waiting"
         => /\ claim[c].at = "waiting"
            /\ \E i, k \in 1..Len(waiting) : i < k /\ waiting[i] = c /\ waiting[k] = d]_vars
  BY DEF Ordered
<1>. QED
  BY <1>1, <1>2, BudgetInv, PTL DEF Spec, GrantedInArrivalOrder

=============================================================================
