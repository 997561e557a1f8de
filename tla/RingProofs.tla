------------------------------ MODULE RingProofs ------------------------------
(***************************************************************************)
(* The ring for every number of producers, consumers, slots, granules and  *)
(* pushes: no two threads share a slot, what is popped is what was pushed, *)
(* only empty blocks are given back, and the ring is a queue of cells.     *)
(***************************************************************************)
EXTENDS RingQueue, FiniteSetTheorems, SequenceTheorems, TLAPS

-----------------------------------------------------------------------------
(* Where a thread can be, and what is going on at a position. *)

Filling == {"wait", "construct", "publish"}
Looking == {"checkLap", "checkState", "cas"}
\* It has the item of its position, or is not yet done with the slot.
Taking == {"move", "clear", "count"}
\* It has finished the lap of a granule and opens the next.
Ending == {"reset", "discard", "nextLap"}

\* The slot of p is in the lap of p.
Serving(p) == laps[granuleOf(p)] = lapOf(p)

FillsAt(p) == \E t \in Producers : pc[t] \in Filling /\ pos[t] = p
StoresAt(p) == \E t \in Producers : pc[t] \in {"wait", "construct"} /\ pos[t] = p
TakesAt(p) == \E t \in Consumers : pc[t] \in Taking /\ pos[t] = p
MovesAt(p) == \E t \in Consumers : pc[t] = "move" /\ pos[t] = p
ClearsAt(p) == \E t \in Consumers : pc[t] \in {"move", "clear"} /\ pos[t] = p

\* Nothing of the push and the pop at p is left to do.
Done(p) == p < head /\ ~TakesAt(p)

\* The positions granule g serves, and how many of them are done.
Round(g) == {p \in Nat : granuleOf(p) = g /\ Serving(p)}
DoneIn(g) == {p \in Round(g) : Done(p)}

-----------------------------------------------------------------------------
(* The inductive invariant. *)

Kinds ==
  /\ \A t \in Producers : pc[t] \in {"idle"} \cup Filling
  /\ \A t \in Consumers : pc[t] \in {"idle"} \cup Looking \cup Taking \cup Ending
  /\ ~Reclaim => \A t \in Consumers : pc[t] \notin {"count", "reset", "discard"}

\* Pushes are at positions not yet popped, pops behind the head, and no two
\* at the same position.
PositionsLie ==
  /\ head <= tail
  /\ tail <= MaxPush
  /\ \A t \in Producers : pc[t] \in Filling => head <= pos[t] /\ pos[t] < tail
  /\ \A t, u \in Producers :
       pc[t] \in Filling /\ pc[u] \in Filling /\ pos[t] = pos[u] => t = u
  /\ \A t \in Consumers : pc[t] \in Looking => pos[t] <= head
  /\ \A t \in Consumers : pc[t] \in Taking \cup Ending => pos[t] < head
  /\ \A t, u \in Consumers :
       pc[t] \in Taking /\ pc[u] \in Taking /\ pos[t] = pos[u] => t = u

\* Who works in a slot does so in the lap of its granule.
LapsServe ==
  /\ \A t \in Producers : pc[t] \in {"construct", "publish"} => Serving(pos[t])
  /\ \A t \in Consumers : pc[t] \in Taking \cup Ending => Serving(pos[t])
  /\ \A p \in Nat : head <= p /\ p < tail /\ ~FillsAt(p) => Serving(p)
  /\ \A p \in Nat : Serving(p) => head <= p + Cap

\* What a consumer has seen at the head is still so.
LooksHold ==
  /\ \A t \in Consumers : pc[t] \in {"checkState", "cas"} /\ pos[t] = head => Serving(head)
  /\ \A t \in Consumers : pc[t] = "cas" /\ pos[t] = head => state[slotOf(head)] = 1

StatesTell ==
  \A p \in Nat : Serving(p) =>
    (state[slotOf(p)] = 1 <=> p < tail /\ ~FillsAt(p) /\ (head <= p \/ ClearsAt(p)))

ItemsTell ==
  ~closed => \A p \in Nat : Serving(p) =>
    storage[slotOf(p)] =
      IF p < tail /\ ~StoresAt(p) /\ (head <= p \/ MovesAt(p)) THEN p ELSE None

\* A granule whose lap ends is done, and one consumer ends it.
EndsAreDone ==
  /\ \A t \in Consumers : pc[t] \in Ending =>
       \A p \in Nat : granuleOf(p) = granuleOf(pos[t]) /\ Serving(p) => Done(p)
  /\ \A t, u \in Consumers :
       pc[t] \in Ending /\ pc[u] \in Ending /\ granuleOf(pos[t]) = granuleOf(pos[u]) => t = u

\* The counter of a granule is the number of its positions that are done.
PopsCount ==
  Reclaim => \A g \in Granules :
    pops[g] = IF \E t \in Consumers : pc[t] \in {"discard", "nextLap"} /\ granuleOf(pos[t]) = g
              THEN 0
              ELSE Cardinality(DoneIn(g))

ClosedIsQuiet ==
  closed => /\ \A t \in Threads : pc[t] = "idle"
            /\ \A s \in SlotIds : storage[s] = None

RingInv ==
  /\ TypeOK
  /\ Kinds
  /\ PositionsLie
  /\ LapsServe
  /\ LooksHold
  /\ StatesTell
  /\ ItemsTell
  /\ EndsAreDone
  /\ PopsCount
  /\ PopsWhatWasPushed
  /\ ClosedIsQuiet
-----------------------------------------------------------------------------
(* Arithmetic of positions, slots and granules. *)

LEMMA Divides ==
  ASSUME NEW n \in Nat, NEW d \in Nat \ {0}
  PROVE  n \div d \in Nat /\ n % d \in 0 .. d - 1 /\ n = d * (n \div d) + (n % d)
<1>1. n % d \in 0 .. d - 1
  OBVIOUS
<1>2. n \div d \in Int
  OBVIOUS
<1>3. n \div d >= 0
  BY Z3
<1>4. (n % d) = n - d * (n \div d)
  BY Z3
<1>5. d * (n \div d) \in Int
  <2> DEFINE q == n \div d
  <2>1. q \in Int
    BY <1>2
  <2> HIDE DEF q
  <2>2. d * q \in Int
    BY <2>1
  <2> QED BY <2>2 DEF q
<1> QED BY <1>1, <1>2, <1>3, <1>4, <1>5

LEMMA DividesOne ==
  ASSUME NEW q \in Nat, NEW d \in Nat \ {0}, NEW r \in 0 .. d - 1
  PROVE  (d * q + r) \div d = q /\ ((d * q + r) % d) = r
OBVIOUS

LEMMA Grows ==
  ASSUME NEW d \in Nat, NEW a \in Nat, NEW b \in Nat, a < b
  PROVE  d * a + d <= d * b
<1>1. PICK k \in Nat : b = a + 1 + k
  <2>1. b - a - 1 \in Nat /\ b = a + 1 + (b - a - 1)
    OBVIOUS
  <2> QED BY <2>1
<1>2. d * b = d * a + d + d * k
  BY <1>1
<1>3. d * k >= 0 /\ d * k \in Int /\ d * a \in Int
  OBVIOUS
<1> QED BY <1>2, <1>3

LEMMA Sizes ==
  /\ Cap \in Nat \ {0}
  /\ GranuleSlots \in Nat \ {0}
  /\ Cap \div GranuleSlots \in Nat
  /\ Cap = GranuleSlots * (Cap \div GranuleSlots)
<1>1. Cap \in Nat \ {0} /\ GranuleSlots \in Nat \ {0} /\ Cap % GranuleSlots = 0
  BY QueueAssumption
<1>2. GranuleSlots * (Cap \div GranuleSlots) \in Int
  BY <1>1, Divides
<1> QED BY <1>1, <1>2, Divides

\* A position and the place it has.
LEMMA PlaceType ==
  ASSUME NEW p \in Nat
  PROVE  /\ slotOf(p) \in SlotIds
         /\ lapOf(p) \in Nat
         /\ granuleOf(p) \in Granules
         /\ granuleOf(p) = slotOf(p) \div GranuleSlots
         /\ p = Cap * lapOf(p) + slotOf(p)
<1>1. /\ lapOf(p) \in Nat
      /\ slotOf(p) \in 0 .. Cap - 1
      /\ p = Cap * lapOf(p) + slotOf(p)
  BY Sizes, Divides DEF slotOf, lapOf
<1> DEFINE s == slotOf(p)
           k == Cap \div GranuleSlots
           g == s \div GranuleSlots
<1>2. s \in Nat /\ s < Cap
  BY <1>1, Sizes
<1>3. g \in Nat /\ s % GranuleSlots \in 0 .. GranuleSlots - 1 /\ s = GranuleSlots * g + (s % GranuleSlots)
  BY <1>2, Sizes, Divides
<1>4. k \in Nat /\ Cap = GranuleSlots * k
  BY Sizes
<1>5. g < k
  <2> HIDE DEF g, k, s
  <2>1. SUFFICES ASSUME k <= g PROVE FALSE
    BY <1>3, <1>4
  <2>2. GranuleSlots * k <= GranuleSlots * g
    <3>1. CASE k = g
      BY <3>1, <1>4, Sizes
    <3>2. CASE k < g
      <4>1. GranuleSlots * k + GranuleSlots <= GranuleSlots * g
        BY <3>2, <1>3, <1>4, Sizes, Grows
      <4>2. GranuleSlots * k \in Int /\ GranuleSlots * g \in Int
        BY <1>3, <1>4, Sizes
      <4> QED BY <4>1, <4>2, Sizes
    <3> QED BY <3>1, <3>2, <2>1, <1>3, <1>4
  <2>3. GranuleSlots * g \in Int
    <3>1. g \in Nat
      BY <1>3
    <3>2. GranuleSlots \in Nat
      BY QueueAssumption
    <3> QED BY <3>1, <3>2
  <2> QED BY <2>2, <2>3, <1>2, <1>3, <1>4, Sizes
<1>6. granuleOf(p) = g
  BY DEF granuleOf, slotOf
<1> HIDE DEF g, k
<1>7. g \in 0 .. k - 1
  BY <1>3, <1>4, <1>5
<1> QED BY <1>1, <1>6, <1>7 DEF SlotIds, Granules, g, k, s

LEMMA PlaceOf ==
  ASSUME NEW l \in Nat, NEW s \in SlotIds
  PROVE  Cap * l + s \in Nat /\ slotOf(Cap * l + s) = s /\ lapOf(Cap * l + s) = l
<1>1. Cap * l \in Nat /\ s \in Nat
  BY Sizes DEF SlotIds
<1> QED BY <1>1, Sizes, DividesOne DEF SlotIds, slotOf, lapOf

LEMMA SameSlot ==
  ASSUME NEW p \in Nat, NEW q \in Nat, slotOf(p) = slotOf(q)
  PROVE  /\ granuleOf(p) = granuleOf(q)
         /\ lapOf(p) = lapOf(q) => p = q
         /\ p < q => p + Cap <= q
<1>1. granuleOf(p) = granuleOf(q) /\ (lapOf(p) = lapOf(q) => p = q)
  BY PlaceType
<1>2. ASSUME p < q PROVE p + Cap <= q
  <2> DEFINE a == lapOf(p)
             b == lapOf(q)
             s == slotOf(p)
  <2>1. a \in Nat /\ b \in Nat /\ s \in Nat /\ p = Cap * a + s /\ q = Cap * b + s
    BY PlaceType DEF SlotIds
  <2> HIDE DEF a, b, s
  <2>2. Cap * a \in Int /\ Cap * b \in Int
    BY <2>1, Sizes
  <2>3. a < b
    <3>1. CASE a = b
      BY <3>1, <2>1, <1>2, <2>2
    <3>2. CASE b < a
      <4>1. Cap * b + Cap <= Cap * a
        BY <3>2, <2>1, Sizes, Grows
      <4> QED BY <4>1, <2>1, <2>2, <1>2, Sizes
    <3> QED BY <3>1, <3>2, <2>1
  <2>4. Cap * a + Cap <= Cap * b
    BY <2>1, <2>3, Sizes, Grows
  <2> QED BY <2>1, <2>2, <2>4, Sizes
<1> QED BY <1>1, <1>2

\* The next lap of the slot of a position.
LEMMA NextPlace ==
  ASSUME NEW p \in Nat
  PROVE  /\ p + Cap \in Nat
         /\ slotOf(p + Cap) = slotOf(p)
         /\ lapOf(p + Cap) = lapOf(p) + 1
<1> DEFINE a == lapOf(p)
           s == slotOf(p)
<1>1. a \in Nat /\ s \in SlotIds /\ p = Cap * a + s
  BY PlaceType
<1> HIDE DEF a, s
<1>2. Cap * (a + 1) + s = p + Cap
  BY <1>1, Sizes DEF SlotIds
<1>3. slotOf(Cap * (a + 1) + s) = s /\ lapOf(Cap * (a + 1) + s) = a + 1
  BY <1>1, PlaceOf
<1> QED BY <1>2, <1>3, Sizes DEF a, s

\* The positions of one lap of a granule.
LEMMA LapOfGranule ==
  ASSUME NEW g \in Granules, NEW l \in Nat
  PROVE  /\ IsFiniteSet({p \in Nat : granuleOf(p) = g /\ lapOf(p) = l})
         /\ Cardinality({p \in Nat : granuleOf(p) = g /\ lapOf(p) = l}) = GranuleSlots
<1> DEFINE k == Cap \div GranuleSlots
           a == Cap * l + GranuleSlots * g
           P == {p \in Nat : granuleOf(p) = g /\ lapOf(p) = l}
<1>1. /\ g \in Nat /\ g < k /\ k \in Nat /\ Cap = GranuleSlots * k
      /\ Cap \in Nat \ {0} /\ GranuleSlots \in Nat \ {0}
      /\ GranuleSlots * g \in Nat /\ Cap * l \in Nat
      /\ a \in Nat
  BY Sizes DEF Granules
<1>2. GranuleSlots * g + GranuleSlots <= Cap
  <2>1. GranuleSlots * g + GranuleSlots <= GranuleSlots * k
    <3> HIDE DEF k
    <3> QED BY <1>1, Grows
  <2> QED BY <2>1, <1>1
<1>3. ASSUME NEW p \in P PROVE p \in a .. a + GranuleSlots - 1
  <2> DEFINE s == slotOf(p)
  <2>1. p \in Nat /\ granuleOf(p) = g /\ lapOf(p) = l
    OBVIOUS
  <2>3. s \in SlotIds /\ p = Cap * l + s /\ g = s \div GranuleSlots
    BY <2>1, PlaceType
  <2>4. s \in Nat
    BY <2>1, PlaceType, <1>1 DEF SlotIds
  <2> HIDE DEF s
  <2>2. s % GranuleSlots \in 0 .. GranuleSlots - 1 /\ s = GranuleSlots * g + (s % GranuleSlots)
    BY <2>3, <2>4, <1>1, Divides
  <2> QED BY <2>2, <2>3, <2>4, <1>1
<1>4. ASSUME NEW p \in a .. a + GranuleSlots - 1 PROVE p \in P
  <2> DEFINE r == p - a
             s == GranuleSlots * g + r
  <2>1. r \in 0 .. GranuleSlots - 1 /\ p \in Nat /\ s \in SlotIds /\ p = Cap * l + s
    BY <1>1, <1>2 DEF SlotIds
  <2>2. s \div GranuleSlots = g
    <3> HIDE DEF r
    <3> QED BY <2>1, <1>1, DividesOne
  <2> HIDE DEF r, s
  <2>3. slotOf(p) = s /\ lapOf(p) = l
    BY <2>1, PlaceOf
  <2>4. granuleOf(p) = g
    BY <2>1, <2>2, <2>3, PlaceType
  <2> QED BY <2>1, <2>3, <2>4
<1>5. P = a .. a + GranuleSlots - 1
  BY <1>3, <1>4
<1>6. a \in Int /\ a + GranuleSlots - 1 \in Int /\ a <= a + GranuleSlots - 1
      /\ (a + GranuleSlots - 1) - a + 1 = GranuleSlots
  BY <1>1
<1> HIDE DEF a, P
<1>7. /\ IsFiniteSet(a .. a + GranuleSlots - 1)
      /\ Cardinality(a .. a + GranuleSlots - 1) = GranuleSlots
  BY <1>6, FS_Interval
<1> QED BY <1>5, <1>7 DEF P
-----------------------------------------------------------------------------
(* Positions in the laps of their granules. *)

LEMMA OnePerSlot ==
  ASSUME NEW p \in Nat, NEW q \in Nat, Serving(p), Serving(q), slotOf(p) = slotOf(q)
  PROVE  p = q
BY SameSlot DEF Serving

LEMMA SlotIsServed ==
  ASSUME TypeOK, NEW s \in SlotIds
  PROVE  \E p \in Nat : Serving(p) /\ slotOf(p) = s
<1> DEFINE g == s \div GranuleSlots
           q == Cap * 0 + s
           l == laps[g]
           p == Cap * l + s
<1>1. q \in Nat /\ slotOf(q) = s
  BY PlaceOf
<1>2. g \in Granules
  BY <1>1, PlaceType
<1>3. l \in Nat
  BY <1>2 DEF TypeOK
<1>4. p \in Nat /\ slotOf(p) = s /\ lapOf(p) = l
  BY <1>3, PlaceOf
<1>5. granuleOf(p) = g
  BY <1>4, PlaceType
<1> QED BY <1>4, <1>5 DEF Serving

LEMMA RoundSize ==
  ASSUME TypeOK, NEW g \in Granules
  PROVE  IsFiniteSet(Round(g)) /\ Cardinality(Round(g)) = GranuleSlots
<1> DEFINE l == laps[g]
<1>1. l \in Nat
  BY DEF TypeOK
<1>2. Round(g) = {p \in Nat : granuleOf(p) = g /\ lapOf(p) = l}
  BY DEF Round, Serving
<1> HIDE DEF l
<1> QED BY <1>1, <1>2, LapOfGranule

LEMMA DoneSize ==
  ASSUME TypeOK, NEW g \in Granules
  PROVE  /\ IsFiniteSet(DoneIn(g))
         /\ Cardinality(DoneIn(g)) \in 0 .. GranuleSlots
         /\ Cardinality(DoneIn(g)) = GranuleSlots => DoneIn(g) = Round(g)
<1>1. DoneIn(g) \in SUBSET Round(g)
  BY DEF DoneIn
<1>2. IsFiniteSet(Round(g)) /\ Cardinality(Round(g)) = GranuleSlots
  BY RoundSize
<1>3. /\ IsFiniteSet(DoneIn(g))
      /\ Cardinality(DoneIn(g)) <= GranuleSlots
      /\ Cardinality(DoneIn(g)) = GranuleSlots => DoneIn(g) = Round(g)
  BY <1>1, <1>2, FS_Subset
<1>4. Cardinality(DoneIn(g)) \in Nat
  BY <1>3, FS_CardinalityType
<1> QED BY <1>3, <1>4, Sizes

-----------------------------------------------------------------------------
(* What an action does at the positions. *)

LEMMA Apart == \A t \in Producers, u \in Consumers : t # u
BY QueueAssumption

\* Nothing begins and nothing ends at a position.
SameWork ==
  \A p \in Nat :
    /\ FillsAt(p)' <=> FillsAt(p)
    /\ StoresAt(p)' <=> StoresAt(p)
    /\ TakesAt(p)' <=> TakesAt(p)
    /\ MovesAt(p)' <=> MovesAt(p)
    /\ ClearsAt(p)' <=> ClearsAt(p)

Quiet(t) ==
  \/ AwaitLap(t) /\ t \in Producers
  \/ t \in Consumers /\ (LoadHead(t) \/ CheckLap(t) \/ CheckState(t) \/ CasFailed(t)
                         \/ ResetPops(t) \/ Discard(t) \/ NextLap(t))

LEMMA QuietWork ==
  ASSUME TypeOK, NEW t, Quiet(t)
  PROVE  SameWork
<1>1. DOMAIN pc = Threads /\ pos \in [Threads -> Nat]
  BY DEF TypeOK
<1>2. t \in Threads
  BY DEF Quiet, Threads
<1>3. pc' = [pc EXCEPT ![t] = pc'[t]]
  BY <1>1, <1>2 DEF Quiet, AwaitLap, LoadHead, CheckLap, CheckState, CasFailed, ResetPops,
     Discard, NextLap, Goto
<1>4. pos' = pos \/ pos' = [pos EXCEPT ![t] = head]
  BY DEF Quiet, AwaitLap, LoadHead, CheckLap, CheckState, CasFailed, ResetPops, Discard, NextLap
<1>5. CASE t \in Producers
  <2>1. pc[t] = "wait" /\ pc'[t] = "construct" /\ pos' = pos
    BY <1>1, <1>2, <1>5, Apart DEF Quiet, AwaitLap, Goto
  <2> QED BY <1>1, <1>2, <1>3, <1>5, <2>1, Apart
      DEF SameWork, FillsAt, StoresAt, TakesAt, MovesAt, ClearsAt, Filling, Taking, Threads
<1>6. CASE t \in Consumers
  <2>1. pc[t] \notin Taking /\ pc'[t] \notin Taking
    BY <1>1, <1>2, <1>6, Apart DEF Quiet, AwaitLap, LoadHead, CheckLap, CheckState, CasFailed,
       ResetPops, Discard, NextLap, Goto, Taking
  <2> QED BY <1>1, <1>2, <1>3, <1>4, <1>6, <2>1, Apart
      DEF SameWork, FillsAt, StoresAt, TakesAt, MovesAt, ClearsAt, Filling, Taking, Threads
<1> QED BY <1>5, <1>6 DEF Quiet

LEMMA ClaimWork ==
  ASSUME TypeOK, NEW t \in Producers, Claim(t)
  PROVE  \A p \in Nat :
           /\ FillsAt(p)' <=> FillsAt(p) \/ p = tail
           /\ StoresAt(p)' <=> StoresAt(p) \/ p = tail
           /\ TakesAt(p)' <=> TakesAt(p)
           /\ MovesAt(p)' <=> MovesAt(p)
           /\ ClearsAt(p)' <=> ClearsAt(p)
BY Apart DEF TypeOK, Claim, Goto, FillsAt, StoresAt, TakesAt, MovesAt, ClearsAt, Filling, Taking, Threads

LEMMA ConstructWork ==
  ASSUME TypeOK, PositionsLie, NEW t \in Producers, Construct(t)
  PROVE  \A p \in Nat :
           /\ FillsAt(p)' <=> FillsAt(p)
           /\ StoresAt(p)' <=> StoresAt(p) /\ p # pos[t]
           /\ TakesAt(p)' <=> TakesAt(p)
           /\ MovesAt(p)' <=> MovesAt(p)
           /\ ClearsAt(p)' <=> ClearsAt(p)
BY Apart DEF TypeOK, PositionsLie, Construct, Goto, FillsAt, StoresAt, TakesAt, MovesAt, ClearsAt,
   Filling, Taking, Threads

LEMMA PublishWork ==
  ASSUME TypeOK, PositionsLie, NEW t \in Producers, Publish(t)
  PROVE  \A p \in Nat :
           /\ FillsAt(p)' <=> FillsAt(p) /\ p # pos[t]
           /\ StoresAt(p)' <=> StoresAt(p)
           /\ TakesAt(p)' <=> TakesAt(p)
           /\ MovesAt(p)' <=> MovesAt(p)
           /\ ClearsAt(p)' <=> ClearsAt(p)
BY Apart DEF TypeOK, PositionsLie, Publish, Goto, FillsAt, StoresAt, TakesAt, MovesAt, ClearsAt,
   Filling, Taking, Threads

LEMMA CasHeadWork ==
  ASSUME TypeOK, PositionsLie, NEW t \in Consumers, CasHead(t)
  PROVE  \A p \in Nat :
           /\ FillsAt(p)' <=> FillsAt(p)
           /\ StoresAt(p)' <=> StoresAt(p)
           /\ TakesAt(p)' <=> TakesAt(p) \/ p = head
           /\ MovesAt(p)' <=> MovesAt(p) \/ p = head
           /\ ClearsAt(p)' <=> ClearsAt(p) \/ p = head
BY Apart DEF TypeOK, PositionsLie, CasHead, Goto, FillsAt, StoresAt, TakesAt, MovesAt, ClearsAt,
   Filling, Taking, Threads

LEMMA MoveOutWork ==
  ASSUME TypeOK, PositionsLie, NEW t \in Consumers, MoveOut(t)
  PROVE  \A p \in Nat :
           /\ FillsAt(p)' <=> FillsAt(p)
           /\ StoresAt(p)' <=> StoresAt(p)
           /\ TakesAt(p)' <=> TakesAt(p)
           /\ MovesAt(p)' <=> MovesAt(p) /\ p # pos[t]
           /\ ClearsAt(p)' <=> ClearsAt(p)
BY Apart DEF TypeOK, PositionsLie, MoveOut, Goto, FillsAt, StoresAt, TakesAt, MovesAt, ClearsAt,
   Filling, Taking, Threads

LEMMA ClearStateWork ==
  ASSUME TypeOK, PositionsLie, NEW t \in Consumers, ClearState(t)
  PROVE  \A p \in Nat :
           /\ FillsAt(p)' <=> FillsAt(p)
           /\ StoresAt(p)' <=> StoresAt(p)
           /\ TakesAt(p)' <=> TakesAt(p) /\ (Reclaim \/ p # pos[t])
           /\ MovesAt(p)' <=> MovesAt(p)
           /\ ClearsAt(p)' <=> ClearsAt(p) /\ p # pos[t]
BY Apart DEF TypeOK, PositionsLie, ClearState, Goto, FillsAt, StoresAt, TakesAt, MovesAt, ClearsAt,
   Filling, Taking, Threads

LEMMA CountPopWork ==
  ASSUME TypeOK, PositionsLie, NEW t \in Consumers, CountPop(t)
  PROVE  \A p \in Nat :
           /\ FillsAt(p)' <=> FillsAt(p)
           /\ StoresAt(p)' <=> StoresAt(p)
           /\ TakesAt(p)' <=> TakesAt(p) /\ p # pos[t]
           /\ MovesAt(p)' <=> MovesAt(p)
           /\ ClearsAt(p)' <=> ClearsAt(p)
BY Apart DEF TypeOK, PositionsLie, CountPop, Goto, FillsAt, StoresAt, TakesAt, MovesAt, ClearsAt,
   Filling, Taking, Threads
-----------------------------------------------------------------------------
(* Every step keeps the invariant, one part at a time. *)

LEMMA TypeStep ==
  ASSUME TypeOK, PositionsLie, Next
  PROVE  TypeOK'
<1> USE DEF TypeOK, Goto, Threads
<1>1. ASSUME NEW t \in Producers, Claim(t) PROVE TypeOK'
  BY <1>1 DEF Claim
<1>2. ASSUME NEW t \in Producers, AwaitLap(t) PROVE TypeOK'
  BY <1>2 DEF AwaitLap
<1>3. ASSUME NEW t \in Producers, Construct(t) PROVE TypeOK'
  <2>1. pos[t] \in Items
    BY <1>3, QueueAssumption DEF Construct, PositionsLie, Filling, Items
  <2>2. storage' \in [SlotIds -> Items \cup {None}]
    BY <1>3, <2>1 DEF Construct
  <2> QED BY <1>3, <2>2 DEF Construct
<1>4. ASSUME NEW t \in Producers, Publish(t) PROVE TypeOK'
  BY <1>4 DEF Publish
<1>5. ASSUME NEW t \in Consumers, LoadHead(t) PROVE TypeOK'
  BY <1>5 DEF LoadHead
<1>6. ASSUME NEW t \in Consumers, CheckLap(t) PROVE TypeOK'
  BY <1>6 DEF CheckLap
<1>7. ASSUME NEW t \in Consumers, CheckState(t) PROVE TypeOK'
  BY <1>7 DEF CheckState
<1>8. ASSUME NEW t \in Consumers, CasHead(t) PROVE TypeOK'
  BY <1>8 DEF CasHead
<1>9. ASSUME NEW t \in Consumers, CasFailed(t) PROVE TypeOK'
  BY <1>9 DEF CasFailed
<1>10. ASSUME NEW t \in Consumers, MoveOut(t) PROVE TypeOK'
  <2>1. slotOf(pos[t]) \in SlotIds
    BY PlaceType
  <2> QED BY <1>10, <2>1 DEF MoveOut
<1>11. ASSUME NEW t \in Consumers, ClearState(t) PROVE TypeOK'
  BY <1>11 DEF ClearState
<1>12. ASSUME NEW t \in Consumers, CountPop(t) PROVE TypeOK'
  <2>1. granuleOf(pos[t]) \in Granules
    BY PlaceType
  <2> QED BY <1>12, <2>1 DEF CountPop
<1>13. ASSUME NEW t \in Consumers, ResetPops(t) PROVE TypeOK'
  BY <1>13 DEF ResetPops
<1>14. ASSUME NEW t \in Consumers, Discard(t) PROVE TypeOK'
  BY <1>14 DEF Discard
<1>15. ASSUME NEW t \in Consumers, NextLap(t) PROVE TypeOK'
  <2>1. lapOf(pos[t]) + 1 \in Nat
    BY PlaceType
  <2> QED BY <1>15, <2>1 DEF NextLap
<1>16. CASE Destroy
  BY <1>16 DEF Destroy
<1> QED BY <1>1, <1>2, <1>3, <1>4, <1>5, <1>6, <1>7, <1>8, <1>9, <1>10, <1>11, <1>12, <1>13,
           <1>14, <1>15, <1>16 DEF Next, Push, TryPop

\* Which actions there are, the quiet ones taken together.
LEMMA Steps ==
  ASSUME Next
  PROVE  \/ \E t \in Threads : Quiet(t)
         \/ \E t \in Producers : Claim(t) \/ Construct(t) \/ Publish(t)
         \/ \E t \in Consumers : CasHead(t) \/ MoveOut(t) \/ ClearState(t) \/ CountPop(t)
         \/ Destroy
BY DEF Next, Push, TryPop, Quiet, Threads

LEMMA KindsStep ==
  ASSUME TypeOK, Kinds, Next
  PROVE  Kinds'
<1> USE DEF TypeOK, Kinds, Threads
<1>1. ASSUME NEW t \in Producers, Push(t) PROVE Kinds'
  BY <1>1, Apart DEF Push, Claim, AwaitLap, Construct, Publish, Goto, Filling
<1>2. ASSUME NEW t \in Consumers, TryPop(t) PROVE Kinds'
  <2>1. pc' = [pc EXCEPT ![t] = pc'[t]]
    BY <1>2 DEF TryPop, LoadHead, CheckLap, CheckState, CasHead, CasFailed, MoveOut, ClearState,
       CountPop, ResetPops, Discard, NextLap, Goto
  <2>2. pc'[t] \in {"idle"} \cup Looking \cup Taking \cup Ending
    BY <1>2 DEF TryPop, LoadHead, CheckLap, CheckState, CasHead, CasFailed, MoveOut, ClearState,
       CountPop, ResetPops, Discard, NextLap, Goto, Looking, Taking, Ending
  <2>3. ~Reclaim => pc'[t] \notin {"count", "reset", "discard"}
    BY <1>2 DEF TryPop, LoadHead, CheckLap, CheckState, CasHead, CasFailed, MoveOut, ClearState,
       CountPop, ResetPops, Discard, NextLap, Goto
  <2> QED BY <2>1, <2>2, <2>3, Apart
<1>3. CASE Destroy
  BY <1>3 DEF Destroy
<1> QED BY <1>1, <1>2, <1>3 DEF Next

LEMMA PositionsStep ==
  ASSUME TypeOK, Kinds, PositionsLie, LooksHold, StatesTell, Next
  PROVE  PositionsLie'
<1> USE DEF TypeOK, Threads
<1>1. ASSUME NEW t \in Producers, Claim(t) PROVE PositionsLie'
  BY <1>1, Apart, QueueAssumption DEF Claim, Goto, PositionsLie, Filling, Looking, Taking, Ending
<1>2. ASSUME NEW t \in Producers, AwaitLap(t) \/ Construct(t) \/ Publish(t) PROVE PositionsLie'
  BY <1>2, Apart DEF AwaitLap, Construct, Publish, Goto, PositionsLie, Filling, Looking, Taking, Ending
<1>3. ASSUME NEW t \in Consumers, LoadHead(t) \/ CasFailed(t) PROVE PositionsLie'
  BY <1>3, Apart DEF LoadHead, CasFailed, Goto, PositionsLie, Filling, Looking, Taking, Ending
<1>4. ASSUME NEW t \in Consumers, CheckLap(t) \/ CheckState(t) PROVE PositionsLie'
  BY <1>4, Apart DEF CheckLap, CheckState, Goto, PositionsLie, Filling, Looking, Taking, Ending
<1>5. ASSUME NEW t \in Consumers, CasHead(t) PROVE PositionsLie'
  <2>1. Serving(head) /\ state[slotOf(head)] = 1
    BY <1>5 DEF CasHead, Goto, LooksHold
  <2>2. head < tail /\ ~FillsAt(head)
    BY <2>1 DEF StatesTell
  <2>3. \A u \in Producers : pc[u] \in Filling => head + 1 <= pos[u]
    BY <2>2 DEF FillsAt, PositionsLie
  <2> QED BY <1>5, <2>2, <2>3, Apart
      DEF CasHead, Goto, PositionsLie, Filling, Looking, Taking, Ending
<1>6. ASSUME NEW t \in Consumers, MoveOut(t) \/ ClearState(t) PROVE PositionsLie'
  BY <1>6, Apart DEF MoveOut, ClearState, Goto, PositionsLie, Filling, Looking, Taking, Ending
<1>7. ASSUME NEW t \in Consumers, CountPop(t) PROVE PositionsLie'
  BY <1>7, Apart DEF CountPop, Goto, PositionsLie, Filling, Looking, Taking, Ending
<1>8. ASSUME NEW t \in Consumers, ResetPops(t) \/ Discard(t) \/ NextLap(t) PROVE PositionsLie'
  BY <1>8, Apart DEF ResetPops, Discard, NextLap, Goto, PositionsLie, Filling, Looking, Taking, Ending
<1>9. CASE Destroy
  BY <1>9 DEF Destroy, PositionsLie
<1> QED BY <1>1, <1>2, <1>3, <1>4, <1>5, <1>6, <1>7, <1>8, <1>9 DEF Next, Push, TryPop
\* The granule of an ended lap goes on to the next one, Cap positions later.
LEMMA NextLapServes ==
  ASSUME TypeOK, LapsServe, NEW t \in Consumers, NextLap(t)
  PROVE  \A p \in Nat :
           /\ granuleOf(p) # granuleOf(pos[t]) => (Serving(p)' <=> Serving(p))
           /\ granuleOf(p) = granuleOf(pos[t]) /\ Serving(p)' =>
                /\ ~Serving(p)
                /\ \E q \in Nat : /\ p = q + Cap /\ Serving(q)
                                  /\ slotOf(q) = slotOf(p) /\ granuleOf(q) = granuleOf(p)
<1> DEFINE g == granuleOf(pos[t])
<1>1. pos[t] \in Nat /\ g \in Granules /\ laps \in [Granules -> Nat]
  BY PlaceType DEF TypeOK, Threads
<1>2. laps[g] = lapOf(pos[t])
  BY DEF LapsServe, NextLap, Goto, Serving, Ending
<1>3. laps' = [laps EXCEPT ![g] = laps[g] + 1] /\ laps[g] \in Nat
  BY <1>1, <1>2 DEF NextLap
<1> HIDE DEF g
<1>4. ASSUME NEW p \in Nat, granuleOf(p) # g PROVE Serving(p)' <=> Serving(p)
  BY <1>1, <1>3, <1>4, PlaceType DEF Serving
<1>5. ASSUME NEW p \in Nat, granuleOf(p) = g, Serving(p)'
      PROVE  /\ ~Serving(p)
             /\ \E q \in Nat : /\ p = q + Cap /\ Serving(q)
                               /\ slotOf(q) = slotOf(p) /\ granuleOf(q) = granuleOf(p)
  <2> DEFINE q == Cap * laps[g] + slotOf(p)
  <2>1. lapOf(p) = laps[g] + 1
    BY <1>1, <1>3, <1>5 DEF Serving
  <2>2. ~Serving(p)
    BY <1>3, <1>5, <2>1 DEF Serving
  <2>3. slotOf(p) \in SlotIds
    BY PlaceType
  <2>4. q \in Nat /\ slotOf(q) = slotOf(p) /\ lapOf(q) = laps[g]
    BY <1>3, <2>3, PlaceOf
  <2> HIDE DEF q
  <2>5. granuleOf(q) = granuleOf(p)
    BY <2>4, SameSlot
  <2>6. Serving(q)
    BY <2>4, <2>5, <1>5 DEF Serving
  <2>7. q + Cap \in Nat /\ slotOf(q + Cap) = slotOf(p) /\ lapOf(q + Cap) = lapOf(p)
    BY <2>1, <2>4, NextPlace
  <2>8. p = q + Cap
    BY <2>7, SameSlot
  <2> QED BY <2>2, <2>4, <2>5, <2>6, <2>8
<1> QED BY <1>4, <1>5 DEF g

\* What the quiet actions and the others leave as it is.
LEMMA QuietFrame ==
  ASSUME NEW t, Quiet(t)
  PROVE  /\ head' = head
         /\ tail' = tail
         /\ closed' = closed
         /\ laps' # laps => NextLap(t) /\ t \in Consumers
         /\ <<state, storage>>' # <<state, storage>> => Discard(t) /\ t \in Consumers
BY DEF Quiet, AwaitLap, LoadHead, CheckLap, CheckState, CasFailed, ResetPops, Discard, NextLap

\* The threads that work in a slot keep the lap they are in.
LEMMA WorkersServe ==
  ASSUME TypeOK, Kinds, PositionsLie, LapsServe, LooksHold, Next, laps' = laps
  PROVE  /\ \A t \in Producers : pc'[t] \in {"construct", "publish"} => Serving(pos[t])' /\ pos'[t] = pos[t]
         /\ \A t \in Consumers : pc'[t] \in Taking \cup Ending => Serving(pos[t])' /\ pos'[t] = pos[t]
<1> USE DEF Threads, TypeOK, LapsServe
<1>1. ASSUME NEW t \in Producers, Claim(t) \/ Construct(t) \/ Publish(t)
      PROVE  /\ \A u \in Producers : pc'[u] \in {"construct", "publish"} =>
                  pc[u] \in {"construct", "publish"} /\ pos'[u] = pos[u]
             /\ \A u \in Consumers : pc'[u] = pc[u] /\ pos'[u] = pos[u]
  BY <1>1, Apart DEF Claim, Construct, Publish, Goto
<1>2. ASSUME NEW t \in Producers, AwaitLap(t)
      PROVE  /\ \A u \in Producers : pc'[u] \in {"construct", "publish"} => Serving(pos[u]) /\ pos'[u] = pos[u]
             /\ \A u \in Consumers : pc'[u] = pc[u] /\ pos'[u] = pos[u]
  BY <1>2, Apart DEF AwaitLap, Goto, Serving
<1>3. ASSUME NEW t \in Consumers, TryPop(t)
      PROVE  /\ \A u \in Producers : pc'[u] = pc[u] /\ pos'[u] = pos[u]
             /\ \A u \in Consumers : pc'[u] \in Taking \cup Ending => Serving(pos[u]) /\ pos'[u] = pos[u]
  <2>1. \A u \in Producers : pc'[u] = pc[u] /\ pos'[u] = pos[u]
    BY <1>3, Apart DEF TryPop, LoadHead, CheckLap, CheckState, CasHead, CasFailed, MoveOut, ClearState,
       CountPop, ResetPops, Discard, NextLap, Goto
  <2>2. \A u \in Consumers : u # t => pc'[u] = pc[u] /\ pos'[u] = pos[u]
    BY <1>3 DEF TryPop, LoadHead, CheckLap, CheckState, CasHead, CasFailed, MoveOut, ClearState,
       CountPop, ResetPops, Discard, NextLap, Goto
  <2>3. CASE CasHead(t)
    <3>1. Serving(pos[t]) /\ pos'[t] = pos[t]
      BY <2>3 DEF CasHead, Goto, LooksHold
    <3> QED BY <2>1, <2>2, <3>1
  <2>4. CASE ~CasHead(t)
    <3>1. pc'[t] \in Taking \cup Ending => pc[t] \in Taking \cup Ending /\ pos'[t] = pos[t]
      BY <1>3, <2>4 DEF TryPop, LoadHead, CheckLap, CheckState, CasFailed, MoveOut, ClearState,
         CountPop, ResetPops, Discard, NextLap, Goto, Taking, Ending
    <3> QED BY <2>1, <2>2, <3>1
  <2> QED BY <2>3, <2>4
<1>4. ASSUME Destroy
      PROVE pc' = pc /\ pos' = pos
  BY <1>4 DEF Destroy
<1>5. \A p \in Nat : Serving(p)' <=> Serving(p)
  BY DEF Serving
<1>6. \A t \in Threads : pos[t] \in Nat
  OBVIOUS
<1>7. /\ \A t \in Producers : pc'[t] \in {"construct", "publish"} => Serving(pos[t]) /\ pos'[t] = pos[t]
      /\ \A t \in Consumers : pc'[t] \in Taking \cup Ending => Serving(pos[t]) /\ pos'[t] = pos[t]
  BY <1>1, <1>2, <1>3, <1>4 DEF Next, Push
<1> QED BY <1>5, <1>6, <1>7 DEF Serving
LEMMA LapsStep ==
  ASSUME TypeOK, Kinds, PositionsLie, LapsServe, LooksHold, StatesTell, EndsAreDone, Next
  PROVE  LapsServe'
<1> USE DEF Threads
<1>1. ASSUME NEW t \in Consumers, NextLap(t) PROVE LapsServe'
  <2> DEFINE g == granuleOf(pos[t])
  <2>1. SameWork /\ head' = head /\ tail' = tail /\ pos' = pos
    BY <1>1, QuietWork DEF Quiet, NextLap
  <2>2. pc[t] \in Ending /\ pos[t] \in Nat /\ \A u \in Threads : u # t => pc'[u] = pc[u]
    BY <1>1 DEF NextLap, Goto, Ending, TypeOK
  <2>3. pc'[t] = "idle"
    BY <1>1 DEF NextLap, Goto, TypeOK
  <2>4. \A p \in Nat : granuleOf(p) = g /\ Serving(p) => p < head /\ ~TakesAt(p)
    BY <2>2 DEF EndsAreDone, Done
  <2>5. \A p \in Nat : granuleOf(p) # g => (Serving(p)' <=> Serving(p))
    BY <1>1, NextLapServes
  <2>6. \A u \in Producers : pc'[u] \in {"construct", "publish"} => Serving(pos[u])'
    <3>1. TAKE u \in Producers
    <3>2. HAVE pc'[u] \in {"construct", "publish"}
    <3>3. Serving(pos[u]) /\ head <= pos[u] /\ pos[u] \in Nat /\ pos'[u] = pos[u]
      BY <2>1, <2>2, <2>3, <3>2 DEF LapsServe, PositionsLie, Filling, TypeOK
    <3>4. granuleOf(pos[u]) # g
      BY <2>4, <3>3 DEF TypeOK
    <3> QED BY <2>1, <2>5, <3>3, <3>4 DEF Serving
  <2>7. \A u \in Consumers : pc'[u] \in Taking \cup Ending => Serving(pos[u])'
    <3>1. TAKE u \in Consumers
    <3>2. HAVE pc'[u] \in Taking \cup Ending
    <3>3. u # t /\ pc[u] \in Taking \cup Ending
      BY <2>2, <2>3, <3>2 DEF Taking, Ending
    <3>4. Serving(pos[u]) /\ pos[u] \in Nat
      BY <3>3 DEF LapsServe, TypeOK
    <3>5. CASE pc[u] \in Taking
      <4>1. TakesAt(pos[u])
        BY <3>5 DEF TakesAt
      <4> QED BY <2>1, <2>4, <2>5, <3>4, <4>1 DEF Serving
    <3>6. CASE pc[u] \in Ending
      <4>1. granuleOf(pos[u]) # g
        BY <2>2, <3>3, <3>6 DEF EndsAreDone
      <4> QED BY <2>1, <2>5, <3>4, <4>1 DEF Serving
    <3> QED BY <3>3, <3>5, <3>6
  <2>8. \A p \in Nat : head <= p /\ p < tail /\ ~FillsAt(p) => Serving(p)'
    <3>1. TAKE p \in Nat
    <3>2. HAVE head <= p /\ p < tail /\ ~FillsAt(p)
    <3>3. Serving(p)
      BY <3>2 DEF LapsServe
    <3>4. granuleOf(p) # g
      BY <2>4, <3>2, <3>3 DEF TypeOK
    <3> QED BY <2>5, <3>3, <3>4
  <2>9. \A p \in Nat : Serving(p)' => head <= p + Cap
    <3>1. TAKE p \in Nat
    <3>2. HAVE Serving(p)'
    <3>3. CASE granuleOf(p) = g
      <4>1. PICK q \in Nat : p = q + Cap /\ Serving(q)
        BY <1>1, <3>2, <3>3, NextLapServes
      <4>2. head <= q + Cap
        BY <4>1 DEF LapsServe
      <4> QED BY <4>1, <4>2, Sizes DEF TypeOK
    <3>4. CASE granuleOf(p) # g
      BY <2>5, <3>2, <3>4 DEF LapsServe
    <3> QED BY <3>3, <3>4
  <2> QED BY <2>1, <2>6, <2>7, <2>8, <2>9 DEF LapsServe, SameWork
<1>2. ASSUME laps' = laps PROVE LapsServe'
  <2>1. \A p \in Nat : Serving(p)' <=> Serving(p)
    BY <1>2 DEF Serving
  <2>2. \A p \in Nat : head' <= p /\ p < tail' /\ ~FillsAt(p)' => Serving(p)
    <3>1. ASSUME NEW t \in Threads, Quiet(t)
          PROVE \A p \in Nat : head' <= p /\ p < tail' /\ ~FillsAt(p)' => Serving(p)
      BY <3>1, QuietFrame, QuietWork DEF LapsServe, SameWork
    <3>2. ASSUME NEW t \in Producers, Claim(t)
          PROVE \A p \in Nat : head' <= p /\ p < tail' /\ ~FillsAt(p)' => Serving(p)
      <4>1. head' = head /\ tail' = tail + 1 /\ tail \in Nat
        BY <3>2 DEF Claim, TypeOK
      <4>2. \A p \in Nat : FillsAt(p)' <=> FillsAt(p) \/ p = tail
        BY <3>2, ClaimWork
      <4>3. \A p \in Nat : head <= p /\ p < tail /\ ~FillsAt(p) => Serving(p)
        BY DEF LapsServe
      <4> QED BY <4>1, <4>2, <4>3
    <3>3. ASSUME NEW t \in Producers, Construct(t)
          PROVE \A p \in Nat : head' <= p /\ p < tail' /\ ~FillsAt(p)' => Serving(p)
      BY <3>3, ConstructWork DEF LapsServe, Construct
    <3>4. ASSUME NEW t \in Producers, Publish(t)
          PROVE \A p \in Nat : head' <= p /\ p < tail' /\ ~FillsAt(p)' => Serving(p)
      <4>1. Serving(pos[t])
        BY <3>4 DEF Publish, Goto, LapsServe
      <4> QED BY <3>4, <4>1, PublishWork DEF LapsServe, Publish
    <3>5. ASSUME NEW t \in Consumers, CasHead(t)
          PROVE \A p \in Nat : head' <= p /\ p < tail' /\ ~FillsAt(p)' => Serving(p)
      BY <3>5, CasHeadWork DEF LapsServe, CasHead, TypeOK
    <3>6. ASSUME NEW t \in Consumers, MoveOut(t)
          PROVE \A p \in Nat : head' <= p /\ p < tail' /\ ~FillsAt(p)' => Serving(p)
      BY <3>6, MoveOutWork DEF LapsServe, MoveOut
    <3>7. ASSUME NEW t \in Consumers, ClearState(t)
          PROVE \A p \in Nat : head' <= p /\ p < tail' /\ ~FillsAt(p)' => Serving(p)
      BY <3>7, ClearStateWork DEF LapsServe, ClearState
    <3>8. ASSUME NEW t \in Consumers, CountPop(t)
          PROVE \A p \in Nat : head' <= p /\ p < tail' /\ ~FillsAt(p)' => Serving(p)
      BY <3>8, CountPopWork DEF LapsServe, CountPop
    <3>9. ASSUME Destroy
          PROVE \A p \in Nat : head' <= p /\ p < tail' /\ ~FillsAt(p)' => Serving(p)
      <4>1. \A p \in Nat : FillsAt(p)' <=> FillsAt(p)
        BY <3>9 DEF Destroy, FillsAt
      <4> QED BY <3>9, <4>1 DEF LapsServe, Destroy
    <3> QED BY <3>1, <3>2, <3>3, <3>4, <3>5, <3>6, <3>7, <3>8, <3>9, Steps
  <2>3. \A p \in Nat : Serving(p) => head' <= p + Cap
    <3>1. ASSUME NEW t \in Consumers, CasHead(t)
          PROVE  \A p \in Nat : Serving(p) => head' <= p + Cap
      <4>1. head' = head + 1 /\ Serving(head) /\ head \in Nat
        BY <3>1 DEF CasHead, Goto, LooksHold, TypeOK
      <4>2. ASSUME NEW p \in Nat, Serving(p), head = p + Cap PROVE FALSE
        <5>1. slotOf(head) = slotOf(p)
          BY <4>2, NextPlace
        <5>2. head = p
          BY <4>1, <4>2, <5>1, OnePerSlot
        <5> QED BY <4>2, <5>2, Sizes
      <4> QED BY <4>1, <4>2, Sizes DEF LapsServe
    <3>2. CASE head' = head
      BY <3>2 DEF LapsServe
    <3> QED BY <3>1, <3>2, Steps, QuietFrame DEF Claim, Construct, Publish, MoveOut, ClearState,
            CountPop, Destroy
  <2>4. /\ \A t \in Producers : pc'[t] \in {"construct", "publish"} => Serving(pos[t])'
        /\ \A t \in Consumers : pc'[t] \in Taking \cup Ending => Serving(pos[t])'
    BY <1>2, WorkersServe
  <2> QED BY <2>1, <2>2, <2>3, <2>4 DEF LapsServe
<1>3. laps' # laps => \E t \in Consumers : NextLap(t)
  BY Steps, QuietFrame DEF Claim, Construct, Publish, CasHead, MoveOut, ClearState, CountPop, Destroy
<1> QED BY <1>1, <1>2, <1>3

LEMMA LooksStep ==
  ASSUME TypeOK, Kinds, PositionsLie, LapsServe, LooksHold, StatesTell, EndsAreDone, Next
  PROVE  LooksHold'
<1> USE DEF Threads
\* The head serves on, and its slot keeps its state.
<1>1. ASSUME NEW t \in Consumers, NextLap(t) PROVE Serving(head) => Serving(head)'
  <2>1. pc[t] \in Ending /\ pos[t] \in Nat /\ head \in Nat /\ head' = head
    BY <1>1 DEF NextLap, Goto, Ending, TypeOK
  <2>2. Serving(head) => granuleOf(head) # granuleOf(pos[t])
    BY <2>1 DEF EndsAreDone, Done
  <2>3. \A p \in Nat : granuleOf(p) # granuleOf(pos[t]) => (Serving(p)' <=> Serving(p))
    BY <1>1, NextLapServes
  <2> QED BY <2>1, <2>2, <2>3 DEF Serving
<1>2. ASSUME NEW t \in Consumers, ClearState(t)
      PROVE  Serving(head) => state'[slotOf(head)] = state[slotOf(head)]
  <2>1. Serving(pos[t]) /\ pos[t] < head /\ pos[t] \in Nat /\ head \in Nat
    BY <1>2 DEF ClearState, Goto, LapsServe, PositionsLie, Taking, TypeOK
  <2>2. Serving(head) => slotOf(pos[t]) # slotOf(head)
    BY <2>1, OnePerSlot
  <2> QED BY <1>2, <2>1, <2>2, PlaceType DEF ClearState, TypeOK
<1>3. ASSUME NEW t \in Consumers, Discard(t)
      PROVE  Serving(head) => state'[slotOf(head)] = state[slotOf(head)]
  <2>1. pc[t] \in Ending /\ pos[t] \in Nat /\ head \in Nat
    BY <1>3 DEF Discard, Goto, Ending, TypeOK
  <2>2. Serving(head) => granuleOf(head) # granuleOf(pos[t])
    BY <2>1 DEF EndsAreDone, Done
  <2>3. slotOf(head) \in SlotIds /\ granuleOf(head) = slotOf(head) \div GranuleSlots
    BY <2>1, PlaceType
  <2>4. Serving(head) => slotOf(head) \notin slotsOf(granuleOf(pos[t]))
    BY <2>2, <2>3 DEF slotsOf
  <2> QED BY <1>3, <2>3, <2>4 DEF Discard
<1>4. head' = head \/ \E t \in Consumers : CasHead(t)
  BY Steps, QuietFrame DEF Claim, Construct, Publish, CasHead, MoveOut, ClearState, CountPop, Destroy
<1>5. Serving(head) /\ head' = head => Serving(head)'
  <2>1. laps' = laps => (head' = head => (Serving(head)' <=> Serving(head)))
    BY DEF Serving
  <2>2. laps' # laps => \E t \in Consumers : NextLap(t)
    BY Steps, QuietFrame DEF Claim, Construct, Publish, CasHead, MoveOut, ClearState, CountPop, Destroy
  <2> QED BY <1>1, <2>1, <2>2
<1>6. Serving(head) /\ state[slotOf(head)] = 1 => state'[slotOf(head)] = 1
  <2>1. ASSUME NEW t \in Producers, Publish(t) PROVE state[slotOf(head)] = 1 => state'[slotOf(head)] = 1
    BY <2>1, PlaceType DEF Publish, TypeOK
  <2>2. state' = state \/ (\E t \in Producers : Publish(t)) \/ (\E t \in Consumers : Discard(t) \/ ClearState(t))
    BY Steps, QuietFrame DEF Claim, Construct, CasHead, MoveOut, CountPop, Destroy
  <2> QED BY <1>2, <1>3, <2>1, <2>2
\* A consumer that looks has seen it before or sees it now.
<1>7. ASSUME NEW t \in Consumers, CasHead(t) PROVE LooksHold'
  <2>1. \A u \in Consumers : pc'[u] \in Looking => pos'[u] <= head /\ pos'[u] \in Nat
    BY <1>7 DEF CasHead, Goto, PositionsLie, TypeOK, Looking
  <2>2. head' = head + 1 /\ head \in Nat
    BY <1>7 DEF CasHead, TypeOK
  <2> QED BY <2>1, <2>2 DEF LooksHold, Looking
<1>8. ASSUME head' = head, NEW u \in Consumers, pc'[u] \in {"checkState", "cas"}, pos'[u] = head
      PROVE  Serving(head) /\ (pc'[u] = "cas" => state[slotOf(head)] = 1)
  <2>1. ASSUME NEW t \in Producers, Push(t) PROVE pc'[u] = pc[u] /\ pos'[u] = pos[u]
    BY <2>1, Apart DEF Push, Claim, AwaitLap, Construct, Publish, Goto, TypeOK
  <2>2. ASSUME NEW t \in Consumers, TryPop(t), t # u PROVE pc'[u] = pc[u] /\ pos'[u] = pos[u]
    BY <2>2 DEF TryPop, LoadHead, CheckLap, CheckState, CasHead, CasFailed, MoveOut, ClearState,
       CountPop, ResetPops, Discard, NextLap, Goto, TypeOK
  <2>3. CASE pc'[u] = pc[u] /\ pos'[u] = pos[u]
    BY <1>8, <2>3 DEF LooksHold
  <2>4. ASSUME TryPop(u) PROVE CheckLap(u) \/ CheckState(u)
    BY <1>8, <2>4 DEF TryPop, LoadHead, CasHead, CasFailed, MoveOut, ClearState,
       CountPop, ResetPops, Discard, NextLap, Goto, TypeOK
  <2>5. CASE CheckLap(u)
    BY <1>8, <2>5 DEF CheckLap, Goto, TypeOK, Serving
  <2>6. CASE CheckState(u)
    <3>1. pc[u] = "checkState" /\ pos[u] = head /\ Serving(head)
      BY <1>8, <2>6 DEF CheckState, Goto, LooksHold
    <3>2. state[slotOf(head)] # 0 /\ slotOf(head) \in SlotIds
      BY <1>8, <2>6, <3>1, PlaceType DEF CheckState, Goto, TypeOK
    <3> QED BY <3>1, <3>2 DEF TypeOK
  <2>7. CASE Destroy
    BY <2>3, <2>7 DEF Destroy
  <2> QED BY <2>1, <2>2, <2>3, <2>4, <2>5, <2>6, <2>7 DEF Next
<1>9. CASE head' = head
  <2>1. \A u \in Consumers : pc'[u] \in {"checkState", "cas"} /\ pos'[u] = head => Serving(head)'
    BY <1>5, <1>8, <1>9
  <2>2. \A u \in Consumers : pc'[u] = "cas" /\ pos'[u] = head => state'[slotOf(head)] = 1
    BY <1>6, <1>8, <1>9
  <2> QED BY <1>9, <2>1, <2>2 DEF LooksHold
<1> QED BY <1>4, <1>7, <1>9
\* Whoever ends the lap of a granule finds its slots empty.
LEMMA EndedAreEmpty ==
  ASSUME TypeOK, StatesTell, ItemsTell, EndsAreDone,
         NEW t \in Consumers, pc[t] \in Ending,
         NEW p \in Nat, granuleOf(p) = granuleOf(pos[t]), Serving(p)
  PROVE  /\ p < head
         /\ ~TakesAt(p) /\ ~ClearsAt(p) /\ ~MovesAt(p)
         /\ state[slotOf(p)] = 0
         /\ ~closed => storage[slotOf(p)] = None
<1>1. p < head /\ ~TakesAt(p)
  BY DEF EndsAreDone, Done
<1>2. ~ClearsAt(p) /\ ~MovesAt(p)
  BY <1>1 DEF TakesAt, ClearsAt, MovesAt, Taking
<1>3. head \in Nat /\ state[slotOf(p)] \in {0, 1}
  BY PlaceType DEF TypeOK
<1>4. ~(head <= p)
  BY <1>1, <1>3
<1>5. state[slotOf(p)] = 0
  BY <1>2, <1>3, <1>4 DEF StatesTell
<1>6. ~closed => storage[slotOf(p)] = None
  BY <1>2, <1>4 DEF ItemsTell
<1> QED BY <1>1, <1>2, <1>5, <1>6

LEMMA StatesStep ==
  ASSUME TypeOK, Kinds, PositionsLie, LapsServe, LooksHold, StatesTell, ItemsTell, EndsAreDone, Next
  PROVE  StatesTell'
<1> USE DEF Threads
<1> DEFINE Full(p) == p < tail /\ ~FillsAt(p) /\ (head <= p \/ ClearsAt(p))
<1>1. head \in Nat /\ tail \in Nat
  BY DEF TypeOK
<1>2. \A p \in Nat : Serving(p) => (state[slotOf(p)] = 1 <=> Full(p))
  BY DEF StatesTell
<1>3. \A p \in Nat : slotOf(p) \in SlotIds
  BY PlaceType
<1>4. SUFFICES \A p \in Nat : Serving(p)' => (state'[slotOf(p)] = 1 <=> Full(p)')
  BY DEF StatesTell
<1>5. ASSUME NEW t \in Threads, Quiet(t), laps' = laps, state' = state
      PROVE  \A p \in Nat : Serving(p)' => (state'[slotOf(p)] = 1 <=> Full(p)')
  BY <1>2, <1>5, QuietFrame, QuietWork DEF SameWork, Serving
<1>6. ASSUME NEW t \in Consumers, NextLap(t)
      PROVE  \A p \in Nat : Serving(p)' => (state'[slotOf(p)] = 1 <=> Full(p)')
  <2>1. SameWork /\ head' = head /\ tail' = tail /\ state' = state /\ pc[t] \in Ending
    BY <1>6, QuietWork DEF Quiet, NextLap, Goto, Ending
  <2>2. TAKE p \in Nat
  <2>3. HAVE Serving(p)'
  <2>4. Full(p)' <=> Full(p)
    BY <2>1 DEF SameWork
  <2>5. CASE granuleOf(p) # granuleOf(pos[t])
    BY <1>2, <1>6, <2>1, <2>3, <2>4, <2>5, NextLapServes
  <2>6. CASE granuleOf(p) = granuleOf(pos[t])
    <3>1. PICK q \in Nat : /\ p = q + Cap /\ Serving(q)
                           /\ slotOf(q) = slotOf(p) /\ granuleOf(q) = granuleOf(p)
      BY <1>6, <2>3, <2>6, NextLapServes
    <3>2. ~Serving(p)
      BY <1>6, <2>3, <2>6, NextLapServes
    <3>3. state[slotOf(p)] = 0
      BY <2>1, <2>6, <3>1, EndedAreEmpty
    <3>4. head <= p
      BY <3>1 DEF LapsServe
    <3>5. ~(p < tail /\ ~FillsAt(p))
      BY <3>2, <3>4 DEF LapsServe
    <3> QED BY <2>1, <2>4, <3>3, <3>5
  <2> QED BY <2>5, <2>6
<1>7. ASSUME NEW t \in Consumers, Discard(t)
      PROVE  \A p \in Nat : Serving(p)' => (state'[slotOf(p)] = 1 <=> Full(p)')
  <2>1. SameWork /\ head' = head /\ tail' = tail /\ laps' = laps /\ pc[t] \in Ending
    BY <1>7, QuietWork DEF Quiet, Discard, Goto, Ending
  <2>2. TAKE p \in Nat
  <2>3. HAVE Serving(p)'
  <2>4. (Full(p)' <=> Full(p)) /\ Serving(p)
    BY <2>1, <2>3 DEF SameWork, Serving
  <2>5. CASE granuleOf(p) # granuleOf(pos[t])
    <3>1. slotOf(p) \notin slotsOf(granuleOf(pos[t]))
      BY <2>5, PlaceType DEF slotsOf
    <3>2. state'[slotOf(p)] = state[slotOf(p)]
      BY <1>3, <1>7, <3>1 DEF Discard
    <3> QED BY <1>2, <2>4, <3>2
  <2>6. CASE granuleOf(p) = granuleOf(pos[t])
    <3>1. state[slotOf(p)] = 0
      BY <2>1, <2>4, <2>6, EndedAreEmpty
    <3>2. state'[slotOf(p)] = 0
      BY <1>3, <1>7, <3>1 DEF Discard
    <3> QED BY <1>2, <2>4, <3>1, <3>2
  <2> QED BY <2>5, <2>6
<1>8. ASSUME NEW t \in Producers, Claim(t)
      PROVE  \A p \in Nat : Serving(p)' => (state'[slotOf(p)] = 1 <=> Full(p)')
  <2>1. head' = head /\ tail' = tail + 1 /\ state' = state /\ laps' = laps
    BY <1>8 DEF Claim
  <2>2. \A p \in Nat : Full(p)' <=> Full(p)
    BY <1>1, <1>8, <2>1, ClaimWork
  <2> QED BY <1>2, <2>1, <2>2 DEF Serving
<1>9. ASSUME NEW t \in Producers, Construct(t)
      PROVE  \A p \in Nat : Serving(p)' => (state'[slotOf(p)] = 1 <=> Full(p)')
  BY <1>2, <1>9, ConstructWork DEF Construct, Serving
<1>10. ASSUME NEW t \in Producers, Publish(t)
       PROVE  \A p \in Nat : Serving(p)' => (state'[slotOf(p)] = 1 <=> Full(p)')
  <2>1. Serving(pos[t]) /\ pos[t] \in Nat /\ head <= pos[t] /\ pos[t] < tail
    BY <1>10 DEF Publish, Goto, LapsServe, PositionsLie, Filling, TypeOK
  <2>2. head' = head /\ tail' = tail /\ laps' = laps /\ state' = [state EXCEPT ![slotOf(pos[t])] = 1]
    BY <1>10 DEF Publish
  <2>3. TAKE p \in Nat
  <2>4. HAVE Serving(p)'
  <2>5. Serving(p)
    BY <2>2, <2>4 DEF Serving
  <2>6. CASE p = pos[t]
    BY <1>3, <1>10, <2>1, <2>2, <2>6, PublishWork DEF TypeOK
  <2>7. CASE p # pos[t]
    <3>1. slotOf(p) # slotOf(pos[t])
      BY <2>1, <2>5, <2>7, OnePerSlot
    <3>2. state'[slotOf(p)] = state[slotOf(p)]
      BY <1>3, <2>2, <3>1 DEF TypeOK
    <3> QED BY <1>2, <1>10, <2>2, <2>5, <2>7, <3>2, PublishWork
  <2> QED BY <2>6, <2>7
<1>11. ASSUME NEW t \in Consumers, CasHead(t)
       PROVE  \A p \in Nat : Serving(p)' => (state'[slotOf(p)] = 1 <=> Full(p)')
  <2>1. head' = head + 1 /\ tail' = tail /\ state' = state /\ laps' = laps
    BY <1>11 DEF CasHead
  <2>2. \A p \in Nat : Full(p)' <=> Full(p)
    BY <1>1, <1>11, <2>1, CasHeadWork
  <2> QED BY <1>2, <2>1, <2>2 DEF Serving
<1>12. ASSUME NEW t \in Consumers, MoveOut(t)
       PROVE  \A p \in Nat : Serving(p)' => (state'[slotOf(p)] = 1 <=> Full(p)')
  BY <1>2, <1>12, MoveOutWork DEF MoveOut, Serving
<1>13. ASSUME NEW t \in Consumers, ClearState(t)
       PROVE  \A p \in Nat : Serving(p)' => (state'[slotOf(p)] = 1 <=> Full(p)')
  <2>1. Serving(pos[t]) /\ pos[t] \in Nat /\ pos[t] < head
    BY <1>13 DEF ClearState, Goto, LapsServe, PositionsLie, Taking, TypeOK
  <2>2. head' = head /\ tail' = tail /\ laps' = laps /\ state' = [state EXCEPT ![slotOf(pos[t])] = 0]
    BY <1>13 DEF ClearState
  <2>3. TAKE p \in Nat
  <2>4. HAVE Serving(p)'
  <2>5. Serving(p)
    BY <2>2, <2>4 DEF Serving
  <2>6. CASE p = pos[t]
    <3>1. ~Full(p)'
      BY <1>1, <1>13, <2>1, <2>2, <2>6, ClearStateWork
    <3>2. state'[slotOf(p)] = 0
      BY <1>3, <2>2, <2>6 DEF TypeOK
    <3> QED BY <3>1, <3>2
  <2>7. CASE p # pos[t]
    <3>1. slotOf(p) # slotOf(pos[t])
      BY <2>1, <2>5, <2>7, OnePerSlot
    <3>2. state'[slotOf(p)] = state[slotOf(p)]
      BY <1>3, <2>2, <3>1 DEF TypeOK
    <3> QED BY <1>2, <1>13, <2>2, <2>5, <2>7, <3>2, ClearStateWork
  <2> QED BY <2>6, <2>7
<1>14. ASSUME NEW t \in Consumers, CountPop(t)
       PROVE  \A p \in Nat : Serving(p)' => (state'[slotOf(p)] = 1 <=> Full(p)')
  BY <1>2, <1>14, CountPopWork DEF CountPop, Serving
<1>15. ASSUME Destroy
       PROVE  \A p \in Nat : Serving(p)' => (state'[slotOf(p)] = 1 <=> Full(p)')
  <2>1. head' = head /\ tail' = tail /\ laps' = laps /\ state' = state /\ pc' = pc /\ pos' = pos
    BY <1>15 DEF Destroy
  <2> QED BY <1>2, <2>1 DEF Serving, FillsAt, ClearsAt
<1>16. ASSUME NEW t \in Threads, Quiet(t)
       PROVE  \A p \in Nat : Serving(p)' => (state'[slotOf(p)] = 1 <=> Full(p)')
  BY <1>5, <1>6, <1>7, <1>16, QuietFrame
<1> HIDE DEF Full
<1> QED BY <1>8, <1>9, <1>10, <1>11, <1>12, <1>13, <1>14, <1>15, <1>16, Steps

LEMMA ItemsStep ==
  ASSUME TypeOK, Kinds, PositionsLie, LapsServe, LooksHold, StatesTell, ItemsTell, EndsAreDone, Next
  PROVE  ItemsTell'
<1> USE DEF Threads
<1> DEFINE Holds(p) == p < tail /\ ~StoresAt(p) /\ (head <= p \/ MovesAt(p))
           It(p) == IF Holds(p) THEN p ELSE None
<1>1. head \in Nat /\ tail \in Nat /\ \A p \in Nat : slotOf(p) \in SlotIds
  BY PlaceType DEF TypeOK
<1>2. ~closed => \A p \in Nat : Serving(p) => storage[slotOf(p)] = It(p)
  BY DEF ItemsTell
<1>3. SUFFICES ASSUME ~closed' PROVE \A p \in Nat : Serving(p)' => storage'[slotOf(p)] = It(p)'
  BY DEF ItemsTell
<1>4. ~closed
  BY <1>3, Steps, QuietFrame DEF Claim, Construct, Publish, CasHead, MoveOut, ClearState, CountPop, Destroy
<1>5. ASSUME NEW t \in Threads, Quiet(t), laps' = laps, storage' = storage
      PROVE  \A p \in Nat : Serving(p)' => storage'[slotOf(p)] = It(p)'
  BY <1>2, <1>4, <1>5, QuietFrame, QuietWork DEF SameWork, Serving
<1>6. ASSUME NEW t \in Consumers, NextLap(t)
      PROVE  \A p \in Nat : Serving(p)' => storage'[slotOf(p)] = It(p)'
  <2>1. SameWork /\ head' = head /\ tail' = tail /\ storage' = storage /\ pc[t] \in Ending
    BY <1>6, QuietWork DEF Quiet, NextLap, Goto, Ending
  <2>2. TAKE p \in Nat
  <2>3. HAVE Serving(p)'
  <2>4. Holds(p)' <=> Holds(p)
    BY <2>1 DEF SameWork
  <2>5. CASE granuleOf(p) # granuleOf(pos[t])
    <3>1. Serving(p)
      BY <1>6, <2>3, <2>5, NextLapServes
    <3> HIDE DEF Holds
    <3> QED BY <1>2, <1>4, <2>1, <2>4, <3>1
  <2>6. CASE granuleOf(p) = granuleOf(pos[t])
    <3>1. PICK q \in Nat : /\ p = q + Cap /\ Serving(q)
                           /\ slotOf(q) = slotOf(p) /\ granuleOf(q) = granuleOf(p)
      BY <1>6, <2>3, <2>6, NextLapServes
    <3>2. ~Serving(p)
      BY <1>6, <2>3, <2>6, NextLapServes
    <3>3. storage[slotOf(p)] = None
      BY <1>4, <2>1, <2>6, <3>1, EndedAreEmpty
    <3>4. head <= p
      BY <3>1 DEF LapsServe
    <3>5. ASSUME p < tail, ~StoresAt(p) PROVE FALSE
      <4>1. FillsAt(p)
        BY <3>2, <3>4, <3>5 DEF LapsServe
      <4>2. PICK u \in Producers : pc[u] = "publish" /\ pos[u] = p
        BY <3>5, <4>1 DEF FillsAt, StoresAt, Filling
      <4> QED BY <3>2, <4>2 DEF LapsServe
    <3>6. ~Holds(p)
      BY <3>5
    <3> HIDE DEF Holds
    <3> QED BY <2>1, <2>4, <3>3, <3>6
  <2> QED BY <2>5, <2>6
<1>7. ASSUME NEW t \in Consumers, Discard(t)
      PROVE  \A p \in Nat : Serving(p)' => storage'[slotOf(p)] = It(p)'
  <2>1. SameWork /\ head' = head /\ tail' = tail /\ laps' = laps /\ pc[t] \in Ending
    BY <1>7, QuietWork DEF Quiet, Discard, Goto, Ending
  <2>2. TAKE p \in Nat
  <2>3. HAVE Serving(p)'
  <2>4. (Holds(p)' <=> Holds(p)) /\ Serving(p)
    BY <2>1, <2>3 DEF SameWork, Serving
  <2>5. storage'[slotOf(p)] = storage[slotOf(p)]
    <3>1. CASE granuleOf(p) # granuleOf(pos[t])
      <4>1. slotOf(p) \notin slotsOf(granuleOf(pos[t]))
        BY <3>1, PlaceType DEF slotsOf
      <4> QED BY <1>1, <1>7, <4>1 DEF Discard
    <3>2. CASE granuleOf(p) = granuleOf(pos[t])
      <4>1. storage[slotOf(p)] = None
        BY <1>4, <2>1, <2>4, <3>2, EndedAreEmpty
      <4> QED BY <1>1, <1>7, <4>1 DEF Discard
    <3> QED BY <3>1, <3>2
  <2> HIDE DEF Holds
  <2> QED BY <1>2, <1>4, <2>4, <2>5
<1>8. ASSUME NEW t \in Producers, Claim(t)
      PROVE  \A p \in Nat : Serving(p)' => storage'[slotOf(p)] = It(p)'
  <2>1. head' = head /\ tail' = tail + 1 /\ storage' = storage /\ laps' = laps
    BY <1>8 DEF Claim
  <2>2. \A p \in Nat : Holds(p)' <=> Holds(p)
    <3>1. ~\E u \in Consumers : pc[u] = "move" /\ pos[u] >= tail
      BY <1>1 DEF PositionsLie, Taking, TypeOK
    <3> QED BY <1>1, <1>8, <2>1, <3>1, ClaimWork
  <2> HIDE DEF Holds
  <2> QED BY <1>2, <1>4, <2>1, <2>2 DEF Serving
<1>9. ASSUME NEW t \in Producers, Construct(t)
      PROVE  \A p \in Nat : Serving(p)' => storage'[slotOf(p)] = It(p)'
  <2>1. Serving(pos[t]) /\ pos[t] \in Nat /\ head <= pos[t] /\ pos[t] < tail
    BY <1>9 DEF Construct, Goto, LapsServe, PositionsLie, Filling, TypeOK
  <2>2. /\ head' = head /\ tail' = tail /\ laps' = laps
        /\ storage' = [storage EXCEPT ![slotOf(pos[t])] = pos[t]]
    BY <1>9 DEF Construct
  <2>3. TAKE p \in Nat
  <2>4. HAVE Serving(p)'
  <2>5. Serving(p)
    BY <2>2, <2>4 DEF Serving
  <2>6. CASE p = pos[t]
    <3>1. Holds(p)'
      BY <1>9, <2>1, <2>2, <2>6, ConstructWork
    <3>2. storage'[slotOf(p)] = p
      BY <1>1, <2>2, <2>6 DEF TypeOK
    <3> QED BY <3>1, <3>2
  <2>7. CASE p # pos[t]
    <3>1. slotOf(p) # slotOf(pos[t])
      BY <2>1, <2>5, <2>7, OnePerSlot
    <3>2. storage'[slotOf(p)] = storage[slotOf(p)]
      BY <1>1, <2>2, <3>1 DEF TypeOK
    <3>3. Holds(p)' <=> Holds(p)
      BY <1>9, <2>2, <2>7, ConstructWork
    <3> HIDE DEF Holds
    <3> QED BY <1>2, <1>4, <2>5, <3>2, <3>3
  <2> QED BY <2>6, <2>7
<1>10. ASSUME NEW t \in Producers, Publish(t)
       PROVE  \A p \in Nat : Serving(p)' => storage'[slotOf(p)] = It(p)'
  BY <1>2, <1>4, <1>10, PublishWork DEF Publish, Serving
<1>11. ASSUME NEW t \in Consumers, CasHead(t)
       PROVE  \A p \in Nat : Serving(p)' => storage'[slotOf(p)] = It(p)'
  <2>1. head' = head + 1 /\ tail' = tail /\ storage' = storage /\ laps' = laps
    BY <1>11 DEF CasHead
  <2>2. \A p \in Nat : Holds(p)' <=> Holds(p)
    BY <1>1, <1>11, <2>1, CasHeadWork
  <2> HIDE DEF Holds
  <2> QED BY <1>2, <1>4, <2>1, <2>2 DEF Serving
<1>12. ASSUME NEW t \in Consumers, MoveOut(t)
       PROVE  \A p \in Nat : Serving(p)' => storage'[slotOf(p)] = It(p)'
  <2>1. Serving(pos[t]) /\ pos[t] \in Nat /\ pos[t] < head
    BY <1>12 DEF MoveOut, Goto, LapsServe, PositionsLie, Taking, TypeOK
  <2>2. /\ head' = head /\ tail' = tail /\ laps' = laps
        /\ storage' = [storage EXCEPT ![slotOf(pos[t])] = None]
    BY <1>12 DEF MoveOut
  <2>3. TAKE p \in Nat
  <2>4. HAVE Serving(p)'
  <2>5. Serving(p)
    BY <2>2, <2>4 DEF Serving
  <2>6. CASE p = pos[t]
    <3>1. ~Holds(p)'
      BY <1>1, <1>12, <2>1, <2>2, <2>6, MoveOutWork
    <3>2. storage'[slotOf(p)] = None
      BY <1>1, <2>2, <2>6 DEF TypeOK
    <3> QED BY <3>1, <3>2
  <2>7. CASE p # pos[t]
    <3>1. slotOf(p) # slotOf(pos[t])
      BY <2>1, <2>5, <2>7, OnePerSlot
    <3>2. storage'[slotOf(p)] = storage[slotOf(p)]
      BY <1>1, <2>2, <3>1 DEF TypeOK
    <3>3. Holds(p)' <=> Holds(p)
      BY <1>12, <2>2, <2>7, MoveOutWork
    <3> HIDE DEF Holds
    <3> QED BY <1>2, <1>4, <2>5, <3>2, <3>3
  <2> QED BY <2>6, <2>7
<1>13. ASSUME NEW t \in Consumers, ClearState(t)
       PROVE  \A p \in Nat : Serving(p)' => storage'[slotOf(p)] = It(p)'
  BY <1>2, <1>4, <1>13, ClearStateWork DEF ClearState, Serving
<1>14. ASSUME NEW t \in Consumers, CountPop(t)
       PROVE  \A p \in Nat : Serving(p)' => storage'[slotOf(p)] = It(p)'
  BY <1>2, <1>4, <1>14, CountPopWork DEF CountPop, Serving
<1>15. ~Destroy
  BY <1>3 DEF Destroy
<1>16. ASSUME NEW t \in Threads, Quiet(t)
       PROVE  \A p \in Nat : Serving(p)' => storage'[slotOf(p)] = It(p)'
  BY <1>5, <1>6, <1>7, <1>16, QuietFrame
<1> HIDE DEF It
<1> QED BY <1>8, <1>9, <1>10, <1>11, <1>12, <1>13, <1>14, <1>15, <1>16, Steps
\* What is done stays done, and but for a pop that is counted nothing more is.
LEMMA DoneKept ==
  ASSUME TypeOK, Kinds, PositionsLie, Next
  PROVE  /\ \A p \in Nat : Done(p) => Done(p)'
         /\ Reclaim /\ (\A t \in Consumers : ~CountPop(t)) => \A p \in Nat : Done(p)' <=> Done(p)
<1> USE DEF Threads
<1>1. head \in Nat
  BY DEF TypeOK
<1>2. ASSUME NEW t \in Threads, Quiet(t) PROVE \A p \in Nat : Done(p)' <=> Done(p)
  BY <1>2, QuietFrame, QuietWork DEF SameWork, Done
<1>3. ASSUME NEW t \in Producers, Claim(t) PROVE \A p \in Nat : Done(p)' <=> Done(p)
  BY <1>3, ClaimWork DEF Claim, Done
<1>4. ASSUME NEW t \in Producers, Construct(t) PROVE \A p \in Nat : Done(p)' <=> Done(p)
  BY <1>4, ConstructWork DEF Construct, Done
<1>5. ASSUME NEW t \in Producers, Publish(t) PROVE \A p \in Nat : Done(p)' <=> Done(p)
  BY <1>5, PublishWork DEF Publish, Done
<1>6. ASSUME NEW t \in Consumers, CasHead(t) PROVE \A p \in Nat : Done(p)' <=> Done(p)
  <2>1. head' = head + 1
    BY <1>6 DEF CasHead
  <2> QED BY <1>1, <1>6, <2>1, CasHeadWork DEF Done
<1>7. ASSUME NEW t \in Consumers, MoveOut(t) PROVE \A p \in Nat : Done(p)' <=> Done(p)
  BY <1>7, MoveOutWork DEF MoveOut, Done
<1>8. ASSUME NEW t \in Consumers, ClearState(t)
      PROVE  /\ \A p \in Nat : Done(p) => Done(p)'
             /\ Reclaim => \A p \in Nat : Done(p)' <=> Done(p)
  BY <1>8, ClearStateWork DEF ClearState, Done
<1>9. ASSUME NEW t \in Consumers, CountPop(t) PROVE \A p \in Nat : Done(p) => Done(p)'
  BY <1>9, CountPopWork DEF CountPop, Done
<1>10. ASSUME Destroy PROVE \A p \in Nat : Done(p)' <=> Done(p)
  BY <1>10 DEF Destroy, Done, TakesAt
<1> QED BY <1>2, <1>3, <1>4, <1>5, <1>6, <1>7, <1>8, <1>9, <1>10, Steps

\* The pop that is counted last ends the lap.
LEMMA CountedIsDone ==
  ASSUME TypeOK, Kinds, PositionsLie, LapsServe, EndsAreDone, PopsCount,
         NEW t \in Consumers, CountPop(t), NEW g, g = granuleOf(pos[t])
  PROVE  /\ g \in Granules
         /\ DoneIn(g)' = DoneIn(g) \cup {pos[t]}
         /\ Cardinality(DoneIn(g)') = pops[g] + 1
         /\ pops[g] + 1 = GranuleSlots => DoneIn(g)' = Round(g)
<1> USE DEF Threads
<1> DEFINE p == pos[t]
<1>1. /\ p \in Nat /\ pc[t] = "count" /\ Reclaim
      /\ head' = head /\ laps' = laps
      /\ g \in Granules
  BY PlaceType DEF CountPop, Goto, TypeOK, Kinds
<1>2. TakesAt(p) /\ Serving(p) /\ p < head
  BY <1>1 DEF TakesAt, Taking, LapsServe, PositionsLie
<1>3. ~Done(p)
  BY <1>2 DEF Done
<1>4. \A u \in Consumers : pc[u] \in Ending => granuleOf(pos[u]) # g
  BY <1>1, <1>2, <1>3 DEF EndsAreDone
<1>5. pops[g] = Cardinality(DoneIn(g))
  BY <1>1, <1>4 DEF PopsCount, Ending
<1>6. \A q \in Nat : Serving(q)' <=> Serving(q)
  BY <1>1 DEF Serving
<1>7. \A q \in Nat : Done(q)' <=> Done(q) \/ q = p
  BY <1>1, <1>2, CountPopWork DEF Done
<1>8. DoneIn(g)' = DoneIn(g) \cup {p}
  BY <1>1, <1>2, <1>6, <1>7 DEF DoneIn, Round
<1>9. p \notin DoneIn(g) /\ IsFiniteSet(DoneIn(g))
  BY <1>1, <1>3, DoneSize DEF DoneIn
<1>10. IsFiniteSet(DoneIn(g) \cup {p}) /\ Cardinality(DoneIn(g) \cup {p}) = pops[g] + 1
  BY <1>5, <1>9, FS_AddElement
<1>11. (DoneIn(g) \cup {p}) \in SUBSET Round(g)
  BY <1>1, <1>2 DEF DoneIn, Round
<1>12. IsFiniteSet(Round(g)) /\ Cardinality(Round(g)) = GranuleSlots
  BY <1>1, RoundSize
<1>13. pops[g] + 1 = GranuleSlots => DoneIn(g) \cup {p} = Round(g)
  BY <1>10, <1>11, <1>12, FS_Subset
<1> QED BY <1>1, <1>8, <1>10, <1>13

LEMMA EndsStep ==
  ASSUME TypeOK, Kinds, PositionsLie, LapsServe, LooksHold, StatesTell, EndsAreDone, PopsCount, Next
  PROVE  EndsAreDone'
<1> USE DEF Threads
\* A consumer that was at the end of a lap is so still, and nobody joins it.
<1>1. ASSUME NEW u \in Consumers, pc[u] \in Ending, pc'[u] \in Ending
      PROVE  /\ pos'[u] = pos[u]
             /\ \A p \in Nat : granuleOf(p) = granuleOf(pos[u]) /\ Serving(p)' => Done(p)'
  <2>1. pos'[u] = pos[u]
    <3>1. ASSUME NEW t \in Producers, Push(t) PROVE pos'[u] = pos[u]
      BY <3>1, Apart DEF Push, Claim, AwaitLap, Construct, Publish, TypeOK
    <3>2. ASSUME NEW t \in Consumers, TryPop(t) PROVE pos'[u] = pos[u]
      BY <1>1, <3>2 DEF TryPop, LoadHead, CheckLap, CheckState, CasHead, CasFailed, MoveOut,
         ClearState, CountPop, ResetPops, Discard, NextLap, Goto, TypeOK, Ending
    <3> QED BY <3>1, <3>2 DEF Next, Destroy
  <2>2. \A p \in Nat : granuleOf(p) = granuleOf(pos[u]) /\ Serving(p)' => Serving(p)
    <3>1. ASSUME NEW t \in Consumers, NextLap(t)
          PROVE  \A p \in Nat : granuleOf(p) = granuleOf(pos[u]) /\ Serving(p)' => Serving(p)
      <4>1. pc[t] \in Ending /\ pc'[t] = "idle"
        BY <3>1 DEF NextLap, Goto, Ending, TypeOK
      <4>2. t # u
        BY <1>1, <4>1 DEF Ending
      <4>3. granuleOf(pos[t]) # granuleOf(pos[u])
        BY <1>1, <4>1, <4>2 DEF EndsAreDone
      <4> QED BY <3>1, <4>3, NextLapServes
    <3>2. CASE laps' = laps
      BY <3>2 DEF Serving
    <3> QED BY <3>1, <3>2, Steps, QuietFrame DEF Claim, Construct, Publish, CasHead, MoveOut,
            ClearState, CountPop, Destroy
  <2>3. \A p \in Nat : granuleOf(p) = granuleOf(pos[u]) /\ Serving(p) => Done(p)
    BY <1>1 DEF EndsAreDone
  <2>4. \A p \in Nat : Done(p) => Done(p)'
    BY DoneKept
  <2> QED BY <2>1, <2>2, <2>3, <2>4
\* One that gets there had a position that was not done.
<1>2. ASSUME NEW u \in Consumers, pc[u] \notin Ending, pc'[u] \in Ending
      PROVE  /\ pos'[u] = pos[u]
             /\ laps' = laps
             /\ TakesAt(pos[u]) /\ Serving(pos[u])
             /\ \A p \in Nat : granuleOf(p) = granuleOf(pos[u]) /\ Serving(p)' => Done(p)'
             /\ \A w \in Consumers : w # u => pc'[w] = pc[w] /\ pos'[w] = pos[w]
  <2>1. (ClearState(u) /\ ~Reclaim) \/ (CountPop(u) /\ pops[granuleOf(pos[u])] + 1 = GranuleSlots)
    <3>1. ~\E t \in Producers : Push(t)
      BY <1>2, Apart DEF Push, Claim, AwaitLap, Construct, Publish, Goto, TypeOK
    <3>2. ASSUME NEW t \in Consumers, TryPop(t) PROVE t = u
      BY <1>2, <3>2 DEF TryPop, LoadHead, CheckLap, CheckState, CasHead, CasFailed, MoveOut,
         ClearState, CountPop, ResetPops, Discard, NextLap, Goto, TypeOK
    <3>3. ~Destroy
      BY <1>2 DEF Destroy
    <3>4. TryPop(u)
      BY <3>1, <3>2, <3>3 DEF Next
    <3> QED BY <1>2, <3>4 DEF TryPop, LoadHead, CheckLap, CheckState, CasHead, CasFailed, MoveOut,
            ClearState, CountPop, ResetPops, Discard, NextLap, Goto, TypeOK, Ending
  <2>2. pos' = pos /\ laps' = laps /\ pc[u] \in Taking /\ pos[u] \in Nat
        /\ \A w \in Consumers : w # u => pc'[w] = pc[w]
    BY <2>1 DEF ClearState, CountPop, Goto, Taking, TypeOK
  <2>3. TakesAt(pos[u]) /\ Serving(pos[u]) /\ pos[u] < head
    BY <2>2 DEF TakesAt, LapsServe, PositionsLie
  <2>4. \A p \in Nat : Serving(p)' <=> Serving(p)
    BY <2>2 DEF Serving
  <2>5. CASE ClearState(u) /\ ~Reclaim
    <3>1. GranuleSlots = 1
      BY <2>5, QueueAssumption
    <3>2. \A s \in SlotIds : s \div 1 = s
      <4>1. TAKE s \in SlotIds
      <4>2. s \in Nat
        BY Sizes DEF SlotIds
      <4>3. s \div 1 \in Nat /\ s % 1 \in 0 .. 1 - 1 /\ s = 1 * (s \div 1) + (s % 1)
        BY <4>2, Divides
      <4> QED BY <4>2, <4>3
    <3>3. \A p \in Nat : granuleOf(p) = slotOf(p)
      BY <3>1, <3>2, PlaceType
    <3>4. \A p \in Nat : granuleOf(p) = granuleOf(pos[u]) /\ Serving(p)' => p = pos[u]
      BY <2>2, <2>3, <2>4, <3>3, OnePerSlot
    <3>5. Done(pos[u])'
      <4>1. head' = head /\ ~TakesAt(pos[u])'
        BY <2>2, <2>5, ClearStateWork DEF ClearState
      <4> QED BY <2>2, <2>3, <4>1 DEF Done
    <3>6. \A p \in Nat : p = pos[u] => Done(p)'
      BY <2>2, <3>5
    <3> QED BY <2>2, <2>3, <3>4, <3>6
  <2>6. CASE CountPop(u) /\ pops[granuleOf(pos[u])] + 1 = GranuleSlots
    <3>0. PICK g \in Granules : g = granuleOf(pos[u])
      BY <2>2, PlaceType
    <3>1. DoneIn(g)' = Round(g)
      BY <2>6, <3>0, CountedIsDone
    <3>2. \A p \in Nat : p \in DoneIn(g)' => Done(p)'
      BY DEF DoneIn
    <3>3. \A p \in Nat : granuleOf(p) = g /\ Serving(p)' => p \in Round(g)
      BY <2>4 DEF Round
    <3> QED BY <2>2, <2>3, <3>0, <3>1, <3>2, <3>3
  <2> QED BY <2>1, <2>5, <2>6
<1>3. \A u \in Consumers : pc'[u] \in Ending =>
        pos'[u] = pos[u] /\ \A p \in Nat : granuleOf(p) = granuleOf(pos[u]) /\ Serving(p)' => Done(p)'
  BY <1>1, <1>2
<1>4. ASSUME NEW u \in Consumers, NEW w \in Consumers, pc'[u] \in Ending, pc'[w] \in Ending,
             granuleOf(pos[u]) = granuleOf(pos[w]), u # w
      PROVE  FALSE
  <2>1. CASE pc[u] \in Ending /\ pc[w] \in Ending
    BY <1>4, <2>1 DEF EndsAreDone
  <2>2. ASSUME NEW v \in Consumers, NEW x \in Consumers, v # x, pc[v] \notin Ending, pc'[v] \in Ending,
               pc'[x] \in Ending, granuleOf(pos[v]) = granuleOf(pos[x])
        PROVE  FALSE
    <3>1. TakesAt(pos[v]) /\ Serving(pos[v]) /\ pc[x] \in Ending /\ pos[v] \in Nat
      BY <1>2, <2>2 DEF TypeOK
    <3> QED BY <2>2, <3>1 DEF EndsAreDone, Done
  <2> QED BY <1>4, <2>1, <2>2
<1>5. \A u \in Consumers : pc'[u] \in Ending =>
        \A p \in Nat : granuleOf(p) = granuleOf(pos'[u]) /\ Serving(p)' => Done(p)'
  BY <1>3
<1>6. \A u, w \in Consumers :
        pc'[u] \in Ending /\ pc'[w] \in Ending /\ granuleOf(pos'[u]) = granuleOf(pos'[w]) => u = w
  BY <1>3, <1>4
<1> QED BY <1>5, <1>6 DEF EndsAreDone
LEMMA PopsStep ==
  ASSUME TypeOK, Kinds, PositionsLie, LapsServe, LooksHold, StatesTell, EndsAreDone, PopsCount, Next
  PROVE  PopsCount'
<1> USE DEF Threads
<1> DEFINE Reset(g) == \E u \in Consumers : pc[u] \in {"discard", "nextLap"} /\ granuleOf(pos[u]) = g
<1>1. SUFFICES ASSUME Reclaim, NEW g \in Granules
               PROVE  pops'[g] = IF Reset(g)' THEN 0 ELSE Cardinality(DoneIn(g)')
  BY DEF PopsCount
<1>2. pops[g] = IF Reset(g) THEN 0 ELSE Cardinality(DoneIn(g))
  BY <1>1 DEF PopsCount
\* Nothing of it changes when neither a pop is counted nor a lap begun.
<1>3. ASSUME \A t \in Consumers : ~CountPop(t) /\ ~NextLap(t)
      PROVE  DoneIn(g)' = DoneIn(g)
  <2>1. \A p \in Nat : Done(p)' <=> Done(p)
    BY <1>1, <1>3, DoneKept
  <2>2. laps' = laps
    BY <1>3, Steps, QuietFrame DEF Claim, Construct, Publish, CasHead, MoveOut, ClearState, Destroy
  <2>3. \A p \in Nat : Serving(p)' <=> Serving(p)
    BY <2>2 DEF Serving
  <2> QED BY <2>1, <2>3 DEF DoneIn, Round
<1>4. ASSUME NEW t \in Producers, Push(t)
      PROVE  pops' = pops /\ (Reset(g)' <=> Reset(g)) /\ \A u \in Consumers : ~CountPop(u) /\ ~NextLap(u)
  <2>1. pops' = pops /\ \A u \in Consumers : pc'[u] = pc[u] /\ pos'[u] = pos[u]
    BY <1>4, Apart DEF Push, Claim, AwaitLap, Construct, Publish, Goto, TypeOK
  <2>2. \A u \in Consumers : ~CountPop(u) /\ ~NextLap(u)
    <3>1. \A u \in Consumers : CountPop(u) \/ NextLap(u) => pc'[u] # pc[u]
      BY DEF CountPop, NextLap, Goto, TypeOK
    <3> QED BY <2>1, <3>1
  <2> QED BY <2>1, <2>2
<1>5. ASSUME NEW t \in Consumers,
             \/ LoadHead(t) \/ CheckLap(t) \/ CheckState(t) \/ CasHead(t) \/ CasFailed(t)
             \/ MoveOut(t) \/ ClearState(t) \/ Discard(t)
      PROVE  pops' = pops /\ (Reset(g)' <=> Reset(g)) /\ \A u \in Consumers : ~CountPop(u) /\ ~NextLap(u)
  <2>1. pops' = pops /\ \A u \in Consumers : u # t => pc'[u] = pc[u] /\ pos'[u] = pos[u]
    BY <1>5 DEF LoadHead, CheckLap, CheckState, CasHead, CasFailed, MoveOut, ClearState, Discard,
       Goto, TypeOK
  <2>2. /\ pc'[t] \in {"discard", "nextLap"} <=> pc[t] \in {"discard", "nextLap"}
        /\ pc[t] \in {"discard", "nextLap"} => pos'[t] = pos[t]
    BY <1>1, <1>5 DEF LoadHead, CheckLap, CheckState, CasHead, CasFailed, MoveOut, ClearState, Discard,
       Goto, TypeOK
  <2>3. \A u \in Consumers : CountPop(u) \/ NextLap(u) => pc'[u] # pc[u]
    BY DEF CountPop, NextLap, Goto, TypeOK
  <2>4. ~CountPop(t) /\ ~NextLap(t)
    BY <1>5 DEF LoadHead, CheckLap, CheckState, CasHead, CasFailed, MoveOut, ClearState, Discard,
       CountPop, NextLap, Goto
  <2>5. \A u \in Consumers : ~CountPop(u) /\ ~NextLap(u)
    BY <2>1, <2>3, <2>4
  <2>6. Reset(g)' <=> Reset(g)
    BY <2>1, <2>2
  <2> QED BY <2>1, <2>5, <2>6
<1>6. ASSUME NEW t \in Consumers, CountPop(t) PROVE pops'[g] = IF Reset(g)' THEN 0 ELSE Cardinality(DoneIn(g)')
  <2>1. /\ pc[t] = "count" /\ pc'[t] \in {"reset", "idle"} /\ pos' = pos /\ laps' = laps
        /\ \A u \in Consumers : u # t => pc'[u] = pc[u]
        /\ pops' = [pops EXCEPT ![granuleOf(pos[t])] = pops[granuleOf(pos[t])] + 1]
    BY <1>6 DEF CountPop, Goto, TypeOK
  <2>2. Reset(g)' <=> Reset(g)
    BY <2>1
  <2>3. pops \in [Granules -> Nat] /\ pos[t] \in Nat
    BY DEF TypeOK
  <2>4. CASE g = granuleOf(pos[t])
    <3>1. Cardinality(DoneIn(g)') = pops[g] + 1
      BY <1>6, <2>4, CountedIsDone
    <3>2. TakesAt(pos[t]) /\ Serving(pos[t])
      BY <2>1 DEF TakesAt, Taking, LapsServe
    <3>3. ~Reset(g)
      BY <2>3, <2>4, <3>2 DEF EndsAreDone, Ending, Done
    <3>4. pops'[g] = pops[g] + 1
      BY <2>1, <2>3, <2>4
    <3> HIDE DEF Reset
    <3> QED BY <2>2, <3>1, <3>3, <3>4
  <2>5. CASE g # granuleOf(pos[t])
    <3>1. pops'[g] = pops[g]
      BY <2>1, <2>3, <2>5
    <3>2. \A p \in Nat : granuleOf(p) = g => p # pos[t]
      BY <2>5
    <3>3. \A p \in Nat : p # pos[t] => (Done(p)' <=> Done(p))
      BY <1>6, CountPopWork DEF CountPop, Done
    <3>4. \A p \in Nat : Serving(p)' <=> Serving(p)
      BY <2>1 DEF Serving
    <3>5. DoneIn(g)' = DoneIn(g)
      BY <3>2, <3>3, <3>4 DEF DoneIn, Round
    <3> HIDE DEF Reset
    <3> QED BY <1>2, <2>2, <3>1, <3>5
  <2> QED BY <2>4, <2>5
<1>7. ASSUME NEW t \in Consumers, ResetPops(t) PROVE pops'[g] = IF Reset(g)' THEN 0 ELSE Cardinality(DoneIn(g)')
  <2>1. /\ pc[t] = "reset" /\ pc'[t] = "discard" /\ pos' = pos
        /\ \A u \in Consumers : u # t => pc'[u] = pc[u]
        /\ pops' = [pops EXCEPT ![granuleOf(pos[t])] = 0]
        /\ pops \in [Granules -> Nat]
    BY <1>7 DEF ResetPops, Goto, TypeOK
  <2>2. \A u \in Consumers : ~CountPop(u) /\ ~NextLap(u)
    <3>1. \A u \in Consumers : CountPop(u) => pc[u] = "count" /\ pc'[u] \in {"reset", "idle"}
      BY DEF CountPop, Goto, TypeOK
    <3>2. \A u \in Consumers : NextLap(u) => pc[u] = "nextLap" /\ pc'[u] = "idle"
      BY DEF NextLap, Goto, TypeOK
    <3> QED BY <2>1, <3>1, <3>2
  <2>3. CASE g = granuleOf(pos[t])
    <3>1. Reset(g)' /\ pops'[g] = 0
      BY <2>1, <2>3
    <3> HIDE DEF Reset
    <3> QED BY <3>1
  <2>4. CASE g # granuleOf(pos[t])
    <3>1. (Reset(g)' <=> Reset(g)) /\ pops'[g] = pops[g]
      BY <2>1, <2>4
    <3> HIDE DEF Reset
    <3> QED BY <1>2, <1>3, <2>2, <3>1
  <2> QED BY <2>3, <2>4
<1>8. ASSUME NEW t \in Consumers, NextLap(t) PROVE pops'[g] = IF Reset(g)' THEN 0 ELSE Cardinality(DoneIn(g)')
  <2>1. /\ pc[t] = "nextLap" /\ pc'[t] = "idle" /\ pos' = pos /\ pops' = pops /\ head' = head
        /\ \A u \in Consumers : u # t => pc'[u] = pc[u]
        /\ pos[t] \in Nat /\ head \in Nat
    BY <1>8 DEF NextLap, Goto, TypeOK
  <2>2. \A p \in Nat : TakesAt(p)' <=> TakesAt(p)
    BY <1>8, QuietWork DEF Quiet, SameWork
  <2>3. \A p \in Nat : Done(p)' <=> Done(p)
    BY <2>1, <2>2 DEF Done
  <2>4. CASE g = granuleOf(pos[t])
    <3>1. ~Reset(g)'
      BY <2>1, <2>4 DEF EndsAreDone, Ending
    <3>2. pops'[g] = 0
      BY <1>2, <2>1, <2>4
    <3>3. ASSUME NEW p \in Nat, granuleOf(p) = g, Serving(p)' PROVE ~Done(p)
      <4>1. PICK q \in Nat : p = q + Cap /\ Serving(q)
        BY <1>8, <2>4, <3>3, NextLapServes
      <4>2. head <= p
        BY <4>1 DEF LapsServe
      <4> QED BY <2>1, <4>2 DEF Done
    <3>4. DoneIn(g)' = {}
      BY <2>3, <3>3 DEF DoneIn, Round
    <3>5. Cardinality({}) = 0
      BY FS_EmptySet
    <3> HIDE DEF Reset
    <3> QED BY <3>1, <3>2, <3>4, <3>5
  <2>5. CASE g # granuleOf(pos[t])
    <3>1. Reset(g)' <=> Reset(g)
      BY <2>1, <2>5
    <3>2. \A p \in Nat : granuleOf(p) = g => (Serving(p)' <=> Serving(p))
      BY <1>8, <2>5, NextLapServes
    <3>3. DoneIn(g)' = DoneIn(g)
      BY <2>3, <3>2 DEF DoneIn, Round
    <3> HIDE DEF Reset
    <3> QED BY <1>2, <2>1, <3>1, <3>3
  <2> QED BY <2>4, <2>5
<1>9. ASSUME Destroy
      PROVE  pops' = pops /\ (Reset(g)' <=> Reset(g)) /\ \A u \in Consumers : ~CountPop(u) /\ ~NextLap(u)
  BY <1>9 DEF Destroy, CountPop, NextLap, Goto
<1> HIDE DEF Reset
<1>10. ASSUME pops' = pops, Reset(g)' <=> Reset(g), \A u \in Consumers : ~CountPop(u) /\ ~NextLap(u)
       PROVE  pops'[g] = IF Reset(g)' THEN 0 ELSE Cardinality(DoneIn(g)')
  BY <1>2, <1>3, <1>10
<1> QED BY <1>4, <1>5, <1>6, <1>7, <1>8, <1>9, <1>10 DEF Next, TryPop

LEMMA PoppedStep ==
  ASSUME TypeOK, Kinds, PositionsLie, LapsServe, ItemsTell, ClosedIsQuiet, PopsWhatWasPushed, Next
  PROVE  PopsWhatWasPushed'
<1> USE DEF Threads
<1>1. ASSUME NEW t \in Producers, Push(t) PROVE PopsWhatWasPushed'
  BY <1>1, Apart DEF Push, Claim, AwaitLap, Construct, Publish, Goto, TypeOK, PopsWhatWasPushed
<1>2. ASSUME NEW t \in Consumers, MoveOut(t) PROVE PopsWhatWasPushed'
  <2> DEFINE p == pos[t]
  <2>1. pc[t] = "move" /\ p \in Nat /\ Serving(p) /\ p < head /\ head \in Nat /\ tail \in Nat
    BY <1>2 DEF MoveOut, Goto, TypeOK, LapsServe, PositionsLie, Taking
  <2>2. ~closed
    BY <2>1 DEF ClosedIsQuiet
  <2>3. p < tail /\ MovesAt(p)
    BY <2>1 DEF PositionsLie, MovesAt
  <2>4. ~StoresAt(p)
    BY <2>1 DEF StoresAt, PositionsLie, Filling, TypeOK
  <2>5. storage[slotOf(p)] = p
    BY <2>1, <2>2, <2>3, <2>4 DEF ItemsTell
  <2>6. /\ got' = [got EXCEPT ![t] = p] /\ pos' = pos
        /\ \A u \in Consumers : u # t => pc'[u] = pc[u]
    BY <1>2, <2>5 DEF MoveOut, Goto, TypeOK
  <2> QED BY <2>6 DEF PopsWhatWasPushed, TypeOK
<1>3. ASSUME NEW t \in Consumers, TryPop(t), ~MoveOut(t) PROVE PopsWhatWasPushed'
  BY <1>3 DEF TryPop, LoadHead, CheckLap, CheckState, CasHead, CasFailed, ClearState,
     CountPop, ResetPops, Discard, NextLap, Goto, TypeOK, PopsWhatWasPushed
<1>4. CASE Destroy
  BY <1>4 DEF Destroy, PopsWhatWasPushed
<1> QED BY <1>1, <1>2, <1>3, <1>4 DEF Next

LEMMA ClosedStep ==
  ASSUME TypeOK, Kinds, PositionsLie, LapsServe, StatesTell, ItemsTell, ClosedIsQuiet, Next
  PROVE  ClosedIsQuiet'
<1> USE DEF Threads
<1>1. ASSUME closed PROVE FALSE
  BY <1>1 DEF ClosedIsQuiet, Next, Push, Claim, AwaitLap, Construct, Publish, TryPop, LoadHead, CheckLap,
     CheckState, CasHead, CasFailed, MoveOut, ClearState, CountPop, ResetPops, Discard, NextLap, Goto,
     Destroy
<1>2. CASE Destroy
  <2> DEFINE left == {slotOf(p) : p \in {q \in head .. tail - 1 : state[slotOf(q)] = 1}}
  <2>1. \A t \in Threads : pc[t] = "idle" /\ pc'[t] = "idle"
    BY <1>2 DEF Destroy
  <2>2. \A p \in Nat : ~FillsAt(p) /\ ~StoresAt(p) /\ ~MovesAt(p) /\ ~ClearsAt(p)
    BY <2>1 DEF FillsAt, StoresAt, MovesAt, ClearsAt, Filling
  <2>3. ASSUME NEW s \in SlotIds, s \notin left PROVE storage[s] = None
    <3>1. PICK p \in Nat : Serving(p) /\ slotOf(p) = s
      BY SlotIsServed
    <3>2. head \in Nat /\ tail \in Nat /\ None \notin Nat
      BY QueueAssumption DEF TypeOK
    <3>3. CASE p < tail /\ head <= p
      <4>1. state[slotOf(p)] = 1
        BY <2>2, <3>1, <3>3 DEF StatesTell
      <4>2. p \in head .. tail - 1
        BY <3>2, <3>3
      <4> QED BY <2>3, <3>1, <4>1, <4>2
    <3>4. CASE ~(p < tail /\ head <= p)
      BY <1>1, <2>2, <3>1, <3>4 DEF ItemsTell
    <3> QED BY <3>3, <3>4
  <2>4. \A s \in SlotIds : storage'[s] = IF s \in left THEN None ELSE storage[s]
    BY <1>2 DEF Destroy
  <2> HIDE DEF left
  <2>5. \A s \in SlotIds : storage'[s] = None
    BY <2>3, <2>4
  <2> QED BY <2>1, <2>5 DEF ClosedIsQuiet
<1>3. CASE ~Destroy
  <2>1. closed' = closed
    BY <1>3, Steps, QuietFrame DEF Claim, Construct, Publish, CasHead, MoveOut, ClearState, CountPop
  <2> QED BY <1>1, <2>1 DEF ClosedIsQuiet
<1> QED BY <1>2, <1>3

LEMMA RingInit ==
  ASSUME Init
  PROVE  RingInv
<1> USE DEF Init, Threads
<1>1. Cap \in Nat \ {0} /\ GranuleSlots \in Nat \ {0} /\ MaxPush \in Nat /\ None \notin Nat
  BY QueueAssumption
<1>2. TypeOK
  BY DEF TypeOK
<1>3. Kinds /\ PositionsLie /\ LooksHold /\ PopsWhatWasPushed /\ ClosedIsQuiet /\ EndsAreDone
  BY <1>1 DEF Kinds, PositionsLie, LooksHold, PopsWhatWasPushed, ClosedIsQuiet, EndsAreDone,
     Filling, Looking, Taking, Ending
<1>4. LapsServe
  BY <1>1 DEF LapsServe, Filling, Taking, Ending
<1>5. StatesTell
  <2>1. \A p \in Nat : state[slotOf(p)] = 0 /\ ~(p < tail)
    BY PlaceType
  <2> QED BY <2>1 DEF StatesTell
<1>6. ItemsTell
  <2>1. \A p \in Nat : storage[slotOf(p)] = None /\ ~(p < tail)
    BY PlaceType
  <2> QED BY <2>1 DEF ItemsTell
<1>7. PopsCount
  <2>1. \A p \in Nat : ~Done(p)
    BY DEF Done
  <2>2. \A g \in Granules : DoneIn(g) = {}
    BY <2>1 DEF DoneIn, Round
  <2>3. \A g \in Granules : pops[g] = 0
    OBVIOUS
  <2> QED BY <2>2, <2>3, FS_EmptySet DEF PopsCount
<1> QED BY <1>2, <1>3, <1>4, <1>5, <1>6, <1>7 DEF RingInv

LEMMA RingStep ==
  ASSUME RingInv, [Next]_vars
  PROVE  RingInv'
<1>1. CASE Next
  BY <1>1, TypeStep, KindsStep, PositionsStep, LapsStep, LooksStep, StatesStep, ItemsStep, EndsStep,
     PopsStep, PoppedStep, ClosedStep DEF RingInv
<1>2. CASE UNCHANGED vars
  BY <1>2 DEF RingInv, vars, TypeOK, Kinds, PositionsLie, LapsServe, LooksHold, StatesTell, ItemsTell,
     EndsAreDone, PopsCount, PopsWhatWasPushed, ClosedIsQuiet, Serving, FillsAt, StoresAt, TakesAt,
     MovesAt, ClearsAt, Done, DoneIn, Round
<1> QED BY <1>1, <1>2

\* The inductive invariant of the ring (RingQueue::place, tryPop, release).
THEOREM RingInvariant == Spec => []RingInv
BY RingInit, RingStep, PTL DEF Spec

LEMMA SharesNothing ==
  ASSUME RingInv
  PROVE  NoSharedSlot
<1> USE DEF RingInv, Threads
<1>1. ASSUME NEW t \in Threads, pc[t] \in {"construct", "publish", "move", "clear"}
      PROVE  /\ Touches(t) = {slotOf(pos[t])}
             /\ pos[t] \in Nat /\ slotOf(pos[t]) \in SlotIds
             /\ Serving(pos[t])
             /\ pc[t] \in {"construct", "publish"} => t \in Producers /\ head <= pos[t]
             /\ pc[t] \in {"move", "clear"} => t \in Consumers /\ pos[t] < head /\ TakesAt(pos[t])
  <2>1. Touches(t) = {slotOf(pos[t])}
    BY <1>1 DEF Touches
  <2>2. pos[t] \in Nat /\ slotOf(pos[t]) \in SlotIds
    BY PlaceType DEF TypeOK
  <2>3. /\ pc[t] \in {"construct", "publish"} => t \in Producers
        /\ pc[t] \in {"move", "clear"} => t \in Consumers
    BY <1>1 DEF Kinds, Filling, Looking, Taking, Ending
  <2> QED BY <1>1, <2>1, <2>2, <2>3 DEF LapsServe, PositionsLie, Filling, Taking, TakesAt
<1>2. ASSUME NEW t \in Threads, pc[t] = "discard"
      PROVE  Touches(t) = slotsOf(granuleOf(pos[t])) /\ t \in Consumers /\ pc[t] \in Ending
  <2>1. Touches(t) = slotsOf(granuleOf(pos[t]))
    BY <1>2 DEF Touches
  <2> QED BY <1>2, <2>1 DEF Kinds, Filling, Ending
<1>3. ASSUME NEW t \in Threads, pc[t] \notin {"construct", "publish", "move", "clear", "discard"}
      PROVE  Touches(t) = {}
  BY <1>3 DEF Touches
<1>4. head \in Nat
  BY DEF TypeOK
<1>5. ASSUME NEW t \in Threads, NEW u \in Threads, t # u,
             pc[t] \in {"construct", "publish", "move", "clear"},
             pc[u] \in {"construct", "publish", "move", "clear"}
      PROVE  Touches(t) \cap Touches(u) = {}
  <2>1. pos[t] # pos[u]
    BY <1>1, <1>4, <1>5 DEF PositionsLie, Filling, Taking
  <2>2. slotOf(pos[t]) # slotOf(pos[u])
    BY <1>1, <1>5, <2>1, OnePerSlot
  <2> QED BY <1>1, <1>5, <2>2
<1>6. ASSUME NEW t \in Threads, NEW u \in Threads, pc[t] = "discard",
             pc[u] \in {"construct", "publish", "move", "clear"}
      PROVE  Touches(t) \cap Touches(u) = {}
  <2>1. granuleOf(pos[u]) # granuleOf(pos[t])
    BY <1>1, <1>2, <1>4, <1>6 DEF EndsAreDone, Done
  <2>2. slotOf(pos[u]) \notin slotsOf(granuleOf(pos[t]))
    BY <1>1, <1>6, <2>1, PlaceType DEF slotsOf
  <2> QED BY <1>1, <1>2, <1>6, <2>2
<1>7. ASSUME NEW t \in Threads, NEW u \in Threads, t # u, pc[t] = "discard", pc[u] = "discard"
      PROVE  Touches(t) \cap Touches(u) = {}
  <2>1. granuleOf(pos[u]) # granuleOf(pos[t])
    BY <1>2, <1>7 DEF EndsAreDone
  <2> QED BY <1>2, <1>7, <2>1 DEF slotsOf
<1> QED BY <1>3, <1>5, <1>6, <1>7 DEF NoSharedSlot

\* No two threads work on the same slot, what is popped is what was pushed, and
\* the destructor leaves no item behind (RingQueue::place, tryPop, ~RingQueue).
THEOREM RingSafe == Spec => []Safe
<1>1. RingInv => Safe
  BY SharesNothing DEF RingInv, Safe, ClosedIsQuiet, DestructorLeavesNothing
<1> QED BY <1>1, RingInvariant, PTL

\* release gives back no block with an item in it (RingQueue::release).
THEOREM DiscardsEmpty == Spec => []DiscardsOnlyEmptySlots
<1>1. ASSUME RingInv, NEW t \in Consumers, pc[t] = "discard", NEW s \in slotsOf(granuleOf(pos[t]))
      PROVE  state[s] = 0 /\ storage[s] = None
  <2> USE DEF RingInv
  <2>1. s \in SlotIds /\ s \div GranuleSlots = granuleOf(pos[t])
    BY DEF slotsOf
  <2>2. PICK p \in Nat : Serving(p) /\ slotOf(p) = s
    BY <1>1, <2>1, SlotIsServed
  <2>3. granuleOf(p) = granuleOf(pos[t])
    BY <2>1, <2>2, PlaceType
  <2>4. ~closed /\ pc[t] \in Ending
    BY <1>1 DEF ClosedIsQuiet, Ending, Threads
  <2> QED BY <1>1, <2>2, <2>3, <2>4, EndedAreEmpty
<1>2. RingInv => DiscardsOnlyEmptySlots
  BY <1>1 DEF DiscardsOnlyEmptySlots
<1> QED BY <1>2, RingInvariant, PTL
-----------------------------------------------------------------------------
(* The ring is a queue of cells. *)

CellValues == Items \cup {None}

LEMMA SeqOf ==
  ASSUME NEW S, NEW n \in Nat, NEW f \in [1 .. n -> S]
  PROVE  f \in Seq(S) /\ Len(f) = n
<1>1. f \in Seq(S)
  BY SeqDef
<1>2. Len(f) \in Nat /\ DOMAIN f = 1 .. Len(f)
  BY <1>1, LenProperties
<1>3. 1 .. Len(f) = 1 .. n
  BY <1>2
<1> QED BY <1>1, <1>2, <1>3

\* A cell is filled from the store of the state of its slot on.
LEMMA FilledIs ==
  ASSUME RingInv, NEW p \in Nat, head <= p, p < tail
  PROVE  /\ FilledAt(p) <=> ~FillsAt(p)
         /\ FilledAt(p) /\ ~closed => storage[slotOf(p)] = p
         /\ p \in Items
<1> USE DEF RingInv
<1>1. FilledAt(p) <=> state[slotOf(p)] = 1 /\ Serving(p)
  BY DEF FilledAt, Serving
<1>2. FilledAt(p) <=> ~FillsAt(p)
  BY <1>1 DEF StatesTell, LapsServe
<1>3. ~FillsAt(p) => ~StoresAt(p)
  BY DEF FillsAt, StoresAt, Filling
<1>4. FilledAt(p) /\ ~closed => storage[slotOf(p)] = p
  BY <1>1, <1>2, <1>3 DEF ItemsTell
<1>5. p \in Items
  BY QueueAssumption DEF TypeOK, PositionsLie, Items
<1> QED BY <1>2, <1>4, <1>5

\* At the place of a position there is None while it is being filled.
LEMMA CellsAre ==
  RingInv /\ ~closed =>
    /\ CellsOfRing \in Seq(CellValues)
    /\ Len(CellsOfRing) = tail - head
    /\ \A p \in Nat : head <= p /\ p < tail =>
         CellsOfRing[p - head + 1] = IF FillsAt(p) THEN None ELSE p
<1> SUFFICES ASSUME RingInv, ~closed
             PROVE  /\ CellsOfRing \in Seq(CellValues)
                    /\ Len(CellsOfRing) = tail - head
                    /\ \A p \in Nat : head <= p /\ p < tail =>
                         CellsOfRing[p - head + 1] = IF FillsAt(p) THEN None ELSE p
  OBVIOUS
<1>1. head \in Nat /\ tail \in Nat /\ head <= tail
  BY DEF RingInv, TypeOK, PositionsLie
<1>2. CellsOfRing = [i \in 1 .. tail - head |->
        IF FilledAt(head + i - 1) THEN storage[slotOf(head + i - 1)] ELSE None]
  BY DEF CellsOfRing
<1>3. ASSUME NEW i \in 1 .. tail - head, NEW p \in Nat, p = head + i - 1
      PROVE  /\ CellsOfRing[i] = IF FillsAt(p) THEN None ELSE p
             /\ CellsOfRing[i] \in CellValues
  <2>1. head <= p /\ p < tail
    BY <1>1, <1>3
  <2>2. CellsOfRing[i] = IF FilledAt(p) THEN storage[slotOf(p)] ELSE None
    BY <1>2, <1>3
  <2>3. (FilledAt(p) <=> ~FillsAt(p)) /\ (FilledAt(p) => storage[slotOf(p)] = p) /\ p \in Items
    BY <2>1, FilledIs
  <2> QED BY <2>2, <2>3 DEF CellValues
<1>4. CellsOfRing \in [1 .. tail - head -> CellValues]
  <2>1. \A i \in 1 .. tail - head : CellsOfRing[i] \in CellValues
    <3>1. TAKE i \in 1 .. tail - head
    <3>2. head + i - 1 \in Nat
      BY <1>1
    <3>3. PICK p \in Nat : p = head + i - 1
      BY <3>2
    <3> QED BY <1>3, <3>3
  <2> QED BY <1>2, <2>1
<1>5. \A p \in Nat : head <= p /\ p < tail => CellsOfRing[p - head + 1] = IF FillsAt(p) THEN None ELSE p
  <2>1. TAKE p \in Nat
  <2>2. HAVE head <= p /\ p < tail
  <2>3. p - head + 1 \in 1 .. tail - head /\ p = head + (p - head + 1) - 1
    BY <1>1, <2>2
  <2> QED BY <1>3, <2>3
<1>6. tail - head \in Nat
  BY <1>1
<1> HIDE DEF CellsOfRing
<1> QED BY <1>4, <1>5, <1>6, SeqOf

LEMMA CellsAreNext ==
  RingInv' /\ ~closed' =>
    /\ CellsOfRing' \in Seq(CellValues)
    /\ Len(CellsOfRing') = tail' - head'
    /\ \A p \in Nat : head' <= p /\ p < tail' =>
         CellsOfRing'[p - head' + 1] = IF FillsAt(p)' THEN None ELSE p
<1> DEFINE A == RingInv /\ ~closed
           B == /\ CellsOfRing \in Seq(CellValues)
                /\ Len(CellsOfRing) = tail - head
                /\ \A p \in Nat : head <= p /\ p < tail =>
                     CellsOfRing[p - head + 1] = IF FillsAt(p) THEN None ELSE p
<1>1. A => B
  BY CellsAre
<1> HIDE DEF A, B
<1>2. A' => B'
  BY <1>1, PTL
<1> QED BY <1>2 DEF A, B

\* An action that leaves both ends and what is being filled leaves the cells.
LEMMA CellsKept ==
  ASSUME RingInv, RingInv', ~closed, ~closed', head' = head, tail' = tail,
         \A p \in Nat : FillsAt(p)' <=> FillsAt(p)
  PROVE  CellsOfRing' = CellsOfRing
<1> DEFINE c == CellsOfRing
           d == CellsOfRing'
           n == tail - head
<1>1. head \in Nat /\ tail \in Nat
  BY DEF RingInv, TypeOK
<1>2. c \in Seq(CellValues) /\ d \in Seq(CellValues) /\ Len(c) = n /\ Len(d) = n
  BY CellsAre, CellsAreNext
<1>3. ASSUME NEW i \in 1 .. n PROVE c[i] = d[i]
  <2>1. PICK p \in Nat : p = head + i - 1
    BY <1>1
  <2>2. head <= p /\ p < tail /\ p - head + 1 = i
    BY <1>1, <2>1
  <2>3. c[i] = IF FillsAt(p) THEN None ELSE p
    BY <2>2, CellsAre
  <2>4. d[i] = IF FillsAt(p)' THEN None ELSE p
    BY <2>2, CellsAreNext
  <2> QED BY <2>3, <2>4
<1> HIDE DEF c, d, n
<1>4. c = d
  BY <1>2, <1>3, SeqEqual
<1> QED BY <1>4 DEF c, d
LEMMA ClaimReserves ==
  ASSUME RingInv, RingInv', NEW t \in Producers, Claim(t)
  PROVE  Cells!Reserve
<1> DEFINE c == CellsOfRing
           d == CellsOfRing'
           n == tail - head
           e == Append(c, None)
<1>1. /\ head \in Nat /\ tail \in Nat /\ head <= tail
      /\ head' = head /\ tail' = tail + 1 /\ ~closed /\ ~closed'
  BY DEF RingInv, TypeOK, PositionsLie, Claim
<1>2. c \in Seq(CellValues) /\ d \in Seq(CellValues) /\ Len(c) = n /\ Len(d) = n + 1 /\ n \in Nat
  BY <1>1, CellsAre, CellsAreNext
<1>3. None \in CellValues
  BY DEF CellValues
<1>4. \A p \in Nat : FillsAt(p)' <=> FillsAt(p) \/ p = tail
  BY ClaimWork DEF RingInv
<1>5. ASSUME NEW i \in 1 .. n + 1 PROVE d[i] = IF i <= n THEN c[i] ELSE None
  <2>1. PICK p \in Nat : p = head + i - 1
    BY <1>1, <1>2
  <2>2. head <= p /\ p < tail + 1 /\ p - head + 1 = i /\ (i <= n <=> p < tail) /\ (~(i <= n) => p = tail)
    BY <1>1, <2>1
  <2>3. d[i] = IF FillsAt(p)' THEN None ELSE p
    BY <1>1, <2>2, CellsAreNext
  <2>4. i <= n => c[i] = IF FillsAt(p) THEN None ELSE p
    BY <1>1, <2>2, CellsAre
  <2>5. i <= n => p # tail
    BY <1>1, <2>2
  <2> QED BY <1>4, <2>2, <2>3, <2>4, <2>5
<1> HIDE DEF c, d, n
<1>6. /\ e \in Seq(CellValues) /\ Len(e) = n + 1
      /\ \A i \in 1 .. n : e[i] = c[i]
      /\ e[n + 1] = None
  BY <1>2, <1>3, AppendProperties
<1> HIDE DEF e
<1>7. ASSUME NEW i \in 1 .. n + 1 PROVE d[i] = e[i]
  <2>1. CASE i <= n
    <3>1. i \in 1 .. n
      BY <1>2, <2>1
    <3> QED BY <1>5, <1>6, <2>1, <3>1
  <2>2. CASE ~(i <= n)
    <3>1. i = n + 1
      BY <1>2, <2>2
    <3> QED BY <1>5, <1>6, <2>2, <3>1
  <2> QED BY <2>1, <2>2
<1>8. d = e
  BY <1>2, <1>6, <1>7, SeqEqual
<1> QED BY <1>8 DEF Cells!Reserve, c, d, e

\* While a position waits to be published its slot is free: of Cap slots the
\* filled cells have at most the others.
LEMMA RoomToFill ==
  ASSUME RingInv, ~closed, NEW t \in Producers, pc[t] = "publish"
  PROVE  Cardinality({i \in 1 .. tail - head : CellsOfRing[i] # None}) < Cap
<1> DEFINE F == {i \in 1 .. tail - head : CellsOfRing[i] # None}
           slot == slotOf(pos[t])
           R == SlotIds \ {slot}
           f == [i \in F |-> slotOf(head + i - 1)]
<1>1. head \in Nat /\ tail \in Nat /\ Cap \in Nat \ {0}
  BY Sizes DEF RingInv, TypeOK
<1>2. pos[t] \in Nat /\ Serving(pos[t]) /\ FillsAt(pos[t])
  BY DEF RingInv, TypeOK, LapsServe, FillsAt, Filling, Threads
<1>3. ASSUME NEW i \in F PROVE head + i - 1 \in Nat /\ Serving(head + i - 1) /\ head + i - 1 # pos[t]
  <2>1. PICK p \in Nat : p = head + i - 1
    BY <1>1
  <2>2. head <= p /\ p < tail /\ p - head + 1 = i
    BY <1>1, <2>1
  <2>3. ~FillsAt(p)
    BY <2>2, CellsAre
  <2>4. Serving(p) /\ p # pos[t]
    BY <1>2, <2>2, <2>3 DEF RingInv, LapsServe
  <2> QED BY <2>1, <2>4
<1>4. ASSUME NEW i \in F PROVE slotOf(head + i - 1) \in R
  BY <1>2, <1>3, PlaceType, OnePerSlot
<1>5. ASSUME NEW i \in F, NEW k \in F, slotOf(head + i - 1) = slotOf(head + k - 1) PROVE i = k
  <2>1. head + i - 1 = head + k - 1
    BY <1>3, <1>5, OnePerSlot
  <2>2. i \in Nat /\ k \in Nat
    BY <1>1
  <2> QED BY <1>1, <2>1, <2>2
<1>6. f \in [F -> R] /\ \A i, k \in F : f[i] = f[k] => i = k
  BY <1>4, <1>5
<1>7. f \in Injection(F, R)
  <2>1. DOMAIN f = F
    OBVIOUS
  <2> HIDE DEF f, F, R
  <2> QED BY <1>6, <2>1 DEF Injection, IsInjective
<1>8. 0 \in Int /\ Cap - 1 \in Int /\ ~(0 > Cap - 1) /\ (Cap - 1) - 0 + 1 = Cap
  BY <1>1
<1>9. IsFiniteSet(SlotIds) /\ Cardinality(SlotIds) = Cap
  BY <1>8, FS_Interval DEF SlotIds
<1>10. slot \in SlotIds
  BY <1>2, PlaceType
<1>11. IsFiniteSet(R) /\ Cardinality(R) = Cap - 1
  BY <1>9, <1>10, FS_RemoveElement
<1>12. IsFiniteSet(F) /\ Cardinality(F) <= Cap - 1
  <2> HIDE DEF f, F, R
  <2> QED BY <1>7, <1>11, FS_Injection
<1>13. Cardinality(F) \in Nat
  BY <1>12, FS_CardinalityType
<1> HIDE DEF F
<1>14. Cardinality(F) < Cap
  BY <1>1, <1>12, <1>13
<1> QED BY <1>14 DEF F

\* The abstract module counts as this one does.
LEMMA SameCardinality ==
  ASSUME NEW S
  PROVE  Cells!Cardinality(S) = Cardinality(S)
BY DEF Cells!Cardinality, Cardinality

LEMMA PublishFills ==
  ASSUME RingInv, RingInv', NEW t \in Producers, Publish(t)
  PROVE  Cells!Fill
<1> DEFINE c == CellsOfRing
           d == CellsOfRing'
           n == tail - head
           x == pos[t]
           k == x - head + 1
<1>1. pc[t] = "publish" /\ head' = head /\ tail' = tail /\ closed' = closed
  BY DEF Publish, Goto
<1>2. ~closed
  BY <1>1 DEF RingInv, ClosedIsQuiet, Threads
<1>3. head \in Nat /\ tail \in Nat /\ x \in Nat /\ head <= x /\ x < tail
  BY <1>1 DEF RingInv, TypeOK, PositionsLie, Filling, Threads
<1>4. FillsAt(x) /\ x \in Items
  BY <1>1, <1>3, FilledIs DEF FillsAt, Filling
<1>5. \A p \in Nat : FillsAt(p)' <=> FillsAt(p) /\ p # x
  BY PublishWork DEF RingInv
<1>6. c \in Seq(CellValues) /\ d \in Seq(CellValues) /\ Len(c) = n /\ Len(d) = n /\ k \in 1 .. n
  BY <1>1, <1>2, <1>3, CellsAre, CellsAreNext
<1>7. DOMAIN c = 1 .. n
  BY <1>6, LenProperties
<1>8. c[k] = None
  BY <1>2, <1>3, <1>4, CellsAre
<1>9. ASSUME NEW i \in 1 .. n PROVE d[i] = (IF i = k THEN x ELSE c[i]) /\ c[i] # x
  <2>1. PICK p \in Nat : p = head + i - 1
    BY <1>3
  <2>2. head <= p /\ p < tail /\ p - head + 1 = i /\ (p = x <=> i = k)
    BY <1>3, <2>1
  <2>3. d[i] = IF FillsAt(p)' THEN None ELSE p
    BY <1>1, <1>2, <2>2, CellsAreNext
  <2>4. c[i] = IF FillsAt(p) THEN None ELSE p
    BY <1>2, <2>2, CellsAre
  <2>5. x # None
    BY <1>3, QueueAssumption
  <2> QED BY <1>4, <1>5, <2>2, <2>3, <2>4, <2>5
<1>10. Cardinality({i \in 1 .. n : c[i] # None}) < Cap
  BY <1>1, <1>2, RoomToFill
<1> HIDE DEF c, d, n, k
<1>11. x \in CellValues
  BY <1>4 DEF CellValues
<1>12. d = [c EXCEPT ![k] = x]
  <2>1. [c EXCEPT ![k] = x] \in Seq(CellValues) /\ Len([c EXCEPT ![k] = x]) = n
        /\ \A i \in 1 .. n : [c EXCEPT ![k] = x][i] = IF i = k THEN x ELSE c[i]
    BY <1>6, <1>11, ExceptSeq
  <2> QED BY <1>6, <1>9, <2>1, SeqEqual
<1>13. \E i \in DOMAIN c, y \in Items :
         /\ c[i] = None
         /\ Cardinality({j \in DOMAIN c : c[j] # None}) < Cap
         /\ \A j \in {m \in DOMAIN c : c[m] # None} : c[j] # y
         /\ d = [c EXCEPT ![i] = y]
  BY <1>4, <1>6, <1>7, <1>8, <1>9, <1>10, <1>12
<1>14. Cells!Cardinality({j \in DOMAIN c : c[j] # None}) = Cardinality({j \in DOMAIN c : c[j] # None})
  BY SameCardinality
<1> QED BY <1>13, <1>14 DEF Cells!Fill, Cells!Filled, c, d

LEMMA CasHeadTakes ==
  ASSUME RingInv, RingInv', NEW t \in Consumers, CasHead(t)
  PROVE  Cells!Take
<1> DEFINE c == CellsOfRing
           d == CellsOfRing'
           n == tail - head
<1>1. pc[t] = "cas" /\ pos[t] = head /\ head' = head + 1 /\ tail' = tail /\ closed' = closed
  BY DEF CasHead, Goto
<1>2. ~closed
  BY <1>1 DEF RingInv, ClosedIsQuiet, Threads
<1>3. head \in Nat /\ tail \in Nat
  BY DEF RingInv, TypeOK
<1>4. head < tail /\ ~FillsAt(head)
  BY <1>1, <1>3 DEF RingInv, LooksHold, StatesTell
<1>5. \A p \in Nat : FillsAt(p)' <=> FillsAt(p)
  BY CasHeadWork DEF RingInv
<1>6. /\ c \in Seq(CellValues) /\ Len(c) = n
      /\ d \in Seq(CellValues) /\ Len(d) = n - 1
      /\ n \in Nat /\ n >= 1
  BY <1>1, <1>2, <1>3, <1>4, CellsAre, CellsAreNext
<1>7. c[1] = head
  <2>1. head - head + 1 = 1 /\ head <= head
    BY <1>3
  <2> QED BY <1>2, <1>3, <1>4, <2>1, CellsAre
<1>8. ASSUME NEW i \in 1 .. n - 1 PROVE d[i] = c[i + 1]
  <2>1. PICK p \in Nat : p = head + i
    BY <1>3, <1>6
  <2>2. head + 1 <= p /\ head <= p /\ p < tail /\ p - (head + 1) + 1 = i /\ p - head + 1 = i + 1
    BY <1>3, <2>1
  <2>3. d[i] = IF FillsAt(p)' THEN None ELSE p
    BY <1>1, <1>2, <2>2, CellsAreNext
  <2>4. c[i + 1] = IF FillsAt(p) THEN None ELSE p
    BY <1>2, <2>2, CellsAre
  <2> QED BY <1>5, <2>3, <2>4
<1> HIDE DEF c, d, n
<1>9. c # <<>>
  BY <1>6, EmptySeq
<1>10. Tail(c) \in Seq(CellValues) /\ Len(Tail(c)) = n - 1 /\ \A i \in 1 .. n - 1 : Tail(c)[i] = c[i + 1]
  BY <1>6, <1>9, HeadTailProperties
<1>11. d = Tail(c)
  BY <1>6, <1>8, <1>10, SeqEqual
<1>12. Head(c) # None
  <2>1. Head(c) = c[1]
    BY <1>6, <1>9
  <2> QED BY <1>3, <1>7, <2>1, QueueAssumption
<1> QED BY <1>9, <1>11, <1>12 DEF Cells!Take, c, d

\* The ring implements the queue of cells of FifoCells: a push reserves a cell
\* with its position and fills it when it publishes, a pop takes the first one
\* when its compare_exchange succeeds (RingQueue::place, tryPop, ~RingQueue).
THEOREM RingIsFifo == Spec => RefinesFifo
<1>1. ASSUME Init PROVE Cells!Init
  <2>1. RingInv /\ ~closed /\ tail - head = 0
    <3>1. RingInv
      BY <1>1, RingInit
    <3>2. ~closed /\ tail = 0 /\ head = 0
      BY <1>1 DEF Init
    <3> QED BY <3>1, <3>2
  <2>2. CellsOfRing \in Seq(CellValues) /\ Len(CellsOfRing) = 0
    BY <2>1, CellsAre
  <2> HIDE DEF CellsOfRing
  <2>3. CellsOfRing = <<>>
    BY <2>2, EmptySeq
  <2> QED BY <2>3 DEF Cells!Init
<1>2. ASSUME RingInv, RingInv', [Next]_vars PROVE [Cells!Next]_CellsOfRing
  <2>1. ASSUME NEW t \in Producers, Claim(t) PROVE Cells!Next
    BY <1>2, <2>1, ClaimReserves DEF Cells!Next
  <2>2. ASSUME NEW t \in Producers, Publish(t) PROVE Cells!Next
    BY <1>2, <2>2, PublishFills DEF Cells!Next
  <2>3. ASSUME NEW t \in Consumers, CasHead(t) PROVE Cells!Next
    BY <1>2, <2>3, CasHeadTakes DEF Cells!Next
  <2>4. ASSUME Destroy PROVE Cells!Next
    <3>1. CellsOfRing' = <<>>
      BY <2>4 DEF Destroy, CellsOfRing
    <3> QED BY <3>1 DEF Cells!Next, Cells!Clear
  <2>5. ASSUME Next, ~\E t \in Producers : Claim(t) \/ Publish(t), ~\E t \in Consumers : CasHead(t),
               ~Destroy
        PROVE  CellsOfRing' = CellsOfRing
    <3>1. PICK t \in Threads :
            Quiet(t) \/ (t \in Producers /\ Construct(t))
            \/ (t \in Consumers /\ (MoveOut(t) \/ ClearState(t) \/ CountPop(t)))
      BY <2>5, Steps DEF Threads
    <3>2. \A p \in Nat : FillsAt(p)' <=> FillsAt(p)
      BY <1>2, <3>1, QuietWork, ConstructWork, MoveOutWork, ClearStateWork, CountPopWork
         DEF RingInv, SameWork
    <3>3. head' = head /\ tail' = tail /\ closed' = closed
      BY <3>1, QuietFrame DEF Construct, MoveOut, ClearState, CountPop
    <3>4. ~closed
      <4>1. CASE closed
        <5>1. \A u \in Threads : pc[u] = "idle"
          BY <1>2, <4>1 DEF RingInv, ClosedIsQuiet
        <5> QED BY <3>1, <4>1, <5>1 DEF Quiet, AwaitLap, LoadHead, CheckLap, CheckState, CasFailed,
                ResetPops, Discard, NextLap, Construct, MoveOut, ClearState, CountPop, Goto
      <4> QED BY <4>1
    <3> QED BY <1>2, <3>2, <3>3, <3>4, CellsKept
  <2>6. CASE UNCHANGED vars
    BY <2>6 DEF vars, CellsOfRing, FilledAt
  <2> QED BY <1>2, <2>1, <2>2, <2>3, <2>4, <2>5, <2>6
<1> QED BY <1>1, <1>2, RingInvariant, PTL DEF Spec, RefinesFifo, Cells!Spec

=============================================================================
