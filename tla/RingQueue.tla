------------------------------ MODULE RingQueue ------------------------------
(***************************************************************************)
(* The bounded multi-producer/multi-consumer queue of the pool and of the  *)
(* background lane (src/sc/threading/ring_queue.hpp).                      *)
(*                                                                         *)
(* One action per access to shared memory.  A position is an index that    *)
(* only grows (m_head, m_tail); it lies in slot pos % Cap, in lap          *)
(* pos \div Cap, and its slot belongs to a granule of GranuleSlots slots.  *)
(* A granule carries the lap it serves.                                    *)
(*                                                                         *)
(* The item of a push is named by the position it was pushed at.  Ghost    *)
(* state: got is the item a consumer has moved out.                        *)
(***************************************************************************)
EXTENDS Naturals, FiniteSets, Sequences

CONSTANTS
  Producers,     \* threads that call push
  Consumers,     \* threads that call tryPop
  Cap,           \* REAL_CAP, the number of slots
  GranuleSlots,  \* GRANULE_SLOTS
  Reclaim,       \* RECLAIM: several blocks, their memory is given back
  MaxPush,       \* bound: pushes
  None           \* no item: raw or destroyed storage

ASSUME QueueAssumption ==
  /\ Cap \in Nat \ {0}
  /\ GranuleSlots \in Nat \ {0}
  /\ Cap % GranuleSlots = 0
  /\ Reclaim \in BOOLEAN
  /\ IF Reclaim THEN Cap > GranuleSlots ELSE GranuleSlots = 1
  /\ MaxPush \in Nat
  /\ Producers \cap Consumers = {}
  /\ None \notin Nat

VARIABLES
  head,      \* m_head
  tail,      \* m_tail
  laps,      \* m_laps, per granule
  pops,      \* m_pops, per granule
  state,     \* Slot::state, per slot
  storage,   \* Slot::storage, per slot
  pc,        \* where a thread is in place or tryPop
  pos,       \* the position a thread has claimed or looks at
  got,       \* ghost: what a consumer has moved out of its slot
  closed     \* the destructor has run

vars == <<head, tail, laps, pops, state, storage, pc, pos, got, closed>>

Threads == Producers \cup Consumers
SlotIds == 0 .. Cap - 1
Granules == 0 .. (Cap \div GranuleSlots) - 1
Items == 0 .. MaxPush - 1

slotOf(p) == p % Cap
lapOf(p) == p \div Cap
granuleOf(p) == (p % Cap) \div GranuleSlots

\* The slots discardRingMemory is called for.
slotsOf(g) == {s \in SlotIds : s \div GranuleSlots = g}

Goto(t, from, to) ==
  /\ pc[t] = from
  /\ pc' = [pc EXCEPT ![t] = to]

Init ==
  /\ head = 0
  /\ tail = 0
  /\ laps = [g \in Granules |-> 0]
  /\ pops = [g \in Granules |-> 0]
  /\ state = [s \in SlotIds |-> 0]
  /\ storage = [s \in SlotIds |-> None]
  /\ pc = [t \in Threads |-> "idle"]
  /\ pos = [t \in Threads |-> 0]
  /\ got = [t \in Consumers |-> None]
  /\ closed = FALSE

-----------------------------------------------------------------------------
(* push: emplace has built the item, place puts it in. *)

Claim(t) ==
  /\ ~closed
  /\ tail < MaxPush
  /\ Goto(t, "idle", "wait")
  /\ pos' = [pos EXCEPT ![t] = tail]
  /\ tail' = tail + 1
  /\ UNCHANGED <<head, laps, pops, state, storage, got, closed>>

\* A mistake in place: it does not wait for the lap.
AwaitLapNot(t) ==
  /\ Goto(t, "wait", "construct")
  /\ UNCHANGED <<head, tail, laps, pops, state, storage, pos, got, closed>>

\* The spinning while loop: it ends when the granule serves the lap.
AwaitLap(t) ==
  /\ laps[granuleOf(pos[t])] = lapOf(pos[t])
  /\ Goto(t, "wait", "construct")
  /\ UNCHANGED <<head, tail, laps, pops, state, storage, pos, got, closed>>

Construct(t) ==
  /\ Goto(t, "construct", "publish")
  /\ storage' = [storage EXCEPT ![slotOf(pos[t])] = pos[t]]
  /\ UNCHANGED <<head, tail, laps, pops, state, pos, got, closed>>

Publish(t) ==
  /\ Goto(t, "publish", "idle")
  /\ state' = [state EXCEPT ![slotOf(pos[t])] = 1]
  /\ UNCHANGED <<head, tail, laps, pops, storage, pos, got, closed>>

-----------------------------------------------------------------------------
(* tryPop, with release. *)

LoadHead(t) ==
  /\ ~closed
  /\ Goto(t, "idle", "checkLap")
  /\ pos' = [pos EXCEPT ![t] = head]
  /\ got' = [got EXCEPT ![t] = None]
  /\ UNCHANGED <<head, tail, laps, pops, state, storage, closed>>

CheckLap(t) ==
  /\ Goto(t, "checkLap",
          IF laps[granuleOf(pos[t])] = lapOf(pos[t]) THEN "checkState" ELSE "idle")
  /\ UNCHANGED <<head, tail, laps, pops, state, storage, pos, got, closed>>

CheckState(t) ==
  /\ Goto(t, "checkState", IF state[slotOf(pos[t])] = 0 THEN "idle" ELSE "cas")
  /\ UNCHANGED <<head, tail, laps, pops, state, storage, pos, got, closed>>

\* A mistake in tryPop: a load and a store of head instead of the CAS.
CasHeadNot(t) ==
  /\ Goto(t, "cas", "move")
  /\ head' = pos[t] + 1
  /\ UNCHANGED <<tail, laps, pops, state, storage, pos, got, closed>>

CasHead(t) ==
  /\ head = pos[t]
  /\ Goto(t, "cas", "move")
  /\ head' = pos[t] + 1
  /\ UNCHANGED <<tail, laps, pops, state, storage, pos, got, closed>>

\* compare_exchange_weak: it may also fail while head is pos.
CasFailed(t) ==
  /\ Goto(t, "cas", "checkLap")
  /\ pos' = [pos EXCEPT ![t] = head]
  /\ UNCHANGED <<head, tail, laps, pops, state, storage, got, closed>>

MoveOut(t) ==
  /\ Goto(t, "move", "clear")
  /\ got' = [got EXCEPT ![t] = storage[slotOf(pos[t])]]
  /\ storage' = [storage EXCEPT ![slotOf(pos[t])] = None]
  /\ UNCHANGED <<head, tail, laps, pops, state, pos, closed>>

ClearState(t) ==
  /\ Goto(t, "clear", IF Reclaim THEN "count" ELSE "nextLap")
  /\ state' = [state EXCEPT ![slotOf(pos[t])] = 0]
  /\ UNCHANGED <<head, tail, laps, pops, storage, pos, got, closed>>

\* A mistake in release: it takes the old value of the fetch_add for the new.
CountPopEarly(t) ==
  LET g == granuleOf(pos[t]) IN
  /\ Goto(t, "count", IF pops[g] + 2 = GranuleSlots THEN "reset" ELSE "idle")
  /\ pops' = [pops EXCEPT ![g] = @ + 1]
  /\ UNCHANGED <<head, tail, laps, state, storage, pos, got, closed>>

\* The fetch_add of release: only the last pop of the granule goes on.
CountPop(t) ==
  LET g == granuleOf(pos[t]) IN
  /\ Goto(t, "count", IF pops[g] + 1 = GranuleSlots THEN "reset" ELSE "idle")
  /\ pops' = [pops EXCEPT ![g] = @ + 1]
  /\ UNCHANGED <<head, tail, laps, state, storage, pos, got, closed>>

ResetPops(t) ==
  /\ Goto(t, "reset", "discard")
  /\ pops' = [pops EXCEPT ![granuleOf(pos[t])] = 0]
  /\ UNCHANGED <<head, tail, laps, state, storage, pos, got, closed>>

\* discardRingMemory: the slots read as zero afterwards, or (Windows, and
\* pages that lie only partly in the block) as they were.
Discard(t) ==
  LET mine == slotsOf(granuleOf(pos[t])) IN
  /\ Goto(t, "discard", "nextLap")
  /\ \E zeroed \in {{}, mine} :
       /\ state' = [s \in SlotIds |-> IF s \in zeroed THEN 0 ELSE state[s]]
       /\ storage' = [s \in SlotIds |-> IF s \in zeroed THEN None ELSE storage[s]]
  /\ UNCHANGED <<head, tail, laps, pops, pos, got, closed>>

\* A mistake in release: the granule stays in its lap.
NextLapSame(t) ==
  /\ Goto(t, "nextLap", "idle")
  /\ laps' = [laps EXCEPT ![granuleOf(pos[t])] = lapOf(pos[t])]
  /\ UNCHANGED <<head, tail, pops, state, storage, pos, got, closed>>

NextLap(t) ==
  /\ Goto(t, "nextLap", "idle")
  /\ laps' = [laps EXCEPT ![granuleOf(pos[t])] = lapOf(pos[t]) + 1]
  /\ UNCHANGED <<head, tail, pops, state, storage, pos, got, closed>>

-----------------------------------------------------------------------------

\* ~RingQueue: destroys what was pushed and not popped.  Nothing runs next to it.
Destroy ==
  LET left == {slotOf(p) : p \in {q \in head .. tail - 1 : state[slotOf(q)] = 1}} IN
  /\ ~closed
  /\ \A t \in Threads : pc[t] = "idle"
  /\ closed' = TRUE
  /\ storage' = [s \in SlotIds |-> IF s \in left THEN None ELSE storage[s]]
  /\ UNCHANGED <<head, tail, laps, pops, state, pc, pos, got>>

Push(t) == Claim(t) \/ AwaitLap(t) \/ Construct(t) \/ Publish(t)

TryPop(t) ==
  \/ LoadHead(t) \/ CheckLap(t) \/ CheckState(t) \/ CasHead(t) \/ CasFailed(t)
  \/ MoveOut(t) \/ ClearState(t) \/ CountPop(t) \/ ResetPops(t) \/ Discard(t) \/ NextLap(t)

Next ==
  \/ \E t \in Producers : Push(t)
  \/ \E t \in Consumers : TryPop(t)
  \/ Destroy

Spec == Init /\ [][Next]_vars

\* Every thread that has begun a push or a pop goes on; a consumer keeps
\* polling, as the workers of the pool do, and a weak CAS does not fail for
\* good.
FairSpec ==
  /\ Spec
  /\ \A t \in Producers : WF_vars(AwaitLap(t) \/ Construct(t) \/ Publish(t))
  /\ \A t \in Consumers : WF_vars(TryPop(t)) /\ SF_vars(CasHead(t))

-----------------------------------------------------------------------------

(* Type correctness of the queue and of the positions its threads hold.    *)
TypeOK ==
  /\ head \in Nat
  /\ tail \in Nat
  /\ laps \in [Granules -> Nat]
  /\ pops \in [Granules -> Nat]
  /\ state \in [SlotIds -> {0, 1}]
  /\ storage \in [SlotIds -> Items \cup {None}]
  /\ pc \in [Threads -> {"idle", "wait", "construct", "publish", "checkLap", "checkState",
                         "cas", "move", "clear", "count", "reset", "discard", "nextLap"}]
  /\ pos \in [Threads -> Nat]
  /\ got \in [Consumers -> Items \cup {None}]
  /\ closed \in BOOLEAN

\* The slots whose storage or state a thread may be touching.
Touches(t) ==
  CASE pc[t] \in {"construct", "publish", "move", "clear"} -> {slotOf(pos[t])}
    [] pc[t] = "discard" -> slotsOf(granuleOf(pos[t]))
    [] OTHER -> {}

(* Two threads never work on the same slot: place constructs, tryPop moves *)
(* out and release discards, each without a lock, and only the laps of the *)
(* granules keep a producer of the next lap away from a consumer of the    *)
(* last one.                                                               *)
NoSharedSlot ==
  \A t, u \in Threads : t # u => Touches(t) \cap Touches(u) = {}

(* release gives a block back to the system only when nothing in it is     *)
(* needed: every slot has been popped and its item destroyed, since on     *)
(* Windows the pages may read back either way.                             *)
DiscardsOnlyEmptySlots ==
  \A t \in Consumers : pc[t] = "discard" =>
    \A s \in slotsOf(granuleOf(pos[t])) : state[s] = 0 /\ storage[s] = None

(* What tryPop hands out is the item that was pushed at that position,     *)
(* however often the ring has been reused in between.                      *)
PopsWhatWasPushed ==
  \A t \in Consumers : pc[t] \in {"clear", "count", "reset", "discard", "nextLap"} =>
    got[t] = pos[t]

(* An item of the queue is not leaked: once the destructor has run, no     *)
(* slot holds a constructed item.                                          *)
DestructorLeavesNothing ==
  closed => \A s \in SlotIds : storage[s] = None

(* No thread sees a slot half made or half gone, what goes in comes out,   *)
(* and nothing stays behind (place, tryPop, ~RingQueue).                   *)
Safe == TypeOK /\ NoSharedSlot /\ PopsWhatWasPushed /\ DestructorLeavesNothing

(* A producer that has claimed a position gets its slot in the end, as     *)
(* long as the consumers keep popping: a full ring blocks push, it does    *)
(* not stop it.                                                            *)
PushCompletes ==
  \A t \in Producers : pc[t] = "wait" ~> pc[t] = "idle"

-----------------------------------------------------------------------------
(* The queue of cells the ring stands for. *)

\* A position between head and tail is filled from the store of its state on.
FilledAt(p) == state[slotOf(p)] = 1 /\ laps[granuleOf(p)] = lapOf(p)

CellsOfRing ==
  IF closed THEN <<>>
  ELSE [i \in 1 .. tail - head |->
          IF FilledAt(head + i - 1) THEN storage[slotOf(head + i - 1)] ELSE None]

Cells == INSTANCE FifoCells WITH cells <- CellsOfRing

(* The ring behaves as a first-in first-out queue of cells: what is popped *)
(* is what was pushed first, nothing is lost, doubled or overtaken, and    *)
(* never more than Cap items are in it.                                    *)
RefinesFifo == Cells!Spec

=============================================================================
