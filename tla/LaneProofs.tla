----------------------------- MODULE LaneProofs -----------------------------
(***************************************************************************)
(* The background lane for every number of clients, threads, jobs, values  *)
(* and calls of initBackground: threads do not share slots, what           *)
(* backgroundPassed lets go is read by no job, and no job is lost.         *)
(***************************************************************************)
EXTENDS BackgroundLane, FiniteSetTheorems, SequenceTheorems, TLAPS

-----------------------------------------------------------------------------
(* Where a thread can be, and what its slot says there. *)

Out == {"off", "ended"}
\* Its slot is idle.
Quiet == {"top", "pop", "sleep", "takeWakeUp", "stillOn", "drop", "loadEpoch", "storeSince", "leave"}
\* Its slot shows the epoch it has loaded.
Busy == {"runJob", "forward", "run", "destroy"}
\* It may have got to a value.
Reading == {"run", "destroy", "drop"}

SlotType ==
  /\ slots \in Seq([since : Nat, taken : BOOLEAN])
  /\ slotOf \in [Threads -> Nat]
  /\ seenEpoch \in [Threads -> Nat]
  /\ DOMAIN pc = Actors

EpochType ==
  /\ held \in [Threads -> SUBSET Nat]
  /\ owed \in [Clients -> {None} \cup [old : Nat, mark : Nat]]
  /\ asks \in [Clients -> Nat]
  /\ laneEpoch \in Nat
  /\ current \in Nat
  /\ freed \subseteq Nat

\* A thread that runs has a slot of its own, and a slot that is taken is the
\* slot of one that runs.
SlotsBelong ==
  /\ \A w \in Threads : pc[w] \notin Out =>
       slotOf[w] \in 1 .. Len(slots) /\ slots[slotOf[w]].taken
  /\ \A v, w \in Threads : pc[v] \notin Out /\ pc[w] \notin Out /\ v # w => slotOf[v] # slotOf[w]
  /\ \A i \in 1 .. Len(slots) : slots[i].taken =>
       \E w \in Threads : pc[w] \notin Out /\ slotOf[w] = i

\* A slot is idle when nobody has it and while its thread has not entered.
SlotsIdle ==
  /\ \A i \in 1 .. Len(slots) : ~slots[i].taken => slots[i].since = LANE_IDLE
  /\ \A w \in Threads : pc[w] \in Quiet => slots[slotOf[w]].since = LANE_IDLE
  /\ \A w \in Threads : pc[w] \in Busy => slots[slotOf[w]].since = seenEpoch[w]

\* Values and epochs only grow.
EpochsGrow ==
  /\ \A w \in Threads : seenEpoch[w] <= laneEpoch
  /\ \A w \in Threads : held[w] # {} => pc[w] \in Reading
  /\ \A w \in Threads : \A v \in held[w] : v <= current
  /\ \A v \in freed : v < current
  /\ \A c \in Clients : owed[c] # None => owed[c].old < current
  /\ \A c \in Clients : pc[c] \in {"mark", "passed"} => owed[c] # None

\* A job that has got to a value entered before the mark of that value.
ReadersCameBefore ==
  \A c \in Clients, w \in Threads :
    /\ owed[c] # None
    /\ pc[c] # "mark"
    /\ pc[w] # "drop"
    /\ owed[c].old \in held[w]
    => seenEpoch[w] < owed[c].mark

\* The slots backgroundPassed has seen are of threads that do not read it.
PassedSlotsAreFree ==
  \A c \in Clients, w \in Threads :
    /\ pc[c] = "passed"
    /\ slotOf[w] < asks[c]
    /\ pc[w] # "drop"
    => owed[c].old \notin held[w]

EpochInv ==
  /\ SlotType
  /\ EpochType
  /\ SlotsBelong
  /\ SlotsIdle
  /\ EpochsGrow
  /\ ReadersCameBefore
  /\ PassedSlotsAreFree
  /\ OldValueIsUnread

-----------------------------------------------------------------------------
(* Where a job is, and what is counted. *)

InCells(j) == \E i \in 1 .. Len(cells) : cells[i].job = j
CountedOf(q, jb, p) ==
  {j \in Jobs : \/ \E i \in 1 .. Len(q) : q[i].job = j
                \/ \E a \in Actors : jb[a] = j /\ p[a] # "assignJob"}
Counted == CountedOf(cells, job, pc)
Marking(p) == {c \in Clients : p[c] = "mark"}

ClientHas == {"reserve", "fill", "assign", "assignJob"}
ThreadHas == {"takeWakeUp", "stillOn", "loadEpoch", "storeSince", "runJob", "forward", "run",
              "destroy", "drop", "count"}

JobsHavePlaces ==
  /\ \A i, k \in 1 .. Len(cells) : cells[i].job = cells[k].job => i = k
  /\ \A a, b \in Actors : job[a] = job[b] /\ job[a] # None => a = b
  /\ \A a \in Actors, i \in 1 .. Len(cells) :
       cells[i].job = job[a] => a \in Clients /\ pc[a] = "fill" /\ ~cells[i].filled
  /\ \A c \in Clients : pc[c] = "fill" => InCells(job[c])
  /\ \A c \in Clients : job[c] # None <=> pc[c] \in ClientHas
  /\ \A w \in Threads : job[w] # None <=> pc[w] \in ThreadHas

CapturesInPlaces ==
  /\ jobs \in 0 .. MaxJobs
  /\ \A i \in 1 .. Len(cells) : cells[i].job \in captured
  /\ \A a \in Actors : job[a] # None => job[a] <= jobs /\ (job[a] \in captured <=> pc[a] # "count")
  /\ \A j \in captured : /\ j <= jobs
                         /\ InCells(j) \/ \E a \in Actors : job[a] = j
  /\ \A j \in Jobs : promise[j] = "pending" => j \in captured

CountIsExact == outstanding = Cardinality(Counted)
MarksAreCounted == current = laneEpoch + Cardinality(Marking(pc)) /\ current <= MaxMarks

-----------------------------------------------------------------------------
(* The slots and the epochs. *)

\* What most steps are to the slots and the epochs: they leave them alone, and
\* a thread stays quiet or busy.
StaysQuietOrBusy(w) ==
  \/ pc'[w] = pc[w]
  \/ pc[w] \in Quiet \ {"drop"} /\ pc'[w] \in Quiet
  \/ pc[w] \in Busy /\ pc'[w] \in Busy /\ (pc[w] \in Reading => pc'[w] \in Reading)
  \/ pc[w] = "count" /\ pc'[w] = "goIdle"
  \/ pc[w] \in Out /\ pc'[w] \in Out

LeavesSlotsAlone ==
  /\ UNCHANGED <<slotVars, epochVars, seenEpoch, held>>
  /\ DOMAIN pc' = Actors
  /\ \A w \in Threads : StaysQuietOrBusy(w)
  /\ \A c \in Clients : /\ pc'[c] = "mark" <=> pc[c] = "mark"
                        /\ pc'[c] = "passed" => pc[c] = "passed"

\* A thread is no client.
LEMMA Apart ==
  ASSUME NEW c \in Clients, NEW w \in Threads
  PROVE  c # w /\ c \in Actors /\ w \in Actors
BY LaneAssumption DEF Actors

\* A step that leaves the slots and the epochs alone keeps the invariant.
LEMMA AlonePreserves ==
  ASSUME EpochInv, LeavesSlotsAlone
  PROVE  EpochInv'
<1>1. UNCHANGED <<slots, slotOf, laneEpoch, current, owed, asks, freed, seenEpoch, held>>
  BY DEF LeavesSlotsAlone, slotVars, epochVars
<1>2. \A w \in Threads : /\ pc'[w] \notin Out <=> pc[w] \notin Out
                         /\ pc'[w] \in Quiet => pc[w] \in Quiet
                         /\ pc'[w] \in Busy => pc[w] \in Busy
                         /\ pc[w] \in Reading => pc'[w] \in Reading
                         /\ pc[w] = "drop" => pc'[w] = "drop"
                         /\ pc'[w] = "drop" => held[w] = {} \/ pc[w] = "drop"
  BY DEF LeavesSlotsAlone, StaysQuietOrBusy, Out, Quiet, Busy, Reading, EpochInv, EpochsGrow
<1>3. \A c \in Clients : /\ pc'[c] = "mark" <=> pc[c] = "mark"
                         /\ pc'[c] = "passed" => pc[c] = "passed"
  BY DEF LeavesSlotsAlone
<1>4. SlotType' /\ EpochType'
  BY <1>1 DEF EpochInv, SlotType, EpochType, LeavesSlotsAlone
<1>5. SlotsBelong'
  BY <1>1, <1>2 DEF EpochInv, SlotsBelong
<1>6. SlotsIdle'
  BY <1>1, <1>2 DEF EpochInv, SlotsIdle
<1>7. EpochsGrow'
  BY <1>1, <1>2, <1>3 DEF EpochInv, EpochsGrow
<1>8. ReadersCameBefore'
  BY <1>1, <1>2, <1>3 DEF EpochInv, ReadersCameBefore
<1>9. PassedSlotsAreFree'
  BY <1>1, <1>2, <1>3 DEF EpochInv, PassedSlotsAreFree
<1>10. OldValueIsUnread'
  BY <1>1, <1>2 DEF EpochInv, OldValueIsUnread
<1> QED
  BY <1>4, <1>5, <1>6, <1>7, <1>8, <1>9, <1>10 DEF EpochInv

\* A step of one thread alone.
LEMMA ThreadAlone ==
  ASSUME EpochInv, NEW w \in Threads, NEW to,
         pc' = [pc EXCEPT ![w] = to],
         UNCHANGED <<slotVars, epochVars, seenEpoch, held>>,
         \/ pc[w] \in Quiet \ {"drop"} /\ to \in Quiet
         \/ pc[w] \in Busy /\ to \in Busy /\ (pc[w] \in Reading => to \in Reading)
         \/ pc[w] = "count" /\ to = "goIdle"
  PROVE  LeavesSlotsAlone
<1>1. DOMAIN pc' = Actors
  BY Apart DEF EpochInv, SlotType, Actors
<1>2. \A v \in Threads : StaysQuietOrBusy(v)
  BY <1>1 DEF StaysQuietOrBusy, EpochInv, SlotType, Actors
<1>3. \A c \in Clients : pc'[c] = pc[c]
  BY Apart DEF EpochInv, SlotType, Actors
<1> QED
  BY <1>1, <1>2, <1>3 DEF LeavesSlotsAlone

\* A step of one client alone, between places where it has nothing to do with
\* the epochs, or out of backgroundPassed.
LEMMA ClientAlone ==
  ASSUME EpochInv, NEW c \in Clients, NEW from, NEW to,
         Goto(c, from, to),
         UNCHANGED <<slotVars, epochVars, seenEpoch, held>>,
         from # "mark", to # "mark", to # "passed"
  PROVE  LeavesSlotsAlone
<1>1. DOMAIN pc' = Actors
  BY DEF Goto, EpochInv, SlotType, Actors
<1>2. \A v \in Threads : pc'[v] = pc[v]
  BY Apart DEF Goto, EpochInv, SlotType, Actors
<1>3. \A d \in Clients : /\ pc'[d] = "mark" <=> pc[d] = "mark"
                         /\ pc'[d] = "passed" => pc[d] = "passed"
  BY DEF Goto, EpochInv, SlotType, Actors
<1> QED
  BY <1>1, <1>2, <1>3 DEF LeavesSlotsAlone, StaysQuietOrBusy

LEMMA EpochInit == Init => EpochInv
<1> SUFFICES ASSUME Init PROVE EpochInv
  OBVIOUS
<1>1. /\ slots = <<>> /\ Len(slots) = 0 /\ slots \in Seq([since : Nat, taken : BOOLEAN])
  BY EmptySeq DEF Init
<1>2. \A w \in Threads : pc[w] = "off" /\ held[w] = {} /\ slotOf[w] = 0 /\ seenEpoch[w] = 0
  BY DEF Init, Actors
<1>3. \A c \in Clients : pc[c] = "idle" /\ owed[c] = None
  BY Apart DEF Init, Actors
<1>4. SlotType /\ EpochType
  BY <1>1 DEF Init, SlotType, EpochType
<1>5. laneEpoch = 0 /\ current = 0 /\ freed = {}
  BY DEF Init
<1>6. SlotsBelong /\ SlotsIdle
  BY <1>1, <1>2 DEF SlotsBelong, SlotsIdle, Out, Quiet, Busy
<1>7. EpochsGrow /\ ReadersCameBefore /\ PassedSlotsAreFree /\ OldValueIsUnread
  BY <1>2, <1>3, <1>5 DEF EpochsGrow, ReadersCameBefore, PassedSlotsAreFree, OldValueIsUnread
<1> QED
  BY <1>4, <1>6, <1>7 DEF EpochInv

\* The steps of a thread that touch neither its slot nor a value.
LEMMA QuietSteps ==
  ASSUME EpochInv, NEW w \in Threads,
         \/ CheckStop(w) \/ PopJob(w) \/ Wake(w) \/ Timeout(w) \/ TakeWakeUp(w) \/ CheckStillOn(w)
         \/ CheckCancelled(w) \/ Forward(w) \/ CountJob(w)
         \/ \E how \in {"value", "exception"} : JobEnds(w, how)
  PROVE  LeavesSlotsAlone
<1> USE DEF Goto, Quiet, Busy, Reading
<1>1. CASE CheckStop(w)
  BY <1>1, ThreadAlone DEF CheckStop
<1>2. CASE PopJob(w)
  BY <1>2, ThreadAlone DEF PopJob
<1>3. CASE Wake(w)
  BY <1>3, ThreadAlone DEF Wake
<1>4. CASE Timeout(w)
  BY <1>4, ThreadAlone DEF Timeout
<1>5. CASE TakeWakeUp(w)
  BY <1>5, ThreadAlone DEF TakeWakeUp
<1>6. CASE CheckStillOn(w)
  BY <1>6, ThreadAlone DEF CheckStillOn
<1>7. CASE CheckCancelled(w)
  BY <1>7, ThreadAlone DEF CheckCancelled
<1>8. CASE Forward(w)
  BY <1>8, ThreadAlone DEF Forward
<1>9. CASE CountJob(w)
  BY <1>9, ThreadAlone DEF CountJob
<1>10. CASE \E how \in {"value", "exception"} : JobEnds(w, how)
  BY <1>10, ThreadAlone DEF JobEnds
<1> QED
  BY <1>1, <1>2, <1>3, <1>4, <1>5, <1>6, <1>7, <1>8, <1>9, <1>10

\* The steps of a client that have nothing to do with slots or values.
LEMMA PlainClientSteps ==
  ASSUME EpochInv, NEW c \in Clients,
         \/ spawn(c) \/ (\E j \in Jobs : cancel(c, j)) \/ initBackground(c) \/ SwapThreads(c)
         \/ (pc[c] = "idle" /\ LoadCount(c))
         \/ Submit(c) \/ Wait(c) \/ NotPassed(c)
         \/ (\E w \in Threads : RequestStop(c, w)) \/ SignalStop(c)
         \/ PopDropped(c) \/ AssignCounted(c) \/ AssignJob(c) \/ TakeBack(c)
  PROVE  LeavesSlotsAlone
<1>0. ASSUME UNCHANGED pc, UNCHANGED <<slotVars, epochVars, seenEpoch, held>>
      PROVE  LeavesSlotsAlone
  BY <1>0 DEF LeavesSlotsAlone, StaysQuietOrBusy, EpochInv, SlotType
<1>1. CASE spawn(c)
  BY <1>1, ClientAlone DEF spawn
<1>2. CASE \E j \in Jobs : cancel(c, j)
  BY <1>0, <1>2 DEF cancel
<1>3. CASE initBackground(c)
  BY <1>3, ClientAlone DEF initBackground
<1>4. CASE SwapThreads(c)
  BY <1>4, ClientAlone DEF SwapThreads
<1>5. ASSUME LoadCount(c) PROVE LeavesSlotsAlone
  <2> Goto(c, pc[c], IF outstanding = 0 THEN "idle" ELSE "wait")
    BY <1>5 DEF LoadCount, Goto
  <2> QED
    BY <1>5, ClientAlone DEF LoadCount
<1>6. CASE Submit(c)
  <2>1. CASE Reserve(c)
    BY <2>1, ClientAlone DEF Reserve
  <2>2. CASE Fill(c)
    BY <2>2, ClientAlone DEF Fill
  <2>3. CASE Release(c)
    BY <2>3, ClientAlone DEF Release
  <2> QED
    BY <1>6, <2>1, <2>2, <2>3 DEF Submit
<1>7. CASE Wait(c)
  <2>1. CASE WaitCount(c)
    BY <2>1, ClientAlone DEF WaitCount
  <2> QED
    BY <1>5, <1>7, <2>1 DEF Wait
<1>8. CASE NotPassed(c)
  BY <1>8, ClientAlone DEF NotPassed
<1>9. CASE \E w \in Threads : RequestStop(c, w)
  BY <1>0, <1>9 DEF RequestStop
<1>10. CASE SignalStop(c)
  BY <1>10, ClientAlone DEF SignalStop
<1>11. CASE PopDropped(c)
  BY <1>11, ClientAlone DEF PopDropped
<1>12. CASE AssignCounted(c)
  BY <1>12, ClientAlone DEF AssignCounted
<1>13. CASE AssignJob(c)
  BY <1>13, ClientAlone DEF AssignJob
<1>14. CASE TakeBack(c)
  BY <1>14, ClientAlone DEF TakeBack
<1> QED
  BY <1>1, <1>2, <1>3, <1>4, <1>5, <1>6, <1>7, <1>8, <1>9, <1>10, <1>11, <1>12, <1>13, <1>14

\* JoinAll makes threads that have ended ones that can be started again.
LEMMA JoinAllAlone ==
  ASSUME EpochInv, NEW c \in Clients, JoinAll(c)
  PROVE  LeavesSlotsAlone
<1>1. \A a \in Actors : pc'[a] = IF a = c THEN "drain" ELSE IF a \in joining[c] THEN "off" ELSE pc[a]
  BY DEF JoinAll
<1>2. DOMAIN pc' = Actors
  BY DEF JoinAll, EpochInv, SlotType
<1>3. \A w \in Threads : StaysQuietOrBusy(w)
  BY <1>1, Apart DEF StaysQuietOrBusy, JoinAll, Out
<1>4. \A d \in Clients : d # c => pc'[d] = pc[d] \/ (pc[d] = "ended" /\ pc'[d] = "off")
  BY <1>1 DEF JoinAll, Actors
<1>5. pc[c] = "join" /\ pc'[c] = "drain"
  BY <1>1, Apart DEF JoinAll, Actors
<1>6. \A d \in Clients : /\ pc'[d] = "mark" <=> pc[d] = "mark"
                         /\ pc'[d] = "passed" => pc[d] = "passed"
  <2> TAKE d \in Clients
  <2>1. CASE d = c
    BY <1>5, <2>1
  <2>2. CASE d # c
    BY <1>4, <2>2
  <2> QED
    BY <2>1, <2>2
<1>7. UNCHANGED <<slotVars, epochVars, seenEpoch, held>>
  BY DEF JoinAll
<1> QED
  BY <1>2, <1>3, <1>6, <1>7 DEF LeavesSlotsAlone

\* LaneBusy::enter loads the epoch: the slot is still idle and the thread has
\* no value.
LEMMA LoadEpochPreserves ==
  ASSUME EpochInv, NEW w \in Threads, LoadEpoch(w)
  PROVE  EpochInv'
<1>1. /\ UNCHANGED <<slots, slotOf, laneEpoch, current, owed, asks, freed, held>>
      /\ pc[w] = "loadEpoch" /\ pc' = [pc EXCEPT ![w] = "storeSince"]
      /\ seenEpoch' = [seenEpoch EXCEPT ![w] = laneEpoch]
  BY DEF LoadEpoch, slotVars, epochVars, Goto
<1>2. /\ pc'[w] = "storeSince" /\ seenEpoch'[w] = laneEpoch
      /\ \A v \in Threads : v # w => pc'[v] = pc[v] /\ seenEpoch'[v] = seenEpoch[v]
      /\ \A c \in Clients : pc'[c] = pc[c]
  BY <1>1, Apart DEF EpochInv, SlotType, Actors
<1>3. held[w] = {}
  BY <1>1 DEF EpochInv, EpochsGrow, Reading
<1>4. SlotType' /\ EpochType'
  BY <1>1 DEF EpochInv, SlotType, EpochType
<1>5. SlotsBelong'
  BY <1>1, <1>2 DEF EpochInv, SlotsBelong, Out
<1>6. SlotsIdle'
  BY <1>1, <1>2 DEF EpochInv, SlotsIdle, Quiet, Busy
<1>7. EpochsGrow'
  BY <1>1, <1>2, <1>3 DEF EpochInv, EpochsGrow, EpochType
<1>8. ReadersCameBefore' /\ PassedSlotsAreFree' /\ OldValueIsUnread'
  BY <1>1, <1>2, <1>3 DEF EpochInv, ReadersCameBefore, PassedSlotsAreFree, OldValueIsUnread
<1> QED
  BY <1>4, <1>5, <1>6, <1>7, <1>8 DEF EpochInv

\* What a store of e to the slot of w leaves.
LEMMA StoreToSlot ==
  ASSUME SlotType, SlotsBelong, NEW w \in Threads, pc[w] \notin Out, NEW s \in Nat, NEW t \in BOOLEAN,
         slots' = [slots EXCEPT ![slotOf[w]] = [since |-> s, taken |-> t]]
  PROVE  /\ slotOf[w] \in 1 .. Len(slots)
         /\ slots' \in Seq([since : Nat, taken : BOOLEAN])
         /\ Len(slots') = Len(slots)
         /\ slots'[slotOf[w]].since = s /\ slots'[slotOf[w]].taken = t
         /\ \A i \in 1 .. Len(slots) : i # slotOf[w] => slots'[i] = slots[i]
         /\ \A v \in Threads : pc[v] \notin Out /\ v # w =>
              slotOf[v] \in 1 .. Len(slots) /\ slots'[slotOf[v]] = slots[slotOf[v]]
<1> DEFINE e == [since |-> s, taken |-> t]
<1>1. slotOf[w] \in 1 .. Len(slots)
  BY DEF SlotsBelong
<1>2. e \in [since : Nat, taken : BOOLEAN] /\ e.since = s /\ e.taken = t
  OBVIOUS
<1>3. /\ slots' \in Seq([since : Nat, taken : BOOLEAN])
      /\ Len(slots') = Len(slots)
      /\ \A i \in 1 .. Len(slots) : slots'[i] = IF i = slotOf[w] THEN e ELSE slots[i]
  <2> HIDE DEF e
  <2>1. slots' = [slots EXCEPT ![slotOf[w]] = e]
    BY DEF e
  <2> QED
    BY <1>1, <1>2, <2>1, ExceptSeq DEF SlotType
<1>4. \A v \in Threads : pc[v] \notin Out /\ v # w => slotOf[v] \in 1 .. Len(slots) /\ slotOf[v] # slotOf[w]
  BY DEF SlotsBelong
<1> QED
  BY <1>1, <1>2, <1>3, <1>4

\* The store of LaneBusy::enter: the slot shows the epoch from now on.
LEMMA StoreSincePreserves ==
  ASSUME EpochInv, NEW w \in Threads, StoreSince(w)
  PROVE  EpochInv'
<1>1. /\ UNCHANGED <<slotOf, laneEpoch, current, owed, asks, freed, seenEpoch, held>>
      /\ pc[w] = "storeSince" /\ pc' = [pc EXCEPT ![w] = "runJob"]
      /\ slots' = [slots EXCEPT ![slotOf[w]] = [since |-> seenEpoch[w], taken |-> slots[slotOf[w]].taken]]
  BY DEF StoreSince, epochVars, Goto
<1>2. /\ pc'[w] = "runJob"
      /\ \A v \in Threads : v # w => pc'[v] = pc[v]
      /\ \A c \in Clients : pc'[c] = pc[c]
  BY <1>1, Apart DEF EpochInv, SlotType, Actors
<1>3. pc[w] \notin Out /\ slots[slotOf[w]].taken
  BY <1>1 DEF EpochInv, SlotsBelong, Out
<1>4. /\ slotOf[w] \in 1 .. Len(slots)
      /\ slots' \in Seq([since : Nat, taken : BOOLEAN])
      /\ Len(slots') = Len(slots)
      /\ slots'[slotOf[w]].since = seenEpoch[w] /\ slots'[slotOf[w]].taken = TRUE
      /\ \A i \in 1 .. Len(slots) : i # slotOf[w] => slots'[i] = slots[i]
      /\ \A v \in Threads : pc[v] \notin Out /\ v # w =>
           slotOf[v] \in 1 .. Len(slots) /\ slots'[slotOf[v]] = slots[slotOf[v]]
  <2>1. slots' = [slots EXCEPT ![slotOf[w]] = [since |-> seenEpoch[w], taken |-> TRUE]]
    <3>1. slots[slotOf[w]].taken = TRUE
      BY <1>3, ElementOfSeq DEF EpochInv, SlotType, SlotsBelong
    <3> QED
      BY <1>1, <3>1
  <2>2. seenEpoch[w] \in Nat
    BY DEF EpochInv, SlotType
  <2> QED
    BY <1>3, <2>1, <2>2, StoreToSlot DEF EpochInv
<1>5. SlotType' /\ EpochType'
  BY <1>1, <1>4 DEF EpochInv, SlotType, EpochType
<1>6. SlotsBelong'
  <2>1. \A i \in 1 .. Len(slots) : slots'[i].taken = slots[i].taken
    <3>1. slots[slotOf[w]].taken = TRUE
      BY <1>3, <1>4, ElementOfSeq DEF EpochInv, SlotType
    <3> QED
      BY <1>4, <3>1
  <2>2. \A v \in Threads : pc'[v] \notin Out <=> pc[v] \notin Out
    BY <1>1, <1>2 DEF Out
  <2> QED
    BY <1>1, <1>4, <2>1, <2>2 DEF EpochInv, SlotsBelong
<1>7. SlotsIdle'
  <2>1. ASSUME NEW i \in 1 .. Len(slots'), ~slots'[i].taken PROVE slots'[i].since = LANE_IDLE
    BY <1>4, <2>1 DEF EpochInv, SlotsIdle
  <2>2. ASSUME NEW v \in Threads, v # w
        PROVE  /\ pc'[v] \in Quiet => slots'[slotOf'[v]].since = LANE_IDLE
               /\ pc'[v] \in Busy => slots'[slotOf'[v]].since = seenEpoch'[v]
    BY <1>1, <1>2, <1>4, <2>2 DEF EpochInv, SlotsIdle, Quiet, Busy, Out
  <2>3. /\ pc'[w] \in Quiet => slots'[slotOf'[w]].since = LANE_IDLE
        /\ pc'[w] \in Busy => slots'[slotOf'[w]].since = seenEpoch'[w]
    BY <1>1, <1>2, <1>4 DEF Quiet, Busy
  <2> QED
    BY <2>1, <2>2, <2>3 DEF SlotsIdle
<1>8. EpochsGrow'
  BY <1>1, <1>2 DEF EpochInv, EpochsGrow, Reading
<1>9. ReadersCameBefore' /\ PassedSlotsAreFree' /\ OldValueIsUnread'
  BY <1>1, <1>2 DEF EpochInv, ReadersCameBefore, PassedSlotsAreFree, OldValueIsUnread
<1> QED
  BY <1>5, <1>6, <1>7, <1>8, <1>9 DEF EpochInv

\* A job gets to the value in place, which nobody has replaced yet.
LEMMA ReadValuePreserves ==
  ASSUME EpochInv, NEW w \in Threads, ReadValue(w)
  PROVE  EpochInv'
<1>1. /\ UNCHANGED <<slots, slotOf, laneEpoch, current, owed, asks, freed, seenEpoch, pc>>
      /\ pc[w] \in Reading
      /\ held' = [held EXCEPT ![w] = @ \cup {current}]
  BY DEF ReadValue, slotVars, epochVars, Reading
<1>2. /\ held'[w] = held[w] \cup {current}
      /\ \A v \in Threads : v # w => held'[v] = held[v]
  BY <1>1 DEF EpochInv, EpochType
<1>3. SlotType' /\ EpochType'
  BY <1>1 DEF EpochInv, SlotType, EpochType
<1>4. SlotsBelong' /\ SlotsIdle'
  BY <1>1 DEF EpochInv, SlotsBelong, SlotsIdle
<1>5. EpochsGrow'
  BY <1>1, <1>2 DEF EpochInv, EpochsGrow, EpochType
<1>6. \A c \in Clients : owed[c] # None => owed[c].old < current /\ owed[c].old # current
  BY DEF EpochInv, EpochsGrow, EpochType
<1>7. ReadersCameBefore'
  BY <1>1, <1>2, <1>6 DEF EpochInv, ReadersCameBefore
<1>8. PassedSlotsAreFree'
  BY <1>1, <1>2, <1>6 DEF EpochInv, PassedSlotsAreFree, EpochsGrow
<1>9. current \notin freed
  BY DEF EpochInv, EpochsGrow, EpochType
<1>10. OldValueIsUnread'
  BY <1>1, <1>2, <1>9 DEF EpochInv, OldValueIsUnread
<1> QED
  BY <1>3, <1>4, <1>5, <1>7, <1>8, <1>10 DEF EpochInv

\* With its captures the job lets go of what it had got to.
LEMMA DestroyJobPreserves ==
  ASSUME EpochInv, NEW w \in Threads, DestroyJob(w)
  PROVE  EpochInv'
<1>1. /\ UNCHANGED <<slots, slotOf, laneEpoch, current, owed, asks, freed, seenEpoch>>
      /\ pc[w] \in {"drop", "destroy"} /\ pc' = [pc EXCEPT ![w] = "count"]
      /\ held' = [held EXCEPT ![w] = {}]
  BY DEF DestroyJob, slotVars, epochVars, Goto
<1>2. /\ pc'[w] = "count" /\ held'[w] = {}
      /\ \A v \in Threads : v # w => pc'[v] = pc[v] /\ held'[v] = held[v]
      /\ \A c \in Clients : pc'[c] = pc[c]
  BY <1>1, Apart DEF EpochInv, SlotType, EpochType, Actors
<1>3. SlotType' /\ EpochType'
  BY <1>1 DEF EpochInv, SlotType, EpochType
<1>4. SlotsBelong'
  BY <1>1, <1>2 DEF EpochInv, SlotsBelong, Out
<1>5. SlotsIdle'
  BY <1>1, <1>2 DEF EpochInv, SlotsIdle, Quiet, Busy
<1>6. EpochsGrow'
  BY <1>1, <1>2 DEF EpochInv, EpochsGrow
<1>7. ReadersCameBefore' /\ PassedSlotsAreFree' /\ OldValueIsUnread'
  BY <1>1, <1>2 DEF EpochInv, ReadersCameBefore, PassedSlotsAreFree, OldValueIsUnread
<1> QED
  BY <1>3, <1>4, <1>5, <1>6, <1>7 DEF EpochInv

\* LaneBusy goes: the slot is idle again.
LEMMA GoIdlePreserves ==
  ASSUME EpochInv, NEW w \in Threads, GoIdle(w)
  PROVE  EpochInv'
<1>1. /\ UNCHANGED <<slotOf, laneEpoch, current, owed, asks, freed, seenEpoch, held>>
      /\ pc[w] = "goIdle" /\ pc' = [pc EXCEPT ![w] = "top"]
      /\ slots' = [slots EXCEPT ![slotOf[w]] = [since |-> LANE_IDLE, taken |-> slots[slotOf[w]].taken]]
  BY DEF GoIdle, epochVars, Goto
<1>2. /\ pc'[w] = "top"
      /\ \A v \in Threads : v # w => pc'[v] = pc[v]
      /\ \A c \in Clients : pc'[c] = pc[c]
  BY <1>1, Apart DEF EpochInv, SlotType, Actors
<1>3. pc[w] \notin Out /\ slots[slotOf[w]].taken /\ LANE_IDLE \in Nat
  BY <1>1, LaneAssumption DEF EpochInv, SlotsBelong, Out, LANE_IDLE
<1>4. /\ slotOf[w] \in 1 .. Len(slots)
      /\ slots' \in Seq([since : Nat, taken : BOOLEAN])
      /\ Len(slots') = Len(slots)
      /\ slots'[slotOf[w]].since = LANE_IDLE /\ slots'[slotOf[w]].taken = TRUE
      /\ \A i \in 1 .. Len(slots) : i # slotOf[w] => slots'[i] = slots[i]
      /\ \A v \in Threads : pc[v] \notin Out /\ v # w =>
           slotOf[v] \in 1 .. Len(slots) /\ slots'[slotOf[v]] = slots[slotOf[v]]
  <2>1. slots' = [slots EXCEPT ![slotOf[w]] = [since |-> LANE_IDLE, taken |-> TRUE]]
    <3>1. slots[slotOf[w]].taken = TRUE
      BY <1>3, ElementOfSeq DEF EpochInv, SlotType, SlotsBelong
    <3> QED
      BY <1>1, <3>1
  <2> QED
    BY <1>3, <2>1, StoreToSlot DEF EpochInv
<1>5. SlotType' /\ EpochType'
  BY <1>1, <1>4 DEF EpochInv, SlotType, EpochType
<1>6. SlotsBelong'
  <2>1. \A i \in 1 .. Len(slots) : slots'[i].taken = slots[i].taken
    <3>1. slots[slotOf[w]].taken = TRUE
      BY <1>3, <1>4, ElementOfSeq DEF EpochInv, SlotType
    <3> QED
      BY <1>4, <3>1
  <2>2. \A v \in Threads : pc'[v] \notin Out <=> pc[v] \notin Out
    BY <1>1, <1>2 DEF Out
  <2> QED
    BY <1>1, <1>4, <2>1, <2>2 DEF EpochInv, SlotsBelong
<1>7. SlotsIdle'
  <2>1. ASSUME NEW i \in 1 .. Len(slots'), ~slots'[i].taken PROVE slots'[i].since = LANE_IDLE
    BY <1>4, <2>1 DEF EpochInv, SlotsIdle
  <2>2. ASSUME NEW v \in Threads, v # w
        PROVE  /\ pc'[v] \in Quiet => slots'[slotOf'[v]].since = LANE_IDLE
               /\ pc'[v] \in Busy => slots'[slotOf'[v]].since = seenEpoch'[v]
    BY <1>1, <1>2, <1>4, <2>2 DEF EpochInv, SlotsIdle, Quiet, Busy, Out
  <2>3. /\ pc'[w] \in Quiet => slots'[slotOf'[w]].since = LANE_IDLE
        /\ pc'[w] \in Busy => slots'[slotOf'[w]].since = seenEpoch'[w]
    BY <1>1, <1>2, <1>4 DEF Quiet, Busy
  <2> QED
    BY <2>1, <2>2, <2>3 DEF SlotsIdle
<1>8. EpochsGrow'
  BY <1>1, <1>2 DEF EpochInv, EpochsGrow, Reading
<1>9. ReadersCameBefore' /\ PassedSlotsAreFree' /\ OldValueIsUnread'
  BY <1>1, <1>2 DEF EpochInv, ReadersCameBefore, PassedSlotsAreFree, OldValueIsUnread
<1> QED
  BY <1>5, <1>6, <1>7, <1>8, <1>9 DEF EpochInv

\* The thread ends: its slot, which is idle, is nobody's.
LEMMA LeavePreserves ==
  ASSUME EpochInv, NEW w \in Threads, Leave(w)
  PROVE  EpochInv'
<1>1. /\ UNCHANGED <<slotOf, laneEpoch, current, owed, asks, freed, seenEpoch, held>>
      /\ pc[w] = "leave" /\ pc' = [pc EXCEPT ![w] = "ended"]
      /\ slots' = [slots EXCEPT ![slotOf[w]] = [since |-> slots[slotOf[w]].since, taken |-> FALSE]]
  BY DEF Leave, epochVars, Goto
<1>2. /\ pc'[w] = "ended"
      /\ \A v \in Threads : v # w => pc'[v] = pc[v]
      /\ \A c \in Clients : pc'[c] = pc[c]
  BY <1>1, Apart DEF EpochInv, SlotType, Actors
<1>3. pc[w] \notin Out /\ slots[slotOf[w]].since = LANE_IDLE /\ LANE_IDLE \in Nat
  BY <1>1, LaneAssumption DEF EpochInv, SlotsIdle, Out, Quiet, LANE_IDLE
<1>4. /\ slotOf[w] \in 1 .. Len(slots)
      /\ slots' \in Seq([since : Nat, taken : BOOLEAN])
      /\ Len(slots') = Len(slots)
      /\ slots'[slotOf[w]].since = LANE_IDLE /\ slots'[slotOf[w]].taken = FALSE
      /\ \A i \in 1 .. Len(slots) : i # slotOf[w] => slots'[i] = slots[i]
      /\ \A v \in Threads : pc[v] \notin Out /\ v # w =>
           slotOf[v] \in 1 .. Len(slots) /\ slots'[slotOf[v]] = slots[slotOf[v]]
  <2>1. slots' = [slots EXCEPT ![slotOf[w]] = [since |-> LANE_IDLE, taken |-> FALSE]]
    BY <1>1, <1>3
  <2> QED
    BY <1>3, <2>1, StoreToSlot DEF EpochInv
<1>5. SlotType' /\ EpochType'
  BY <1>1, <1>4 DEF EpochInv, SlotType, EpochType
<1>6. SlotsBelong'
  <2>1. ASSUME NEW v \in Threads, pc'[v] \notin Out PROVE v # w /\ pc[v] \notin Out
    BY <1>2, <2>1 DEF Out
  <2>2. ASSUME NEW v \in Threads, pc'[v] \notin Out
        PROVE  slotOf'[v] \in 1 .. Len(slots') /\ slots'[slotOf'[v]].taken
    BY <1>1, <1>4, <2>1, <2>2 DEF EpochInv, SlotsBelong
  <2>3. ASSUME NEW u \in Threads, NEW v \in Threads, pc'[u] \notin Out, pc'[v] \notin Out, u # v
        PROVE  slotOf'[u] # slotOf'[v]
    BY <1>1, <2>1, <2>3 DEF EpochInv, SlotsBelong
  <2>4. ASSUME NEW i \in 1 .. Len(slots'), slots'[i].taken
        PROVE  \E v \in Threads : pc'[v] \notin Out /\ slotOf'[v] = i
    <3>1. i # slotOf[w] /\ i \in 1 .. Len(slots) /\ slots[i].taken
      BY <1>4, <2>4
    <3>2. PICK v \in Threads : pc[v] \notin Out /\ slotOf[v] = i
      BY <3>1 DEF EpochInv, SlotsBelong
    <3> QED
      BY <1>1, <1>2, <3>1, <3>2
  <2> QED
    BY <2>2, <2>3, <2>4 DEF SlotsBelong
<1>7. SlotsIdle'
  <2>1. ASSUME NEW i \in 1 .. Len(slots'), ~slots'[i].taken PROVE slots'[i].since = LANE_IDLE
    BY <1>4, <2>1 DEF EpochInv, SlotsIdle
  <2>2. ASSUME NEW v \in Threads, pc'[v] \in Quiet \cup Busy
        PROVE  v # w /\ pc[v] = pc'[v] /\ slots'[slotOf'[v]] = slots[slotOf[v]]
    BY <1>1, <1>2, <1>4, <2>2 DEF Quiet, Busy, Out
  <2> QED
    BY <1>1, <2>1, <2>2 DEF EpochInv, SlotsIdle
<1>8. EpochsGrow'
  BY <1>1, <1>2 DEF EpochInv, EpochsGrow, Reading
<1>9. ReadersCameBefore' /\ PassedSlotsAreFree' /\ OldValueIsUnread'
  BY <1>1, <1>2 DEF EpochInv, ReadersCameBefore, PassedSlotsAreFree, OldValueIsUnread
<1> QED
  BY <1>5, <1>6, <1>7, <1>8, <1>9 DEF EpochInv

\* What takeLaneSlot returns: a slot nobody had, idle.
LEMMA TakenSlot ==
  ASSUME EpochInv, NEW w \in Threads, takeLaneSlot(w)
  PROVE  /\ slotOf' \in [Threads -> Nat]
         /\ \A v \in Threads : v # w => slotOf'[v] = slotOf[v]
         /\ slotOf'[w] \in 1 .. Len(slots')
         /\ slots' \in Seq([since : Nat, taken : BOOLEAN])
         /\ Len(slots') >= Len(slots) /\ Len(slots) \in Nat
         /\ slots'[slotOf'[w]].since = LANE_IDLE /\ slots'[slotOf'[w]].taken
         /\ \A i \in 1 .. Len(slots) : i # slotOf'[w] => slots'[i] = slots[i]
         /\ \A i \in 1 .. Len(slots') : i # slotOf'[w] => i \in 1 .. Len(slots)
         /\ \A i \in 1 .. Len(slots) : slots[i].taken => i # slotOf'[w]
<1> DEFINE free == {i \in DOMAIN slots : ~slots[i].taken}
<1>0. LANE_IDLE \in Nat
  BY LaneAssumption DEF LANE_IDLE
<1>1. slots \in Seq([since : Nat, taken : BOOLEAN]) /\ DOMAIN slots = 1 .. Len(slots) /\ Len(slots) \in Nat
  BY LenProperties DEF EpochInv, SlotType
<1>2. CASE /\ free = {}
           /\ slots' = Append(slots, [since |-> LANE_IDLE, taken |-> TRUE])
           /\ slotOf' = [slotOf EXCEPT ![w] = Len(slots) + 1]
  <2> DEFINE e == [since |-> LANE_IDLE, taken |-> TRUE]
  <2>1. e \in [since : Nat, taken : BOOLEAN] /\ e.since = LANE_IDLE /\ e.taken
    BY <1>0
  <2>2. slots' = Append(slots, e)
    BY <1>2
  <2>3. slotOf'[w] = Len(slots) + 1
    BY <1>2 DEF EpochInv, SlotType
  <2>4. /\ slots' \in Seq([since : Nat, taken : BOOLEAN])
        /\ Len(slots') = Len(slots) + 1
        /\ \A i \in 1 .. Len(slots) : slots'[i] = slots[i]
        /\ slots'[Len(slots) + 1] = e
    <3> HIDE DEF e
    <3> QED
      BY <1>1, <2>1, <2>2, AppendProperties
  <2> HIDE DEF e
  <2>5. slotOf' \in [Threads -> Nat] /\ \A v \in Threads : v # w => slotOf'[v] = slotOf[v]
    BY <1>1, <1>2 DEF EpochInv, SlotType
  <2>6. slots'[slotOf'[w]].since = LANE_IDLE /\ slots'[slotOf'[w]].taken
    BY <2>1, <2>3, <2>4
  <2>7. \A i \in 1 .. Len(slots) : i # slotOf'[w]
    BY <1>1, <2>3
  <2>8. /\ slotOf'[w] \in 1 .. Len(slots') /\ Len(slots') >= Len(slots)
        /\ \A i \in 1 .. Len(slots') : i # slotOf'[w] => i \in 1 .. Len(slots)
    BY <1>1, <2>3, <2>4
  <2> QED
    BY <1>1, <2>4, <2>5, <2>6, <2>7, <2>8
<1>3. CASE \E first \in free :
             /\ \A i \in free : first <= i
             /\ slots' = [slots EXCEPT ![first] = [since |-> slots[first].since, taken |-> TRUE]]
             /\ slotOf' = [slotOf EXCEPT ![w] = first]
  <2>1. PICK first \in free :
             /\ slots' = [slots EXCEPT ![first] = [since |-> slots[first].since, taken |-> TRUE]]
             /\ slotOf' = [slotOf EXCEPT ![w] = first]
    BY <1>3
  <2>2. first \in 1 .. Len(slots) /\ ~slots[first].taken /\ slots[first].since = LANE_IDLE
    BY <1>1 DEF EpochInv, SlotsIdle
  <2> DEFINE e == [since |-> LANE_IDLE, taken |-> TRUE]
  <2>3. e \in [since : Nat, taken : BOOLEAN] /\ e.since = LANE_IDLE /\ e.taken
    BY <1>0
  <2>4. slots' = [slots EXCEPT ![first] = e]
    BY <2>1, <2>2
  <2>5. slotOf'[w] = first
    BY <2>1 DEF EpochInv, SlotType
  <2>6. /\ slots' \in Seq([since : Nat, taken : BOOLEAN])
        /\ Len(slots') = Len(slots)
        /\ \A i \in 1 .. Len(slots) : slots'[i] = IF i = first THEN e ELSE slots[i]
    <3> HIDE DEF e
    <3> QED
      BY <1>1, <2>2, <2>3, <2>4, ExceptSeq
  <2> HIDE DEF e, free
  <2>7. slotOf' \in [Threads -> Nat] /\ \A v \in Threads : v # w => slotOf'[v] = slotOf[v]
    BY <1>1, <2>1, <2>2 DEF EpochInv, SlotType
  <2>8. slots'[slotOf'[w]].since = LANE_IDLE /\ slots'[slotOf'[w]].taken
    BY <2>2, <2>3, <2>5, <2>6
  <2>9. \A i \in 1 .. Len(slots) : slots[i].taken => i # slotOf'[w]
    BY <2>2, <2>5
  <2> QED
    BY <1>1, <2>2, <2>5, <2>6, <2>7, <2>8, <2>9
<1> QED
  BY <1>2, <1>3 DEF takeLaneSlot

\* A thread starts, in a slot of its own.
LEMMA StartPreserves ==
  ASSUME EpochInv, NEW c \in Clients, NEW w \in Threads, StartThread(c, w)
  PROVE  EpochInv'
<1>1. /\ UNCHANGED <<laneEpoch, current, owed, asks, freed, seenEpoch, held>>
      /\ pc[c] = "start" /\ pc[w] = "off" /\ takeLaneSlot(w)
      /\ \E to \in {"idle", "start"} : pc' = [pc EXCEPT ![w] = "top", ![c] = to]
  BY DEF StartThread, epochVars
<1>2. /\ pc'[w] = "top" /\ DOMAIN pc' = Actors
      /\ \A v \in Threads : v # w => pc'[v] = pc[v]
      /\ \A d \in Clients : /\ pc'[d] = "mark" <=> pc[d] = "mark"
                            /\ pc'[d] = "passed" <=> pc[d] = "passed"
  BY <1>1, Apart DEF EpochInv, SlotType, Actors
<1>3. /\ slotOf'[w] \in 1 .. Len(slots')
      /\ slots' \in Seq([since : Nat, taken : BOOLEAN])
      /\ Len(slots') >= Len(slots) /\ Len(slots) \in Nat
      /\ slots'[slotOf'[w]].since = LANE_IDLE /\ slots'[slotOf'[w]].taken
      /\ \A i \in 1 .. Len(slots) : i # slotOf'[w] => slots'[i] = slots[i]
      /\ \A i \in 1 .. Len(slots') : i # slotOf'[w] => i \in 1 .. Len(slots)
      /\ \A i \in 1 .. Len(slots) : slots[i].taken => i # slotOf'[w]
  BY <1>1, TakenSlot
<1>5. Len(slots') \in Nat
  BY <1>3, LenProperties
<1>6. slotOf' \in [Threads -> Nat] /\ \A v \in Threads : v # w => slotOf'[v] = slotOf[v]
  BY <1>1, TakenSlot
<1>7. held[w] = {}
  BY <1>1 DEF EpochInv, EpochsGrow, Reading
<1>8. SlotType' /\ EpochType'
  BY <1>1, <1>2, <1>3, <1>6 DEF EpochInv, SlotType, EpochType
<1>9. \A v \in Threads : v # w /\ pc'[v] \notin Out =>
        /\ slotOf'[v] = slotOf[v] /\ slotOf[v] \in 1 .. Len(slots) /\ slotOf[v] \in 1 .. Len(slots')
        /\ slots[slotOf[v]].taken /\ slotOf[v] # slotOf'[w] /\ slots'[slotOf[v]] = slots[slotOf[v]]
  BY <1>2, <1>3, <1>5, <1>6 DEF EpochInv, SlotsBelong
<1>10. SlotsBelong'
  <2>1. \A v \in Threads : pc'[v] \notin Out => slotOf'[v] \in 1 .. Len(slots') /\ slots'[slotOf'[v]].taken
    BY <1>3, <1>9
  <2>2. ASSUME NEW u \in Threads, NEW v \in Threads, pc'[u] \notin Out, pc'[v] \notin Out, u # v
        PROVE  slotOf'[u] # slotOf'[v]
    <3>1. CASE u # w /\ v # w
      BY <1>2, <1>6, <2>2, <3>1 DEF EpochInv, SlotsBelong
    <3> QED
      BY <1>9, <2>2, <3>1
  <2>3. ASSUME NEW i \in 1 .. Len(slots'), slots'[i].taken
        PROVE  \E v \in Threads : pc'[v] \notin Out /\ slotOf'[v] = i
    <3>1. CASE i = slotOf'[w]
      BY <1>2, <3>1 DEF Out
    <3>2. CASE i # slotOf'[w]
      <4>1. PICK v \in Threads : pc[v] \notin Out /\ slotOf[v] = i
        BY <1>3, <2>3, <3>2 DEF EpochInv, SlotsBelong
      <4>2. v # w
        BY <1>1, <4>1 DEF Out
      <4> QED
        BY <1>2, <1>6, <4>1, <4>2
    <3> QED
      BY <3>1, <3>2
  <2> QED
    BY <2>1, <2>2, <2>3 DEF SlotsBelong
<1>11. SlotsIdle'
  <2>1. ASSUME NEW i \in 1 .. Len(slots'), ~slots'[i].taken PROVE slots'[i].since = LANE_IDLE
    BY <1>3, <2>1 DEF EpochInv, SlotsIdle
  <2>2. ASSUME NEW v \in Threads, v # w, pc'[v] \in Quiet \cup Busy
        PROVE  pc[v] = pc'[v] /\ slots'[slotOf'[v]] = slots[slotOf[v]]
    BY <1>2, <1>9, <2>2 DEF Quiet, Busy, Out
  <2>3. /\ slots'[slotOf'[w]].since = LANE_IDLE /\ pc'[w] \notin Busy
    BY <1>2, <1>3 DEF Busy
  <2> QED
    BY <1>1, <2>1, <2>2, <2>3 DEF EpochInv, SlotsIdle
<1>12. EpochsGrow'
  BY <1>1, <1>2, <1>7 DEF EpochInv, EpochsGrow, Reading
<1>13. ReadersCameBefore' /\ PassedSlotsAreFree' /\ OldValueIsUnread'
  BY <1>1, <1>2, <1>6, <1>7 DEF EpochInv, ReadersCameBefore, PassedSlotsAreFree, OldValueIsUnread
<1> QED
  BY <1>8, <1>10, <1>11, <1>12, <1>13 DEF EpochInv

\* replace takes the value out: whoever has it came before the mark to come.
LEMMA ExchangePreserves ==
  ASSUME EpochInv, NEW c \in Clients, Exchange(c)
  PROVE  EpochInv'
<1>1. /\ UNCHANGED <<slots, slotOf, laneEpoch, asks, freed, seenEpoch, held>>
      /\ owed[c] = None /\ pc[c] = "idle" /\ pc' = [pc EXCEPT ![c] = "mark"]
      /\ owed' = [owed EXCEPT ![c] = [old |-> current, mark |-> 0]]
      /\ current' = current + 1
  BY DEF Exchange, Goto, slotVars
<1>2. /\ pc'[c] = "mark" /\ DOMAIN pc' = Actors
      /\ \A v \in Threads : pc'[v] = pc[v]
      /\ \A d \in Clients : d # c => pc'[d] = pc[d] /\ owed'[d] = owed[d]
      /\ owed'[c] = [old |-> current, mark |-> 0]
  BY <1>1, Apart DEF EpochInv, SlotType, EpochType, Actors
<1>3. owed'[c] # None /\ owed'[c].old = current /\ current \in Nat
  BY <1>2, LaneAssumption DEF EpochInv, EpochType
<1>4. SlotType' /\ EpochType'
  BY <1>1, <1>2 DEF EpochInv, SlotType, EpochType
<1>5. SlotsBelong' /\ SlotsIdle'
  BY <1>1, <1>2 DEF EpochInv, SlotsBelong, SlotsIdle
<1>6. EpochsGrow'
  <2>1. \A w \in Threads : \A v \in held'[w] : v <= current'
    BY <1>1 DEF EpochInv, EpochsGrow, EpochType
  <2>2. \A v \in freed' : v < current'
    BY <1>1 DEF EpochInv, EpochsGrow, EpochType
  <2>3. \A d \in Clients : owed'[d] # None => owed'[d].old < current'
    BY <1>1, <1>2, <1>3 DEF EpochInv, EpochsGrow, EpochType
  <2>4. \A d \in Clients : pc'[d] \in {"mark", "passed"} => owed'[d] # None
    BY <1>2, <1>3 DEF EpochInv, EpochsGrow
  <2> QED
    BY <1>1, <1>2, <2>1, <2>2, <2>3, <2>4 DEF EpochInv, EpochsGrow
<1>7. ReadersCameBefore' /\ PassedSlotsAreFree' /\ OldValueIsUnread'
  BY <1>1, <1>2 DEF EpochInv, ReadersCameBefore, PassedSlotsAreFree, OldValueIsUnread
<1> QED
  BY <1>4, <1>5, <1>6, <1>7 DEF EpochInv

\* The mark is above every epoch a thread has loaded so far.
LEMMA MarkPreserves ==
  ASSUME EpochInv, NEW c \in Clients, markBackground(c)
  PROVE  EpochInv'
<1>1. /\ UNCHANGED <<slots, slotOf, current, asks, freed, seenEpoch, held>>
      /\ pc[c] = "mark" /\ pc' = [pc EXCEPT ![c] = "idle"]
      /\ laneEpoch' = laneEpoch + 1
      /\ owed' = [owed EXCEPT ![c] = [old |-> owed[c].old, mark |-> laneEpoch + 1]]
  BY DEF markBackground, Goto, slotVars
<1>2. owed[c] # None /\ owed[c] \in [old : Nat, mark : Nat] /\ laneEpoch \in Nat
  BY <1>1 DEF EpochInv, EpochsGrow, EpochType
<1>3. /\ pc'[c] = "idle" /\ DOMAIN pc' = Actors
      /\ \A v \in Threads : pc'[v] = pc[v]
      /\ \A d \in Clients : d # c => pc'[d] = pc[d] /\ owed'[d] = owed[d]
      /\ owed'[c] = [old |-> owed[c].old, mark |-> laneEpoch + 1]
  BY <1>1, Apart DEF EpochInv, SlotType, EpochType, Actors
<1>4. owed'[c].old = owed[c].old /\ owed'[c].mark = laneEpoch + 1 /\ owed'[c] \in [old : Nat, mark : Nat]
  BY <1>2, <1>3
<1>5. SlotType' /\ EpochType'
  BY <1>1, <1>2, <1>3, <1>4 DEF EpochInv, SlotType, EpochType
<1>6. SlotsBelong' /\ SlotsIdle'
  BY <1>1, <1>3 DEF EpochInv, SlotsBelong, SlotsIdle
<1>7. EpochsGrow'
  <2>1. \A w \in Threads : seenEpoch'[w] <= laneEpoch'
    BY <1>1, <1>2 DEF EpochInv, EpochsGrow, SlotType
  <2>2. \A d \in Clients : owed'[d] # None => owed'[d].old < current'
    BY <1>1, <1>2, <1>3, <1>4 DEF EpochInv, EpochsGrow
  <2>3. \A d \in Clients : pc'[d] \in {"mark", "passed"} => owed'[d] # None
    BY <1>3 DEF EpochInv, EpochsGrow
  <2> QED
    BY <1>1, <1>3, <2>1, <2>2, <2>3 DEF EpochInv, EpochsGrow
<1>8. ReadersCameBefore'
  <2>1. ASSUME NEW d \in Clients, NEW w \in Threads, owed'[d] # None, pc'[d] # "mark", pc'[w] # "drop",
               owed'[d].old \in held'[w]
        PROVE  seenEpoch'[w] < owed'[d].mark
    <3>1. CASE d = c
      BY <1>1, <1>2, <1>4, <3>1 DEF EpochInv, EpochsGrow, SlotType
    <3>2. CASE d # c
      BY <1>1, <1>3, <2>1, <3>2 DEF EpochInv, ReadersCameBefore
    <3> QED
      BY <3>1, <3>2
  <2> QED
    BY <2>1 DEF ReadersCameBefore
<1>9. PassedSlotsAreFree' /\ OldValueIsUnread'
  <2>1. ASSUME NEW d \in Clients, pc'[d] = "passed" PROVE pc[d] = "passed" /\ owed'[d] = owed[d]
    BY <1>3, <2>1
  <2> QED
    BY <1>1, <1>3, <2>1 DEF EpochInv, PassedSlotsAreFree, OldValueIsUnread
<1> QED
  BY <1>5, <1>6, <1>7, <1>8, <1>9 DEF EpochInv

\* backgroundPassed begins: no slot has been looked at.
LEMMA PassedBegins ==
  ASSUME EpochInv, NEW c \in Clients, backgroundPassed(c)
  PROVE  EpochInv'
<1>1. /\ UNCHANGED <<slots, slotOf, laneEpoch, current, owed, freed, seenEpoch, held>>
      /\ owed[c] # None /\ pc[c] = "idle" /\ pc' = [pc EXCEPT ![c] = "passed"]
      /\ asks' = [asks EXCEPT ![c] = 1]
  BY DEF backgroundPassed, Goto, slotVars
<1>2. /\ pc'[c] = "passed" /\ DOMAIN pc' = Actors
      /\ \A v \in Threads : pc'[v] = pc[v]
      /\ \A d \in Clients : d # c => pc'[d] = pc[d] /\ asks'[d] = asks[d]
      /\ asks'[c] = 1 /\ asks' \in [Clients -> Nat]
  BY <1>1, Apart DEF EpochInv, SlotType, EpochType, Actors
<1>3. SlotType' /\ EpochType'
  BY <1>1, <1>2 DEF EpochInv, SlotType, EpochType
<1>4. SlotsBelong' /\ SlotsIdle'
  BY <1>1, <1>2 DEF EpochInv, SlotsBelong, SlotsIdle
<1>5. \A d \in Clients : pc'[d] # "mark" => pc[d] # "mark"
  BY <1>1, <1>2
<1>6. EpochsGrow'
  BY <1>1, <1>2 DEF EpochInv, EpochsGrow
<1>7. ReadersCameBefore' /\ OldValueIsUnread'
  BY <1>1, <1>2, <1>5 DEF EpochInv, ReadersCameBefore, OldValueIsUnread
<1>8. \A w \in Threads : slotOf[w] < 1 => held[w] = {}
  <2>1. ASSUME NEW w \in Threads, held[w] # {} PROVE slotOf[w] \in 1 .. Len(slots)
    <3>1. pc[w] \notin Out
      BY <2>1 DEF EpochInv, EpochsGrow, Out, Reading
    <3> QED
      BY <3>1 DEF EpochInv, SlotsBelong
  <2> QED
    BY <2>1
<1>9. PassedSlotsAreFree'
  <2>1. ASSUME NEW d \in Clients, NEW w \in Threads, pc'[d] = "passed", slotOf'[w] < asks'[d], pc'[w] # "drop"
        PROVE  owed'[d].old \notin held'[w]
    <3>1. CASE d = c
      BY <1>1, <1>2, <1>8, <2>1, <3>1
    <3>2. CASE d # c
      BY <1>1, <1>2, <2>1, <3>2 DEF EpochInv, PassedSlotsAreFree
    <3> QED
      BY <3>1, <3>2
  <2> QED
    BY <2>1 DEF PassedSlotsAreFree
<1> QED
  BY <1>3, <1>4, <1>6, <1>7, <1>9 DEF EpochInv

\* A slot that passes is not the slot of a thread that reads the value.
LEMMA SlotPassedPreserves ==
  ASSUME EpochInv, NEW c \in Clients, SlotPassed(c)
  PROVE  EpochInv'
<1>1. /\ UNCHANGED <<slots, slotOf, laneEpoch, current, owed, freed, seenEpoch, held>>
      /\ pc[c] = "passed" /\ pc' = [pc EXCEPT ![c] = "passed"]
      /\ slots[asks[c]].since >= owed[c].mark
      /\ asks' = [asks EXCEPT ![c] = asks[c] + 1]
  BY DEF SlotPassed, Goto, slotVars
<1>2. /\ DOMAIN pc' = Actors /\ \A a \in Actors : pc'[a] = pc[a]
      /\ \A w \in Threads : pc'[w] = pc[w]
      /\ \A d \in Clients : pc'[d] = pc[d]
      /\ asks[c] \in Nat /\ asks' \in [Clients -> Nat]
      /\ asks'[c] = asks[c] + 1
      /\ \A d \in Clients : d # c => asks'[d] = asks[d]
  BY <1>1, Apart DEF EpochInv, SlotType, EpochType, Actors
<1>3. /\ SlotType' /\ EpochType' /\ SlotsBelong' /\ SlotsIdle' /\ EpochsGrow'
      /\ ReadersCameBefore' /\ OldValueIsUnread'
  BY <1>1, <1>2 DEF EpochInv, SlotType, EpochType, SlotsBelong, SlotsIdle, EpochsGrow, ReadersCameBefore,
     OldValueIsUnread
<1>4. ASSUME NEW w \in Threads, slotOf[w] = asks[c], pc[w] # "drop", owed[c].old \in held[w]
      PROVE  FALSE
  <2>1. pc[w] \in Busy
    BY <1>4 DEF EpochInv, EpochsGrow, Reading, Busy
  <2>2. slots[slotOf[w]].since = seenEpoch[w] /\ seenEpoch[w] \in Nat
    BY <2>1 DEF EpochInv, SlotsIdle, SlotType
  <2>3. owed[c] # None /\ owed[c] \in [old : Nat, mark : Nat]
    BY <1>1 DEF EpochInv, EpochsGrow, EpochType
  <2>4. seenEpoch[w] < owed[c].mark
    BY <1>1, <1>4, <2>3 DEF EpochInv, ReadersCameBefore
  <2> QED
    BY <1>1, <1>4, <2>2, <2>3, <2>4
<1>5. PassedSlotsAreFree'
  <2>1. ASSUME NEW d \in Clients, NEW w \in Threads, pc'[d] = "passed", slotOf'[w] < asks'[d], pc'[w] # "drop"
        PROVE  owed'[d].old \notin held'[w]
    <3>1. CASE d = c /\ slotOf[w] = asks[c]
      BY <1>1, <1>2, <1>4, <2>1, <3>1
    <3>2. CASE d = c /\ slotOf[w] # asks[c]
      <4>1. slotOf[w] < asks[c]
        BY <1>1, <1>2, <2>1, <3>2 DEF EpochInv, SlotType
      <4> QED
        BY <1>1, <1>2, <2>1, <3>2, <4>1 DEF EpochInv, PassedSlotsAreFree
    <3>3. CASE d # c
      BY <1>1, <1>2, <2>1, <3>3 DEF EpochInv, PassedSlotsAreFree
    <3> QED
      BY <3>1, <3>2, <3>3
  <2> QED
    BY <2>1 DEF PassedSlotsAreFree
<1> QED
  BY <1>3, <1>5 DEF EpochInv

\* All slots have passed, so no thread reads what is freed.
LEMMA FreePreserves ==
  ASSUME EpochInv, NEW c \in Clients, FreeOld(c)
  PROVE  EpochInv'
<1>1. /\ UNCHANGED <<slots, slotOf, laneEpoch, current, asks, seenEpoch, held>>
      /\ pc[c] = "passed" /\ pc' = [pc EXCEPT ![c] = "idle"]
      /\ asks[c] > Len(slots)
      /\ freed' = freed \cup {owed[c].old}
      /\ owed' = [owed EXCEPT ![c] = None]
  BY DEF FreeOld, Goto, slotVars
<1>2. /\ pc'[c] = "idle" /\ DOMAIN pc' = Actors
      /\ \A v \in Threads : pc'[v] = pc[v]
      /\ \A d \in Clients : d # c => pc'[d] = pc[d] /\ owed'[d] = owed[d]
      /\ owed'[c] = None
  BY <1>1, Apart DEF EpochInv, SlotType, EpochType, Actors
<1>3. owed[c] # None /\ owed[c] \in [old : Nat, mark : Nat] /\ owed[c].old < current
  BY <1>1 DEF EpochInv, EpochsGrow, EpochType
<1>4. SlotType' /\ EpochType'
  BY <1>1, <1>2, <1>3 DEF EpochInv, SlotType, EpochType
<1>5. SlotsBelong' /\ SlotsIdle'
  BY <1>1, <1>2 DEF EpochInv, SlotsBelong, SlotsIdle
<1>6. EpochsGrow'
  <2>1. \A v \in freed' : v < current'
    BY <1>1, <1>3 DEF EpochInv, EpochsGrow
  <2>2. \A d \in Clients : /\ owed'[d] # None => owed'[d].old < current'
                           /\ pc'[d] \in {"mark", "passed"} => owed'[d] # None
    BY <1>1, <1>2 DEF EpochInv, EpochsGrow
  <2> QED
    BY <1>1, <1>2, <2>1, <2>2 DEF EpochInv, EpochsGrow
<1>7. ReadersCameBefore' /\ PassedSlotsAreFree'
  <2>1. \A d \in Clients : owed'[d] # None \/ pc'[d] = "passed" => d # c
    BY <1>2
  <2> QED
    BY <1>1, <1>2, <2>1 DEF EpochInv, ReadersCameBefore, PassedSlotsAreFree
<1>8. ASSUME NEW w \in Threads, pc[w] # "drop" PROVE owed[c].old \notin held[w]
  <2>1. CASE pc[w] \in Out
    BY <2>1 DEF EpochInv, EpochsGrow, Out, Reading
  <2>2. CASE pc[w] \notin Out
    <3>1. Len(slots) \in Nat /\ asks[c] \in Nat
      BY LenProperties DEF EpochInv, SlotType, EpochType
    <3>2. slotOf[w] \in 1 .. Len(slots)
      BY <2>2 DEF EpochInv, SlotsBelong
    <3>3. slotOf[w] < asks[c]
      BY <1>1, <3>1, <3>2
    <3> QED
      BY <1>1, <1>8, <3>3 DEF EpochInv, PassedSlotsAreFree
  <2> QED
    BY <2>1, <2>2
<1>9. OldValueIsUnread'
  BY <1>1, <1>2, <1>8 DEF EpochInv, OldValueIsUnread
<1> QED
  BY <1>4, <1>5, <1>6, <1>7, <1>9 DEF EpochInv

\* The steps that have to do with slots and epochs, and all the others.
ThreadTouches(w) ==
  LoadEpoch(w) \/ StoreSince(w) \/ ReadValue(w) \/ DestroyJob(w) \/ GoIdle(w) \/ Leave(w)

ClientTouches(c) ==
  \/ \E w \in Threads : StartThread(c, w)
  \/ Exchange(c) \/ markBackground(c) \/ backgroundPassed(c) \/ SlotPassed(c) \/ FreeOld(c)

LEMMA SlotSteps ==
  ASSUME EpochInv, [Next]_vars
  PROVE  \/ LeavesSlotsAlone
         \/ \E w \in Threads : ThreadTouches(w)
         \/ \E c \in Clients : ClientTouches(c)
<1>1. CASE UNCHANGED vars
  BY <1>1 DEF LeavesSlotsAlone, StaysQuietOrBusy, vars, EpochInv, SlotType
<1>2. ASSUME NEW c \in Clients, Begin(c) \/ Submit(c) \/ Start(c) \/ Shutdown(c) \/ Wait(c) \/ Replace(c)
      PROVE  LeavesSlotsAlone \/ ClientTouches(c)
  <2>1. CASE Begin(c)
    BY <2>1, PlainClientSteps DEF Begin, ClientTouches
  <2>2. CASE Submit(c) \/ Wait(c)
    BY <2>2, PlainClientSteps
  <2>3. CASE Start(c)
    BY <2>3 DEF Start, ClientTouches
  <2>4. CASE Shutdown(c)
    BY <2>4, PlainClientSteps, JoinAllAlone DEF Shutdown
  <2>5. CASE Replace(c)
    BY <2>5, PlainClientSteps DEF Replace, ClientTouches
  <2> QED
    BY <1>2, <2>1, <2>2, <2>3, <2>4, <2>5
<1>3. ASSUME NEW w \in Threads,
             Thread(w) \/ ReadValue(w) \/ \E how \in {"value", "exception"} : JobEnds(w, how)
      PROVE  LeavesSlotsAlone \/ ThreadTouches(w)
  BY <1>3, QuietSteps DEF Thread, ThreadTouches
<1> QED
  BY <1>1, <1>2, <1>3 DEF Next

LEMMA EpochNext == EpochInv /\ [Next]_vars => EpochInv'
<1> SUFFICES ASSUME EpochInv, [Next]_vars PROVE EpochInv'
  OBVIOUS
<1>1. ASSUME NEW w \in Threads, ThreadTouches(w) PROVE EpochInv'
  BY <1>1, LoadEpochPreserves, StoreSincePreserves, ReadValuePreserves, DestroyJobPreserves,
     GoIdlePreserves, LeavePreserves DEF ThreadTouches
<1>2. ASSUME NEW c \in Clients, ClientTouches(c) PROVE EpochInv'
  BY <1>2, StartPreserves, ExchangePreserves, MarkPreserves, PassedBegins, SlotPassedPreserves,
     FreePreserves DEF ClientTouches
<1> QED
  BY <1>1, <1>2, AlonePreserves, SlotSteps

\* The slots and the epochs of the lane, at all times.
THEOREM EpochInvariant == Spec => []EpochInv
BY EpochInit, EpochNext, PTL DEF Spec

(* For every number of clients, threads and lanes: two threads never share *)
(* a slot (takeLaneSlot, the end of laneThread), and a slot nobody has is  *)
(* idle.                                                                   *)
THEOREM SlotsOwned == Spec => []SlotsAreOwn
<1>1. EpochInv => SlotsAreOwn
  <2> SUFFICES ASSUME EpochInv PROVE SlotsAreOwn
    OBVIOUS
  <2> DEFINE running == {w \in Threads : pc[w] \notin {"off", "ended"}}
  <2>1. \A v, w \in running : v # w => slotOf[v] # slotOf[w]
    BY DEF EpochInv, SlotsBelong, Out
  <2>2. ASSUME NEW i \in DOMAIN slots, \A w \in running : slotOf[w] # i
        PROVE  slots[i] = [since |-> LANE_IDLE, taken |-> FALSE]
    <3>1. i \in 1 .. Len(slots) /\ slots[i] \in [since : Nat, taken : BOOLEAN]
      BY ElementOfSeq, LenProperties DEF EpochInv, SlotType
    <3>2. ~slots[i].taken
      BY <2>2, <3>1 DEF EpochInv, SlotsBelong, Out
    <3>3. slots[i].since = LANE_IDLE
      BY <3>1, <3>2 DEF EpochInv, SlotsIdle
    <3> QED
      BY <3>1, <3>2, <3>3
  <2> QED
    BY <2>1, <2>2 DEF SlotsAreOwn
<1> QED
  BY <1>1, EpochInvariant, PTL

(* For every number of clients, threads, values and jobs: what             *)
(* backgroundPassed lets go is read by no job (LaneBusy::enter,            *)
(* markBackground, backgroundPassed), those apart that a thread drops      *)
(* before it has entered its slot.                                         *)
THEOREM OldValueUnread == Spec => []OldValueIsUnread
<1>1. EpochInv => OldValueIsUnread
  BY DEF EpochInv
<1> QED
  BY <1>1, EpochInvariant, PTL

-----------------------------------------------------------------------------
(* The bounds of slots and epochs. *)

\* There are as many values as marks, those apart that are about to be made;
\* what a slot shows is an epoch or idle; and there are no more slots than
\* threads.
Bounded ==
  /\ MarksAreCounted
  /\ \A i \in 1 .. Len(slots) : slots[i].since <= LANE_IDLE
  /\ Len(slots) <= Cardinality(Threads)

\* A finite set of clients is marking.
LEMMA MarkingFinite ==
  \A p : IsFiniteSet(Marking(p)) /\ Cardinality(Marking(p)) \in Nat
<1> TAKE p
<1>1. Marking(p) \in SUBSET Clients
  BY DEF Marking
<1> QED
  BY <1>1, FS_Subset, FS_CardinalityType, LaneAssumption

LEMMA BoundedInit == Init => Bounded
<1> SUFFICES ASSUME Init PROVE Bounded
  OBVIOUS
<1>1. Marking(pc) = {}
  BY Apart DEF Init, Marking, Actors
<1>2. Cardinality(Marking(pc)) = 0
  BY <1>1, FS_EmptySet
<1>3. Len(slots) = 0
  BY EmptySeq DEF Init
<1>4. Cardinality(Threads) \in Nat
  BY FS_CardinalityType, LaneAssumption
<1> QED
  BY <1>2, <1>3, <1>4, LaneAssumption DEF Init, Bounded, MarksAreCounted

\* A step that keeps the slots, the epochs and who is marking.
LEMMA BoundedAlone ==
  ASSUME Bounded, UNCHANGED <<slots, laneEpoch, current>>,
         \A c \in Clients : pc'[c] = "mark" <=> pc[c] = "mark"
  PROVE  Bounded'
<1>1. Marking(pc') = Marking(pc)
  BY DEF Marking
<1> QED
  BY <1>1 DEF Bounded, MarksAreCounted

\* A step of a thread that does to the slots no more than to store since.
LEMMA BoundedThread ==
  ASSUME Bounded, EpochInv, NEW w \in Threads, NEW to, pc' = [pc EXCEPT ![w] = to],
         UNCHANGED <<laneEpoch, current>>,
         Len(slots') = Len(slots),
         \A i \in 1 .. Len(slots) : slots'[i].since <= LANE_IDLE
  PROVE  Bounded'
<1>1. \A c \in Clients : pc'[c] = pc[c]
  BY Apart DEF EpochInv, SlotType, Actors
<1>2. Marking(pc') = Marking(pc)
  BY <1>1 DEF Marking
<1> QED
  BY <1>2 DEF Bounded, MarksAreCounted

\* No epoch is as great as LANE_IDLE.
LEMMA EpochsSmall ==
  ASSUME Bounded, EpochInv
  PROVE  /\ laneEpoch \in 0 .. MaxMarks
         /\ \A w \in Threads : seenEpoch[w] \in 0 .. MaxMarks
         /\ LANE_IDLE \in Nat /\ MaxMarks < LANE_IDLE
<1>1. laneEpoch \in Nat /\ current \in Nat /\ MaxMarks \in Nat /\ Cardinality(Marking(pc)) \in Nat
  BY MarkingFinite, LaneAssumption DEF EpochInv, EpochType
<1>2. laneEpoch \in 0 .. MaxMarks
  BY <1>1 DEF Bounded, MarksAreCounted
<1>3. \A w \in Threads : seenEpoch[w] \in 0 .. MaxMarks
  BY <1>1, <1>2 DEF EpochInv, EpochsGrow, SlotType
<1> QED
  BY <1>1, <1>2, <1>3 DEF LANE_IDLE

\* takeLaneSlot appends a slot only when every slot is the one of another
\* thread.
LEMMA RoomForSlot ==
  ASSUME EpochInv, Bounded, NEW c \in Clients, NEW w \in Threads, StartThread(c, w)
  PROVE  Len(slots') <= Cardinality(Threads)
<1> DEFINE others == {v \in Threads : pc[v] \notin Out}
           owners == {slotOf[v] : v \in others}
<1>1. takeLaneSlot(w) /\ w \notin others
  BY DEF StartThread, Out
<1>2. slots \in Seq([since : Nat, taken : BOOLEAN]) /\ DOMAIN slots = 1 .. Len(slots) /\ Len(slots) \in Nat
  BY LenProperties DEF EpochInv, SlotType
<1>3. Cardinality(Threads) \in Nat
  BY FS_CardinalityType, LaneAssumption
<1>4. CASE \A i \in 1 .. Len(slots) : slots[i].taken
  <2>1. IsFiniteSet(Threads \ {w}) /\ Cardinality(Threads \ {w}) = Cardinality(Threads) - 1
    BY FS_RemoveElement, LaneAssumption
  <2>2. others \in SUBSET (Threads \ {w})
    BY <1>1
  <2>3. IsFiniteSet(others) /\ Cardinality(others) <= Cardinality(Threads) - 1 /\ Cardinality(others) \in Nat
    BY <2>1, <2>2, FS_Subset, FS_CardinalityType
  <2>4. IsFiniteSet(owners) /\ Cardinality(owners) <= Cardinality(others) /\ Cardinality(owners) \in Nat
    <3>1. [v \in others |-> slotOf[v]] \in Surjection(others, owners)
      BY DEF Surjection
    <3> HIDE DEF others, owners
    <3> QED
      BY <2>3, <3>1, FS_Surjection, FS_CardinalityType
  <2>5. 1 .. Len(slots) \in SUBSET owners
    BY <1>4 DEF EpochInv, SlotsBelong
  <2>6. Cardinality(1 .. Len(slots)) = Len(slots)
    BY <1>2, FS_Interval
  <2>7. Len(slots) <= Cardinality(owners)
    BY <2>4, <2>5, <2>6, FS_Subset
  <2>8. Len(slots') <= Len(slots) + 1
    <3>1. Len(Append(slots, [since |-> LANE_IDLE, taken |-> TRUE])) = Len(slots) + 1
      BY <1>2
    <3>2. {i \in DOMAIN slots : ~slots[i].taken} = {}
      BY <1>2, <1>4
    <3> QED
      BY <1>1, <1>2, <3>1, <3>2 DEF takeLaneSlot
  <2> QED
    BY <1>2, <1>3, <2>3, <2>4, <2>7, <2>8
<1>5. CASE \E i \in 1 .. Len(slots) : ~slots[i].taken
  <2>1. {i \in DOMAIN slots : ~slots[i].taken} # {}
    BY <1>2, <1>5
  <2>2. Len(slots') = Len(slots)
    <3>1. \A i, e : Len([slots EXCEPT ![i] = e]) = Len(slots)
      BY <1>2
    <3> QED
      BY <1>1, <2>1, <3>1 DEF takeLaneSlot
  <2> QED
    BY <1>2, <2>2 DEF Bounded
<1> QED
  BY <1>4, <1>5

LEMMA BoundedThreads ==
  ASSUME Bounded, EpochInv, NEW w \in Threads, ThreadTouches(w)
  PROVE  Bounded'
<1>0. /\ Len(slots) \in Nat /\ DOMAIN slots = 1 .. Len(slots)
      /\ slots \in Seq([since : Nat, taken : BOOLEAN])
      /\ \A i \in 1 .. Len(slots) : slots[i].taken \in BOOLEAN /\ slots[i].since \in Nat
  <2>1. slots \in Seq([since : Nat, taken : BOOLEAN])
    BY DEF EpochInv, SlotType
  <2>2. \A i \in 1 .. Len(slots) : slots[i] \in [since : Nat, taken : BOOLEAN]
    BY <2>1, ElementOfSeq
  <2>3. Len(slots) \in Nat /\ DOMAIN slots = 1 .. Len(slots)
    BY <2>1, LenProperties
  <2>4. \A r \in [since : Nat, taken : BOOLEAN] : r.taken \in BOOLEAN /\ r.since \in Nat
    OBVIOUS
  <2> QED
    BY <2>1, <2>2, <2>3, <2>4
<1>1. CASE LoadEpoch(w)
  <2>1. UNCHANGED <<slots, laneEpoch, current>> /\ pc' = [pc EXCEPT ![w] = "storeSince"]
    BY <1>1 DEF LoadEpoch, Goto, slotVars, epochVars
  <2> QED
    BY <2>1, BoundedThread DEF Bounded
<1>2. CASE StoreSince(w)
  <2>1. pc[w] \notin Out /\ seenEpoch[w] \in Nat /\ seenEpoch[w] <= LANE_IDLE
    BY <1>2, EpochsSmall, LaneAssumption DEF StoreSince, Goto, Out
  <2>2. slots' = [slots EXCEPT ![slotOf[w]] = [since |-> seenEpoch[w], taken |-> slots[slotOf[w]].taken]]
    BY <1>2 DEF StoreSince
  <2>3. slotOf[w] \in 1 .. Len(slots)
    BY <2>1 DEF EpochInv, SlotsBelong
  <2>4. /\ Len(slots') = Len(slots)
        /\ slots'[slotOf[w]].since = seenEpoch[w]
        /\ \A i \in 1 .. Len(slots) : i # slotOf[w] => slots'[i] = slots[i]
    BY <1>0, <2>1, <2>2, <2>3, StoreToSlot DEF EpochInv
  <2>5. \A i \in 1 .. Len(slots) : slots'[i].since <= LANE_IDLE
    BY <2>1, <2>4 DEF Bounded
  <2> QED
    BY <1>2, <2>4, <2>5, BoundedThread DEF StoreSince, Goto, epochVars
<1>3. CASE ReadValue(w)
  BY <1>3, BoundedAlone DEF ReadValue, slotVars, epochVars
<1>4. CASE DestroyJob(w)
  BY <1>4, BoundedThread DEF DestroyJob, Goto, slotVars, epochVars, Bounded
<1>5. CASE GoIdle(w)
  <2>1. pc[w] \notin Out /\ LANE_IDLE \in Nat
    BY <1>5, EpochsSmall DEF GoIdle, Goto, Out
  <2>2. slots' = [slots EXCEPT ![slotOf[w]] = [since |-> LANE_IDLE, taken |-> slots[slotOf[w]].taken]]
    BY <1>5 DEF GoIdle
  <2>3. slotOf[w] \in 1 .. Len(slots)
    BY <2>1 DEF EpochInv, SlotsBelong
  <2>4. /\ Len(slots') = Len(slots)
        /\ slots'[slotOf[w]].since = LANE_IDLE
        /\ \A i \in 1 .. Len(slots) : i # slotOf[w] => slots'[i] = slots[i]
    BY <1>0, <2>1, <2>2, <2>3, StoreToSlot DEF EpochInv
  <2>5. \A i \in 1 .. Len(slots) : slots'[i].since <= LANE_IDLE
    BY <2>1, <2>4 DEF Bounded
  <2> QED
    BY <1>5, <2>4, <2>5, BoundedThread DEF GoIdle, Goto, epochVars
<1>6. CASE Leave(w)
  <2>1. pc[w] \notin Out
    BY <1>6 DEF Leave, Goto, Out
  <2>2. slots' = [slots EXCEPT ![slotOf[w]] = [since |-> slots[slotOf[w]].since, taken |-> FALSE]]
    BY <1>6 DEF Leave
  <2>3. slotOf[w] \in 1 .. Len(slots)
    BY <2>1 DEF EpochInv, SlotsBelong
  <2>4. /\ Len(slots') = Len(slots)
        /\ slots'[slotOf[w]].since = slots[slotOf[w]].since
        /\ \A i \in 1 .. Len(slots) : i # slotOf[w] => slots'[i] = slots[i]
    BY <1>0, <2>1, <2>2, <2>3, StoreToSlot DEF EpochInv
  <2>5. \A i \in 1 .. Len(slots) : slots'[i].since <= LANE_IDLE
    BY <2>4 DEF Bounded
  <2> QED
    BY <1>6, <2>4, <2>5, BoundedThread DEF Leave, Goto, epochVars
<1> QED
  BY <1>1, <1>2, <1>3, <1>4, <1>5, <1>6 DEF ThreadTouches

LEMMA BoundedClients ==
  ASSUME Bounded, EpochInv, NEW c \in Clients, ClientTouches(c)
  PROVE  Bounded'
<1>1. CASE \E w \in Threads : StartThread(c, w)
  <2>1. PICK w \in Threads : StartThread(c, w)
    BY <1>1
  <2>2. /\ UNCHANGED <<laneEpoch, current>>
        /\ pc[c] = "start" /\ pc[w] = "off" /\ takeLaneSlot(w)
        /\ \E to \in {"idle", "start"} : pc' = [pc EXCEPT ![w] = "top", ![c] = to]
    BY <2>1 DEF StartThread, epochVars
  <2>3. \A d \in Clients : pc'[d] = "mark" <=> pc[d] = "mark"
    BY <2>2, Apart DEF EpochInv, SlotType, Actors
  <2>4. Marking(pc') = Marking(pc)
    BY <2>3 DEF Marking
  <2>5. ASSUME NEW i \in 1 .. Len(slots') PROVE slots'[i].since <= LANE_IDLE
    <3>1. takeLaneSlot(w) /\ LANE_IDLE \in Nat
      BY <2>2, EpochsSmall
    <3>2. /\ slots'[slotOf'[w]].since = LANE_IDLE
          /\ i # slotOf'[w] => i \in 1 .. Len(slots) /\ slots'[i] = slots[i]
      BY <2>5, <3>1, TakenSlot
    <3> HIDE DEF LANE_IDLE
    <3>3. CASE i = slotOf'[w]
      BY <3>1, <3>2, <3>3
    <3>4. CASE i # slotOf'[w]
      BY <3>2, <3>4 DEF Bounded
    <3> QED
      BY <3>3, <3>4
  <2> QED
    BY <2>1, <2>2, <2>4, <2>5, RoomForSlot DEF Bounded, MarksAreCounted
<1>2. CASE Exchange(c)
  <2>1. /\ UNCHANGED <<slots, laneEpoch>> /\ pc[c] = "idle" /\ pc' = [pc EXCEPT ![c] = "mark"]
        /\ current < MaxMarks /\ current' = current + 1
    BY <1>2 DEF Exchange, Goto, slotVars
  <2>2. \A d \in Clients : pc'[d] = "mark" <=> d = c \/ pc[d] = "mark"
    BY <2>1 DEF EpochInv, SlotType, Actors
  <2>3. Marking(pc') = Marking(pc) \cup {c} /\ c \notin Marking(pc)
    BY <2>1, <2>2 DEF Marking
  <2>4. Cardinality(Marking(pc')) = Cardinality(Marking(pc)) + 1
    BY <2>3, MarkingFinite, FS_AddElement
  <2>5. laneEpoch \in Nat /\ current \in Nat /\ MaxMarks \in Nat /\ Cardinality(Marking(pc)) \in Nat
    BY MarkingFinite, LaneAssumption DEF EpochInv, EpochType
  <2>6. MarksAreCounted'
    BY <2>1, <2>4, <2>5 DEF Bounded, MarksAreCounted
  <2> QED
    BY <2>1, <2>6 DEF Bounded
<1>3. CASE markBackground(c)
  <2>1. /\ UNCHANGED <<slots, current>> /\ pc[c] = "mark" /\ pc' = [pc EXCEPT ![c] = "idle"]
        /\ laneEpoch' = laneEpoch + 1
    BY <1>3 DEF markBackground, Goto, slotVars
  <2>2. \A d \in Clients : pc'[d] = "mark" <=> d # c /\ pc[d] = "mark"
    BY <2>1 DEF EpochInv, SlotType, Actors
  <2>3. Marking(pc') = Marking(pc) \ {c} /\ c \in Marking(pc)
    BY <2>1, <2>2 DEF Marking
  <2>4. Cardinality(Marking(pc')) = Cardinality(Marking(pc)) - 1
    BY <2>3, MarkingFinite, FS_RemoveElement
  <2>5. laneEpoch \in Nat /\ current \in Nat /\ Cardinality(Marking(pc)) \in Nat
    BY MarkingFinite DEF EpochInv, EpochType
  <2>6. MarksAreCounted'
    BY <2>1, <2>4, <2>5 DEF Bounded, MarksAreCounted
  <2> QED
    BY <2>1, <2>6 DEF Bounded
<1>4. CASE backgroundPassed(c) \/ SlotPassed(c) \/ FreeOld(c)
  <2>1. /\ UNCHANGED <<slots, laneEpoch, current>> /\ pc[c] # "mark"
        /\ \E to \in {"passed", "idle"} : pc' = [pc EXCEPT ![c] = to]
    BY <1>4 DEF backgroundPassed, SlotPassed, FreeOld, Goto, slotVars
  <2>2. \A d \in Clients : pc'[d] = "mark" <=> pc[d] = "mark"
    BY <2>1 DEF EpochInv, SlotType, Actors
  <2> QED
    BY <2>1, <2>2, BoundedAlone
<1> QED
  BY <1>1, <1>2, <1>3, <1>4 DEF ClientTouches

LEMMA BoundedNext == EpochInv /\ Bounded /\ [Next]_vars => Bounded'
<1> SUFFICES ASSUME EpochInv, Bounded, [Next]_vars PROVE Bounded'
  OBVIOUS
<1>1. CASE LeavesSlotsAlone
  BY <1>1, BoundedAlone DEF LeavesSlotsAlone, slotVars, epochVars
<1> QED
  BY <1>1, BoundedThreads, BoundedClients, SlotSteps

-----------------------------------------------------------------------------
(* The jobs: where they are and how they are counted. *)

JobType ==
  /\ cells \in Seq([job : Jobs, filled : BOOLEAN])
  /\ job \in [Actors -> Jobs \cup {None}]
  /\ captured \subseteq Jobs
  /\ promise \in [Jobs -> {"none", "pending", "value", "exception", "broken"}]
  /\ DOMAIN pc = Actors

JobInv ==
  /\ JobType
  /\ JobsHavePlaces
  /\ CapturesInPlaces
  /\ CountIsExact

\* What most steps are to the jobs.
LeavesJobsAlone ==
  /\ UNCHANGED <<cells, job, captured, jobs, outstanding>>
  /\ promise' \in [Jobs -> {"none", "pending", "value", "exception", "broken"}]
  /\ \A j \in Jobs : promise'[j] = "pending" => promise[j] = "pending"
  /\ DOMAIN pc' = Actors
  /\ \A c \in Clients : pc'[c] = pc[c] \/ (pc[c] \notin ClientHas /\ pc'[c] \notin ClientHas)
  /\ \A w \in Threads : \/ pc'[w] = pc[w]
                        \/ pc[w] \notin ThreadHas /\ pc'[w] \notin ThreadHas
                        \/ pc[w] \in ThreadHas \ {"count"} /\ pc'[w] \in ThreadHas \ {"count"}

\* None is no job.
LEMMA NoJob == None \notin Jobs /\ Jobs \subseteq Nat /\ MaxJobs \in Nat
BY LaneAssumption DEF Jobs

\* Jobs are finitely many.
LEMMA JobsFinite ==
  ASSUME NEW S \in SUBSET Jobs
  PROVE  IsFiniteSet(S) /\ Cardinality(S) \in Nat
<1>1. IsFiniteSet(Jobs)
  BY NoJob, FS_Interval DEF Jobs
<1> QED
  BY <1>1, FS_Subset, FS_CardinalityType

\* With the same jobs counted, the count is the same.
LEMMA SameCounted ==
  ASSUME NEW q, NEW r, NEW jb, NEW kb, NEW p, NEW o,
         \A j \in Jobs : \/ \E i \in 1 .. Len(q) : q[i].job = j
                         \/ \E a \in Actors : jb[a] = j /\ p[a] # "assignJob"
                         <=>
                         \/ \E i \in 1 .. Len(r) : r[i].job = j
                         \/ \E a \in Actors : kb[a] = j /\ o[a] # "assignJob"
  PROVE  CountedOf(q, jb, p) = CountedOf(r, kb, o)
BY DEF CountedOf

\* A step that leaves the jobs alone keeps the invariant.
LEMMA JobsAlonePreserves ==
  ASSUME JobInv, LeavesJobsAlone
  PROVE  JobInv'
<1>1. UNCHANGED <<cells, job, captured, jobs, outstanding>>
  BY DEF LeavesJobsAlone
<1>2. \A a \in Actors : job[a] # None =>
        /\ pc'[a] = "count" <=> pc[a] = "count"
        /\ pc'[a] = "assignJob" <=> pc[a] = "assignJob"
  <2>1. \A c \in Clients : job[c] # None => pc'[c] = pc[c]
    BY DEF LeavesJobsAlone, JobInv, JobsHavePlaces
  <2>2. \A w \in Threads : job[w] # None =>
          /\ pc'[w] = "count" <=> pc[w] = "count"
          /\ pc'[w] # "assignJob" /\ pc[w] # "assignJob"
    BY DEF LeavesJobsAlone, JobInv, JobsHavePlaces, ThreadHas
  <2> QED
    BY <2>1, <2>2 DEF Actors
<1>3. JobType'
  BY <1>1 DEF JobInv, JobType, LeavesJobsAlone
<1>4. \A c \in Clients : /\ pc'[c] = "fill" <=> pc[c] = "fill"
                         /\ pc'[c] \in ClientHas <=> pc[c] \in ClientHas
  BY DEF LeavesJobsAlone, ClientHas
<1>5. \A w \in Threads : pc'[w] \in ThreadHas <=> pc[w] \in ThreadHas
  BY DEF LeavesJobsAlone
<1>6. JobsHavePlaces'
  BY <1>1, <1>4, <1>5 DEF JobInv, JobsHavePlaces, InCells
<1>7. CapturesInPlaces'
  BY <1>1, <1>2 DEF JobInv, CapturesInPlaces, InCells, LeavesJobsAlone
<1>8. \A j \in Jobs : \A a \in Actors : job[a] = j /\ pc[a] # "assignJob" <=> job'[a] = j /\ pc'[a] # "assignJob"
  BY <1>1, <1>2, NoJob
<1>9. Counted' = Counted
  BY <1>1, <1>8, SameCounted DEF Counted
<1>10. CountIsExact'
  BY <1>1, <1>9 DEF JobInv, CountIsExact
<1> QED
  BY <1>3, <1>6, <1>7, <1>10 DEF JobInv

LEMMA JobInit == Init => JobInv
<1> SUFFICES ASSUME Init PROVE JobInv
  OBVIOUS
<1>1. /\ cells = <<>> /\ Len(cells) = 0 /\ cells \in Seq([job : Jobs, filled : BOOLEAN])
  BY EmptySeq DEF Init
<1>2. \A a \in Actors : job[a] = None
  BY DEF Init
<1>3. /\ \A w \in Threads : pc[w] = "off"
      /\ \A c \in Clients : pc[c] = "idle"
  BY Apart DEF Init, Actors
<1>4. JobType
  BY <1>1 DEF Init, JobType
<1>5. JobsHavePlaces
  BY <1>1, <1>2, <1>3 DEF JobsHavePlaces, ClientHas, ThreadHas, Actors
<1>6. CapturesInPlaces
  BY <1>1, <1>2, NoJob DEF Init, CapturesInPlaces
<1>7. Counted = {}
  BY <1>1, <1>2, NoJob DEF Counted, CountedOf
<1>8. CountIsExact
  BY <1>7, FS_EmptySet DEF Init, CountIsExact
<1> QED
  BY <1>4, <1>5, <1>6, <1>8 DEF JobInv

\* The steps of a client that have nothing to do with jobs.
LEMMA ClientLeavesJobs ==
  ASSUME JobInv, NEW c \in Clients, NEW from, NEW to, Goto(c, from, to),
         UNCHANGED <<cells, job, captured, jobs, outstanding, promise>>,
         from \notin ClientHas, to \notin ClientHas
  PROVE  LeavesJobsAlone
<1>1. DOMAIN pc' = Actors /\ \A w \in Threads : pc'[w] = pc[w]
  BY Apart DEF Goto, JobInv, JobType, Actors
<1>2. \A d \in Clients : pc'[d] = pc[d] \/ (pc[d] \notin ClientHas /\ pc'[d] \notin ClientHas)
  BY DEF Goto, JobInv, JobType, Actors
<1> QED
  BY <1>1, <1>2 DEF LeavesJobsAlone, JobInv, JobType

\* The same of a thread, which may also go on with the job it has.
LEMMA ThreadLeavesJobs ==
  ASSUME JobInv, NEW w \in Threads, NEW from, NEW to, Goto(w, from, to),
         UNCHANGED <<cells, job, captured, jobs, outstanding, promise>>,
         \/ from \notin ThreadHas /\ to \notin ThreadHas
         \/ from \in ThreadHas \ {"count"} /\ to \in ThreadHas \ {"count"}
  PROVE  LeavesJobsAlone
<1>1. DOMAIN pc' = Actors /\ \A c \in Clients : pc'[c] = pc[c]
  BY Apart DEF Goto, JobInv, JobType, Actors
<1>2. \A v \in Threads : \/ pc'[v] = pc[v]
                         \/ pc[v] \notin ThreadHas /\ pc'[v] \notin ThreadHas
                         \/ pc[v] \in ThreadHas \ {"count"} /\ pc'[v] \in ThreadHas \ {"count"}
  BY DEF Goto, JobInv, JobType, Actors
<1> QED
  BY <1>1, <1>2 DEF LeavesJobsAlone, JobInv, JobType

\* A step that moves nobody.
LEMMA NobodyMoves ==
  ASSUME JobInv, UNCHANGED <<pc, cells, job, captured, jobs, outstanding, promise>>
  PROVE  LeavesJobsAlone
BY DEF LeavesJobsAlone, JobInv, JobType

\* The steps that have to do with jobs.
ThreadMovesJob(w) ==
  \/ FrontFilled /\ PopJob(w)
  \/ (\E how \in {"value", "exception"} : JobEnds(w, how))
  \/ DestroyJob(w) \/ CountJob(w)

ClientMovesJob(c) ==
  \/ spawn(c) \/ Reserve(c) \/ Fill(c)
  \/ FrontFilled /\ PopDropped(c)
  \/ AssignCounted(c) \/ AssignJob(c)

LEMMA JobThreadSteps ==
  ASSUME JobInv, NEW w \in Threads,
         Thread(w) \/ ReadValue(w) \/ \E how \in {"value", "exception"} : JobEnds(w, how)
  PROVE  LeavesJobsAlone \/ ThreadMovesJob(w)
<1> USE DEF ThreadHas, queueVars, countVars, jobVars
<1>1. CASE CheckStop(w)
  BY <1>1, ThreadLeavesJobs DEF CheckStop
<1>2. CASE PopJob(w)
  BY <1>2, ThreadLeavesJobs DEF PopJob, ThreadMovesJob
<1>3. CASE Wake(w)
  BY <1>3, ThreadLeavesJobs DEF Wake
<1>4. CASE Timeout(w)
  BY <1>4, ThreadLeavesJobs DEF Timeout
<1>5. CASE TakeWakeUp(w)
  BY <1>5, ThreadLeavesJobs DEF TakeWakeUp
<1>6. CASE CheckStillOn(w)
  BY <1>6, ThreadLeavesJobs DEF CheckStillOn
<1>7. CASE LoadEpoch(w)
  BY <1>7, ThreadLeavesJobs DEF LoadEpoch
<1>8. CASE StoreSince(w)
  BY <1>8, ThreadLeavesJobs DEF StoreSince
<1>9. CASE CheckCancelled(w)
  BY <1>9, ThreadLeavesJobs DEF CheckCancelled
<1>10. CASE Forward(w)
  BY <1>10, ThreadLeavesJobs DEF Forward
<1>11. CASE GoIdle(w)
  BY <1>11, ThreadLeavesJobs DEF GoIdle
<1>12. CASE Leave(w)
  BY <1>12, ThreadLeavesJobs DEF Leave
<1>13. CASE ReadValue(w)
  BY <1>13, NobodyMoves DEF ReadValue
<1> QED
  BY <1>1, <1>2, <1>3, <1>4, <1>5, <1>6, <1>7, <1>8, <1>9, <1>10, <1>11, <1>12, <1>13 DEF Thread, ThreadMovesJob

LEMMA JobClientSteps ==
  ASSUME JobInv, NEW c \in Clients,
         Begin(c) \/ Submit(c) \/ Start(c) \/ Shutdown(c) \/ Wait(c) \/ Replace(c)
  PROVE  LeavesJobsAlone \/ ClientMovesJob(c)
<1> USE DEF ClientHas, queueVars, countVars, jobVars
<1>1. ASSUME LoadCount(c) PROVE LeavesJobsAlone
  <2>1. pc[c] \in {"idle", "load"} /\ Goto(c, pc[c], IF outstanding = 0 THEN "idle" ELSE "wait")
    BY <1>1 DEF LoadCount, Goto
  <2>2. UNCHANGED <<cells, job, captured, jobs, outstanding, promise>>
    BY <1>1 DEF LoadCount
  <2> QED
    BY <2>1, <2>2, ClientLeavesJobs
<1>2. CASE Begin(c)
  <2>1. CASE \E j \in Jobs : cancel(c, j)
    BY <2>1, NobodyMoves DEF cancel
  <2>2. CASE initBackground(c)
    BY <2>2, ClientLeavesJobs DEF initBackground
  <2>3. CASE SwapThreads(c)
    BY <2>3, ClientLeavesJobs DEF SwapThreads
  <2>4. CASE Exchange(c)
    BY <2>4, ClientLeavesJobs DEF Exchange
  <2>5. CASE backgroundPassed(c)
    BY <2>5, ClientLeavesJobs DEF backgroundPassed
  <2> QED
    BY <1>1, <1>2, <2>1, <2>2, <2>3, <2>4, <2>5 DEF Begin, ClientMovesJob
<1>3. CASE Submit(c)
  BY <1>3, ClientLeavesJobs DEF Submit, Release, ClientMovesJob
<1>4. CASE Start(c)
  <2>1. PICK w \in Threads : StartThread(c, w)
    BY <1>4 DEF Start
  <2>2. /\ pc[c] = "start" /\ pc[w] = "off"
        /\ \E to \in {"idle", "start"} : pc' = [pc EXCEPT ![w] = "top", ![c] = to]
        /\ UNCHANGED <<cells, job, captured, jobs, outstanding, promise>>
    BY <2>1 DEF StartThread
  <2>3. /\ DOMAIN pc' = Actors
        /\ \A d \in Clients : d # c => pc'[d] = pc[d]
        /\ \A v \in Threads : v # w => pc'[v] = pc[v]
        /\ pc'[w] = "top" /\ pc'[c] \in {"idle", "start"}
    BY <2>2, Apart DEF JobInv, JobType, Actors
  <2> QED
    BY <2>2, <2>3 DEF LeavesJobsAlone, JobInv, JobType, ThreadHas
<1>5. CASE Shutdown(c)
  <2>1. CASE \E w \in Threads : RequestStop(c, w)
    BY <2>1, NobodyMoves DEF RequestStop
  <2>2. CASE SignalStop(c)
    BY <2>2, ClientLeavesJobs DEF SignalStop
  <2>3. CASE JoinAll(c)
    <3>1. /\ \A a \in Actors : pc'[a] = IF a = c THEN "drain" ELSE IF a \in joining[c] THEN "off" ELSE pc[a]
          /\ DOMAIN pc' = Actors
          /\ pc[c] = "join" /\ \A w \in joining[c] : pc[w] = "ended"
          /\ UNCHANGED <<cells, job, captured, jobs, outstanding, promise>>
      BY <2>3 DEF JoinAll
    <3>2. \A a \in Actors : \/ pc'[a] = pc[a]
                            \/ a = c /\ pc[a] = "join" /\ pc'[a] = "drain"
                            \/ pc[a] = "ended" /\ pc'[a] = "off"
      BY <3>1
    <3> QED
      BY <3>1, <3>2, Apart DEF LeavesJobsAlone, JobInv, JobType, ThreadHas, Actors
  <2>4. CASE PopDropped(c)
    BY <2>4, ClientLeavesJobs DEF PopDropped, ClientMovesJob
  <2>5. CASE TakeBack(c)
    BY <2>5, ClientLeavesJobs DEF TakeBack
  <2> QED
    BY <1>5, <2>1, <2>2, <2>3, <2>4, <2>5 DEF Shutdown, ClientMovesJob
<1>6. CASE Wait(c)
  BY <1>1, <1>6, ClientLeavesJobs DEF Wait, WaitCount
<1>7. CASE Replace(c)
  <2>1. CASE markBackground(c)
    BY <2>1, ClientLeavesJobs DEF markBackground
  <2>2. CASE SlotPassed(c)
    BY <2>2, ClientLeavesJobs DEF SlotPassed
  <2>3. CASE NotPassed(c)
    BY <2>3, ClientLeavesJobs DEF NotPassed
  <2>4. CASE FreeOld(c)
    BY <2>4, ClientLeavesJobs DEF FreeOld
  <2> QED
    BY <1>7, <2>1, <2>2, <2>3, <2>4 DEF Replace
<1> QED
  BY <1>2, <1>3, <1>4, <1>5, <1>6, <1>7

\* submitBackground counts a new job.
LEMMA SpawnPreserves ==
  ASSUME JobInv, NEW c \in Clients, spawn(c)
  PROVE  JobInv'
<1> DEFINE n == jobs + 1
<1>1. /\ jobs < MaxJobs /\ jobs' = n /\ UNCHANGED cells
      /\ pc[c] = "idle" /\ pc' = [pc EXCEPT ![c] = "reserve"]
      /\ job' = [job EXCEPT ![c] = n]
      /\ captured' = captured \cup {n}
      /\ promise' = [promise EXCEPT ![n] = "pending"]
      /\ outstanding' = outstanding + 1
  BY DEF spawn, Goto, queueVars
<1>2. jobs \in 0 .. MaxJobs /\ n \in Jobs /\ n # None /\ n > jobs /\ \A m \in Nat : m <= jobs => m # n /\ m <= n
  BY <1>1, NoJob DEF JobInv, CapturesInPlaces, Jobs
<1>3. /\ DOMAIN pc' = Actors /\ pc'[c] = "reserve" /\ job'[c] = n
      /\ \A a \in Actors : a # c => pc'[a] = pc[a] /\ job'[a] = job[a]
      /\ \A w \in Threads : w # c /\ pc'[w] = pc[w] /\ job'[w] = job[w]
  BY <1>1, Apart DEF JobInv, JobType, Actors
<1>4. job[c] = None
  BY <1>1 DEF JobInv, JobsHavePlaces, ClientHas
<1>5. /\ \A i \in 1 .. Len(cells) : cells[i].job \in captured /\ cells[i].job # n
      /\ \A a \in Actors : job[a] # n
      /\ \A j \in captured : j <= jobs /\ j # n
  <2>1. \A j \in captured : j \in Nat /\ j <= jobs
    BY NoJob DEF JobInv, JobType, CapturesInPlaces
  <2>2. \A a \in Actors : job[a] # None => job[a] \in Nat /\ job[a] <= jobs
    BY NoJob DEF JobInv, JobType, CapturesInPlaces
  <2> QED
    BY <1>2, <2>1, <2>2 DEF JobInv, CapturesInPlaces
<1> HIDE DEF n
<1>6. JobType'
  BY <1>1, <1>2, <1>3 DEF JobInv, JobType
<1>7. JobsHavePlaces'
  <2>1. \A i, k \in 1 .. Len(cells') : cells'[i].job = cells'[k].job => i = k
    BY <1>1 DEF JobInv, JobsHavePlaces
  <2>2. \A a, b \in Actors : job'[a] = job'[b] /\ job'[a] # None => a = b
    BY <1>3, <1>5 DEF JobInv, JobsHavePlaces
  <2>3. \A a \in Actors, i \in 1 .. Len(cells') :
          cells'[i].job = job'[a] => a \in Clients /\ pc'[a] = "fill" /\ ~cells'[i].filled
    BY <1>1, <1>3, <1>5 DEF JobInv, JobsHavePlaces
  <2>4. \A d \in Clients : /\ pc'[d] = "fill" => InCells(job[d])' /\ d # c
                           /\ job'[d] # None <=> pc'[d] \in ClientHas
    BY <1>1, <1>2, <1>3 DEF JobInv, JobsHavePlaces, InCells, ClientHas, Actors
  <2> QED
    BY <1>3, <2>1, <2>2, <2>3, <2>4 DEF JobInv, JobsHavePlaces
<1>8. CapturesInPlaces'
  <2>1. jobs' \in 0 .. MaxJobs
    BY <1>1, <1>2, NoJob DEF n
  <2>2. \A a \in Actors : job'[a] # None => job'[a] <= jobs' /\ (job'[a] \in captured' <=> pc'[a] # "count")
    <3>1. ASSUME NEW a \in Actors, a # c, job[a] # None PROVE job[a] \in Nat /\ job[a] <= jobs'
      BY <1>1, <1>2, <3>1, NoJob DEF JobInv, JobType, CapturesInPlaces
    <3>2. n <= jobs'
      BY <1>1, <1>2 DEF Jobs
    <3> QED
      BY <1>1, <1>3, <1>5, <3>1, <3>2 DEF JobInv, CapturesInPlaces
  <2>3. \A j \in captured' : j <= jobs' /\ (InCells(j)' \/ \E a \in Actors : job'[a] = j)
    <3>1. ASSUME NEW j \in captured PROVE j <= jobs' /\ (InCells(j)' \/ \E a \in Actors : job'[a] = j)
      <4>1. j <= jobs'
        BY <1>1, <1>2, <1>5, NoJob DEF JobInv, JobType
      <4>2. InCells(j) \/ \E a \in Actors : job[a] = j /\ a # c
        BY <1>4, NoJob DEF JobInv, JobType, CapturesInPlaces
      <4> QED
        BY <1>1, <1>3, <4>1, <4>2 DEF InCells
    <3>2. n <= jobs' /\ \E a \in Actors : job'[a] = n
      BY <1>1, <1>2, <1>3 DEF Jobs, Actors
    <3> QED
      BY <1>1, <3>1, <3>2
  <2>4. \A j \in Jobs : promise'[j] = "pending" => j \in captured'
    BY <1>1, <1>2 DEF JobInv, JobType, CapturesInPlaces
  <2>5. \A i \in 1 .. Len(cells') : cells'[i].job \in captured'
    BY <1>1, <1>5
  <2> QED
    BY <2>1, <2>2, <2>3, <2>4, <2>5 DEF CapturesInPlaces
<1>9. Counted' = Counted \cup {n} /\ n \notin Counted
  BY <1>1, <1>2, <1>3, <1>4, <1>5, NoJob DEF Counted, CountedOf, Actors
<1>10. CountIsExact'
  <2>1. IsFiniteSet(Counted) /\ Cardinality(Counted) \in Nat
    BY JobsFinite DEF Counted, CountedOf
  <2> QED
    BY <1>1, <1>9, <2>1, FS_AddElement DEF JobInv, CountIsExact
<1> QED
  BY <1>6, <1>7, <1>8, <1>10 DEF JobInv

\* Sequences of cells: what a push and a pop do.
LEMMA PushedCell ==
  ASSUME NEW q \in Seq([job : Jobs, filled : BOOLEAN]), NEW j \in Jobs,
         NEW r, r = Append(q, [job |-> j, filled |-> FALSE])
  PROVE  /\ r \in Seq([job : Jobs, filled : BOOLEAN])
         /\ Len(r) = Len(q) + 1 /\ Len(q) \in Nat
         /\ \A i \in 1 .. Len(q) : r[i] = q[i]
         /\ r[Len(r)].job = j /\ ~r[Len(r)].filled
<1> DEFINE e == [job |-> j, filled |-> FALSE]
<1>1. e \in [job : Jobs, filled : BOOLEAN] /\ e.job = j /\ ~e.filled /\ r = Append(q, e)
  OBVIOUS
<1> HIDE DEF e
<1>2. Len(q) \in Nat
  BY LenProperties
<1> QED
  BY <1>1, <1>2, AppendProperties

LEMMA PoppedCell ==
  ASSUME NEW q \in Seq([job : Jobs, filled : BOOLEAN]), q # <<>>
  PROVE  /\ Tail(q) \in Seq([job : Jobs, filled : BOOLEAN])
         /\ Len(Tail(q)) = Len(q) - 1 /\ Len(q) \in Nat /\ Len(q) >= 1
         /\ \A i \in 1 .. Len(q) - 1 : Tail(q)[i] = q[i + 1]
         /\ Head(q) = q[1] /\ Head(q).job \in Jobs
<1>1. Len(q) \in Nat /\ Len(q) # 0
  BY LenProperties, EmptySeq
<1>2. Head(q) \in [job : Jobs, filled : BOOLEAN]
  BY HeadTailProperties
<1> QED
  BY <1>1, <1>2, HeadTailProperties

\* A push reserves a cell for the job of the client.
LEMMA ReservePreserves ==
  ASSUME JobInv, NEW c \in Clients, Reserve(c)
  PROVE  JobInv'
<1>1. /\ UNCHANGED <<job, captured, promise, jobs, outstanding>>
      /\ pc[c] = "reserve" /\ pc' = [pc EXCEPT ![c] = "fill"]
      /\ cells' = Append(cells, [job |-> job[c], filled |-> FALSE])
  BY DEF Reserve, Goto, jobVars, countVars
<1>2. job[c] # None /\ job[c] \in Jobs /\ job[c] \in captured
  BY <1>1 DEF JobInv, JobType, JobsHavePlaces, CapturesInPlaces, ClientHas, Actors
<1>3. /\ DOMAIN pc' = Actors /\ pc'[c] = "fill"
      /\ \A a \in Actors : a # c => pc'[a] = pc[a]
      /\ \A w \in Threads : w # c /\ pc'[w] = pc[w]
  BY <1>1, Apart DEF JobInv, JobType, Actors
<1>4. /\ cells' \in Seq([job : Jobs, filled : BOOLEAN])
      /\ Len(cells') = Len(cells) + 1 /\ Len(cells) \in Nat
      /\ \A i \in 1 .. Len(cells) : cells'[i] = cells[i]
      /\ cells'[Len(cells')].job = job[c] /\ ~cells'[Len(cells')].filled
  BY <1>1, <1>2, PushedCell DEF JobInv, JobType
<1>5. \A i \in 1 .. Len(cells) : cells[i].job # job[c]
  BY <1>1 DEF JobInv, JobsHavePlaces, Actors
<1>6. \A i \in 1 .. Len(cells') : i \in 1 .. Len(cells) \/ i = Len(cells')
  BY <1>4
<1>7. JobType'
  BY <1>1, <1>3, <1>4 DEF JobInv, JobType
<1>8. JobsHavePlaces'
  <2>1. \A i, k \in 1 .. Len(cells') : cells'[i].job = cells'[k].job => i = k
    BY <1>4, <1>5, <1>6 DEF JobInv, JobsHavePlaces
  <2>2. ASSUME NEW a \in Actors, NEW i \in 1 .. Len(cells'), cells'[i].job = job'[a]
        PROVE  a \in Clients /\ pc'[a] = "fill" /\ ~cells'[i].filled
    <3>1. CASE i = Len(cells')
      <4>1. a = c
        BY <1>1, <1>2, <1>4, <2>2, <3>1 DEF JobInv, JobsHavePlaces, Actors
      <4> QED
        BY <1>3, <1>4, <3>1, <4>1
    <3>2. CASE i \in 1 .. Len(cells)
      BY <1>1, <1>3, <1>4, <2>2, <3>2 DEF JobInv, JobsHavePlaces
    <3> QED
      BY <1>6, <3>1, <3>2
  <2>3. \A d \in Clients : pc'[d] = "fill" => InCells(job[d])'
    <3>1. \A i \in 1 .. Len(cells) : i \in 1 .. Len(cells')
      BY <1>4
    <3>2. Len(cells') \in 1 .. Len(cells')
      BY <1>4
    <3> QED
      BY <1>1, <1>3, <1>4, <3>1, <3>2 DEF JobInv, JobsHavePlaces, InCells, Actors
  <2>4. \A d \in Clients : job'[d] # None <=> pc'[d] \in ClientHas
    BY <1>1, <1>2, <1>3 DEF JobInv, JobsHavePlaces, ClientHas, Actors
  <2> QED
    BY <1>1, <1>3, <2>1, <2>2, <2>3, <2>4 DEF JobInv, JobsHavePlaces
<1>9. \A i \in 1 .. Len(cells) : i \in 1 .. Len(cells')
  BY <1>4
<1>10. CapturesInPlaces'
  BY <1>1, <1>2, <1>3, <1>4, <1>6, <1>9 DEF JobInv, CapturesInPlaces, InCells
<1>11. Counted' = Counted
  <2>1. \A j \in Jobs : (\E i \in 1 .. Len(cells') : cells'[i].job = j)
                          <=> (\E i \in 1 .. Len(cells) : cells[i].job = j) \/ j = job[c]
    <3>1. Len(cells') \in 1 .. Len(cells')
      BY <1>4
    <3> QED
      BY <1>4, <1>6, <1>9, <3>1
  <2>2. \A a \in Actors : pc'[a] # "assignJob" <=> pc[a] # "assignJob"
    BY <1>1, <1>3
  <2> QED
    BY <1>1, <2>1, <2>2 DEF Counted, CountedOf, Actors
<1>12. CountIsExact'
  BY <1>1, <1>11 DEF JobInv, CountIsExact
<1> QED
  BY <1>7, <1>8, <1>10, <1>12 DEF JobInv

\* The push fills the cell, and the job is the queue's.
LEMMA FillPreserves ==
  ASSUME JobInv, NEW c \in Clients, Fill(c)
  PROVE  JobInv'
<1>1. /\ UNCHANGED <<captured, promise, jobs, outstanding>>
      /\ pc[c] = "fill" /\ pc' = [pc EXCEPT ![c] = "release"]
      /\ job' = [job EXCEPT ![c] = None]
      /\ \E i \in DOMAIN cells : /\ cells[i].job = job[c]
                                 /\ cells' = [cells EXCEPT ![i] = [job |-> job[c], filled |-> TRUE]]
  BY DEF Fill, Goto, jobVars, countVars
<1>2. job[c] # None /\ job[c] \in Jobs /\ job[c] \in captured
  BY <1>1 DEF JobInv, JobType, JobsHavePlaces, CapturesInPlaces, ClientHas, Actors
<1>3. /\ DOMAIN pc' = Actors /\ pc'[c] = "release" /\ job'[c] = None
      /\ \A a \in Actors : a # c => pc'[a] = pc[a] /\ job'[a] = job[a]
      /\ \A w \in Threads : w # c /\ pc'[w] = pc[w] /\ job'[w] = job[w]
  BY <1>1, Apart DEF JobInv, JobType, Actors
<1>4. /\ cells' \in Seq([job : Jobs, filled : BOOLEAN])
      /\ Len(cells') = Len(cells) /\ Len(cells) \in Nat
      /\ \A k \in 1 .. Len(cells) : cells'[k].job = cells[k].job
      /\ \A k \in 1 .. Len(cells) : cells[k].job # job[c] => cells'[k] = cells[k]
  <2>1. PICK i \in DOMAIN cells : /\ cells[i].job = job[c]
                                  /\ cells' = [cells EXCEPT ![i] = [job |-> job[c], filled |-> TRUE]]
    BY <1>1
  <2>2. cells \in Seq([job : Jobs, filled : BOOLEAN]) /\ Len(cells) \in Nat /\ i \in 1 .. Len(cells)
    BY LenProperties DEF JobInv, JobType
  <2> DEFINE e == [job |-> job[c], filled |-> TRUE]
  <2>3. e \in [job : Jobs, filled : BOOLEAN] /\ e.job = job[c] /\ cells' = [cells EXCEPT ![i] = e]
    BY <1>2, <2>1
  <2> HIDE DEF e
  <2> QED
    BY <2>1, <2>2, <2>3, ExceptSeq
<1>5. \E i \in 1 .. Len(cells) : cells[i].job = job[c]
  BY <1>1 DEF JobInv, JobsHavePlaces, InCells
<1>6. JobType'
  BY <1>1, <1>3, <1>4 DEF JobInv, JobType
<1>7. JobsHavePlaces'
  <2>1. \A i, k \in 1 .. Len(cells') : cells'[i].job = cells'[k].job => i = k
    BY <1>4 DEF JobInv, JobsHavePlaces
  <2>2. \A a, b \in Actors : job'[a] = job'[b] /\ job'[a] # None => a = b
    BY <1>3 DEF JobInv, JobsHavePlaces
  <2>3. ASSUME NEW a \in Actors, NEW i \in 1 .. Len(cells'), cells'[i].job = job'[a]
        PROVE  a \in Clients /\ pc'[a] = "fill" /\ ~cells'[i].filled
    <3>1. cells[i].job \in Jobs /\ cells[i].job = job'[a] /\ i \in 1 .. Len(cells)
      BY <1>4, <2>3 DEF JobInv, CapturesInPlaces, JobType
    <3>2. a # c /\ job'[a] = job[a]
      BY <1>3, <3>1, NoJob
    <3>3. job[a] # job[c]
      BY <1>2, <3>2 DEF JobInv, JobsHavePlaces, Actors
    <3> QED
      BY <1>3, <1>4, <3>1, <3>2, <3>3 DEF JobInv, JobsHavePlaces
  <2>4. \A d \in Clients : /\ pc'[d] = "fill" => InCells(job[d])'
                           /\ job'[d] # None <=> pc'[d] \in ClientHas
    BY <1>3, <1>4 DEF JobInv, JobsHavePlaces, InCells, ClientHas, Actors
  <2> QED
    BY <1>3, <2>1, <2>2, <2>3, <2>4 DEF JobInv, JobsHavePlaces
<1>8. \A j : (\E i \in 1 .. Len(cells') : cells'[i].job = j) <=> (\E i \in 1 .. Len(cells) : cells[i].job = j)
  BY <1>4
<1>9. CapturesInPlaces'
  <2>1. \A j \in captured' : j <= jobs' /\ (InCells(j)' \/ \E a \in Actors : job'[a] = j)
    BY <1>1, <1>3, <1>5, <1>8 DEF JobInv, CapturesInPlaces, InCells
  <2> QED
    BY <1>1, <1>3, <1>4, <2>1 DEF JobInv, CapturesInPlaces
<1>10. Counted' = Counted
  <2>1. \A j \in Jobs : j # job[c] =>
          ((\E a \in Actors : job'[a] = j /\ pc'[a] # "assignJob")
             <=> (\E a \in Actors : job[a] = j /\ pc[a] # "assignJob"))
    BY <1>3, NoJob
  <2>2. \A j \in Jobs : \/ \E i \in 1 .. Len(cells') : cells'[i].job = j
                        \/ \E a \in Actors : job'[a] = j /\ pc'[a] # "assignJob"
                        <=>
                        \/ \E i \in 1 .. Len(cells) : cells[i].job = j
                        \/ \E a \in Actors : job[a] = j /\ pc[a] # "assignJob"
    <3> TAKE j \in Jobs
    <3>1. CASE j = job[c]
      BY <1>5, <1>8, <3>1
    <3>2. CASE j # job[c]
      BY <1>8, <2>1, <3>2
    <3> QED
      BY <3>1, <3>2
  <2> QED
    BY <2>2, SameCounted DEF Counted
<1>11. CountIsExact'
  BY <1>1, <1>10 DEF JobInv, CountIsExact
<1> QED
  BY <1>6, <1>7, <1>9, <1>11 DEF JobInv

\* A pop takes a filled job from the front, to a thread or to a shutdown.
LEMMA PopPreserves ==
  ASSUME JobInv, FrontFilled, NEW a \in Actors, NEW from, NEW to, Goto(a, from, to),
         UNCHANGED <<captured, promise, jobs, outstanding>>,
         cells' = Tail(cells),
         job' = [job EXCEPT ![a] = Head(cells).job],
         \/ a \in Threads /\ from = "pop" /\ to = "takeWakeUp"
         \/ a \in Clients /\ from = "drain" /\ to = "assign"
  PROVE  JobInv'
<1> DEFINE n == Head(cells).job
<1>1. /\ cells' \in Seq([job : Jobs, filled : BOOLEAN])
      /\ Len(cells') = Len(cells) - 1 /\ Len(cells) \in Nat /\ Len(cells) >= 1
      /\ \A i \in 1 .. Len(cells) - 1 : cells'[i] = cells[i + 1]
      /\ n = cells[1].job /\ cells[1].filled /\ n \in Jobs
  BY PoppedCell DEF JobInv, JobType, FrontFilled
<1>2. n \in captured /\ n # None
  BY <1>1, NoJob DEF JobInv, CapturesInPlaces
<1>3. \A b \in Actors : job[b] # n
  BY <1>1 DEF JobInv, JobsHavePlaces
<1>4. job[a] = None
  BY DEF Goto, JobInv, JobsHavePlaces, ClientHas, ThreadHas
<1> HIDE DEF n
<1>5. job' = [job EXCEPT ![a] = n]
  BY DEF n
<1>6. /\ DOMAIN pc' = Actors /\ pc'[a] = to /\ job'[a] = n
      /\ \A b \in Actors : b # a => pc'[b] = pc[b] /\ job'[b] = job[b]
  BY <1>5 DEF Goto, JobInv, JobType
<1>7. \A i \in 1 .. Len(cells') : /\ i + 1 \in 1 .. Len(cells) /\ cells'[i] = cells[i + 1]
                                  /\ cells'[i].job # n
  BY <1>1 DEF JobInv, JobsHavePlaces
<1>8. \A k \in 1 .. Len(cells) : k = 1 \/ (k - 1 \in 1 .. Len(cells') /\ cells'[k - 1] = cells[k])
  BY <1>1
<1>9. \A j : (\E i \in 1 .. Len(cells) : cells[i].job = j)
               <=> (\E i \in 1 .. Len(cells') : cells'[i].job = j) \/ j = n
  <2>1. 1 \in 1 .. Len(cells) /\ cells[1].job = n
    BY <1>1
  <2> TAKE j
  <2>2. ASSUME NEW i \in 1 .. Len(cells), cells[i].job = j
        PROVE  (\E k \in 1 .. Len(cells') : cells'[k].job = j) \/ j = n
    BY <1>8, <2>1, <2>2
  <2>3. ASSUME NEW k \in 1 .. Len(cells'), cells'[k].job = j
        PROVE  \E i \in 1 .. Len(cells) : cells[i].job = j
    BY <1>7, <2>3
  <2> QED
    BY <2>1, <2>2, <2>3
<1>10. JobType'
  BY <1>1, <1>5, <1>6 DEF JobInv, JobType
<1>11. JobsHavePlaces'
  <2>1. \A i, k \in 1 .. Len(cells') : cells'[i].job = cells'[k].job => i = k
    BY <1>1, <1>7 DEF JobInv, JobsHavePlaces
  <2>2. \A b, d \in Actors : job'[b] = job'[d] /\ job'[b] # None => b = d
    BY <1>3, <1>6 DEF JobInv, JobsHavePlaces
  <2>3. ASSUME NEW b \in Actors, NEW i \in 1 .. Len(cells'), cells'[i].job = job'[b]
        PROVE  b \in Clients /\ pc'[b] = "fill" /\ ~cells'[i].filled
    <3>1. b # a /\ pc'[b] = pc[b] /\ job'[b] = job[b]
      BY <1>6, <1>7, <2>3
    <3>2. i + 1 \in 1 .. Len(cells) /\ cells'[i] = cells[i + 1]
      BY <1>7
    <3>3. cells[i + 1].job = job[b]
      BY <2>3, <3>1, <3>2
    <3>4. b \in Clients /\ pc[b] = "fill" /\ ~cells[i + 1].filled
      BY <3>2, <3>3 DEF JobInv, JobsHavePlaces
    <3> QED
      BY <3>1, <3>2, <3>4
  <2>4. ASSUME NEW d \in Clients, pc'[d] = "fill" PROVE InCells(job[d])'
    <3>1. d \in Actors /\ d # a
      BY <1>6, <2>4 DEF Actors
    <3>2. pc[d] = "fill" /\ job'[d] = job[d] /\ job[d] # n
      BY <1>3, <1>6, <2>4, <3>1
    <3>3. \E i \in 1 .. Len(cells) : cells[i].job = job[d]
      BY <3>2 DEF JobInv, JobsHavePlaces, InCells
    <3>4. \E i \in 1 .. Len(cells') : cells'[i].job = job[d]
      BY <1>9, <3>2, <3>3
    <3> QED
      BY <3>2, <3>4 DEF InCells
  <2>5. ASSUME NEW d \in Clients PROVE job'[d] # None <=> pc'[d] \in ClientHas
    <3>1. d \in Actors /\ d \notin Threads
      BY Apart DEF Actors
    <3>2. CASE d = a
      BY <1>2, <1>6, <3>1, <3>2 DEF ClientHas
    <3>3. CASE d # a
      BY <1>6, <3>1, <3>3 DEF JobInv, JobsHavePlaces
    <3> QED
      BY <3>2, <3>3
  <2>6. \A w \in Threads : job'[w] # None <=> pc'[w] \in ThreadHas
    BY <1>2, <1>6, Apart DEF JobInv, JobsHavePlaces, ThreadHas, Actors
  <2> QED
    BY <2>1, <2>2, <2>3, <2>4, <2>5, <2>6 DEF JobsHavePlaces
<1>12. CapturesInPlaces'
  <2>1. \A b \in Actors : job'[b] # None => job'[b] <= jobs' /\ (job'[b] \in captured' <=> pc'[b] # "count")
    BY <1>2, <1>6 DEF JobInv, CapturesInPlaces
  <2>2. \A j \in captured' : j <= jobs' /\ (InCells(j)' \/ \E b \in Actors : job'[b] = j)
    <3>1. ASSUME NEW j \in captured, j # n PROVE InCells(j)' \/ \E b \in Actors : job'[b] = j
      <4>1. InCells(j) \/ \E b \in Actors : job[b] = j /\ b # a
        BY <1>4, NoJob DEF JobInv, JobType, CapturesInPlaces
      <4> QED
        BY <1>6, <1>9, <3>1, <4>1 DEF InCells
    <3> QED
      BY <1>6, <3>1 DEF JobInv, CapturesInPlaces
  <2>3. \A i \in 1 .. Len(cells') : cells'[i].job \in captured'
    BY <1>7 DEF JobInv, CapturesInPlaces
  <2> QED
    BY <2>1, <2>2, <2>3 DEF JobInv, CapturesInPlaces
<1>13. Counted' = Counted
  <2>1. \A j \in Jobs : (\E b \in Actors : job'[b] = j /\ pc'[b] # "assignJob")
                          <=> (\E b \in Actors : job[b] = j /\ pc[b] # "assignJob") \/ j = n
    <3>1. to # "assignJob"
      OBVIOUS
    <3> QED
      BY <1>4, <1>6, <3>1, NoJob
  <2> QED
    BY <1>9, <2>1 DEF Counted, CountedOf
<1>14. CountIsExact'
  BY <1>13 DEF JobInv, CountIsExact
<1> QED
  BY <1>10, <1>11, <1>12, <1>14 DEF JobInv

\* A job has run: its promise has a result.
LEMMA JobEndsAlone ==
  ASSUME JobInv, NEW w \in Threads, NEW how \in {"value", "exception"}, JobEnds(w, how)
  PROVE  LeavesJobsAlone
<1>1. /\ UNCHANGED <<cells, job, captured, jobs, outstanding>>
      /\ pc[w] = "run" /\ pc' = [pc EXCEPT ![w] = "destroy"]
      /\ promise' = [promise EXCEPT ![job[w]] = how]
  BY DEF JobEnds, Goto, queueVars, countVars
<1>2. /\ DOMAIN pc' = Actors /\ pc'[w] = "destroy"
      /\ \A v \in Threads : v # w => pc'[v] = pc[v]
      /\ \A c \in Clients : pc'[c] = pc[c]
  BY <1>1, Apart DEF JobInv, JobType, Actors
<1>3. promise' \in [Jobs -> {"none", "pending", "value", "exception", "broken"}]
  BY <1>1 DEF JobInv, JobType
<1>4. \A j \in Jobs : promise'[j] = "pending" => promise[j] = "pending"
  BY <1>1 DEF JobInv, JobType
<1> QED
  BY <1>1, <1>2, <1>3, <1>4 DEF LeavesJobsAlone, ThreadHas

\* A thread destroys the captures of its job.
LEMMA DestroyPreserves ==
  ASSUME JobInv, NEW w \in Threads, DestroyJob(w)
  PROVE  JobInv'
<1> DEFINE n == job[w]
<1>1. /\ UNCHANGED <<cells, job, jobs, outstanding>>
      /\ pc[w] \in {"drop", "destroy"} /\ pc' = [pc EXCEPT ![w] = "count"]
      /\ captured' = captured \ {n}
      /\ promise' = [promise EXCEPT ![n] = IF promise[n] = "pending" THEN "broken" ELSE promise[n]]
  BY DEF DestroyJob, DestroyCaptures, Goto, queueVars, countVars
<1>2. n # None /\ n \in Jobs /\ w \in Actors
  BY <1>1 DEF JobInv, JobType, JobsHavePlaces, ThreadHas, Actors
<1>3. /\ DOMAIN pc' = Actors /\ pc'[w] = "count"
      /\ \A a \in Actors : a # w => pc'[a] = pc[a] /\ job[a] # n
      /\ \A c \in Clients : c # w /\ pc'[c] = pc[c]
  BY <1>1, <1>2, Apart DEF JobInv, JobType, JobsHavePlaces, Actors
<1>4. \A i \in 1 .. Len(cells) : cells[i].job # n
  BY <1>1, <1>2 DEF JobInv, JobsHavePlaces
<1>5. /\ promise' \in [Jobs -> {"none", "pending", "value", "exception", "broken"}]
      /\ \A j \in Jobs : promise'[j] = "pending" => promise[j] = "pending" /\ j # n
  BY <1>1, <1>2 DEF JobInv, JobType
<1>6. JobType'
  BY <1>1, <1>3, <1>5 DEF JobInv, JobType
<1>7. JobsHavePlaces'
  BY <1>1, <1>3 DEF JobInv, JobsHavePlaces, InCells, ThreadHas
<1>8. CapturesInPlaces'
  BY <1>1, <1>3, <1>4, <1>5 DEF JobInv, CapturesInPlaces, InCells
<1>9. Counted' = Counted
  <2>1. \A j \in Jobs : (\E a \in Actors : job'[a] = j /\ pc'[a] # "assignJob")
                          <=> (\E a \in Actors : job[a] = j /\ pc[a] # "assignJob")
    BY <1>1, <1>3
  <2> QED
    BY <1>1, <2>1 DEF Counted, CountedOf
<1>10. CountIsExact'
  BY <1>1, <1>9 DEF JobInv, CountIsExact
<1> QED
  BY <1>6, <1>7, <1>8, <1>10 DEF JobInv

\* A thread counts its job out.
LEMMA CountJobPreserves ==
  ASSUME JobInv, NEW w \in Threads, CountJob(w)
  PROVE  JobInv'
<1> DEFINE n == job[w]
<1>1. /\ UNCHANGED <<cells, captured, promise, jobs>>
      /\ pc[w] = "count" /\ pc' = [pc EXCEPT ![w] = "goIdle"]
      /\ job' = [job EXCEPT ![w] = None]
      /\ outstanding' = outstanding - 1
  BY DEF CountJob, CountOut, Goto, queueVars, jobVars
<1>2. n # None /\ n \in Jobs /\ w \in Actors /\ n \notin captured
  BY <1>1 DEF JobInv, JobType, JobsHavePlaces, CapturesInPlaces, ThreadHas, Actors
<1>3. /\ DOMAIN pc' = Actors /\ pc'[w] = "goIdle" /\ job'[w] = None
      /\ \A a \in Actors : a # w => pc'[a] = pc[a] /\ job'[a] = job[a] /\ job[a] # n
      /\ \A c \in Clients : c # w /\ pc'[c] = pc[c] /\ job'[c] = job[c]
  BY <1>1, <1>2, Apart DEF JobInv, JobType, JobsHavePlaces, Actors
<1>4. \A i \in 1 .. Len(cells) : cells[i].job # n /\ cells[i].job # None
  BY <1>2, NoJob DEF JobInv, CapturesInPlaces, JobType
<1>5. JobType'
  BY <1>1, <1>3 DEF JobInv, JobType
<1>6. JobsHavePlaces'
  <2>1. \A a, b \in Actors : job'[a] = job'[b] /\ job'[a] # None => a = b
    BY <1>3 DEF JobInv, JobsHavePlaces
  <2>2. \A a \in Actors, i \in 1 .. Len(cells') :
          cells'[i].job = job'[a] => a \in Clients /\ pc'[a] = "fill" /\ ~cells'[i].filled
    BY <1>1, <1>3, <1>4 DEF JobInv, JobsHavePlaces
  <2>3. \A v \in Threads : job'[v] # None <=> pc'[v] \in ThreadHas
    BY <1>3 DEF JobInv, JobsHavePlaces, ThreadHas, Actors
  <2> QED
    BY <1>1, <1>3, <2>1, <2>2, <2>3 DEF JobInv, JobsHavePlaces, InCells
<1>7. CapturesInPlaces'
  <2>1. \A j \in captured' : j <= jobs' /\ (InCells(j)' \/ \E a \in Actors : job'[a] = j)
    BY <1>1, <1>2, <1>3 DEF JobInv, CapturesInPlaces, InCells
  <2> QED
    BY <1>1, <1>3, <2>1 DEF JobInv, CapturesInPlaces
<1>8. Counted' = Counted \ {n} /\ n \in Counted
  <2>1. n \in Counted
    BY <1>1, <1>2 DEF Counted, CountedOf
  <2>2. \A j \in Jobs : (\E a \in Actors : job'[a] = j /\ pc'[a] # "assignJob")
                          <=> (\E a \in Actors : job[a] = j /\ pc[a] # "assignJob") /\ j # n
    BY <1>3, NoJob
  <2> QED
    BY <1>1, <1>4, <2>1, <2>2 DEF Counted, CountedOf
<1>9. CountIsExact'
  <2>1. IsFiniteSet(Counted) /\ Cardinality(Counted) \in Nat
    BY JobsFinite DEF Counted, CountedOf
  <2> QED
    BY <1>1, <1>8, <2>1, FS_RemoveElement DEF JobInv, CountIsExact
<1> QED
  BY <1>5, <1>6, <1>7, <1>9 DEF JobInv

\* shutdownBackground counts a job out before its captures are destroyed.
LEMMA AssignCountedPreserves ==
  ASSUME JobInv, NEW c \in Clients, AssignCounted(c)
  PROVE  JobInv'
<1> DEFINE n == job[c]
<1>1. /\ UNCHANGED <<cells, job, captured, promise, jobs>>
      /\ pc[c] = "assign" /\ pc' = [pc EXCEPT ![c] = "assignJob"]
      /\ outstanding' = outstanding - 1
  BY DEF AssignCounted, CountOut, Goto, queueVars, jobVars
<1>2. n # None /\ n \in Jobs /\ c \in Actors
  BY <1>1 DEF JobInv, JobType, JobsHavePlaces, ClientHas, Actors
<1>3. /\ DOMAIN pc' = Actors /\ pc'[c] = "assignJob"
      /\ \A a \in Actors : a # c => pc'[a] = pc[a] /\ job[a] # n
      /\ \A w \in Threads : c # w /\ pc'[w] = pc[w]
  BY <1>1, <1>2, Apart DEF JobInv, JobType, JobsHavePlaces, Actors
<1>4. \A i \in 1 .. Len(cells) : cells[i].job # n
  BY <1>1, <1>2 DEF JobInv, JobsHavePlaces
<1>5. JobType'
  BY <1>1, <1>3 DEF JobInv, JobType
<1>6. JobsHavePlaces'
  BY <1>1, <1>3 DEF JobInv, JobsHavePlaces, InCells, ClientHas, Actors
<1>7. CapturesInPlaces'
  BY <1>1, <1>3 DEF JobInv, CapturesInPlaces, InCells
<1>8. Counted' = Counted \ {n} /\ n \in Counted
  <2>1. n \in Counted
    BY <1>1, <1>2 DEF Counted, CountedOf
  <2>2. \A j \in Jobs : (\E a \in Actors : job'[a] = j /\ pc'[a] # "assignJob")
                          <=> (\E a \in Actors : job[a] = j /\ pc[a] # "assignJob") /\ j # n
    BY <1>1, <1>3
  <2> QED
    BY <1>1, <1>4, <2>1, <2>2 DEF Counted, CountedOf
<1>9. CountIsExact'
  <2>1. IsFiniteSet(Counted) /\ Cardinality(Counted) \in Nat
    BY JobsFinite DEF Counted, CountedOf
  <2> QED
    BY <1>1, <1>8, <2>1, FS_RemoveElement DEF JobInv, CountIsExact
<1> QED
  BY <1>5, <1>6, <1>7, <1>9 DEF JobInv

\* ... and then they are.
LEMMA AssignJobPreserves ==
  ASSUME JobInv, NEW c \in Clients, AssignJob(c)
  PROVE  JobInv'
<1> DEFINE n == job[c]
<1>1. /\ UNCHANGED <<cells, jobs, outstanding>>
      /\ pc[c] = "assignJob" /\ pc' = [pc EXCEPT ![c] = "drain"]
      /\ job' = [job EXCEPT ![c] = None]
      /\ captured' = captured \ {n}
      /\ promise' = [promise EXCEPT ![n] = IF promise[n] = "pending" THEN "broken" ELSE promise[n]]
  BY DEF AssignJob, DestroyCaptures, Goto, queueVars, countVars
<1>2. n # None /\ n \in Jobs /\ c \in Actors
  BY <1>1 DEF JobInv, JobType, JobsHavePlaces, ClientHas, Actors
<1>3. /\ DOMAIN pc' = Actors /\ pc'[c] = "drain" /\ job'[c] = None
      /\ \A a \in Actors : a # c => pc'[a] = pc[a] /\ job'[a] = job[a] /\ job[a] # n
      /\ \A w \in Threads : c # w /\ pc'[w] = pc[w] /\ job'[w] = job[w]
  BY <1>1, <1>2, Apart DEF JobInv, JobType, JobsHavePlaces, Actors
<1>4. \A i \in 1 .. Len(cells) : cells[i].job # n /\ cells[i].job # None
  BY <1>1, <1>2, NoJob DEF JobInv, JobsHavePlaces, CapturesInPlaces, JobType
<1>5. /\ promise' \in [Jobs -> {"none", "pending", "value", "exception", "broken"}]
      /\ \A j \in Jobs : promise'[j] = "pending" => promise[j] = "pending" /\ j # n
  BY <1>1, <1>2 DEF JobInv, JobType
<1>6. JobType'
  BY <1>1, <1>3, <1>5 DEF JobInv, JobType
<1>7. JobsHavePlaces'
  <2>1. \A a, b \in Actors : job'[a] = job'[b] /\ job'[a] # None => a = b
    BY <1>3 DEF JobInv, JobsHavePlaces
  <2>2. \A a \in Actors, i \in 1 .. Len(cells') :
          cells'[i].job = job'[a] => a \in Clients /\ pc'[a] = "fill" /\ ~cells'[i].filled
    BY <1>1, <1>3, <1>4 DEF JobInv, JobsHavePlaces
  <2>3. \A d \in Clients : /\ pc'[d] = "fill" => d # c /\ InCells(job[d])'
                           /\ job'[d] # None <=> pc'[d] \in ClientHas
    BY <1>1, <1>3 DEF JobInv, JobsHavePlaces, InCells, ClientHas, Actors
  <2> QED
    BY <1>1, <1>3, <2>1, <2>2, <2>3 DEF JobInv, JobsHavePlaces
<1>8. CapturesInPlaces'
  <2>1. \A j \in captured' : j <= jobs' /\ (InCells(j)' \/ \E a \in Actors : job'[a] = j)
    BY <1>1, <1>3 DEF JobInv, CapturesInPlaces, InCells
  <2> QED
    BY <1>1, <1>3, <1>4, <1>5, <2>1 DEF JobInv, CapturesInPlaces
<1>9. Counted' = Counted
  <2>1. \A j \in Jobs : (\E a \in Actors : job'[a] = j /\ pc'[a] # "assignJob")
                          <=> (\E a \in Actors : job[a] = j /\ pc[a] # "assignJob")
    BY <1>1, <1>3, NoJob
  <2> QED
    BY <1>1, <2>1 DEF Counted, CountedOf
<1>10. CountIsExact'
  BY <1>1, <1>9 DEF JobInv, CountIsExact
<1> QED
  BY <1>6, <1>7, <1>8, <1>10 DEF JobInv

LEMMA JobNext == JobInv /\ [Next]_vars => JobInv'
<1> SUFFICES ASSUME JobInv, [Next]_vars PROVE JobInv'
  OBVIOUS
<1>1. CASE UNCHANGED vars
  BY <1>1, NobodyMoves, JobsAlonePreserves DEF vars, queueVars, countVars, jobVars
<1>2. ASSUME NEW c \in Clients, ClientMovesJob(c) PROVE JobInv'
  <2>1. CASE FrontFilled /\ PopDropped(c)
    <3>1. /\ Goto(c, "drain", "assign") /\ cells' = Tail(cells)
          /\ job' = [job EXCEPT ![c] = Head(cells).job]
          /\ UNCHANGED <<captured, promise, jobs, outstanding>>
      BY <2>1 DEF PopDropped, countVars, jobVars
    <3> QED
      BY <2>1, <3>1, PopPreserves DEF Actors
  <2> QED
    BY <1>2, <2>1, SpawnPreserves, ReservePreserves, FillPreserves, AssignCountedPreserves,
       AssignJobPreserves DEF ClientMovesJob
<1>3. ASSUME NEW w \in Threads, ThreadMovesJob(w) PROVE JobInv'
  <2>1. CASE FrontFilled /\ PopJob(w)
    <3>1. /\ Goto(w, "pop", "takeWakeUp") /\ cells' = Tail(cells)
          /\ job' = [job EXCEPT ![w] = Head(cells).job]
          /\ UNCHANGED <<captured, promise, jobs, outstanding>>
      BY <2>1 DEF PopJob, countVars, jobVars
    <3> QED
      BY <2>1, <3>1, PopPreserves DEF Actors
  <2>2. CASE \E how \in {"value", "exception"} : JobEnds(w, how)
    BY <2>2, JobEndsAlone, JobsAlonePreserves
  <2> QED
    BY <1>3, <2>1, <2>2, DestroyPreserves, CountJobPreserves DEF ThreadMovesJob
<1> QED
  BY <1>1, <1>2, <1>3, JobClientSteps, JobThreadSteps, JobsAlonePreserves DEF Next

-----------------------------------------------------------------------------
(* The rest of the types. *)

PlainType ==
  /\ tokens \in Nat
  /\ sleepers \subseteq Clients
  /\ laneMutex \in Clients \cup {None}
  /\ threads \subseteq Threads
  /\ stopAsked \subseteq Threads
  /\ joining \in [Clients -> SUBSET Threads]
  /\ asked \subseteq Jobs

LEMMA PlainInit == Init => PlainType
BY DEF Init, PlainType

LEMMA PlainBegin ==
  ASSUME PlainType, JobType, NEW c \in Clients, Begin(c) \/ Submit(c)
  PROVE  PlainType'
<1> USE DEF queueVars, countVars, poolVars, jobVars, PlainType
<1>1. CASE spawn(c)
  BY <1>1 DEF spawn
<1>2. CASE \E j \in Jobs : cancel(c, j)
  BY <1>2 DEF cancel
<1>3. CASE initBackground(c)
  BY <1>3 DEF initBackground
<1>4. CASE SwapThreads(c)
  BY <1>4 DEF SwapThreads
<1>5. CASE LoadCount(c)
  BY <1>5 DEF LoadCount
<1>6. CASE Exchange(c)
  BY <1>6 DEF Exchange
<1>7. CASE backgroundPassed(c)
  BY <1>7 DEF backgroundPassed
<1>8. CASE Reserve(c)
  BY <1>8 DEF Reserve
<1>9. CASE Fill(c)
  BY <1>9 DEF Fill
<1>10. CASE Release(c)
  BY <1>10 DEF Release
<1> QED
  BY <1>1, <1>2, <1>3, <1>4, <1>5, <1>6, <1>7, <1>8, <1>9, <1>10 DEF Begin, Submit

LEMMA PlainClients ==
  ASSUME PlainType, JobInv, NEW c \in Clients, Start(c) \/ Shutdown(c) \/ Wait(c) \/ Replace(c)
  PROVE  PlainType'
<1> USE DEF queueVars, countVars, poolVars, jobVars, PlainType
<1>1. CASE Start(c)
  BY <1>1 DEF Start, StartThread
<1>2. CASE \E w \in Threads : RequestStop(c, w)
  <2>1. PICK w \in Threads : RequestStop(c, w)
    BY <1>2
  <2>2. pc[w] = "run" => job[w] \in Jobs
    BY DEF JobInv, JobType, JobsHavePlaces, ThreadHas, Actors
  <2> QED
    BY <2>1, <2>2 DEF RequestStop
<1>3. CASE SignalStop(c)
  <2>1. joining[c] \in SUBSET Threads
    OBVIOUS
  <2>2. Cardinality(joining[c]) \in Nat
    BY <2>1, FS_Subset, FS_CardinalityType, LaneAssumption
  <2> QED
    BY <1>3, <2>2 DEF SignalStop
<1>4. CASE JoinAll(c)
  BY <1>4 DEF JoinAll
<1>5. CASE PopDropped(c)
  BY <1>5 DEF PopDropped
<1>6. CASE AssignCounted(c)
  BY <1>6 DEF AssignCounted, CountOut
<1>7. CASE AssignJob(c)
  BY <1>7 DEF AssignJob, DestroyCaptures
<1>8. CASE TakeBack(c)
  BY <1>8 DEF TakeBack
<1>9. CASE LoadCount(c)
  BY <1>9 DEF LoadCount
<1>10. CASE WaitCount(c)
  BY <1>10 DEF WaitCount
<1>11. CASE markBackground(c)
  BY <1>11 DEF markBackground
<1>12. CASE SlotPassed(c)
  BY <1>12 DEF SlotPassed
<1>13. CASE NotPassed(c)
  BY <1>13 DEF NotPassed
<1>14. CASE FreeOld(c)
  BY <1>14 DEF FreeOld
<1> QED
  BY <1>1, <1>2, <1>3, <1>4, <1>5, <1>6, <1>7, <1>8, <1>9, <1>10, <1>11, <1>12, <1>13, <1>14
  DEF Shutdown, Wait, Replace

LEMMA PlainThreads ==
  ASSUME PlainType, JobInv, NEW w \in Threads,
         Thread(w) \/ ReadValue(w) \/ \E how \in {"value", "exception"} : JobEnds(w, how)
  PROVE  PlainType'
<1> USE DEF queueVars, countVars, poolVars, jobVars, PlainType
<1>1. CASE CheckStop(w)
  BY <1>1 DEF CheckStop
<1>2. CASE PopJob(w)
  BY <1>2 DEF PopJob
<1>3. CASE Wake(w)
  BY <1>3 DEF Wake
<1>4. CASE Timeout(w)
  BY <1>4 DEF Timeout
<1>5. CASE TakeWakeUp(w)
  BY <1>5 DEF TakeWakeUp
<1>6. CASE CheckStillOn(w)
  BY <1>6 DEF CheckStillOn
<1>7. CASE LoadEpoch(w)
  BY <1>7 DEF LoadEpoch
<1>8. CASE StoreSince(w)
  BY <1>8 DEF StoreSince
<1>9. CASE CheckCancelled(w)
  BY <1>9 DEF CheckCancelled
<1>10. CASE Forward(w)
  <2>1. job[w] \in Jobs
    BY <1>10 DEF Forward, Goto, JobInv, JobType, JobsHavePlaces, ThreadHas, Actors
  <2> QED
    BY <1>10, <2>1 DEF Forward
<1>11. CASE DestroyJob(w)
  BY <1>11 DEF DestroyJob, DestroyCaptures
<1>12. CASE CountJob(w)
  BY <1>12 DEF CountJob, CountOut
<1>13. CASE GoIdle(w)
  BY <1>13 DEF GoIdle
<1>14. CASE Leave(w)
  BY <1>14 DEF Leave
<1>15. CASE ReadValue(w)
  BY <1>15 DEF ReadValue
<1>16. CASE \E how \in {"value", "exception"} : JobEnds(w, how)
  BY <1>16 DEF JobEnds
<1> QED
  BY <1>1, <1>2, <1>3, <1>4, <1>5, <1>6, <1>7, <1>8, <1>9, <1>10, <1>11, <1>12, <1>13, <1>14, <1>15, <1>16
  DEF Thread

LEMMA PlainNext == JobInv /\ PlainType /\ [Next]_vars => PlainType'
<1> SUFFICES ASSUME JobInv, PlainType, [Next]_vars PROVE PlainType'
  OBVIOUS
<1>1. CASE UNCHANGED vars
  BY <1>1 DEF vars, queueVars, countVars, poolVars, jobVars, PlainType
<1> QED
  BY <1>1, PlainBegin, PlainClients, PlainThreads DEF Next, JobInv

-----------------------------------------------------------------------------
(* What follows. *)

LaneInv == EpochInv /\ Bounded /\ JobInv /\ PlainType

\* Everything the lane keeps, at all times.
THEOREM LaneInvariant == Spec => []LaneInv
<1>1. Init => LaneInv
  BY EpochInit, BoundedInit, JobInit, PlainInit DEF LaneInv
<1>2. LaneInv /\ [Next]_vars => LaneInv'
  BY EpochNext, BoundedNext, JobNext, PlainNext DEF LaneInv
<1> QED
  BY <1>1, <1>2, PTL DEF Spec

\* A sequence whose elements lie in a smaller set.
LEMMA SeqOf ==
  ASSUME NEW S, NEW T, NEW s \in Seq(S), \A i \in 1 .. Len(s) : s[i] \in T
  PROVE  s \in Seq(T)
<1>1. s \in [1 .. Len(s) -> T] /\ Len(s) \in Nat
  BY LenProperties
<1> QED
  BY <1>1, SMT

LEMMA LaneTypes == LaneInv => TypeOK
<1> SUFFICES ASSUME LaneInv PROVE TypeOK
  OBVIOUS
<1>1. outstanding \in Nat
  BY JobsFinite DEF LaneInv, JobInv, CountIsExact, Counted, CountedOf
<1>2. slots \in Seq([since : 0 .. LANE_IDLE, taken : BOOLEAN])
  <2>1. slots \in Seq([since : Nat, taken : BOOLEAN]) /\ LANE_IDLE \in Nat
    BY EpochsSmall DEF LaneInv, EpochInv, SlotType
  <2>2. slots \in [1 .. Len(slots) -> [since : Nat, taken : BOOLEAN]] /\ Len(slots) \in Nat
    BY <2>1, LenProperties
  <2>3. \A i \in 1 .. Len(slots) : slots[i] \in [since : 0 .. LANE_IDLE, taken : BOOLEAN]
    <3> TAKE i \in 1 .. Len(slots)
    <3>1. slots[i] \in [since : Nat, taken : BOOLEAN] /\ slots[i].since <= LANE_IDLE
      BY <2>2 DEF LaneInv, Bounded
    <3>2. slots[i].since \in 0 .. LANE_IDLE
      BY <2>1, <3>1
    <3> QED
      BY <3>1, <3>2
  <2> HIDE DEF LANE_IDLE
  <2> QED
    BY <2>1, <2>3, SeqOf
<1> QED
  BY <1>1, <1>2 DEF LaneInv, TypeOK, PlainType, JobInv, JobType, Bounded

\* A job is in captured for as long as it is counted, or about to be dropped.
LEMMA CountedHolds == LaneInv => JobsAreCounted
<1> SUFFICES ASSUME LaneInv PROVE JobsAreCounted
  OBVIOUS
<1>1. captured \ Dropping \in SUBSET Counted
  <2>1. ASSUME NEW j \in captured \ Dropping PROVE j \in Counted
    <3>1. j \in Jobs /\ \A c \in Clients : job[c] = j => pc[c] # "assignJob"
      BY DEF LaneInv, JobInv, JobType, Dropping
    <3>2. \A w \in Threads : job[w] = j => pc[w] # "assignJob"
      BY <3>1, NoJob DEF LaneInv, JobInv, JobsHavePlaces, ThreadHas
    <3>3. InCells(j) \/ \E a \in Actors : job[a] = j
      BY DEF LaneInv, JobInv, CapturesInPlaces
    <3> QED
      BY <3>1, <3>2, <3>3 DEF Counted, CountedOf, InCells, Actors
  <2> QED
    BY <2>1
<1>2. Counted \in SUBSET Jobs
  BY DEF Counted, CountedOf
<1>3. Cardinality(captured \ Dropping) <= Cardinality(Counted)
  BY <1>1, <1>2, JobsFinite, FS_Subset
<1> QED
  BY <1>3 DEF JobsAreCounted, LaneInv, JobInv, CountIsExact

LEMMA PlacesHold == LaneInv => NoJobIsLost
<1> SUFFICES ASSUME LaneInv, NEW j \in 1 .. jobs
             PROVE  /\ Cardinality(Places(j)) = IF j \in captured THEN 1 ELSE 0
                    /\ promise[j] = "pending" => j \in captured
  BY DEF NoJobIsLost
<1>1. j \in Jobs /\ j # None
  BY NoJob DEF LaneInv, JobInv, CapturesInPlaces, Jobs
<1>2. promise[j] = "pending" => j \in captured
  BY <1>1 DEF LaneInv, JobInv, CapturesInPlaces
<1>3. DOMAIN cells = 1 .. Len(cells)
  BY LenProperties DEF LaneInv, JobInv, JobType
<1>4. Places(j) = {i \in 1 .. Len(cells) : cells[i].job = j}
                    \cup {a \in Actors : job[a] = j /\ pc[a] \notin {"fill", "count"}}
  BY <1>3 DEF Places
<1>5. ASSUME j \notin captured PROVE Places(j) = {}
  BY <1>1, <1>4, <1>5 DEF LaneInv, JobInv, CapturesInPlaces
<1>6. ASSUME NEW i \in 1 .. Len(cells), cells[i].job = j PROVE Places(j) = {i}
  <2>1. \A k \in 1 .. Len(cells) : cells[k].job = j => k = i
    BY <1>6 DEF LaneInv, JobInv, JobsHavePlaces
  <2>2. \A a \in Actors : job[a] = j => pc[a] = "fill"
    BY <1>6 DEF LaneInv, JobInv, JobsHavePlaces
  <2> QED
    BY <1>4, <1>6, <2>1, <2>2
<1>7. ASSUME j \in captured, ~InCells(j) PROVE \E x : Places(j) = {x}
  <2>1. PICK a \in Actors : job[a] = j
    BY <1>7 DEF LaneInv, JobInv, CapturesInPlaces
  <2>2. pc[a] # "count"
    BY <1>1, <1>7, <2>1 DEF LaneInv, JobInv, CapturesInPlaces
  <2>3. \A b \in Actors : job[b] = j => b = a
    BY <1>1, <2>1 DEF LaneInv, JobInv, JobsHavePlaces
  <2>4. pc[a] # "fill"
    BY <1>1, <1>7, <2>1 DEF LaneInv, JobInv, JobsHavePlaces, ThreadHas, Actors
  <2>5. Places(j) = {a}
    BY <1>4, <1>7, <2>1, <2>2, <2>3, <2>4 DEF InCells
  <2> QED
    BY <2>5
<1>8. Cardinality(Places(j)) = IF j \in captured THEN 1 ELSE 0
  <2>1. CASE j \notin captured
    BY <1>5, <2>1, FS_EmptySet
  <2>2. CASE j \in captured
    <3>1. \E x : Places(j) = {x}
      BY <1>6, <1>7, <2>2 DEF InCells
    <3> QED
      BY <2>2, <3>1, FS_Singleton
  <2> QED
    BY <2>1, <2>2
<1> QED
  BY <1>2, <1>8

(* For every number of clients, threads and jobs: the types of the lane,   *)
(* with a count that never goes below zero (Outstanding) and no more slots *)
(* than threads (takeLaneSlot).                                            *)
THEOREM LaneTypeCorrect == Spec => []TypeOK
BY LaneInvariant, LaneTypes, PTL

(* For every number of clients, threads, jobs and calls of initBackground: *)
(* no job is lost or taken twice (submitBackground, the pops of laneThread *)
(* and of shutdownBackground), and each is counted for until its captures  *)
(* are gone, the one a shutdown is about to destroy apart.                 *)
THEOREM JobsSafe == Spec => []JobsAreSafe
<1>1. LaneInv => JobsAreSafe
  BY LaneTypes, CountedHolds, PlacesHold DEF JobsAreSafe
<1> QED
  BY <1>1, LaneInvariant, PTL

=============================================================================
