--------------------------- MODULE BackgroundLane ---------------------------
(***************************************************************************)
(* The background lane of sc::threading (src/sc/threading/background.cpp,  *)
(* background.hpp): spawn and its BackgroundTask, the threads of the lane, *)
(* init and shutdown, waitUntilBackgroundFinished, and the epochs by which *)
(* a value that was replaced is freed only when no job reads it any more   *)
(* (markBackground, backgroundPassed; their one user is replace of         *)
(* ResourceCache).                                                         *)
(*                                                                         *)
(* The queue is the one of ThreadPool: a push reserves a cell and fills it *)
(* later.  Jobs, values and epochs are numbers.  Ghost state: held, the    *)
(* values a running job has got to, and freed.                             *)
(***************************************************************************)
EXTENDS Naturals, Sequences, FiniteSets

CONSTANTS
  Clients,    \* threads that call the lane
  Threads,    \* threads the lane may start
  LaneSize,   \* how many initBackground starts
  MaxJobs,    \* bound: jobs
  MaxMarks,   \* bound: values that are replaced
  MaxInits,   \* bound: calls of initBackground
  None        \* nobody, nothing

ASSUME LaneAssumption ==
  /\ LaneSize \in Nat \ {0}
  /\ {MaxJobs, MaxMarks, MaxInits} \subseteq Nat
  /\ IsFiniteSet(Clients) /\ IsFiniteSet(Threads)
  /\ Clients \cap Threads = {}
  /\ None \notin Clients \cup Threads \cup Nat \cup [old : Nat, mark : Nat]

VARIABLES
  cells,        \* laneQueue: [job, filled], the front first
  tokens,       \* laneSemaphore
  outstanding,  \* outstanding
  sleepers,     \* who sleeps in outstanding.wait
  laneMutex,    \* laneThreadMutex: who holds it, or None
  threads,      \* laneThreads
  stopAsked,    \* the threads whose stop was requested
  joining,      \* the threads shutdownBackground joins
  slots,        \* laneSlots: [since, taken]
  slotOf,       \* the slot of a thread
  laneEpoch,    \* laneEpoch
  seenEpoch,    \* what LaneBusy::enter has loaded
  pc,           \* where a thread or a client is
  job,          \* the job it has
  woken,        \* woken
  now,          \* what waitUntilBackgroundFinished has loaded
  asked,        \* the jobs whose stop was requested
  captured,     \* the jobs whose captures exist
  promise,      \* of a job
  current,      \* the value in place
  owed,         \* what a client has replaced and not freed: [old, mark]
  asks,         \* the slot backgroundPassed looks at
  held,         \* ghost
  freed,        \* ghost
  jobs,         \* how many jobs there were
  inits         \* bound: initBackground so far

queueVars == <<cells, tokens>>
countVars == <<outstanding, sleepers, now>>
poolVars == <<laneMutex, threads, stopAsked, joining, inits>>
slotVars == <<slots, slotOf>>
jobVars == <<asked, captured, promise, jobs>>
epochVars == <<laneEpoch, current, owed, asks, freed>>
vars == <<queueVars, countVars, poolVars, slotVars, jobVars, epochVars, seenEpoch, held, pc, job, woken>>

Actors == Clients \cup Threads
Jobs == 1 .. MaxJobs
\* LANE_IDLE, above every epoch.
LANE_IDLE == MaxMarks + 1

Goto(a, from, to) ==
  /\ pc[a] = from
  /\ pc' = [pc EXCEPT ![a] = to]

Init ==
  /\ cells = <<>> /\ tokens = 0
  /\ outstanding = 0 /\ sleepers = {} /\ now = [c \in Clients |-> 0]
  /\ laneMutex = None /\ threads = {} /\ stopAsked = {} /\ inits = 0
  /\ joining = [c \in Clients |-> {}]
  /\ slots = <<>> /\ slotOf = [w \in Threads |-> 0]
  /\ asked = {} /\ captured = {} /\ jobs = 0
  /\ promise = [j \in Jobs |-> "none"]
  /\ laneEpoch = 0 /\ current = 0 /\ freed = {}
  /\ owed = [c \in Clients |-> None]
  /\ asks = [c \in Clients |-> 0]
  /\ seenEpoch = [w \in Threads |-> 0]
  /\ held = [w \in Threads |-> {}]
  /\ pc = [a \in Actors |-> IF a \in Threads THEN "off" ELSE "idle"]
  /\ job = [a \in Actors |-> None]
  /\ woken = [w \in Threads |-> FALSE]

-----------------------------------------------------------------------------
(* spawn and BackgroundTask *)

\* submitBackground: the job is counted before it is pushed.
spawn(c) ==
  LET j == jobs + 1 IN
  /\ jobs < MaxJobs
  /\ Goto(c, "idle", "reserve")
  /\ jobs' = j
  /\ job' = [job EXCEPT ![c] = j]
  /\ captured' = captured \cup {j}
  /\ promise' = [promise EXCEPT ![j] = "pending"]
  /\ outstanding' = outstanding + 1
  /\ UNCHANGED <<queueVars, sleepers, now, poolVars, slotVars, asked, epochVars, seenEpoch, held, woken>>

Reserve(c) ==
  /\ Goto(c, "reserve", "fill")
  /\ cells' = Append(cells, [job |-> job[c], filled |-> FALSE])
  /\ UNCHANGED <<tokens, countVars, poolVars, slotVars, jobVars, epochVars, seenEpoch, held, job, woken>>

Fill(c) ==
  /\ Goto(c, "fill", "release")
  /\ \E i \in DOMAIN cells :
       /\ cells[i].job = job[c]
       /\ cells' = [cells EXCEPT ![i] = [job |-> job[c], filled |-> TRUE]]
  /\ job' = [job EXCEPT ![c] = None]
  /\ UNCHANGED <<tokens, countVars, poolVars, slotVars, jobVars, epochVars, seenEpoch, held, woken>>

Release(c) ==
  /\ Goto(c, "release", "idle")
  /\ tokens' = tokens + 1
  /\ UNCHANGED <<cells, countVars, poolVars, slotVars, jobVars, epochVars, seenEpoch, held, job, woken>>

\* cancel, also by the destructor of BackgroundTask: of a job whose spawn has
\* returned.
cancel(c, j) ==
  /\ pc[c] = "idle"
  /\ j <= jobs
  /\ \A d \in Clients : job[d] # j
  /\ asked' = asked \cup {j}
  /\ UNCHANGED <<queueVars, countVars, poolVars, slotVars, captured, promise, jobs, epochVars, seenEpoch,
                 held, pc, job, woken>>

-----------------------------------------------------------------------------
(* How a job goes: Outstanding and the captures, in either order. *)

\* Outstanding::finish
CountOut ==
  /\ outstanding' = outstanding - 1
  /\ sleepers' = IF outstanding = 1 THEN {} ELSE sleepers
  /\ UNCHANGED now

\* A mistake in how a job goes: its promise stays as it is.
DestroyQuietly(j) ==
  /\ captured' = captured \ {j}
  /\ UNCHANGED <<promise, asked, jobs>>

\* A job that has not run takes its promise with it, broken.
DestroyCaptures(j) ==
  /\ captured' = captured \ {j}
  /\ promise' = [promise EXCEPT ![j] = IF @ = "pending" THEN "broken" ELSE @]
  /\ UNCHANGED <<asked, jobs>>

-----------------------------------------------------------------------------
(* laneThread *)

FrontFilled == cells # <<>> /\ Head(cells).filled

CheckStop(w) ==
  /\ Goto(w, "top", IF w \in stopAsked THEN "leave" ELSE "pop")
  /\ UNCHANGED <<queueVars, countVars, poolVars, slotVars, jobVars, epochVars, seenEpoch, held, job, woken>>

PopJob(w) ==
  /\ Goto(w, "pop", IF FrontFilled THEN "takeWakeUp" ELSE "sleep")
  /\ IF FrontFilled
       THEN /\ cells' = Tail(cells)
            /\ job' = [job EXCEPT ![w] = Head(cells).job]
       ELSE UNCHANGED <<cells, job>>
  /\ UNCHANGED <<tokens, countVars, poolVars, slotVars, jobVars, epochVars, seenEpoch, held, woken>>

Wake(w) ==
  /\ tokens > 0
  /\ Goto(w, "sleep", "top")
  /\ tokens' = tokens - 1
  /\ woken' = [woken EXCEPT ![w] = TRUE]
  /\ UNCHANGED <<cells, countVars, poolVars, slotVars, jobVars, epochVars, seenEpoch, held, job>>

Timeout(w) ==
  /\ Goto(w, "sleep", "top")
  /\ woken' = [woken EXCEPT ![w] = FALSE]
  /\ UNCHANGED <<queueVars, countVars, poolVars, slotVars, jobVars, epochVars, seenEpoch, held, job>>

TakeWakeUp(w) ==
  /\ Goto(w, "takeWakeUp", "stillOn")
  /\ woken' = [woken EXCEPT ![w] = FALSE]
  /\ tokens' = IF woken[w] \/ tokens = 0 THEN tokens ELSE tokens - 1
  /\ UNCHANGED <<cells, countVars, poolVars, slotVars, jobVars, epochVars, seenEpoch, held, job>>

\* Taken after shutdownBackground asked: dropped, without enter.
CheckStillOn(w) ==
  /\ Goto(w, "stillOn", IF w \in stopAsked THEN "drop" ELSE "loadEpoch")
  /\ UNCHANGED <<queueVars, countVars, poolVars, slotVars, jobVars, epochVars, seenEpoch, held, job, woken>>

\* LaneBusy::enter
LoadEpoch(w) ==
  /\ Goto(w, "loadEpoch", "storeSince")
  /\ seenEpoch' = [seenEpoch EXCEPT ![w] = laneEpoch]
  /\ UNCHANGED <<queueVars, countVars, poolVars, slotVars, jobVars, epochVars, held, job, woken>>

\* The store can be seen at the latest at the fence, and nothing of the job
\* comes before that.
StoreSince(w) ==
  /\ Goto(w, "storeSince", "runJob")
  /\ slots' = [slots EXCEPT ![slotOf[w]] = [since |-> seenEpoch[w], taken |-> @.taken]]
  /\ UNCHANGED <<queueVars, countVars, poolVars, slotOf, jobVars, epochVars, seenEpoch, held, job, woken>>

\* runJob: dropped if it was cancelled before it started ...
CheckCancelled(w) ==
  /\ Goto(w, "runJob", IF job[w] \in asked THEN "destroy" ELSE "forward")
  /\ UNCHANGED <<queueVars, countVars, poolVars, slotVars, jobVars, epochVars, seenEpoch, held, job, woken>>

\* ... and from here on the stop of the thread is the stop of the job, also
\* one that was requested before.
Forward(w) ==
  /\ Goto(w, "forward", "run")
  /\ asked' = IF w \in stopAsked THEN asked \cup {job[w]} ELSE asked
  /\ UNCHANGED <<queueVars, countVars, poolVars, slotVars, captured, promise, jobs, epochVars, seenEpoch,
                 held, job, woken>>

\* The job gets to the value by its handle, in the job or in a destructor of
\* its captures.
ReadValue(w) ==
  /\ pc[w] \in {"run", "destroy", "drop"}
  /\ held' = [held EXCEPT ![w] = @ \cup {current}]
  /\ UNCHANGED <<queueVars, countVars, poolVars, slotVars, jobVars, epochVars, seenEpoch, pc, job, woken>>

JobEnds(w, how) ==
  /\ Goto(w, "run", "destroy")
  /\ promise' = [promise EXCEPT ![job[w]] = how]
  /\ UNCHANGED <<queueVars, countVars, poolVars, slotVars, asked, captured, jobs, epochVars, seenEpoch, held,
                 job, woken>>

\* The members of QueuedJob go last to first: the captures ...
DestroyJob(w) ==
  /\ Goto(w, IF pc[w] = "drop" THEN "drop" ELSE "destroy", "count")
  /\ DestroyCaptures(job[w])
  /\ held' = [held EXCEPT ![w] = {}]
  /\ UNCHANGED <<queueVars, countVars, poolVars, slotVars, epochVars, seenEpoch, job, woken>>

\* ... then the count ...
CountJob(w) ==
  /\ Goto(w, "count", "goIdle")
  /\ CountOut
  /\ job' = [job EXCEPT ![w] = None]
  /\ UNCHANGED <<queueVars, poolVars, slotVars, jobVars, epochVars, seenEpoch, held, woken>>

\* ... and then LaneBusy.
GoIdle(w) ==
  /\ Goto(w, "goIdle", "top")
  /\ slots' = [slots EXCEPT ![slotOf[w]] = [since |-> LANE_IDLE, taken |-> @.taken]]
  /\ UNCHANGED <<queueVars, countVars, poolVars, slotOf, jobVars, epochVars, seenEpoch, held, job, woken>>

Leave(w) ==
  /\ Goto(w, "leave", "ended")
  /\ slots' = [slots EXCEPT ![slotOf[w]] = [since |-> @.since, taken |-> FALSE]]
  /\ UNCHANGED <<queueVars, countVars, poolVars, slotOf, jobVars, epochVars, seenEpoch, held, job, woken>>

-----------------------------------------------------------------------------
(* initBackground and shutdownBackground *)

initBackground(c) ==
  /\ inits < MaxInits
  /\ laneMutex = None
  /\ threads = {}
  /\ Goto(c, "idle", "start")
  /\ laneMutex' = c
  /\ inits' = inits + 1
  /\ UNCHANGED <<queueVars, countVars, threads, stopAsked, joining, slotVars, jobVars, epochVars, seenEpoch,
                 held, job, woken>>

\* A mistake in takeLaneSlot: a slot that is idle is taken for one nobody has.
takeIdleSlot(w) ==
  LET free == {i \in DOMAIN slots : slots[i].since = LANE_IDLE} IN
  \/ /\ free = {}
     /\ slots' = Append(slots, [since |-> LANE_IDLE, taken |-> TRUE])
     /\ slotOf' = [slotOf EXCEPT ![w] = Len(slots) + 1]
  \/ \E first \in free :
       /\ \A i \in free : first <= i
       /\ slots' = [slots EXCEPT ![first] = [since |-> @.since, taken |-> TRUE]]
       /\ slotOf' = [slotOf EXCEPT ![w] = first]

\* takeLaneSlot: the first that nobody has, or a new one.
takeLaneSlot(w) ==
  LET free == {i \in DOMAIN slots : ~slots[i].taken} IN
  \/ /\ free = {}
     /\ slots' = Append(slots, [since |-> LANE_IDLE, taken |-> TRUE])
     /\ slotOf' = [slotOf EXCEPT ![w] = Len(slots) + 1]
  \/ \E first \in free :
       /\ \A i \in free : first <= i
       /\ slots' = [slots EXCEPT ![first] = [since |-> @.since, taken |-> TRUE]]
       /\ slotOf' = [slotOf EXCEPT ![w] = first]

StartThread(c, w) ==
  /\ pc[c] = "start"
  /\ pc[w] = "off"
  /\ threads' = threads \cup {w}
  /\ takeLaneSlot(w)
  /\ pc' = [pc EXCEPT ![w] = "top", ![c] = IF Cardinality(threads') = LaneSize THEN "idle" ELSE "start"]
  /\ laneMutex' = IF Cardinality(threads') = LaneSize THEN None ELSE c
  /\ woken' = [woken EXCEPT ![w] = FALSE]
  /\ UNCHANGED <<queueVars, countVars, stopAsked, joining, inits, jobVars, epochVars, seenEpoch, held, job>>

SwapThreads(c) ==
  /\ laneMutex = None
  /\ Goto(c, "idle", "stop")
  /\ joining' = [joining EXCEPT ![c] = threads]
  /\ threads' = {}
  /\ UNCHANGED <<queueVars, countVars, laneMutex, stopAsked, inits, slotVars, jobVars, epochVars, seenEpoch,
                 held, job, woken>>

\* With the callback of runJob, while it is there.
RequestStop(c, w) ==
  /\ pc[c] = "stop"
  /\ w \in joining[c] \ stopAsked
  /\ stopAsked' = stopAsked \cup {w}
  /\ asked' = IF pc[w] = "run" THEN asked \cup {job[w]} ELSE asked
  /\ UNCHANGED <<queueVars, countVars, laneMutex, threads, joining, inits, slotVars, captured, promise, jobs,
                 epochVars, seenEpoch, held, pc, job, woken>>

SignalStop(c) ==
  /\ Goto(c, "stop", "join")
  /\ joining[c] \subseteq stopAsked
  /\ tokens' = tokens + Cardinality(joining[c])
  /\ UNCHANGED <<cells, countVars, poolVars, slotVars, jobVars, epochVars, seenEpoch, held, job, woken>>

\* A thread that has ended may be started again, as another one.
JoinAll(c) ==
  /\ pc[c] = "join"
  /\ \A w \in joining[c] : pc[w] = "ended"
  /\ pc' = [a \in Actors |-> IF a = c THEN "drain" ELSE IF a \in joining[c] THEN "off" ELSE pc[a]]
  /\ stopAsked' = stopAsked \ joining[c]
  /\ joining' = [joining EXCEPT ![c] = {}]
  /\ UNCHANGED <<queueVars, countVars, laneMutex, threads, inits, slotVars, jobVars, epochVars, seenEpoch,
                 held, job, woken>>

PopDropped(c) ==
  /\ Goto(c, "drain", IF FrontFilled THEN "assign" ELSE "takeBack")
  /\ IF FrontFilled
       THEN /\ cells' = Tail(cells)
            /\ job' = [job EXCEPT ![c] = Head(cells).job]
       ELSE UNCHANGED <<cells, job>>
  /\ UNCHANGED <<tokens, countVars, poolVars, slotVars, jobVars, epochVars, seenEpoch, held, woken>>

\* dropped = {} assigns the members first to last: the count goes ...
AssignCounted(c) ==
  /\ Goto(c, "assign", "assignJob")
  /\ CountOut
  /\ UNCHANGED <<queueVars, poolVars, slotVars, jobVars, epochVars, seenEpoch, held, job, woken>>

\* ... before the captures.
AssignJob(c) ==
  /\ Goto(c, "assignJob", "drain")
  /\ DestroyCaptures(job[c])
  /\ job' = [job EXCEPT ![c] = None]
  /\ UNCHANGED <<queueVars, countVars, poolVars, slotVars, epochVars, seenEpoch, held, woken>>

\* The wake-ups of what was dropped.
TakeBack(c) ==
  /\ Goto(c, "takeBack", IF tokens = 0 THEN "idle" ELSE "takeBack")
  /\ tokens' = IF tokens = 0 THEN 0 ELSE tokens - 1
  /\ UNCHANGED <<cells, countVars, poolVars, slotVars, jobVars, epochVars, seenEpoch, held, job, woken>>

-----------------------------------------------------------------------------
(* waitUntilBackgroundFinished *)

LoadCount(c) ==
  /\ pc[c] \in {"idle", "load"}
  /\ pc' = [pc EXCEPT ![c] = IF outstanding = 0 THEN "idle" ELSE "wait"]
  /\ now' = [now EXCEPT ![c] = outstanding]
  /\ UNCHANGED <<queueVars, outstanding, sleepers, poolVars, slotVars, jobVars, epochVars, seenEpoch, held,
                 job, woken>>

\* wait returns at once if the count is another one by now, and goes back to
\* sleep if it is the same again when it wakes.
WaitCount(c) ==
  /\ c \notin sleepers
  /\ Goto(c, "wait", IF outstanding # now[c] THEN "load" ELSE "wait")
  /\ sleepers' = IF outstanding # now[c] THEN sleepers ELSE sleepers \cup {c}
  /\ UNCHANGED <<queueVars, outstanding, now, poolVars, slotVars, jobVars, epochVars, seenEpoch, held, job,
                 woken>>

-----------------------------------------------------------------------------
(* A value is replaced, and freed once backgroundPassed says so. *)

Exchange(c) ==
  /\ owed[c] = None
  /\ current < MaxMarks
  /\ Goto(c, "idle", "mark")
  /\ owed' = [owed EXCEPT ![c] = [old |-> current, mark |-> 0]]
  /\ current' = current + 1
  /\ UNCHANGED <<queueVars, countVars, poolVars, slotVars, jobVars, laneEpoch, asks, freed, seenEpoch, held,
                 job, woken>>

\* A relaxed fetch_add.  Where read-modify-writes are full barriers, as on x86,
\* the exchange and the mark are seen in this order; others may see them swapped.
markBackground(c) ==
  /\ Goto(c, "mark", "idle")
  /\ laneEpoch' = laneEpoch + 1
  /\ owed' = [owed EXCEPT ![c] = [old |-> @.old, mark |-> laneEpoch + 1]]
  /\ UNCHANGED <<queueVars, countVars, poolVars, slotVars, jobVars, current, asks, freed, seenEpoch, held,
                 job, woken>>

\* backgroundPassed: with the mutex, slot after slot.
backgroundPassed(c) ==
  /\ owed[c] # None
  /\ laneMutex = None
  /\ Goto(c, "idle", "passed")
  /\ laneMutex' = c
  /\ asks' = [asks EXCEPT ![c] = 1]
  /\ UNCHANGED <<queueVars, countVars, threads, stopAsked, joining, inits, slotVars, jobVars, laneEpoch,
                 current, owed, freed, seenEpoch, held, job, woken>>

\* A mistake in backgroundPassed: the epoch before the mark is let through.
SlotNearlyPassed(c) ==
  /\ Goto(c, "passed", "passed")
  /\ asks[c] <= Len(slots)
  /\ slots[asks[c]].since + 1 >= owed[c].mark
  /\ asks' = [asks EXCEPT ![c] = @ + 1]
  /\ UNCHANGED <<queueVars, countVars, poolVars, slotVars, jobVars, laneEpoch, current, owed, freed, seenEpoch,
                 held, job, woken>>

SlotPassed(c) ==
  /\ Goto(c, "passed", "passed")
  /\ asks[c] <= Len(slots)
  /\ slots[asks[c]].since >= owed[c].mark
  /\ asks' = [asks EXCEPT ![c] = @ + 1]
  /\ UNCHANGED <<queueVars, countVars, poolVars, slotVars, jobVars, laneEpoch, current, owed, freed, seenEpoch,
                 held, job, woken>>

NotPassed(c) ==
  /\ Goto(c, "passed", "idle")
  /\ asks[c] <= Len(slots)
  /\ slots[asks[c]].since < owed[c].mark
  /\ laneMutex' = None
  /\ UNCHANGED <<queueVars, countVars, threads, stopAsked, joining, inits, slotVars, jobVars, epochVars,
                 seenEpoch, held, job, woken>>

\* All of them: the old value is freed.
FreeOld(c) ==
  /\ Goto(c, "passed", "idle")
  /\ asks[c] > Len(slots)
  /\ laneMutex' = None
  /\ freed' = freed \cup {owed[c].old}
  /\ owed' = [owed EXCEPT ![c] = None]
  /\ UNCHANGED <<queueVars, countVars, threads, stopAsked, joining, inits, slotVars, jobVars, laneEpoch,
                 current, asks, seenEpoch, held, job, woken>>

-----------------------------------------------------------------------------

Submit(c) == Reserve(c) \/ Fill(c) \/ Release(c)

Thread(w) ==
  \/ CheckStop(w) \/ PopJob(w) \/ Wake(w) \/ Timeout(w) \/ TakeWakeUp(w) \/ CheckStillOn(w)
  \/ LoadEpoch(w) \/ StoreSince(w) \/ CheckCancelled(w) \/ Forward(w)
  \/ DestroyJob(w) \/ CountJob(w) \/ GoIdle(w) \/ Leave(w)

Start(c) == \E w \in Threads : StartThread(c, w)

Shutdown(c) ==
  \/ \E w \in Threads : RequestStop(c, w)
  \/ SignalStop(c) \/ JoinAll(c) \/ PopDropped(c) \/ AssignCounted(c) \/ AssignJob(c) \/ TakeBack(c)

Wait(c) == (pc[c] = "load" /\ LoadCount(c)) \/ WaitCount(c)

Replace(c) == markBackground(c) \/ SlotPassed(c) \/ NotPassed(c) \/ FreeOld(c)

Begin(c) ==
  \/ spawn(c) \/ (\E j \in Jobs : cancel(c, j)) \/ initBackground(c) \/ SwapThreads(c)
  \/ (pc[c] = "idle" /\ LoadCount(c)) \/ Exchange(c) \/ backgroundPassed(c)

Next ==
  \/ \E c \in Clients : Begin(c) \/ Submit(c) \/ Start(c) \/ Shutdown(c) \/ Wait(c) \/ Replace(c)
  \/ \E w \in Threads : \/ Thread(w) \/ ReadValue(w)
                        \/ \E how \in {"value", "exception"} : JobEnds(w, how)

Spec == Init /\ [][Next]_vars

\* Whoever has begun something goes on and the 10 ms pass.  A job ends when it
\* was asked to stop; it may well run for good otherwise.
FairSpec ==
  /\ Spec
  /\ \A c \in Clients : WF_vars(Submit(c) \/ Start(c) \/ Shutdown(c) \/ Wait(c) \/ Replace(c))
  /\ \A w \in Threads : /\ WF_vars(Thread(w))
                        /\ WF_vars(job[w] \in asked /\ \E how \in {"value", "exception"} : JobEnds(w, how))

-----------------------------------------------------------------------------

(* Type correctness of the lane: in particular its count never goes below  *)
(* zero, and there are never more slots than threads.                      *)
TypeOK ==
  /\ cells \in Seq([job : Jobs, filled : BOOLEAN])
  /\ {tokens, outstanding} \subseteq Nat
  /\ sleepers \subseteq Clients
  /\ laneMutex \in Clients \cup {None}
  /\ threads \subseteq Threads
  /\ stopAsked \subseteq Threads
  /\ joining \in [Clients -> SUBSET Threads]
  /\ slots \in Seq([since : 0 .. LANE_IDLE, taken : BOOLEAN])
  /\ Len(slots) <= Cardinality(Threads)
  /\ job \in [Actors -> Jobs \cup {None}]
  /\ asked \subseteq Jobs
  /\ captured \subseteq Jobs
  /\ promise \in [Jobs -> {"none", "pending", "value", "exception", "broken"}]

(* What backgroundPassed lets go is read by no job: neither by one that    *)
(* was running at the mark, on a thread whose lane was shut down meanwhile *)
(* as well, nor by one that starts while the slots are looked at, nor by   *)
(* the destructors of its captures.  A job that a thread has taken and     *)
(* drops, because it was asked to stop meanwhile, is not kept safe: the    *)
(* thread destroys it before it has entered its slot.                      *)
OldValueIsUnread == \A w \in Threads : pc[w] # "drop" => held[w] \cap freed = {}

(* Two threads never share a slot: the one of a thread that still runs its *)
(* last job after shutdownBackground is not given to a new one, and a slot *)
(* nobody has keeps nothing from being freed.                              *)
SlotsAreOwn ==
  LET running == {w \in Threads : pc[w] \notin {"off", "ended"}} IN
  /\ \A v, w \in running : v # w => slotOf[v] # slotOf[w]
  /\ \A i \in DOMAIN slots :
       (\A w \in running : slotOf[w] # i) => slots[i] = [since |-> LANE_IDLE, taken |-> FALSE]

\* The jobs a shutdownBackground is about to destroy.
Dropping == {job[c] : c \in {d \in Clients : pc[d] = "assignJob"}}

(* waitUntilBackgroundFinished returns only when every job has run or was  *)
(* dropped, with its captures destroyed, except for the one job that       *)
(* shutdownBackground is about to destroy.                                 *)
JobsAreCounted == Cardinality(captured \ Dropping) <= outstanding

(* The same without the exception, which is what is promised: "Returns     *)
(* once every job that was put on the lane has run or was dropped, its     *)
(* captures destroyed."                                                    *)
CapturesGoneWhenFinished == Cardinality(captured) <= outstanding

\* Where a job is: in the queue, with its client, with a thread.
Places(j) ==
  {i \in DOMAIN cells : cells[i].job = j}
    \cup {a \in Actors : job[a] = j /\ pc[a] \notin {"fill", "count"}}

(* No job is lost or taken twice, whoever pushes, cancels and shuts down   *)
(* the lane: it is in one place until it is destroyed, and then its task   *)
(* has a result or a broken promise.                                       *)
NoJobIsLost ==
  \A j \in 1 .. jobs :
    /\ Cardinality(Places(j)) = IF j \in captured THEN 1 ELSE 0
    /\ promise[j] = "pending" => j \in captured

(* Every job is in one place until it is destroyed, and is counted for as  *)
(* long (QueuedJob, Outstanding).                                          *)
JobsAreSafe == TypeOK /\ JobsAreCounted /\ NoJobIsLost

(* A job that was cancelled in the queue never runs, whatever the threads  *)
(* do meanwhile.                                                           *)
CancelledJobNeverRuns ==
  \A j \in Jobs :
    []((j \in asked /\ \E i \in DOMAIN cells : cells[i].job = j)
         => [](\A w \in Threads : ~(pc[w] = "run" /\ job[w] = j)))

(* "One release per job": the threads never all sleep over a job while the *)
(* semaphore is empty, unless a shutdownBackground ran meanwhile, which    *)
(* takes back the wake-ups of jobs that come after it as well.             *)
NoJobOverslept ==
  threads # {} /\ (\A w \in threads : pc[w] = "sleep") /\ FrontFilled =>
    tokens > 0 \/ \E c \in Clients : pc[c] \in {"release", "start"}

(* shutdownBackground returns although jobs run until they are asked to    *)
(* stop: the request reaches a job that is just starting as well.          *)
ShutdownReturns == \A c \in Clients : pc[c] = "stop" ~> pc[c] = "idle"

(* waitUntilBackgroundFinished returns, unless there are jobs and no lane, *)
(* or a job runs for good: the zero that the last job counts down to is    *)
(* not missed between the load of the count and going to sleep, whether a  *)
(* thread of the lane or a shutdown counts the job out.                    *)
WaitReturns ==
  \/ \E w \in Threads : <>[](pc[w] = "run")
  \/ \A c \in Clients : pc[c] = "wait" ~> (pc[c] = "idle" \/ (threads = {} /\ cells # <<>>))

=============================================================================
