------------------------------ MODULE PoolProofs -----------------------------
(***************************************************************************)
(* The thread pool for every number of clients, workers, calls and tasks:  *)
(* waitUntilFinished leaves nothing behind, futures tell the truth and     *)
(* nobody is left waiting for one.                                         *)
(***************************************************************************)
EXTENDS ThreadPool, FiniteSetTheorems, SequenceTheorems, TLAPS

\* A client between the parts of Queue::submit, one that has a task in its
\* hands, a worker that has one, and one whose task has run.
Submitting == {"build", "count", "reserve", "fill"}
Holding == {"count", "reserve", "fill"}
Running == {"start", "run", "fail", "keep", "sub", "complete", "destroy"}
Ran == {"fail", "keep", "sub", "complete", "destroy"}
Counting == {"fail", "keep", "sub"}
Over == {"returned", "threw"}

Kinds == {"each", "merged", "void", "detach", "callback"}

QueueTypes ==
  /\ cells \in Seq([task : Tasks, filled : BOOLEAN])
  /\ tickets \in Nat /\ laneTickets \in Nat /\ tokens \in Nat

PlaceTypes ==
  /\ waitMutex \in Clients \cup {None}
  /\ sleepers \subseteq Clients
  /\ threads \subseteq Workers
  /\ stopAsked \subseteq Workers
  /\ joining \in [Clients -> SUBSET Workers]
  /\ DOMAIN pc = Actors
  /\ task \in [Actors -> Tasks \cup {None}]
  /\ woken \in [Workers -> BOOLEAN]

CallTypes ==
  /\ dropped \in [Clients -> Nat]
  /\ call \in [Clients -> CallIds \cup {None}]
  /\ todo \in [Clients -> Nat]
  /\ calls \in 0 .. MaxCalls
  /\ shares \in Nat
  /\ kind \in [CallIds -> [kind : Kinds, size : 0 .. MaxSize]]

TaskTypes ==
  /\ error \in [CallIds -> [failed : BOOLEAN, kept : Tasks \cup {None}]]
  /\ promise \in [CallIds -> [0 .. MaxSize -> {"none", "pending", "value", "exception", "broken"}]]
  /\ captured \subseteq Tasks
  /\ outcome \in [Tasks -> {"none", "returned", "threw", "dropped"}]
  /\ callbacks \in [CallIds -> Nat]
  /\ DOMAIN remaining = CallIds

-----------------------------------------------------------------------------
(* Whose a task is. *)

\* What a client that makes a call has of it.
CallersTell ==
  /\ \A c \in Clients : pc[c] \in Submitting =>
       call[c] \in 1 .. calls /\ todo[c] + 1 \in 1 .. kind[call[c]].size
  /\ \A c \in Clients : pc[c] \notin Submitting => call[c] = None
  /\ \A c \in Clients : pc[c] \notin Submitting \cup {"signal"} => todo[c] = 0
  /\ \A c \in Clients : pc[c] \notin {"drop", "finished"} => dropped[c] = 0
  /\ \A c, d \in Clients : call[c] = call[d] /\ call[c] # None => c = d

\* Every task has one place.
OnePlace ==
  /\ \A c \in Clients : task[c] = IF pc[c] \in Holding THEN <<call[c], todo[c] + 1>> ELSE None
  /\ \A w \in Workers : task[w] # None <=> pc[w] \in Running
  /\ \A v, w \in Workers : task[v] = task[w] /\ task[v] # None => v = w
  /\ \A w \in Workers, c \in Clients : task[w] # None => task[w] # task[c]
  /\ \A i, j \in 1 .. Len(cells) : cells[i].task = cells[j].task => i = j
  /\ \A i \in 1 .. Len(cells), a \in Actors :
       cells[i].task = task[a] => a \in Clients /\ pc[a] = "fill" /\ ~cells[i].filled

InCells(t) == \E i \in 1 .. Len(cells) : cells[i].task = t

\* What exists is somewhere, and what is somewhere exists.
CapturesInPlaces ==
  /\ \A t \in captured : InCells(t) \/ \E a \in Actors : task[a] = t
  /\ \A a \in Actors : task[a] # None => task[a] \in captured
  /\ \A i \in 1 .. Len(cells) : cells[i].task \in captured

\* A task that was never built.
Unbuilt(t) == outcome[t] = "none" /\ t \notin captured

OutcomesTell ==
  /\ \A c \in Clients : task[c] # None => outcome[task[c]] = "none"
  /\ \A i \in 1 .. Len(cells) : outcome[cells[i].task] = "none"
  /\ \A w \in Workers : pc[w] \in {"start", "run"} => outcome[task[w]] = "none"
  /\ \A w \in Workers : pc[w] \in Ran => outcome[task[w]] \in Over
  /\ \A t \in Tasks : t[1] > calls \/ t[2] > kind[t[1]].size => Unbuilt(t)
  /\ \A c \in Clients : pc[c] \in Submitting =>
       \A i \in 1 .. MaxSize :
         Unbuilt(<<call[c], i>>) <=> i > IF pc[c] \in Holding THEN todo[c] + 1 ELSE todo[c]

-----------------------------------------------------------------------------
(* What is counted. *)

Counted == {t \in captured : ~NotCounted(t)}

\* Tasks that are gone and not yet counted off: of a worker, or dropped.
Ended == {e \in Actors \X Nat :
            IF e[1] \in Workers THEN e[2] = 0 /\ pc[e[1]] = "finished"
                                ELSE e[2] \in 1 .. dropped[e[1]]}

CountIsExact ==
  /\ IsFiniteSet(Ended)
  /\ outstanding = Cardinality(Counted) + Cardinality(Ended)

Waiters == {c \in Clients : pc[c] \in {"lockCheck", "check", "fallAsleep", "asleep", "endWait"}}
WaitersAreCounted == idleWaiters = Cardinality(Waiters)

-----------------------------------------------------------------------------
(* Promises. *)

HasPromise(l, i) ==
  /\ l <= calls
  /\ IF i = 0 THEN kind[l].kind = "void"
              ELSE kind[l].kind \in {"each", "merged"} /\ i <= kind[l].size

PromisesFit ==
  \A l \in CallIds, i \in 0 .. MaxSize : promise[l][i] # "none" <=> HasPromise(l, i)

\* Somebody has the state of the call.
Open(l) == (\E t \in captured : t[1] = l) \/ (\E c \in Clients : call[c] = l)
Called(l) == \E c \in Clients : call[c] = l

ResultsTell ==
  \A l \in CallIds, i \in 1 .. MaxSize : HasPromise(l, i) =>
    /\ promise[l][i] = "value" <=> outcome[<<l, i>>] = "returned"
    /\ promise[l][i] = "exception" <=> outcome[<<l, i>>] = "threw"

\* A promise is broken with what could have kept it ...
BrokenIsOver ==
  \A l \in CallIds, i \in 0 .. MaxSize : promise[l][i] = "broken" =>
    IF kind[l].kind = "each"
      THEN <<l, i>> \notin captured /\ (Unbuilt(<<l, i>>) => ~Called(l))
      ELSE ~Open(l)

\* ... and not left pending without.
PendingIsHeld ==
  \A l \in CallIds, i \in 0 .. MaxSize : promise[l][i] = "pending" =>
    IF kind[l].kind = "each"
      THEN <<l, i>> \in captured \/ (Unbuilt(<<l, i>>) /\ Called(l))
      ELSE Open(l)

-----------------------------------------------------------------------------
(* Batches. *)

IsBatch(l) == kind[l].kind \in {"void", "callback"}

\* It was run and is counted off in the state of its batch.
CountedOff(t) ==
  /\ outcome[t] \in Over
  /\ \A w \in Workers : pc[w] \in Counting => task[w] # t
Left(l) == {i \in 1 .. kind[l].size : ~CountedOff(<<l, i>>)}

CountDown == \A l \in 1 .. calls : IsBatch(l) => remaining[l] = Cardinality(Left(l))

\* The state is touched by the tasks that have one.
WorkersTell ==
  \A w \in Workers :
    /\ pc[w] \in {"fail", "keep"} => outcome[task[w]] = "threw" /\ kind[task[w][1]].kind = "void"
    /\ pc[w] \in {"sub", "complete"} => IsBatch(task[w][1])

Completing(l) == \E w \in Workers : pc[w] = "complete" /\ task[w][1] = l

CompletesOnce ==
  /\ \A w \in Workers : pc[w] = "complete" => remaining[task[w][1]] = 0
  /\ \A v, w \in Workers :
       pc[v] = "complete" /\ pc[w] = "complete" /\ task[v][1] = task[w][1] => v = w

\* The promise of a batch is set, or onFinished called, by the last task.
BatchEnds ==
  \A l \in 1 .. calls : kind[l].size # 0 =>
    /\ kind[l].kind = "void" =>
         /\ promise[l][0] \in {"value", "exception"} <=> remaining[l] = 0 /\ ~Completing(l)
         /\ promise[l][0] = "broken" => remaining[l] # 0
    /\ kind[l].kind = "callback" =>
         callbacks[l] = IF remaining[l] = 0 /\ ~Completing(l) THEN 1 ELSE 0

NoOtherCallbacks ==
  \A l \in CallIds : l > calls \/ kind[l].kind # "callback" \/ kind[l].size = 0 => callbacks[l] = 0

EmptyBatches ==
  \A l \in 1 .. calls : kind[l].kind = "void" /\ kind[l].size = 0 => promise[l][0] = "value"

\* The first error is kept before its task is counted off.
ErrorsTell ==
  \A l \in CallIds :
    /\ error[l].kept # None => /\ error[l].kept[1] = l /\ error[l].kept[2] <= kind[l].size
                               /\ outcome[error[l].kept] = "threw"
    /\ error[l].failed =>
         error[l].kept # None \/ \E w \in Workers : pc[w] = "keep" /\ task[w][1] = l
    /\ l <= calls /\ kind[l].kind = "void" =>
         \A i \in 1 .. kind[l].size : outcome[<<l, i>>] = "threw" =>
           error[l].failed \/ \E w \in Workers : pc[w] = "fail" /\ task[w] = <<l, i>>

\* What the promise of a batch says of its error.
BatchTells ==
  \A l \in 1 .. calls : kind[l].kind = "void" =>
    /\ promise[l][0] = "value" => ~error[l].failed
    /\ promise[l][0] = "exception" => error[l].kept # None

PoolInv ==
  /\ QueueTypes
  /\ PlaceTypes
  /\ CallTypes
  /\ TaskTypes
  /\ CallersTell
  /\ OnePlace
  /\ CapturesInPlaces
  /\ OutcomesTell
  /\ CountIsExact
  /\ WaitersAreCounted
  /\ PromisesFit
  /\ ResultsTell
  /\ BrokenIsOver
  /\ PendingIsHeld
  /\ CountDown
  /\ WorkersTell
  /\ CompletesOnce
  /\ BatchEnds
  /\ NoOtherCallbacks
  /\ EmptyBatches
  /\ ErrorsTell
  /\ BatchTells


-----------------------------------------------------------------------------
(* The steps of the pool: some concern tasks, and the others do not. *)

Engaged == Submitting \cup Running \cup {"finished"}
Aloof(a) == pc'[a] = pc[a] \/ (pc[a] \notin Engaged /\ pc'[a] \notin Engaged)

Quiet ==
  /\ UNCHANGED <<cells, outstanding, dropped, taskVars, call, calls, kind, task>>
  /\ \A a \in Actors : Aloof(a)
  /\ \A c \in Clients : pc[c] = "drop" => pc'[c] = "drop"
  /\ \A c \in Clients : pc[c] \in Submitting => todo'[c] = todo[c]
  /\ \A c \in Clients : pc'[c] \notin Submitting \cup {"signal"} => todo'[c] = 0

ClientEngages(c) ==
  \/ \E k \in CallKinds : Call(c, k)
  \/ BuildTask(c) \/ BuildThrows(c) \/ onTaskEnqueued(c) \/ Reserve(c) \/ Fill(c)
  \/ Finished(c) \/ DropTask(c) \/ AllDropped(c)

WorkerEngages(w) ==
  \/ PopTask(w) \/ onTaskStarted(w) \/ \E how \in {"returned", "threw"} : RunTask(w, how)
  \/ FailBatch(w) \/ KeepError(w) \/ CountOff(w) \/ Complete(w) \/ DestroyTask(w) \/ Finished(w)

Engaging ==
  \/ \E c \in Clients : ClientEngages(c)
  \/ \E w \in Workers : WorkerEngages(w)

\* Every step is one or the other.
LEMMA QuietOrEngaging ==
  ASSUME PoolInv, [Next]_vars
  PROVE  Quiet \/ Engaging
<1> USE DEF Goto
<1>1. CASE UNCHANGED vars
  BY <1>1 DEF vars, queueVars, waitVars, poolVars, taskVars, callVars, Quiet, Aloof, PoolInv,
       CallersTell
<1>2. ASSUME NEW c \in Clients, Begin(c) \/ Submit(c) \/ Wait(c) \/ Shutdown(c) \/ OnTasksFinished(c)
      PROVE  Quiet \/ Engaging
  <2>0. c \in Actors /\ c \notin Workers
    BY PoolAssumption DEF Actors
  <2>1. ASSUME NEW k \in CallKinds, Call(c, k) PROVE Quiet \/ Engaging
    BY <2>1 DEF Engaging, ClientEngages, WorkerEngages
  <2>2. ASSUME NEW n \in 1 .. MaxShares, NEW background \in BOOLEAN, Share(c, n, background) PROVE Quiet \/ Engaging
    BY <2>0, <2>2 DEF Share, Continue, Quiet, Aloof, Engaged, Submitting, Running, PoolInv,
         CallersTell, PlaceTypes, CallTypes, queueVars, waitVars, poolVars, callVars
  <2>3. CASE helpThread(c)
    BY <2>0, <2>3 DEF helpThread, Continue, Quiet, Aloof, Engaged, Submitting, Running,
         PoolInv, CallersTell, PlaceTypes, CallTypes, queueVars, waitVars, poolVars, callVars
  <2>4. CASE BeginWait(c)
    BY <2>0, <2>4 DEF BeginWait, Continue, Quiet, Aloof, Engaged, Submitting, Running, PoolInv,
         CallersTell, PlaceTypes, CallTypes, queueVars, waitVars, poolVars, callVars
  <2>5. CASE initPool(c)
    <3>1. \A a \in Actors : pc'[a] = pc[a] \/ (a \in Workers /\ pc[a] = "off" /\ pc'[a] = "top")
      BY <2>5 DEF initPool
    <3>2. \A d \in Clients : pc'[d] = pc[d] /\ todo'[d] = todo[d]
      BY <3>1, <2>5, PoolAssumption DEF Actors, initPool, callVars
    <3> QED
      BY <3>1, <3>2, <2>5 DEF initPool, Quiet, Aloof, Engaged, Submitting, Running, PoolInv,
           CallersTell, queueVars, waitVars, callVars
  <2>6. CASE RequestStop(c)
    BY <2>0, <2>6 DEF RequestStop, Continue, Quiet, Aloof, Engaged, Submitting, Running,
         PoolInv, CallersTell, PlaceTypes, CallTypes, queueVars, waitVars, poolVars, callVars
  <2>7. CASE BuildTask(c)
    BY <2>7 DEF Engaging, ClientEngages, WorkerEngages
  <2>8. CASE BuildThrows(c)
    BY <2>8 DEF Engaging, ClientEngages, WorkerEngages
  <2>9. CASE onTaskEnqueued(c)
    BY <2>9 DEF Engaging, ClientEngages, WorkerEngages
  <2>10. CASE Reserve(c)
    BY <2>10 DEF Engaging, ClientEngages, WorkerEngages
  <2>11. CASE Fill(c)
    BY <2>11 DEF Engaging, ClientEngages, WorkerEngages
  <2>12. CASE Signal(c)
    BY <2>0, <2>12 DEF Signal, Continue, Quiet, Aloof, Engaged, Submitting, Running, PoolInv,
         CallersTell, PlaceTypes, CallTypes, queueVars, waitVars, poolVars, callVars
  <2>13. CASE LockCheck(c)
    BY <2>0, <2>13 DEF LockCheck, Continue, Quiet, Aloof, Engaged, Submitting, Running,
         PoolInv, CallersTell, PlaceTypes, CallTypes, queueVars, waitVars, poolVars, callVars
  <2>14. CASE CheckDone(c)
    BY <2>0, <2>14 DEF CheckDone, Continue, Quiet, Aloof, Engaged, Submitting, Running,
         PoolInv, CallersTell, PlaceTypes, CallTypes, queueVars, waitVars, poolVars, callVars
  <2>15. CASE FallAsleep(c)
    BY <2>0, <2>15 DEF FallAsleep, Continue, Quiet, Aloof, Engaged, Submitting, Running,
         PoolInv, CallersTell, PlaceTypes, CallTypes, queueVars, waitVars, poolVars, callVars
  <2>16. CASE WakeUp(c)
    BY <2>0, <2>16 DEF WakeUp, Continue, Quiet, Aloof, Engaged, Submitting, Running, PoolInv,
         CallersTell, PlaceTypes, CallTypes, queueVars, waitVars, poolVars, callVars
  <2>17. CASE EndWait(c)
    BY <2>0, <2>17 DEF EndWait, Continue, Quiet, Aloof, Engaged, Submitting, Running, PoolInv,
         CallersTell, PlaceTypes, CallTypes, queueVars, waitVars, poolVars, callVars
  <2>18. CASE SignalStop(c)
    BY <2>0, <2>18 DEF SignalStop, Continue, Quiet, Aloof, Engaged, Submitting, Running,
         PoolInv, CallersTell, PlaceTypes, CallTypes, queueVars, waitVars, poolVars, callVars
  <2>19. CASE JoinAll(c)
    <3>1. /\ pc'[c] = "drop" /\ pc[c] = "join"
          /\ \A a \in Actors \ {c} : pc'[a] = pc[a] \/ (a \in Workers /\ pc[a] = "ended" /\ pc'[a] = "off")
      BY <2>0, <2>19 DEF JoinAll, PoolInv, PlaceTypes
    <3>2. \A d \in Clients \ {c} : pc'[d] = pc[d]
      BY <3>1, PoolAssumption DEF Actors
    <3> QED
      BY <2>0, <3>1, <3>2, <2>19 DEF JoinAll, Quiet, Aloof, Engaged, Submitting, Running,
           PoolInv, CallersTell, queueVars, waitVars, callVars
  <2>20. CASE DropTask(c)
    BY <2>20 DEF Engaging, ClientEngages, WorkerEngages
  <2>21. CASE AllDropped(c)
    BY <2>21 DEF Engaging, ClientEngages, WorkerEngages
  <2>22. CASE Finished(c)
    BY <2>22 DEF Engaging, ClientEngages, WorkerEngages
  <2>23. CASE AnyWaiter(c)
    BY <2>0, <2>23 DEF AnyWaiter, Continue, Quiet, Aloof, Engaged, Submitting, Running,
         PoolInv, CallersTell, PlaceTypes, CallTypes, queueVars, waitVars, poolVars, callVars
  <2>24. CASE PassMutex(c)
    BY <2>0, <2>24 DEF PassMutex, Continue, Quiet, Aloof, Engaged, Submitting, Running,
         PoolInv, CallersTell, PlaceTypes, CallTypes, queueVars, waitVars, poolVars, callVars
  <2>25. CASE NotifyAll(c)
    BY <2>0, <2>25 DEF NotifyAll, Continue, Quiet, Aloof, Engaged, Submitting, Running,
         PoolInv, CallersTell, PlaceTypes, CallTypes, queueVars, waitVars, poolVars, callVars
  <2> QED
    BY <1>2, <2>1, <2>2, <2>3, <2>4, <2>5, <2>6, <2>7, <2>8, <2>9, <2>10, <2>11, <2>12, <2>13,
         <2>14, <2>15, <2>16, <2>17, <2>18, <2>19, <2>20, <2>21, <2>22, <2>23, <2>24, <2>25
       DEF Begin, Submit, Wait, Shutdown, OnTasksFinished
<1>3. ASSUME NEW w \in Workers, Worker(w) \/ OnTasksFinished(w)
      PROVE  Quiet \/ Engaging
  <2>0. w \in Actors /\ w \notin Clients
    BY PoolAssumption DEF Actors
  <2>1. CASE CheckStop(w)
    BY <2>0, <2>1 DEF CheckStop, Continue, Quiet, Aloof, Engaged, Submitting, Running, PoolInv,
         CallersTell, PlaceTypes, CallTypes, queueVars, waitVars, poolVars, callVars
  <2>2. CASE HelpParallel(w)
    BY <2>0, <2>2 DEF HelpParallel, Continue, Quiet, Aloof, Engaged, Submitting, Running,
         PoolInv, CallersTell, PlaceTypes, CallTypes, queueVars, waitVars, poolVars, callVars
  <2>3. CASE PopTask(w)
    BY <2>3 DEF Engaging, ClientEngages, WorkerEngages
  <2>4. CASE HelpBackground(w)
    BY <2>0, <2>4 DEF HelpBackground, Continue, Quiet, Aloof, Engaged, Submitting, Running,
         PoolInv, CallersTell, PlaceTypes, CallTypes, queueVars, waitVars, poolVars, callVars
  <2>5. CASE LoopOver(w)
    BY <2>0, <2>5 DEF LoopOver, Continue, Quiet, Aloof, Engaged, Submitting, Running, PoolInv,
         CallersTell, PlaceTypes, CallTypes, queueVars, waitVars, poolVars, callVars
  <2>6. CASE frameWaiting(w)
    BY <2>0, <2>6 DEF frameWaiting, Continue, Quiet, Aloof, Engaged, Submitting, Running,
         PoolInv, CallersTell, PlaceTypes, CallTypes, queueVars, waitVars, poolVars, callVars
  <2>7. CASE PutBack(w)
    BY <2>0, <2>7 DEF PutBack, Continue, Quiet, Aloof, Engaged, Submitting, Running, PoolInv,
         CallersTell, PlaceTypes, CallTypes, queueVars, waitVars, poolVars, callVars
  <2>8. CASE Wake(w)
    BY <2>0, <2>8 DEF Wake, Continue, Quiet, Aloof, Engaged, Submitting, Running, PoolInv,
         CallersTell, PlaceTypes, CallTypes, queueVars, waitVars, poolVars, callVars
  <2>9. CASE Timeout(w)
    BY <2>0, <2>9 DEF Timeout, Continue, Quiet, Aloof, Engaged, Submitting, Running, PoolInv,
         CallersTell, PlaceTypes, CallTypes, queueVars, waitVars, poolVars, callVars
  <2>10. CASE onTaskStarted(w)
    BY <2>10 DEF Engaging, ClientEngages, WorkerEngages
  <2>11. ASSUME NEW how \in {"returned", "threw"}, RunTask(w, how) PROVE Quiet \/ Engaging
    BY <2>11 DEF Engaging, ClientEngages, WorkerEngages
  <2>12. CASE FailBatch(w)
    BY <2>12 DEF Engaging, ClientEngages, WorkerEngages
  <2>13. CASE KeepError(w)
    BY <2>13 DEF Engaging, ClientEngages, WorkerEngages
  <2>14. CASE CountOff(w)
    BY <2>14 DEF Engaging, ClientEngages, WorkerEngages
  <2>15. CASE Complete(w)
    BY <2>15 DEF Engaging, ClientEngages, WorkerEngages
  <2>16. CASE DestroyTask(w)
    BY <2>16 DEF Engaging, ClientEngages, WorkerEngages
  <2>17. CASE Finished(w)
    BY <2>17 DEF Engaging, ClientEngages, WorkerEngages
  <2>18. CASE AnyWaiter(w)
    BY <2>0, <2>18 DEF AnyWaiter, Continue, Quiet, Aloof, Engaged, Submitting, Running,
         PoolInv, CallersTell, PlaceTypes, CallTypes, queueVars, waitVars, poolVars, callVars
  <2>19. CASE PassMutex(w)
    BY <2>0, <2>19 DEF PassMutex, Continue, Quiet, Aloof, Engaged, Submitting, Running,
         PoolInv, CallersTell, PlaceTypes, CallTypes, queueVars, waitVars, poolVars, callVars
  <2>20. CASE NotifyAll(w)
    BY <2>0, <2>20 DEF NotifyAll, Continue, Quiet, Aloof, Engaged, Submitting, Running,
         PoolInv, CallersTell, PlaceTypes, CallTypes, queueVars, waitVars, poolVars, callVars
  <2> QED
    BY <1>3, <2>1, <2>2, <2>3, <2>4, <2>5, <2>6, <2>7, <2>8, <2>9, <2>10, <2>11, <2>12, <2>13,
         <2>14, <2>15, <2>16, <2>17, <2>18, <2>19, <2>20 DEF Worker, OnTasksFinished
<1> QED
  BY <1>1, <1>2, <1>3 DEF Next

-----------------------------------------------------------------------------
(* What is done to the queue. *)

\* A task that waits or runs has a number in its call.
LEMMA TaskFits ==
  ASSUME PoolInv, NEW t \in captured
  PROVE  /\ t \in Tasks /\ t[1] \in CallIds /\ t[2] \in 1 .. MaxSize /\ t = <<t[1], t[2]>>
         /\ t[1] <= calls /\ t[2] <= kind[t[1]].size
BY PoolAssumption DEF PoolInv, TaskTypes, CallTypes, OutcomesTell, Unbuilt, Tasks, CallIds

\* A client that has built a task and not pushed it.
LEMMA HoldsTask ==
  ASSUME PoolInv, NEW c \in Clients, pc[c] \in Holding
  PROVE  /\ task[c] \in Tasks /\ task[c] \in captured /\ task[c] # None
         /\ task[c] = <<call[c], todo[c] + 1>>
         /\ call[c] \in CallIds /\ call[c] \in 1 .. calls
         /\ todo[c] + 1 \in 1 .. kind[call[c]].size /\ todo[c] + 1 \in 1 .. MaxSize
<1>1. /\ call[c] \in 1 .. calls /\ todo[c] + 1 \in 1 .. kind[call[c]].size
      /\ task[c] = <<call[c], todo[c] + 1>>
  BY DEF PoolInv, CallersTell, OnePlace, Holding, Submitting
<1>2. call[c] \in CallIds /\ todo[c] + 1 \in 1 .. MaxSize
  BY <1>1, PoolAssumption DEF PoolInv, CallTypes, CallIds
<1>3. <<call[c], todo[c] + 1>> \in Tasks /\ <<call[c], todo[c] + 1>> \in Nat \X Nat
  BY <1>2 DEF Tasks, CallIds
<1>4. task[c] # None
  BY <1>1, <1>3, PoolAssumption
<1>5. task[c] \in captured
  BY <1>4 DEF PoolInv, CapturesInPlaces, Actors
<1> QED
  BY <1>1, <1>2, <1>3, <1>4, <1>5

\* A worker that runs a task.
LEMMA RunsTask ==
  ASSUME PoolInv, NEW w \in Workers, pc[w] \in Running
  PROVE  /\ task[w] \in Tasks /\ task[w] \in captured /\ task[w] # None
         /\ task[w] = <<task[w][1], task[w][2]>>
         /\ task[w][1] \in CallIds /\ task[w][1] \in 1 .. calls
         /\ task[w][2] \in 1 .. kind[task[w][1]].size /\ task[w][2] \in 1 .. MaxSize
<1>1. task[w] \in captured /\ task[w] # None
  BY DEF PoolInv, OnePlace, CapturesInPlaces, Actors
<1> QED
  BY <1>1, TaskFits DEF CallIds, Tasks

\* A cell is reserved for the task of the client.
LEMMA ReservedCells ==
  ASSUME PoolInv, NEW c \in Clients, Reserve(c)
  PROVE  /\ cells' \in Seq([task : Tasks, filled : BOOLEAN])
         /\ Len(cells) \in Nat /\ Len(cells') = Len(cells) + 1
         /\ task[c] \in Tasks
         /\ \A i \in 1 .. Len(cells) : cells'[i] = cells[i]
         /\ cells'[Len(cells) + 1].task = task[c] /\ ~cells'[Len(cells) + 1].filled
<1> DEFINE e == [task |-> task[c], filled |-> FALSE]
<1>1. task[c] \in Tasks
  BY HoldsTask DEF Reserve, Goto, Holding
<1>2. e \in [task : Tasks, filled : BOOLEAN] /\ e.task = task[c] /\ ~e.filled
  BY <1>1
<1>3. cells' = Append(cells, e) /\ cells \in Seq([task : Tasks, filled : BOOLEAN])
  BY DEF Reserve, PoolInv, QueueTypes
<1> HIDE DEF e
<1> QED
  BY <1>1, <1>2, <1>3, AppendProperties, LenProperties

\* The cell of the client is filled.
LEMMA FilledCells ==
  ASSUME PoolInv, NEW c \in Clients, Fill(c)
  PROVE  /\ cells' \in Seq([task : Tasks, filled : BOOLEAN])
         /\ Len(cells) \in Nat /\ Len(cells') = Len(cells)
         /\ \A i \in 1 .. Len(cells) :
              /\ cells'[i].task = cells[i].task
              /\ cells'[i].filled <=> cells[i].filled \/ cells[i].task = task[c]
<1> DEFINE e == [task |-> task[c], filled |-> TRUE]
<1>1. PICK i \in DOMAIN cells : cells[i].task = task[c] /\ cells' = [cells EXCEPT ![i] = e]
  BY DEF Fill
<1>2. cells \in Seq([task : Tasks, filled : BOOLEAN]) /\ Len(cells) \in Nat /\ i \in 1 .. Len(cells)
  BY <1>1, LenProperties DEF PoolInv, QueueTypes
<1>3. e \in [task : Tasks, filled : BOOLEAN] /\ e.task = task[c] /\ e.filled = TRUE
  BY <1>1, <1>2, ElementOfSeq
<1> HIDE DEF e
<1>4. /\ cells' \in Seq([task : Tasks, filled : BOOLEAN]) /\ Len(cells') = Len(cells)
      /\ \A j \in 1 .. Len(cells) : cells'[j] = IF j = i THEN e ELSE cells[j]
  BY <1>1, <1>2, <1>3, ExceptSeq
<1>5. \A j \in 1 .. Len(cells) : cells[j].task = cells[i].task => j = i
  BY <1>2 DEF PoolInv, OnePlace
<1> QED
  BY <1>1, <1>2, <1>3, <1>4, <1>5

\* The front of the queue is taken.
LEMMA TakenCells ==
  ASSUME PoolInv, cells # <<>>
  PROVE  /\ Tail(cells) \in Seq([task : Tasks, filled : BOOLEAN])
         /\ Len(cells) \in Nat /\ 1 \in 1 .. Len(cells) /\ Len(Tail(cells)) = Len(cells) - 1
         /\ \A i \in 1 .. Len(cells) - 1 : Tail(cells)[i] = cells[i + 1]
         /\ Head(cells) = cells[1] /\ cells[1].task \in Tasks
<1>1. cells \in Seq([task : Tasks, filled : BOOLEAN])
  BY DEF PoolInv, QueueTypes
<1>2. Len(cells) \in Nat /\ Len(cells) # 0
  BY <1>1, LenProperties, EmptySeq
<1>3. Head(cells) \in [task : Tasks, filled : BOOLEAN]
  BY <1>1, HeadTailProperties
<1> QED
  BY <1>1, <1>2, <1>3, HeadTailProperties

-----------------------------------------------------------------------------
(* What is done to promises. *)

LEMMA BreakPoints ==
  ASSUME TaskTypes, NEW l \in CallIds, NEW which, Break(l, which)
  PROVE  /\ promise' \in [CallIds -> [0 .. MaxSize -> {"none", "pending", "value", "exception", "broken"}]]
         /\ \A m \in CallIds, i \in 0 .. MaxSize :
              promise'[m][i] = IF m = l /\ i \in which /\ promise[m][i] = "pending" THEN "broken"
                                                                                    ELSE promise[m][i]
BY DEF TaskTypes, Break

LEMMA FulfilPoints ==
  ASSUME TaskTypes, NEW l \in CallIds, NEW i \in 0 .. MaxSize, NEW with \in {"value", "exception"},
         promise[l][i] = "pending", Fulfil(l, i, with)
  PROVE  /\ promise' \in [CallIds -> [0 .. MaxSize -> {"none", "pending", "value", "exception", "broken"}]]
         /\ \A m \in CallIds, j \in 0 .. MaxSize :
              promise'[m][j] = IF m = l /\ j = i THEN with ELSE promise[m][j]
BY DEF TaskTypes, Fulfil

\* The promise of a task that has not run yet is not set.
LEMMA RunPending ==
  ASSUME PoolInv, NEW w \in Workers, pc[w] = "run", kind[task[w][1]].kind \in {"each", "merged"}
  PROVE  promise[task[w][1]][task[w][2]] = "pending"
<1>1. task[w] \in captured /\ outcome[task[w]] = "none"
  BY DEF PoolInv, PlaceTypes, OnePlace, CapturesInPlaces, OutcomesTell, Running, Actors
<1> DEFINE l == task[w][1]  i == task[w][2]
<1>2. /\ l \in CallIds /\ i \in 1 .. MaxSize /\ task[w] = <<l, i>> /\ HasPromise(l, i)
  BY <1>1, TaskFits DEF HasPromise
<1>3. promise[l][i] \in {"pending", "value", "exception", "broken"}
  BY <1>2, PoolAssumption DEF PoolInv, PromisesFit, TaskTypes
<1>4. promise[l][i] \notin {"value", "exception"}
  BY <1>1, <1>2 DEF PoolInv, ResultsTell
<1>5. promise[l][i] # "broken"
  BY <1>1, <1>2 DEF PoolInv, BrokenIsOver, Open
<1> QED
  BY <1>3, <1>4, <1>5

\* The promise of a batch is not set before its last task.
LEMMA CompletePending ==
  ASSUME PoolInv, NEW w \in Workers, pc[w] = "complete", kind[task[w][1]].kind = "void"
  PROVE  promise[task[w][1]][0] = "pending"
<1>1. task[w] \in captured
  BY DEF PoolInv, PlaceTypes, OnePlace, CapturesInPlaces, Running, Actors
<1> DEFINE l == task[w][1]
<1>2. l \in CallIds /\ l \in 1 .. calls /\ kind[l].size # 0 /\ HasPromise(l, 0)
  BY <1>1, TaskFits DEF HasPromise, CallIds
<1>3. promise[l][0] \in {"pending", "value", "exception", "broken"}
  BY <1>2, PoolAssumption DEF PoolInv, PromisesFit, TaskTypes
<1>4. Completing(l) /\ remaining[l] = 0
  BY DEF PoolInv, CompletesOnce, Completing
<1> QED
  BY <1>2, <1>3, <1>4 DEF PoolInv, BatchEnds

\* The captures of a task go: its own promise, or what is shared when nobody
\* else has it, is broken.
LEMMA ForgetPoints ==
  ASSUME PoolInv, NEW t \in captured, Forget(t), UNCHANGED <<call, kind, calls>>
  PROVE  /\ captured' = captured \ {t}
         /\ promise' \in [CallIds -> [0 .. MaxSize -> {"none", "pending", "value", "exception", "broken"}]]
         /\ \A m \in CallIds, i \in 0 .. MaxSize :
              promise'[m][i] = IF /\ m = t[1] /\ promise[m][i] = "pending"
                                  /\ IF kind[m].kind = "each" THEN i = t[2] ELSE ~Open(m)'
                               THEN "broken" ELSE promise[m][i]
<1>1. PICK l \in CallIds : l = t[1]
  BY TaskFits
<1>2. captured' = captured \ {t}
  BY DEF Forget
<1>3. t[2] \in 1 .. MaxSize /\ MaxSize \in Nat
  BY TaskFits, PoolAssumption
<1>4. CASE kind[l].kind = "each"
  <2>1. Break(l, {t[2]})
    BY <1>1, <1>4 DEF Forget
  <2> QED
    BY <1>1, <1>2, <1>3, <1>4, <2>1, BreakPoints DEF PoolInv
<1>5. CASE kind[l].kind # "each" /\ Open(l)'
  <2>1. SharedPromises(l, captured', Clients) = {}
    BY <1>5 DEF SharedPromises, Open
  <2>2. Break(l, {})
    BY <1>1, <1>5, <2>1 DEF Forget
  <2> QED
    BY <1>1, <1>2, <1>5, <2>2, BreakPoints DEF PoolInv
<1>6. CASE kind[l].kind # "each" /\ ~Open(l)'
  <2>1. SharedPromises(l, captured', Clients) = 0 .. MaxSize
    BY <1>6 DEF SharedPromises, Open
  <2>2. Break(l, 0 .. MaxSize)
    BY <1>1, <1>6, <2>1 DEF Forget
  <2> QED
    BY <1>1, <1>2, <1>3, <1>6, <2>2, BreakPoints DEF PoolInv
<1> QED
  BY <1>4, <1>5, <1>6

LEMMA DestroyPoints ==
  ASSUME PoolInv, NEW w \in Workers, DestroyTask(w)
  PROVE  /\ task[w] \in captured /\ captured' = captured \ {task[w]}
         /\ promise' \in [CallIds -> [0 .. MaxSize -> {"none", "pending", "value", "exception", "broken"}]]
         /\ \A m \in CallIds, i \in 0 .. MaxSize :
              promise'[m][i] = IF /\ m = task[w][1] /\ promise[m][i] = "pending"
                                  /\ IF kind[m].kind = "each" THEN i = task[w][2] ELSE ~Open(m)'
                               THEN "broken" ELSE promise[m][i]
<1>1. task[w] \in captured
  BY DEF DestroyTask, Goto, PoolInv, OnePlace, CapturesInPlaces, Running, Actors
<1>2. Forget(task[w]) /\ UNCHANGED <<call, kind, calls>>
  BY DEF DestroyTask, callVars
<1> QED
  BY <1>1, <1>2, ForgetPoints

LEMMA DropPoints ==
  ASSUME PoolInv, NEW c \in Clients, DropTask(c)
  PROVE  LET t == cells[1].task IN
         /\ t \in captured /\ captured' = captured \ {t}
         /\ promise' \in [CallIds -> [0 .. MaxSize -> {"none", "pending", "value", "exception", "broken"}]]
         /\ \A m \in CallIds, i \in 0 .. MaxSize :
              promise'[m][i] = IF /\ m = t[1] /\ promise[m][i] = "pending"
                                  /\ IF kind[m].kind = "each" THEN i = t[2] ELSE ~Open(m)'
                               THEN "broken" ELSE promise[m][i]
<1>1. cells # <<>> /\ Forget(Head(cells).task) /\ UNCHANGED <<call, kind, calls>>
  BY DEF DropTask, FrontFilled, callVars
<1>2. Head(cells) = cells[1] /\ 1 \in 1 .. Len(cells)
  BY <1>1, TakenCells
<1>3. cells[1].task \in captured
  BY <1>2 DEF PoolInv, CapturesInPlaces
<1> QED
  BY <1>1, <1>2, <1>3, ForgetPoints

\* Building a task fails: what was not built yet has no future any more.
LEMMA ThrowPoints ==
  ASSUME PoolInv, NEW c \in Clients, BuildThrows(c)
  PROVE  /\ call[c] \in 1 .. calls /\ call[c] \in CallIds /\ call' = [call EXCEPT ![c] = None]
         /\ captured' = captured
         /\ promise' \in [CallIds -> [0 .. MaxSize -> {"none", "pending", "value", "exception", "broken"}]]
         /\ \A m \in CallIds, i \in 0 .. MaxSize :
              promise'[m][i] = IF /\ m = call[c] /\ promise[m][i] = "pending"
                                  /\ IF kind[m].kind = "each" THEN i > todo[c] ELSE ~Open(m)'
                               THEN "broken" ELSE promise[m][i]
<1>0. call[c] \in CallIds /\ call[c] \in 1 .. calls /\ todo[c] \in Nat /\ MaxSize \in Nat
  BY PoolAssumption DEF BuildThrows, Goto, PoolInv, CallersTell, CallTypes, Submitting, CallIds
<1>1. PICK l \in CallIds : l = call[c]
  BY <1>0
<1>2. call' = [call EXCEPT ![c] = None] /\ captured' = captured
  BY DEF BuildThrows
<1>3. \A m \in CallIds : Open(m)' <=> (\E t \in captured : t[1] = m) \/ (\E d \in Clients \ {c} : call[d] = m)
  BY <1>2, PoolAssumption DEF Open, CallIds, PoolInv, CallTypes
<1>4. CASE kind[l].kind = "each"
  <2>1. Break(l, todo[c] + 1 .. MaxSize)
    BY <1>1, <1>4 DEF BuildThrows
  <2>2. \A i \in 0 .. MaxSize : i \in todo[c] + 1 .. MaxSize <=> i > todo[c]
    BY <1>0
  <2>3. \A m \in CallIds, i \in 0 .. MaxSize :
          promise'[m][i] = IF m = l /\ i > todo[c] /\ promise[m][i] = "pending" THEN "broken"
                                                                                ELSE promise[m][i]
    BY <1>0, <1>1, <2>1, <2>2, BreakPoints DEF PoolInv
  <2> QED
    BY <1>0, <1>1, <1>2, <1>4, <2>1, <2>3, BreakPoints DEF PoolInv
<1>5. CASE kind[l].kind # "each" /\ Open(l)'
  <2>1. SharedPromises(l, captured, Clients \ {c}) = {}
    BY <1>0, <1>1, <1>3, <1>5 DEF SharedPromises
  <2>2. Break(l, {})
    BY <1>1, <1>5, <2>1 DEF BuildThrows
  <2> QED
    BY <1>0, <1>1, <1>2, <1>5, <2>2, BreakPoints DEF PoolInv
<1>6. CASE kind[l].kind # "each" /\ ~Open(l)'
  <2>1. SharedPromises(l, captured, Clients \ {c}) = 0 .. MaxSize
    BY <1>0, <1>1, <1>3, <1>6 DEF SharedPromises
  <2>2. Break(l, 0 .. MaxSize)
    BY <1>1, <1>6, <2>1 DEF BuildThrows
  <2> QED
    BY <1>0, <1>1, <1>2, <1>6, <2>2, BreakPoints DEF PoolInv
<1> QED
  BY <1>4, <1>5, <1>6

\* The task a call has just pushed is still there when the call lets go.
LEMMA FillPoints ==
  ASSUME PoolInv, NEW c \in Clients, Fill(c)
  PROVE  /\ promise' = promise /\ captured' = captured
         /\ task[c] \in captured /\ task[c] = <<call[c], todo[c] + 1>>
<1> DEFINE l == call[c]
<1>1. task[c] \in captured /\ task[c] = <<l, todo[c] + 1>> /\ task[c][1] = l /\ l \in CallIds
  BY HoldsTask DEF Fill, Goto, Holding
<1>2. SharedPromises(l, captured, Clients \ {c}) = {}
  BY <1>1 DEF SharedPromises
<1>3. Break(l, {})
  BY <1>2 DEF Fill
<1>4. promise' = promise
  BY <1>1, <1>3 DEF Break, PoolInv, TaskTypes
<1> QED
  BY <1>1, <1>4 DEF Fill

\* A task is run: its own promise is set.
LEMMA RunPoints ==
  ASSUME PoolInv, NEW w \in Workers, NEW how \in {"returned", "threw"}, RunTask(w, how)
  PROVE  /\ task[w] \in captured
         /\ promise' \in [CallIds -> [0 .. MaxSize -> {"none", "pending", "value", "exception", "broken"}]]
         /\ \A m \in CallIds, i \in 0 .. MaxSize :
              promise'[m][i] = IF m = task[w][1] /\ i = task[w][2] /\ kind[m].kind \in {"each", "merged"}
                               THEN IF how = "threw" THEN "exception" ELSE "value"
                               ELSE promise[m][i]
<1> DEFINE l == task[w][1]  with == IF how = "threw" THEN "exception" ELSE "value"
<1>1. task[w] \in captured /\ pc[w] = "run"
  BY DEF RunTask, Goto, PoolInv, OnePlace, CapturesInPlaces, Running, Actors
<1>2. l \in CallIds /\ task[w][2] \in 0 .. MaxSize /\ with \in {"value", "exception"}
  BY <1>1, TaskFits
<1>3. CASE kind[l].kind \in {"each", "merged"}
  <2>1. Fulfil(l, task[w][2], with)
    BY <1>3 DEF RunTask
  <2>2. promise[l][task[w][2]] = "pending"
    BY <1>1, <1>3, RunPending
  <2> HIDE DEF with
  <2>3. /\ promise' \in [CallIds -> [0 .. MaxSize -> {"none", "pending", "value", "exception", "broken"}]]
        /\ \A m \in CallIds, j \in 0 .. MaxSize :
              promise'[m][j] = IF m = l /\ j = task[w][2] THEN with ELSE promise[m][j]
    BY <1>2, <2>1, <2>2, FulfilPoints DEF PoolInv
  <2> QED
    BY <1>1, <1>3, <2>3 DEF with
<1>4. CASE kind[l].kind \notin {"each", "merged"}
  <2>1. promise' = promise
    BY <1>4 DEF RunTask
  <2> QED
    BY <1>1, <1>4, <2>1 DEF PoolInv, TaskTypes
<1> QED
  BY <1>3, <1>4

\* The last task of a batch sets its promise.
LEMMA CompletePoints ==
  ASSUME PoolInv, NEW w \in Workers, Complete(w)
  PROVE  /\ task[w] \in captured
         /\ promise' \in [CallIds -> [0 .. MaxSize -> {"none", "pending", "value", "exception", "broken"}]]
         /\ \A m \in CallIds, i \in 0 .. MaxSize :
              promise'[m][i] = IF m = task[w][1] /\ i = 0 /\ kind[m].kind = "void"
                               THEN IF error[m].kept # None THEN "exception" ELSE "value"
                               ELSE promise[m][i]
<1> DEFINE l == task[w][1]  with == IF error[l].kept # None THEN "exception" ELSE "value"
<1>1. task[w] \in captured /\ pc[w] = "complete"
  BY DEF Complete, Goto, PoolInv, OnePlace, CapturesInPlaces, Running, Actors
<1>2. l \in CallIds /\ 0 \in 0 .. MaxSize /\ with \in {"value", "exception"}
  BY <1>1, TaskFits, PoolAssumption
<1>3. CASE kind[l].kind = "void"
  <2>1. Fulfil(l, 0, with)
    BY <1>3 DEF Complete
  <2>2. promise[l][0] = "pending"
    BY <1>1, <1>3, CompletePending
  <2> HIDE DEF with
  <2>3. /\ promise' \in [CallIds -> [0 .. MaxSize -> {"none", "pending", "value", "exception", "broken"}]]
        /\ \A m \in CallIds, j \in 0 .. MaxSize :
              promise'[m][j] = IF m = l /\ j = 0 THEN with ELSE promise[m][j]
    BY <1>2, <2>1, <2>2, FulfilPoints DEF PoolInv
  <2> QED
    BY <1>1, <1>3, <2>3 DEF with
<1>4. CASE kind[l].kind # "void"
  <2>1. promise' = promise
    BY <1>4 DEF Complete
  <2> QED
    BY <1>1, <1>4, <2>1 DEF PoolInv, TaskTypes
<1> QED
  BY <1>3, <1>4

-----------------------------------------------------------------------------
(* Types. *)

LEMMA QueueTyped ==
  ASSUME PoolInv, [Next]_vars
  PROVE  QueueTypes'
<1> USE DEF Goto
<1>1. CASE UNCHANGED vars
  BY <1>1, PoolAssumption DEF vars, takeWakeUp, vars, queueVars, PoolInv, QueueTypes, CallTypes
<1>2. ASSUME NEW c \in Clients, Begin(c) \/ Submit(c) \/ Wait(c) \/ Shutdown(c) \/ OnTasksFinished(c)
      PROVE  QueueTypes'
  <2>0. c \in Actors /\ c \notin Workers
    BY PoolAssumption DEF Actors
  <2>1. ASSUME NEW k \in CallKinds, Call(c, k) PROVE QueueTypes'
    BY <2>0, <2>1, PoolAssumption DEF Call, takeWakeUp, vars, queueVars, PoolInv, QueueTypes,
         CallTypes
  <2>2. ASSUME NEW n \in 1 .. MaxShares, NEW background \in BOOLEAN, Share(c, n, background) PROVE QueueTypes'
    BY <2>0, <2>2, PoolAssumption DEF Share, takeWakeUp, vars, queueVars, PoolInv, QueueTypes,
         CallTypes
  <2>3. CASE helpThread(c)
    BY <2>0, <2>3, PoolAssumption DEF helpThread, takeWakeUp, vars, queueVars, PoolInv,
         QueueTypes, CallTypes
  <2>4. CASE BeginWait(c)
    BY <2>0, <2>4, PoolAssumption DEF BeginWait, takeWakeUp, vars, queueVars, PoolInv,
         QueueTypes, CallTypes
  <2>5. CASE initPool(c)
    BY <2>0, <2>5, PoolAssumption DEF initPool, takeWakeUp, vars, queueVars, PoolInv,
         QueueTypes, CallTypes
  <2>6. CASE RequestStop(c)
    BY <2>0, <2>6, PoolAssumption DEF RequestStop, takeWakeUp, vars, queueVars, PoolInv,
         QueueTypes, CallTypes
  <2>7. CASE BuildTask(c)
    BY <2>0, <2>7, PoolAssumption DEF BuildTask, takeWakeUp, vars, queueVars, PoolInv,
         QueueTypes, CallTypes
  <2>8. CASE BuildThrows(c)
    BY <2>0, <2>8, PoolAssumption DEF BuildThrows, takeWakeUp, vars, queueVars, PoolInv,
         QueueTypes, CallTypes
  <2>9. CASE onTaskEnqueued(c)
    BY <2>0, <2>9, PoolAssumption DEF onTaskEnqueued, takeWakeUp, vars, queueVars, PoolInv,
         QueueTypes, CallTypes
  <2>10. CASE Reserve(c)
    BY <2>10, ReservedCells DEF QueueTypes, Reserve, PoolInv
  <2>11. CASE Fill(c)
    BY <2>11, FilledCells DEF QueueTypes, Fill, PoolInv
  <2>12. CASE Signal(c)
    BY <2>0, <2>12, PoolAssumption DEF Signal, takeWakeUp, vars, queueVars, PoolInv,
         QueueTypes, CallTypes
  <2>13. CASE LockCheck(c)
    BY <2>0, <2>13, PoolAssumption DEF LockCheck, takeWakeUp, vars, queueVars, PoolInv,
         QueueTypes, CallTypes
  <2>14. CASE CheckDone(c)
    BY <2>0, <2>14, PoolAssumption DEF CheckDone, takeWakeUp, vars, queueVars, PoolInv,
         QueueTypes, CallTypes
  <2>15. CASE FallAsleep(c)
    BY <2>0, <2>15, PoolAssumption DEF FallAsleep, takeWakeUp, vars, queueVars, PoolInv,
         QueueTypes, CallTypes
  <2>16. CASE WakeUp(c)
    BY <2>0, <2>16, PoolAssumption DEF WakeUp, takeWakeUp, vars, queueVars, PoolInv,
         QueueTypes, CallTypes
  <2>17. CASE EndWait(c)
    BY <2>0, <2>17, PoolAssumption DEF EndWait, takeWakeUp, vars, queueVars, PoolInv,
         QueueTypes, CallTypes
  <2>18. CASE SignalStop(c)
    <3>1. IsFiniteSet(joining[c])
      BY PoolAssumption, FS_Subset DEF PoolInv, PlaceTypes
    <3> QED
      BY <3>1, <2>18, FS_CardinalityType DEF SignalStop, PoolInv, QueueTypes
  <2>19. CASE JoinAll(c)
    BY <2>0, <2>19, PoolAssumption DEF JoinAll, takeWakeUp, vars, queueVars, PoolInv,
         QueueTypes, CallTypes
  <2>20. CASE DropTask(c)
    BY <2>20, TakenCells DEF QueueTypes, DropTask, FrontFilled, PoolInv
  <2>21. CASE AllDropped(c)
    BY <2>0, <2>21, PoolAssumption DEF AllDropped, takeWakeUp, vars, queueVars, PoolInv,
         QueueTypes, CallTypes
  <2>22. CASE Finished(c)
    BY <2>0, <2>22, PoolAssumption DEF Finished, takeWakeUp, vars, queueVars, PoolInv,
         QueueTypes, CallTypes
  <2>23. CASE AnyWaiter(c)
    BY <2>0, <2>23, PoolAssumption DEF AnyWaiter, takeWakeUp, vars, queueVars, PoolInv,
         QueueTypes, CallTypes
  <2>24. CASE PassMutex(c)
    BY <2>0, <2>24, PoolAssumption DEF PassMutex, takeWakeUp, vars, queueVars, PoolInv,
         QueueTypes, CallTypes
  <2>25. CASE NotifyAll(c)
    BY <2>0, <2>25, PoolAssumption DEF NotifyAll, takeWakeUp, vars, queueVars, PoolInv,
         QueueTypes, CallTypes
  <2> QED
    BY <1>2, <2>1, <2>2, <2>3, <2>4, <2>5, <2>6, <2>7, <2>8, <2>9, <2>10, <2>11, <2>12, <2>13,
         <2>14, <2>15, <2>16, <2>17, <2>18, <2>19, <2>20, <2>21, <2>22, <2>23, <2>24, <2>25
       DEF Begin, Submit, Wait, Shutdown, OnTasksFinished
<1>3. ASSUME NEW w \in Workers, Worker(w) \/ OnTasksFinished(w)
      PROVE  QueueTypes'
  <2>0. w \in Actors /\ w \notin Clients
    BY PoolAssumption DEF Actors
  <2>1. CASE CheckStop(w)
    BY <2>0, <2>1, PoolAssumption DEF CheckStop, takeWakeUp, vars, queueVars, PoolInv,
         QueueTypes, CallTypes
  <2>2. CASE HelpParallel(w)
    BY <2>0, <2>2, PoolAssumption DEF HelpParallel, takeWakeUp, vars, queueVars, PoolInv,
         QueueTypes, CallTypes
  <2>3. CASE PopTask(w)
    BY <2>3, TakenCells DEF QueueTypes, PopTask, FrontFilled, PoolInv
  <2>4. CASE HelpBackground(w)
    BY <2>0, <2>4, PoolAssumption DEF HelpBackground, takeWakeUp, vars, queueVars, PoolInv,
         QueueTypes, CallTypes
  <2>5. CASE LoopOver(w)
    BY <2>0, <2>5, PoolAssumption DEF LoopOver, takeWakeUp, vars, queueVars, PoolInv,
         QueueTypes, CallTypes
  <2>6. CASE frameWaiting(w)
    BY <2>0, <2>6, PoolAssumption DEF frameWaiting, takeWakeUp, vars, queueVars, PoolInv,
         QueueTypes, CallTypes
  <2>7. CASE PutBack(w)
    BY <2>0, <2>7, PoolAssumption DEF PutBack, takeWakeUp, vars, queueVars, PoolInv,
         QueueTypes, CallTypes
  <2>8. CASE Wake(w)
    BY <2>0, <2>8, PoolAssumption DEF Wake, takeWakeUp, vars, queueVars, PoolInv, QueueTypes,
         CallTypes
  <2>9. CASE Timeout(w)
    BY <2>0, <2>9, PoolAssumption DEF Timeout, takeWakeUp, vars, queueVars, PoolInv,
         QueueTypes, CallTypes
  <2>10. CASE onTaskStarted(w)
    BY <2>0, <2>10, PoolAssumption DEF onTaskStarted, takeWakeUp, vars, queueVars, PoolInv,
         QueueTypes, CallTypes
  <2>11. ASSUME NEW how \in {"returned", "threw"}, RunTask(w, how) PROVE QueueTypes'
    BY <2>0, <2>11, PoolAssumption DEF RunTask, takeWakeUp, vars, queueVars, PoolInv,
         QueueTypes, CallTypes
  <2>12. CASE FailBatch(w)
    BY <2>0, <2>12, PoolAssumption DEF FailBatch, takeWakeUp, vars, queueVars, PoolInv,
         QueueTypes, CallTypes
  <2>13. CASE KeepError(w)
    BY <2>0, <2>13, PoolAssumption DEF KeepError, takeWakeUp, vars, queueVars, PoolInv,
         QueueTypes, CallTypes
  <2>14. CASE CountOff(w)
    BY <2>0, <2>14, PoolAssumption DEF CountOff, takeWakeUp, vars, queueVars, PoolInv,
         QueueTypes, CallTypes
  <2>15. CASE Complete(w)
    BY <2>0, <2>15, PoolAssumption DEF Complete, takeWakeUp, vars, queueVars, PoolInv,
         QueueTypes, CallTypes
  <2>16. CASE DestroyTask(w)
    BY <2>0, <2>16, PoolAssumption DEF DestroyTask, takeWakeUp, vars, queueVars, PoolInv,
         QueueTypes, CallTypes
  <2>17. CASE Finished(w)
    BY <2>0, <2>17, PoolAssumption DEF Finished, takeWakeUp, vars, queueVars, PoolInv,
         QueueTypes, CallTypes
  <2>18. CASE AnyWaiter(w)
    BY <2>0, <2>18, PoolAssumption DEF AnyWaiter, takeWakeUp, vars, queueVars, PoolInv,
         QueueTypes, CallTypes
  <2>19. CASE PassMutex(w)
    BY <2>0, <2>19, PoolAssumption DEF PassMutex, takeWakeUp, vars, queueVars, PoolInv,
         QueueTypes, CallTypes
  <2>20. CASE NotifyAll(w)
    BY <2>0, <2>20, PoolAssumption DEF NotifyAll, takeWakeUp, vars, queueVars, PoolInv,
         QueueTypes, CallTypes
  <2> QED
    BY <1>3, <2>1, <2>2, <2>3, <2>4, <2>5, <2>6, <2>7, <2>8, <2>9, <2>10, <2>11, <2>12, <2>13,
         <2>14, <2>15, <2>16, <2>17, <2>18, <2>19, <2>20 DEF Worker, OnTasksFinished
<1> QED
  BY <1>1, <1>2, <1>3 DEF Next

LEMMA PlacesTyped ==
  ASSUME PoolInv, [Next]_vars
  PROVE  PlaceTypes'
<1> USE DEF Goto
<1>1. CASE UNCHANGED vars
  BY <1>1, PoolAssumption DEF vars, takeWakeUp, vars, waitVars, poolVars, PoolInv, PlaceTypes
<1>2. ASSUME NEW c \in Clients, Begin(c) \/ Submit(c) \/ Wait(c) \/ Shutdown(c) \/ OnTasksFinished(c)
      PROVE  PlaceTypes'
  <2>0. c \in Actors /\ c \notin Workers
    BY PoolAssumption DEF Actors
  <2>1. ASSUME NEW k \in CallKinds, Call(c, k) PROVE PlaceTypes'
    BY <2>0, <2>1, PoolAssumption DEF Call, takeWakeUp, vars, waitVars, poolVars, PoolInv,
         PlaceTypes
  <2>2. ASSUME NEW n \in 1 .. MaxShares, NEW background \in BOOLEAN, Share(c, n, background) PROVE PlaceTypes'
    BY <2>0, <2>2, PoolAssumption DEF Share, takeWakeUp, vars, waitVars, poolVars, PoolInv,
         PlaceTypes
  <2>3. CASE helpThread(c)
    BY <2>0, <2>3, PoolAssumption DEF helpThread, takeWakeUp, vars, waitVars, poolVars,
         PoolInv, PlaceTypes
  <2>4. CASE BeginWait(c)
    BY <2>0, <2>4, PoolAssumption DEF BeginWait, takeWakeUp, vars, waitVars, poolVars, PoolInv,
         PlaceTypes
  <2>5. CASE initPool(c)
    BY <2>0, <2>5, PoolAssumption DEF initPool, takeWakeUp, vars, waitVars, poolVars, PoolInv,
         PlaceTypes
  <2>6. CASE RequestStop(c)
    BY <2>0, <2>6, PoolAssumption DEF RequestStop, takeWakeUp, vars, waitVars, poolVars,
         PoolInv, PlaceTypes
  <2>7. CASE BuildTask(c)
    <3>1. task'[c] \in Tasks
      BY <2>0, <2>7, PoolAssumption DEF BuildTask, PoolInv, PlaceTypes, CallersTell, CallTypes,
           Submitting, Tasks, CallIds
    <3> QED
      BY <2>0, <3>1, <2>7 DEF BuildTask, poolVars, waitVars, PoolInv, PlaceTypes
  <2>8. CASE BuildThrows(c)
    BY <2>0, <2>8, PoolAssumption DEF BuildThrows, takeWakeUp, vars, waitVars, poolVars,
         PoolInv, PlaceTypes
  <2>9. CASE onTaskEnqueued(c)
    BY <2>0, <2>9, PoolAssumption DEF onTaskEnqueued, takeWakeUp, vars, waitVars, poolVars,
         PoolInv, PlaceTypes
  <2>10. CASE Reserve(c)
    BY <2>0, <2>10, PoolAssumption DEF Reserve, takeWakeUp, vars, waitVars, poolVars, PoolInv,
         PlaceTypes
  <2>11. CASE Fill(c)
    BY <2>0, <2>11, PoolAssumption DEF Fill, takeWakeUp, vars, waitVars, poolVars, PoolInv,
         PlaceTypes
  <2>12. CASE Signal(c)
    BY <2>0, <2>12, PoolAssumption DEF Signal, takeWakeUp, vars, waitVars, poolVars, PoolInv,
         PlaceTypes
  <2>13. CASE LockCheck(c)
    BY <2>0, <2>13, PoolAssumption DEF LockCheck, takeWakeUp, vars, waitVars, poolVars,
         PoolInv, PlaceTypes
  <2>14. CASE CheckDone(c)
    BY <2>0, <2>14, PoolAssumption DEF CheckDone, takeWakeUp, vars, waitVars, poolVars,
         PoolInv, PlaceTypes
  <2>15. CASE FallAsleep(c)
    BY <2>0, <2>15, PoolAssumption DEF FallAsleep, takeWakeUp, vars, waitVars, poolVars,
         PoolInv, PlaceTypes
  <2>16. CASE WakeUp(c)
    BY <2>0, <2>16, PoolAssumption DEF WakeUp, takeWakeUp, vars, waitVars, poolVars, PoolInv,
         PlaceTypes
  <2>17. CASE EndWait(c)
    BY <2>0, <2>17, PoolAssumption DEF EndWait, takeWakeUp, vars, waitVars, poolVars, PoolInv,
         PlaceTypes
  <2>18. CASE SignalStop(c)
    BY <2>0, <2>18, PoolAssumption DEF SignalStop, takeWakeUp, vars, waitVars, poolVars,
         PoolInv, PlaceTypes
  <2>19. CASE JoinAll(c)
    BY <2>0, <2>19, PoolAssumption DEF JoinAll, takeWakeUp, vars, waitVars, poolVars, PoolInv,
         PlaceTypes
  <2>20. CASE DropTask(c)
    BY <2>0, <2>20, PoolAssumption DEF DropTask, takeWakeUp, vars, waitVars, poolVars, PoolInv,
         PlaceTypes
  <2>21. CASE AllDropped(c)
    BY <2>0, <2>21, PoolAssumption DEF AllDropped, takeWakeUp, vars, waitVars, poolVars,
         PoolInv, PlaceTypes
  <2>22. CASE Finished(c)
    BY <2>0, <2>22, PoolAssumption DEF Finished, takeWakeUp, vars, waitVars, poolVars, PoolInv,
         PlaceTypes
  <2>23. CASE AnyWaiter(c)
    BY <2>0, <2>23, PoolAssumption DEF AnyWaiter, takeWakeUp, vars, waitVars, poolVars,
         PoolInv, PlaceTypes
  <2>24. CASE PassMutex(c)
    BY <2>0, <2>24, PoolAssumption DEF PassMutex, takeWakeUp, vars, waitVars, poolVars,
         PoolInv, PlaceTypes
  <2>25. CASE NotifyAll(c)
    BY <2>0, <2>25, PoolAssumption DEF NotifyAll, takeWakeUp, vars, waitVars, poolVars,
         PoolInv, PlaceTypes
  <2> QED
    BY <1>2, <2>1, <2>2, <2>3, <2>4, <2>5, <2>6, <2>7, <2>8, <2>9, <2>10, <2>11, <2>12, <2>13,
         <2>14, <2>15, <2>16, <2>17, <2>18, <2>19, <2>20, <2>21, <2>22, <2>23, <2>24, <2>25
       DEF Begin, Submit, Wait, Shutdown, OnTasksFinished
<1>3. ASSUME NEW w \in Workers, Worker(w) \/ OnTasksFinished(w)
      PROVE  PlaceTypes'
  <2>0. w \in Actors /\ w \notin Clients
    BY PoolAssumption DEF Actors
  <2>1. CASE CheckStop(w)
    BY <2>0, <2>1, PoolAssumption DEF CheckStop, takeWakeUp, vars, waitVars, poolVars, PoolInv,
         PlaceTypes
  <2>2. CASE HelpParallel(w)
    BY <2>0, <2>2, PoolAssumption DEF HelpParallel, takeWakeUp, vars, waitVars, poolVars,
         PoolInv, PlaceTypes
  <2>3. CASE PopTask(w)
    BY <2>0, <2>3, TakenCells DEF PopTask, FrontFilled, waitVars, poolVars, PoolInv, PlaceTypes
  <2>4. CASE HelpBackground(w)
    BY <2>0, <2>4, PoolAssumption DEF HelpBackground, takeWakeUp, vars, waitVars, poolVars,
         PoolInv, PlaceTypes
  <2>5. CASE LoopOver(w)
    BY <2>0, <2>5, PoolAssumption DEF LoopOver, takeWakeUp, vars, waitVars, poolVars, PoolInv,
         PlaceTypes
  <2>6. CASE frameWaiting(w)
    BY <2>0, <2>6, PoolAssumption DEF frameWaiting, takeWakeUp, vars, waitVars, poolVars,
         PoolInv, PlaceTypes
  <2>7. CASE PutBack(w)
    BY <2>0, <2>7, PoolAssumption DEF PutBack, takeWakeUp, vars, waitVars, poolVars, PoolInv,
         PlaceTypes
  <2>8. CASE Wake(w)
    BY <2>0, <2>8, PoolAssumption DEF Wake, takeWakeUp, vars, waitVars, poolVars, PoolInv,
         PlaceTypes
  <2>9. CASE Timeout(w)
    BY <2>0, <2>9, PoolAssumption DEF Timeout, takeWakeUp, vars, waitVars, poolVars, PoolInv,
         PlaceTypes
  <2>10. CASE onTaskStarted(w)
    BY <2>0, <2>10, PoolAssumption DEF onTaskStarted, takeWakeUp, vars, waitVars, poolVars,
         PoolInv, PlaceTypes
  <2>11. ASSUME NEW how \in {"returned", "threw"}, RunTask(w, how) PROVE PlaceTypes'
    BY <2>0, <2>11, PoolAssumption DEF RunTask, takeWakeUp, vars, waitVars, poolVars, PoolInv,
         PlaceTypes
  <2>12. CASE FailBatch(w)
    BY <2>0, <2>12, PoolAssumption DEF FailBatch, takeWakeUp, vars, waitVars, poolVars,
         PoolInv, PlaceTypes
  <2>13. CASE KeepError(w)
    BY <2>0, <2>13, PoolAssumption DEF KeepError, takeWakeUp, vars, waitVars, poolVars,
         PoolInv, PlaceTypes
  <2>14. CASE CountOff(w)
    BY <2>0, <2>14, PoolAssumption DEF CountOff, takeWakeUp, vars, waitVars, poolVars, PoolInv,
         PlaceTypes
  <2>15. CASE Complete(w)
    BY <2>0, <2>15, PoolAssumption DEF Complete, takeWakeUp, vars, waitVars, poolVars, PoolInv,
         PlaceTypes
  <2>16. CASE DestroyTask(w)
    BY <2>0, <2>16, PoolAssumption DEF DestroyTask, takeWakeUp, vars, waitVars, poolVars,
         PoolInv, PlaceTypes
  <2>17. CASE Finished(w)
    BY <2>0, <2>17, PoolAssumption DEF Finished, takeWakeUp, vars, waitVars, poolVars, PoolInv,
         PlaceTypes
  <2>18. CASE AnyWaiter(w)
    BY <2>0, <2>18, PoolAssumption DEF AnyWaiter, takeWakeUp, vars, waitVars, poolVars,
         PoolInv, PlaceTypes
  <2>19. CASE PassMutex(w)
    BY <2>0, <2>19, PoolAssumption DEF PassMutex, takeWakeUp, vars, waitVars, poolVars,
         PoolInv, PlaceTypes
  <2>20. CASE NotifyAll(w)
    BY <2>0, <2>20, PoolAssumption DEF NotifyAll, takeWakeUp, vars, waitVars, poolVars,
         PoolInv, PlaceTypes
  <2> QED
    BY <1>3, <2>1, <2>2, <2>3, <2>4, <2>5, <2>6, <2>7, <2>8, <2>9, <2>10, <2>11, <2>12, <2>13,
         <2>14, <2>15, <2>16, <2>17, <2>18, <2>19, <2>20 DEF Worker, OnTasksFinished
<1> QED
  BY <1>1, <1>2, <1>3 DEF Next

LEMMA CallsTyped ==
  ASSUME PoolInv, [Next]_vars
  PROVE  CallTypes'
<1> USE DEF Goto
<1>1. CASE UNCHANGED vars
  BY <1>1, PoolAssumption DEF vars, vars, callVars, poolVars, PoolInv, CallTypes, CallIds, Kinds
<1>2. ASSUME NEW c \in Clients, Begin(c) \/ Submit(c) \/ Wait(c) \/ Shutdown(c) \/ OnTasksFinished(c)
      PROVE  CallTypes'
  <2>0. c \in Actors /\ c \notin Workers
    BY PoolAssumption DEF Actors
  <2>1. ASSUME NEW k \in CallKinds, Call(c, k) PROVE CallTypes'
    BY <2>0, <2>1, PoolAssumption DEF Call, vars, callVars, poolVars, PoolInv, CallTypes,
         CallIds, Kinds
  <2>2. ASSUME NEW n \in 1 .. MaxShares, NEW background \in BOOLEAN, Share(c, n, background) PROVE CallTypes'
    BY <2>0, <2>2, PoolAssumption DEF Share, vars, callVars, poolVars, PoolInv, CallTypes,
         CallIds, Kinds
  <2>3. CASE helpThread(c)
    BY <2>0, <2>3, PoolAssumption DEF helpThread, vars, callVars, poolVars, PoolInv, CallTypes,
         CallIds, Kinds
  <2>4. CASE BeginWait(c)
    BY <2>0, <2>4, PoolAssumption DEF BeginWait, vars, callVars, poolVars, PoolInv, CallTypes,
         CallIds, Kinds
  <2>5. CASE initPool(c)
    BY <2>0, <2>5, PoolAssumption DEF initPool, vars, callVars, poolVars, PoolInv, CallTypes,
         CallIds, Kinds
  <2>6. CASE RequestStop(c)
    BY <2>0, <2>6, PoolAssumption DEF RequestStop, vars, callVars, poolVars, PoolInv,
         CallTypes, CallIds, Kinds
  <2>7. CASE BuildTask(c)
    BY <2>0, <2>7, PoolAssumption DEF BuildTask, vars, callVars, poolVars, PoolInv, CallTypes,
         CallIds, Kinds
  <2>8. CASE BuildThrows(c)
    BY <2>0, <2>8, PoolAssumption DEF BuildThrows, vars, callVars, poolVars, PoolInv,
         CallTypes, CallIds, Kinds
  <2>9. CASE onTaskEnqueued(c)
    BY <2>0, <2>9, PoolAssumption DEF onTaskEnqueued, vars, callVars, poolVars, PoolInv,
         CallTypes, CallIds, Kinds
  <2>10. CASE Reserve(c)
    BY <2>0, <2>10, PoolAssumption DEF Reserve, vars, callVars, poolVars, PoolInv, CallTypes,
         CallIds, Kinds
  <2>11. CASE Fill(c)
    BY <2>0, <2>11, PoolAssumption DEF Fill, vars, callVars, poolVars, PoolInv, CallTypes,
         CallIds, Kinds
  <2>12. CASE Signal(c)
    BY <2>0, <2>12, PoolAssumption DEF Signal, vars, callVars, poolVars, PoolInv, CallTypes,
         CallIds, Kinds
  <2>13. CASE LockCheck(c)
    BY <2>0, <2>13, PoolAssumption DEF LockCheck, vars, callVars, poolVars, PoolInv, CallTypes,
         CallIds, Kinds
  <2>14. CASE CheckDone(c)
    BY <2>0, <2>14, PoolAssumption DEF CheckDone, vars, callVars, poolVars, PoolInv, CallTypes,
         CallIds, Kinds
  <2>15. CASE FallAsleep(c)
    BY <2>0, <2>15, PoolAssumption DEF FallAsleep, vars, callVars, poolVars, PoolInv,
         CallTypes, CallIds, Kinds
  <2>16. CASE WakeUp(c)
    BY <2>0, <2>16, PoolAssumption DEF WakeUp, vars, callVars, poolVars, PoolInv, CallTypes,
         CallIds, Kinds
  <2>17. CASE EndWait(c)
    BY <2>0, <2>17, PoolAssumption DEF EndWait, vars, callVars, poolVars, PoolInv, CallTypes,
         CallIds, Kinds
  <2>18. CASE SignalStop(c)
    BY <2>0, <2>18, PoolAssumption DEF SignalStop, vars, callVars, poolVars, PoolInv,
         CallTypes, CallIds, Kinds
  <2>19. CASE JoinAll(c)
    BY <2>0, <2>19, PoolAssumption DEF JoinAll, vars, callVars, poolVars, PoolInv, CallTypes,
         CallIds, Kinds
  <2>20. CASE DropTask(c)
    BY <2>0, <2>20, PoolAssumption DEF DropTask, vars, callVars, poolVars, PoolInv, CallTypes,
         CallIds, Kinds
  <2>21. CASE AllDropped(c)
    BY <2>0, <2>21, PoolAssumption DEF AllDropped, vars, callVars, poolVars, PoolInv,
         CallTypes, CallIds, Kinds
  <2>22. CASE Finished(c)
    BY <2>0, <2>22, PoolAssumption DEF Finished, vars, callVars, poolVars, PoolInv, CallTypes,
         CallIds, Kinds
  <2>23. CASE AnyWaiter(c)
    BY <2>0, <2>23, PoolAssumption DEF AnyWaiter, vars, callVars, poolVars, PoolInv, CallTypes,
         CallIds, Kinds
  <2>24. CASE PassMutex(c)
    BY <2>0, <2>24, PoolAssumption DEF PassMutex, vars, callVars, poolVars, PoolInv, CallTypes,
         CallIds, Kinds
  <2>25. CASE NotifyAll(c)
    BY <2>0, <2>25, PoolAssumption DEF NotifyAll, vars, callVars, poolVars, PoolInv, CallTypes,
         CallIds, Kinds
  <2> QED
    BY <1>2, <2>1, <2>2, <2>3, <2>4, <2>5, <2>6, <2>7, <2>8, <2>9, <2>10, <2>11, <2>12, <2>13,
         <2>14, <2>15, <2>16, <2>17, <2>18, <2>19, <2>20, <2>21, <2>22, <2>23, <2>24, <2>25
       DEF Begin, Submit, Wait, Shutdown, OnTasksFinished
<1>3. ASSUME NEW w \in Workers, Worker(w) \/ OnTasksFinished(w)
      PROVE  CallTypes'
  <2>0. w \in Actors /\ w \notin Clients
    BY PoolAssumption DEF Actors
  <2>1. CASE CheckStop(w)
    BY <2>0, <2>1, PoolAssumption DEF CheckStop, vars, callVars, poolVars, PoolInv, CallTypes,
         CallIds, Kinds
  <2>2. CASE HelpParallel(w)
    BY <2>0, <2>2, PoolAssumption DEF HelpParallel, vars, callVars, poolVars, PoolInv,
         CallTypes, CallIds, Kinds
  <2>3. CASE PopTask(w)
    BY <2>0, <2>3, PoolAssumption DEF PopTask, vars, callVars, poolVars, PoolInv, CallTypes,
         CallIds, Kinds
  <2>4. CASE HelpBackground(w)
    BY <2>0, <2>4, PoolAssumption DEF HelpBackground, vars, callVars, poolVars, PoolInv,
         CallTypes, CallIds, Kinds
  <2>5. CASE LoopOver(w)
    BY <2>0, <2>5, PoolAssumption DEF LoopOver, vars, callVars, poolVars, PoolInv, CallTypes,
         CallIds, Kinds
  <2>6. CASE frameWaiting(w)
    BY <2>0, <2>6, PoolAssumption DEF frameWaiting, vars, callVars, poolVars, PoolInv,
         CallTypes, CallIds, Kinds
  <2>7. CASE PutBack(w)
    BY <2>0, <2>7, PoolAssumption DEF PutBack, vars, callVars, poolVars, PoolInv, CallTypes,
         CallIds, Kinds
  <2>8. CASE Wake(w)
    BY <2>0, <2>8, PoolAssumption DEF Wake, vars, callVars, poolVars, PoolInv, CallTypes,
         CallIds, Kinds
  <2>9. CASE Timeout(w)
    BY <2>0, <2>9, PoolAssumption DEF Timeout, vars, callVars, poolVars, PoolInv, CallTypes,
         CallIds, Kinds
  <2>10. CASE onTaskStarted(w)
    BY <2>0, <2>10, PoolAssumption DEF onTaskStarted, vars, callVars, poolVars, PoolInv,
         CallTypes, CallIds, Kinds
  <2>11. ASSUME NEW how \in {"returned", "threw"}, RunTask(w, how) PROVE CallTypes'
    BY <2>0, <2>11, PoolAssumption DEF RunTask, vars, callVars, poolVars, PoolInv, CallTypes,
         CallIds, Kinds
  <2>12. CASE FailBatch(w)
    BY <2>0, <2>12, PoolAssumption DEF FailBatch, vars, callVars, poolVars, PoolInv, CallTypes,
         CallIds, Kinds
  <2>13. CASE KeepError(w)
    BY <2>0, <2>13, PoolAssumption DEF KeepError, vars, callVars, poolVars, PoolInv, CallTypes,
         CallIds, Kinds
  <2>14. CASE CountOff(w)
    BY <2>0, <2>14, PoolAssumption DEF CountOff, vars, callVars, poolVars, PoolInv, CallTypes,
         CallIds, Kinds
  <2>15. CASE Complete(w)
    BY <2>0, <2>15, PoolAssumption DEF Complete, vars, callVars, poolVars, PoolInv, CallTypes,
         CallIds, Kinds
  <2>16. CASE DestroyTask(w)
    BY <2>0, <2>16, PoolAssumption DEF DestroyTask, vars, callVars, poolVars, PoolInv,
         CallTypes, CallIds, Kinds
  <2>17. CASE Finished(w)
    BY <2>0, <2>17, PoolAssumption DEF Finished, vars, callVars, poolVars, PoolInv, CallTypes,
         CallIds, Kinds
  <2>18. CASE AnyWaiter(w)
    BY <2>0, <2>18, PoolAssumption DEF AnyWaiter, vars, callVars, poolVars, PoolInv, CallTypes,
         CallIds, Kinds
  <2>19. CASE PassMutex(w)
    BY <2>0, <2>19, PoolAssumption DEF PassMutex, vars, callVars, poolVars, PoolInv, CallTypes,
         CallIds, Kinds
  <2>20. CASE NotifyAll(w)
    BY <2>0, <2>20, PoolAssumption DEF NotifyAll, vars, callVars, poolVars, PoolInv, CallTypes,
         CallIds, Kinds
  <2> QED
    BY <1>3, <2>1, <2>2, <2>3, <2>4, <2>5, <2>6, <2>7, <2>8, <2>9, <2>10, <2>11, <2>12, <2>13,
         <2>14, <2>15, <2>16, <2>17, <2>18, <2>19, <2>20 DEF Worker, OnTasksFinished
<1> QED
  BY <1>1, <1>2, <1>3 DEF Next

LEMMA TasksTyped ==
  ASSUME PoolInv, Quiet \/ Engaging
  PROVE  TaskTypes'
<1> USE DEF Goto
<1>1. CASE Quiet
  BY <1>1, PoolAssumption DEF Quiet, Aloof, PoolInv, TaskTypes, taskVars, CallTypes,
       PlaceTypes, Tasks
<1>2. ASSUME NEW c \in Clients, ClientEngages(c)
      PROVE  TaskTypes'
  <2>0. c \in Actors /\ c \notin Workers
    BY PoolAssumption DEF Actors
  <2>1. ASSUME NEW k \in CallKinds, Call(c, k) PROVE TaskTypes'
    BY <2>0, <2>1, PoolAssumption DEF Call, PoolInv, TaskTypes, taskVars, CallTypes,
         PlaceTypes, Tasks
  <2>2. CASE BuildTask(c)
    BY <2>0, <2>2, PoolAssumption DEF BuildTask, PoolInv, CallersTell, CallTypes, Submitting,
         Tasks, CallIds, TaskTypes
  <2>3. CASE BuildThrows(c)
    BY <2>0, <2>3, ThrowPoints DEF BuildThrows, PoolInv, TaskTypes
  <2>4. CASE onTaskEnqueued(c)
    BY <2>0, <2>4, PoolAssumption DEF onTaskEnqueued, PoolInv, TaskTypes, taskVars, CallTypes,
         PlaceTypes, Tasks
  <2>5. CASE Reserve(c)
    BY <2>0, <2>5, PoolAssumption DEF Reserve, PoolInv, TaskTypes, taskVars, CallTypes,
         PlaceTypes, Tasks
  <2>6. CASE Fill(c)
    BY <2>0, <2>6, FillPoints DEF Fill, PoolInv, TaskTypes
  <2>7. CASE Finished(c)
    BY <2>0, <2>7, PoolAssumption DEF Finished, PoolInv, TaskTypes, taskVars, CallTypes,
         PlaceTypes, Tasks
  <2>8. CASE DropTask(c)
    BY <2>0, <2>8, DropPoints, TakenCells DEF DropTask, PoolInv, TaskTypes
  <2>9. CASE AllDropped(c)
    BY <2>0, <2>9, PoolAssumption DEF AllDropped, PoolInv, TaskTypes, taskVars, CallTypes,
         PlaceTypes, Tasks
  <2> QED
    BY <1>2, <2>1, <2>2, <2>3, <2>4, <2>5, <2>6, <2>7, <2>8, <2>9 DEF ClientEngages
<1>3. ASSUME NEW w \in Workers, WorkerEngages(w)
      PROVE  TaskTypes'
  <2>0. w \in Actors /\ w \notin Clients
    BY PoolAssumption DEF Actors
  <2>1. CASE PopTask(w)
    BY <2>0, <2>1, PoolAssumption DEF PopTask, PoolInv, TaskTypes, taskVars, CallTypes,
         PlaceTypes, Tasks
  <2>2. CASE onTaskStarted(w)
    BY <2>0, <2>2, PoolAssumption DEF onTaskStarted, PoolInv, TaskTypes, taskVars, CallTypes,
         PlaceTypes, Tasks
  <2>3. ASSUME NEW how \in {"returned", "threw"}, RunTask(w, how) PROVE TaskTypes'
    BY <2>0, <2>3, RunPoints DEF RunTask, PoolInv, TaskTypes
  <2>4. CASE FailBatch(w)
    BY <2>0, <2>4, RunsTask DEF FailBatch, Running, PoolInv, TaskTypes
  <2>5. CASE KeepError(w)
    BY <2>0, <2>5, RunsTask DEF KeepError, Running, PoolInv, TaskTypes
  <2>6. CASE CountOff(w)
    BY <2>0, <2>6, PoolAssumption DEF CountOff, PoolInv, TaskTypes, taskVars, CallTypes,
         PlaceTypes, Tasks
  <2>7. CASE Complete(w)
    <3>1. task[w][1] \in CallIds /\ callbacks \in [CallIds -> Nat]
      BY <2>7, RunsTask DEF Complete, Goto, Running, PoolInv, TaskTypes
    <3>2. callbacks' \in [CallIds -> Nat]
      BY <3>1, <2>7 DEF Complete
    <3> QED
      BY <3>2, <2>7, CompletePoints DEF Complete, PoolInv, TaskTypes
  <2>8. CASE DestroyTask(w)
    BY <2>0, <2>8, DestroyPoints DEF DestroyTask, PoolInv, TaskTypes
  <2>9. CASE Finished(w)
    BY <2>0, <2>9, PoolAssumption DEF Finished, PoolInv, TaskTypes, taskVars, CallTypes,
         PlaceTypes, Tasks
  <2> QED
    BY <1>3, <2>1, <2>2, <2>3, <2>4, <2>5, <2>6, <2>7, <2>8, <2>9 DEF WorkerEngages
<1> QED
  BY <1>1, <1>2, <1>3 DEF Engaging

-----------------------------------------------------------------------------
(* The steps, point by point. *)

\* A call is made; an empty one is over.
LEMMA CallFrame ==
  ASSUME PoolInv, NEW c \in Clients, NEW k \in CallKinds, Call(c, k)
  PROVE  /\ pc[c] = "idle" /\ (pc'[c] = IF k.size = 0 THEN "idle" ELSE "build")
         /\ \A a \in Actors \ {c} : pc'[a] = pc[a]
         /\ calls' = calls + 1 /\ calls + 1 \in CallIds /\ k \in [kind : Kinds, size : 0 .. MaxSize]
         /\ kind'[calls + 1] = k /\ \A l \in CallIds \ {calls + 1} : kind'[l] = kind[l]
         /\ call'[c] = IF k.size = 0 THEN None ELSE calls + 1
         /\ \A d \in Clients \ {c} : call'[d] = call[d]
         /\ remaining'[calls + 1] = k.size
         /\ \A l \in CallIds \ {calls + 1} : remaining'[l] = remaining[l]
         /\ \A l \in CallIds \ {calls + 1} : promise'[l] = promise[l]
         /\ \A i \in 0 .. MaxSize : promise'[calls + 1][i] =
              IF k.kind = "void" /\ i = 0 THEN IF k.size = 0 THEN "value" ELSE "pending"
              ELSE IF k.kind \in {"each", "merged"} /\ i \in 1 .. k.size THEN "pending"
              ELSE "none"
         /\ UNCHANGED <<cells, outstanding, dropped, task, todo, error, captured, outcome, callbacks>>
<1>1. calls \in Nat /\ calls + 1 \in CallIds /\ k \in [kind : Kinds, size : 0 .. MaxSize]
  BY PoolAssumption DEF Call, PoolInv, CallTypes, CallIds, Kinds
<1> QED
  BY <1>1 DEF Call, Goto, Actors, PoolInv, PlaceTypes, CallTypes, queueVars, waitVars,
       poolVars, taskVars, callVars, CallIds, Kinds, TaskTypes

\* A task is built that was not there.
LEMMA BuildTaskFrame ==
  ASSUME PoolInv, NEW c \in Clients, BuildTask(c)
  PROVE  /\ pc[c] = "build" /\ pc'[c] = "count"
         /\ \A a \in Actors \ {c} : pc'[a] = pc[a]
         /\ task'[c] = <<call[c], todo[c] + 1>> /\ \A a \in Actors \ {c} : task'[a] = task[a]
         /\ call[c] \in CallIds /\ call[c] \in 1 .. calls /\ todo[c] + 1 \in 1 .. MaxSize
         /\ todo[c] + 1 \in 1 .. kind[call[c]].size
         /\ <<call[c], todo[c] + 1>> \in Tasks /\ <<call[c], todo[c] + 1>> # None
         /\ captured' = captured \cup {<<call[c], todo[c] + 1>>} /\ Unbuilt(<<call[c], todo[c] + 1>>)
         /\ UNCHANGED <<cells, outstanding, dropped, call, todo, calls, kind, remaining, error,
                        promise, outcome, callbacks>>
<1>1. /\ call[c] \in CallIds /\ call[c] \in 1 .. calls /\ todo[c] + 1 \in 1 .. MaxSize
      /\ todo[c] + 1 \in 1 .. kind[call[c]].size
  BY PoolAssumption DEF BuildTask, Goto, Submitting, PoolInv, CallersTell, CallTypes, CallIds
<1>2. <<call[c], todo[c] + 1>> \in Tasks /\ <<call[c], todo[c] + 1>> \in Nat \X Nat
  BY <1>1 DEF Tasks, CallIds
<1>3. <<call[c], todo[c] + 1>> # None
  BY <1>2, PoolAssumption
<1>4. Unbuilt(<<call[c], todo[c] + 1>>)
  <2>1. pc[c] \in Submitting /\ pc[c] \notin Holding /\ todo[c] \in Nat
    BY DEF BuildTask, Goto, Submitting, Holding, PoolInv, CallTypes
  <2>2. \A i \in 1 .. MaxSize : i > todo[c] => Unbuilt(<<call[c], i>>)
    BY <2>1 DEF PoolInv, OutcomesTell
  <2> QED
    BY <1>1, <2>1, <2>2
<1> QED
  BY <1>1, <1>2, <1>3, <1>4 DEF BuildTask, Goto, Actors, PoolInv, PlaceTypes, CallTypes,
       queueVars, waitVars, poolVars, taskVars, callVars

LEMMA BuildThrowsFrame ==
  ASSUME PoolInv, NEW c \in Clients, BuildThrows(c)
  PROVE  /\ pc[c] = "build" /\ pc'[c] = "idle"
         /\ \A a \in Actors \ {c} : pc'[a] = pc[a]
         /\ call'[c] = None /\ \A d \in Clients \ {c} : call'[d] = call[d]
         /\ todo'[c] = 0 /\ \A d \in Clients \ {c} : todo'[d] = todo[d]
         /\ UNCHANGED <<cells, outstanding, dropped, task, calls, kind, remaining, error, captured,
                        outcome, callbacks>>
BY PoolAssumption DEF BuildThrows, Goto, Actors, PoolInv, PlaceTypes, CallTypes, queueVars,
     waitVars, poolVars, taskVars, callVars

LEMMA onTaskEnqueuedFrame ==
  ASSUME PoolInv, NEW c \in Clients, onTaskEnqueued(c)
  PROVE  /\ pc[c] = "count" /\ pc'[c] = "reserve"
         /\ \A a \in Actors \ {c} : pc'[a] = pc[a]
         /\ outstanding' = outstanding + 1
         /\ UNCHANGED <<cells, dropped, task, call, todo, calls, kind, remaining, error, promise,
                        captured, outcome, callbacks>>
BY PoolAssumption DEF onTaskEnqueued, Goto, Actors, PoolInv, PlaceTypes, CallTypes, queueVars,
     waitVars, poolVars, taskVars, callVars

LEMMA ReserveFrame ==
  ASSUME PoolInv, NEW c \in Clients, Reserve(c)
  PROVE  /\ pc[c] = "reserve" /\ pc'[c] = "fill"
         /\ \A a \in Actors \ {c} : pc'[a] = pc[a]
         /\ UNCHANGED <<outstanding, dropped, task, call, todo, calls, kind, remaining, error,
                        promise, captured, outcome, callbacks>>
BY PoolAssumption DEF Reserve, Goto, Actors, PoolInv, PlaceTypes, CallTypes, queueVars,
     waitVars, poolVars, taskVars, callVars

LEMMA FillFrame ==
  ASSUME PoolInv, NEW c \in Clients, Fill(c)
  PROVE  /\ pc[c] = "fill" /\ (pc'[c] = IF todo[c] + 1 = kind[call[c]].size THEN "signal" ELSE "build")
         /\ \A a \in Actors \ {c} : pc'[a] = pc[a]
         /\ task'[c] = None /\ \A a \in Actors \ {c} : task'[a] = task[a]
         /\ todo'[c] = todo[c] + 1 /\ \A d \in Clients \ {c} : todo'[d] = todo[d]
         /\ call'[c] = IF todo[c] + 1 = kind[call[c]].size THEN None ELSE call[c]
         /\ \A d \in Clients \ {c} : call'[d] = call[d]
         /\ UNCHANGED <<outstanding, dropped, calls, kind, remaining, error, promise, captured,
                        outcome, callbacks>>
BY FillPoints DEF Fill, Goto, Actors, PoolInv, PlaceTypes, CallTypes, queueVars, waitVars,
     poolVars, taskVars, callVars

LEMMA ClientFinishedFrame ==
  ASSUME PoolInv, NEW c \in Clients, Finished(c)
  PROVE  /\ pc[c] = "finished" /\ pc'[c] \in {"anyWaiter", "idle"}
         /\ \A a \in Actors \ {c} : pc'[a] = pc[a]
         /\ outstanding' = outstanding - dropped[c]
         /\ dropped'[c] = 0 /\ \A d \in Clients \ {c} : dropped'[d] = dropped[d]
         /\ UNCHANGED <<cells, task, call, todo, calls, kind, remaining, error, promise, captured,
                        outcome, callbacks>>
BY PoolAssumption DEF Finished, Continue, Goto, Actors, PoolInv, PlaceTypes, CallTypes,
     queueVars, waitVars, poolVars, taskVars, callVars

LEMMA WorkerFinishedFrame ==
  ASSUME PoolInv, NEW w \in Workers, Finished(w)
  PROVE  /\ pc[w] = "finished" /\ pc'[w] \in {"anyWaiter", "top"}
         /\ \A a \in Actors \ {w} : pc'[a] = pc[a]
         /\ outstanding' = outstanding - 1
         /\ \A d \in Clients : dropped'[d] = dropped[d]
         /\ UNCHANGED <<cells, task, call, todo, calls, kind, remaining, error, promise, captured,
                        outcome, callbacks>>
BY PoolAssumption DEF Finished, Continue, Goto, Actors, PoolInv, PlaceTypes, CallTypes,
     queueVars, waitVars, poolVars, taskVars, callVars

LEMMA DropTaskFrame ==
  ASSUME PoolInv, NEW c \in Clients, DropTask(c)
  PROVE  /\ pc[c] = "drop" /\ \A a \in Actors : pc'[a] = pc[a]
         /\ cells # <<>> /\ cells[1].filled /\ cells' = Tail(cells)
         /\ outcome'[cells[1].task] = "dropped"
         /\ \A t \in Tasks : t # cells[1].task => outcome'[t] = outcome[t]
         /\ dropped'[c] = dropped[c] + 1 /\ \A d \in Clients \ {c} : dropped'[d] = dropped[d]
         /\ UNCHANGED <<outstanding, task, call, todo, calls, kind, remaining, error, callbacks>>
<1>1. cells # <<>> /\ Head(cells) = cells[1] /\ cells[1].task \in Tasks
  BY TakenCells DEF DropTask, FrontFilled
<1> QED
  BY <1>1 DEF DropTask, FrontFilled, Goto, TaskTypes, Actors, PoolInv, PlaceTypes, CallTypes,
       queueVars, waitVars, poolVars, taskVars, callVars

LEMMA AllDroppedFrame ==
  ASSUME PoolInv, NEW c \in Clients, AllDropped(c)
  PROVE  /\ pc[c] = "drop" /\ (pc'[c] = IF dropped[c] # 0 THEN "finished" ELSE "idle")
         /\ \A a \in Actors \ {c} : pc'[a] = pc[a]
         /\ UNCHANGED <<cells, outstanding, dropped, task, call, todo, calls, kind, remaining, error,
                        promise, captured, outcome, callbacks>>
BY PoolAssumption DEF AllDropped, Goto, Actors, PoolInv, PlaceTypes, CallTypes, queueVars,
     waitVars, poolVars, taskVars, callVars

\* A worker takes the task in front, or finds none.
LEMMA PopTaskFrame ==
  ASSUME PoolInv, NEW w \in Workers, PopTask(w)
  PROVE  /\ pc[w] = "pop" /\ \A a \in Actors \ {w} : pc'[a] = pc[a]
         /\ \/ /\ cells # <<>> /\ cells[1].filled /\ cells' = Tail(cells)
               /\ pc'[w] = "start" /\ task'[w] = cells[1].task
               /\ \A a \in Actors \ {w} : task'[a] = task[a]
            \/ pc'[w] = "lane" /\ UNCHANGED <<cells, task>>
         /\ UNCHANGED <<outstanding, dropped, call, todo, calls, kind, remaining, error, promise,
                        captured, outcome, callbacks>>
<1>1. FrontFilled => Head(cells) = cells[1]
  BY TakenCells DEF FrontFilled
<1> QED
  BY <1>1 DEF PopTask, FrontFilled, Goto, Actors, PoolInv, PlaceTypes, CallTypes, queueVars,
       waitVars, poolVars, taskVars, callVars

LEMMA onTaskStartedFrame ==
  ASSUME PoolInv, NEW w \in Workers, onTaskStarted(w)
  PROVE  /\ pc[w] = "start" /\ pc'[w] = "run"
         /\ \A a \in Actors \ {w} : pc'[a] = pc[a]
         /\ UNCHANGED <<cells, outstanding, dropped, task, call, todo, calls, kind, remaining, error,
                        promise, captured, outcome, callbacks>>
BY PoolAssumption DEF onTaskStarted, Goto, Actors, PoolInv, PlaceTypes, CallTypes, queueVars,
     waitVars, poolVars, taskVars, callVars

LEMMA RunTaskFrame ==
  ASSUME PoolInv, NEW w \in Workers, NEW how \in {"returned", "threw"}, RunTask(w, how)
  PROVE  /\ pc[w] = "run" /\ \A a \in Actors \ {w} : pc'[a] = pc[a]
         /\ (pc'[w] = IF kind[task[w][1]].kind = "void" /\ how = "threw" THEN "fail"
                      ELSE IF kind[task[w][1]].kind \in {"void", "callback"} THEN "sub"
                      ELSE "destroy")
         /\ outcome'[task[w]] = how /\ \A t \in Tasks : t # task[w] => outcome'[t] = outcome[t]
         /\ UNCHANGED <<cells, outstanding, dropped, task, call, todo, calls, kind, remaining, error,
                        captured, callbacks>>
BY RunsTask DEF RunTask, Goto, Actors, PoolInv, PlaceTypes, CallTypes, queueVars, waitVars,
     poolVars, taskVars, callVars, TaskTypes, Running

LEMMA FailBatchFrame ==
  ASSUME PoolInv, NEW w \in Workers, FailBatch(w)
  PROVE  /\ pc[w] = "fail" /\ (pc'[w] = IF error[task[w][1]].failed THEN "sub" ELSE "keep")
         /\ \A a \in Actors \ {w} : pc'[a] = pc[a]
         /\ error'[task[w][1]].failed /\ error'[task[w][1]].kept = error[task[w][1]].kept
         /\ \A l \in CallIds : l # task[w][1] => error'[l] = error[l]
         /\ UNCHANGED <<cells, outstanding, dropped, task, call, todo, calls, kind, remaining,
                        promise, captured, outcome, callbacks>>
BY RunsTask DEF FailBatch, Goto, Actors, PoolInv, PlaceTypes, CallTypes, queueVars, waitVars,
     poolVars, taskVars, callVars, TaskTypes, Running

LEMMA KeepErrorFrame ==
  ASSUME PoolInv, NEW w \in Workers, KeepError(w)
  PROVE  /\ pc[w] = "keep" /\ pc'[w] = "sub"
         /\ \A a \in Actors \ {w} : pc'[a] = pc[a]
         /\ error'[task[w][1]].failed = error[task[w][1]].failed /\ error'[task[w][1]].kept = task[w]
         /\ \A l \in CallIds : l # task[w][1] => error'[l] = error[l]
         /\ UNCHANGED <<cells, outstanding, dropped, task, call, todo, calls, kind, remaining,
                        promise, captured, outcome, callbacks>>
BY RunsTask DEF KeepError, Goto, Actors, PoolInv, PlaceTypes, CallTypes, queueVars, waitVars,
     poolVars, taskVars, callVars, TaskTypes, Running

LEMMA CountOffFrame ==
  ASSUME PoolInv, NEW w \in Workers, CountOff(w)
  PROVE  /\ pc[w] = "sub" /\ (pc'[w] = IF remaining[task[w][1]] = 1 THEN "complete" ELSE "destroy")
         /\ \A a \in Actors \ {w} : pc'[a] = pc[a]
         /\ remaining'[task[w][1]] = remaining[task[w][1]] - 1
         /\ \A l \in CallIds : l # task[w][1] => remaining'[l] = remaining[l]
         /\ UNCHANGED <<cells, outstanding, dropped, task, call, todo, calls, kind, error, promise,
                        captured, outcome, callbacks>>
BY RunsTask DEF CountOff, Goto, Actors, PoolInv, PlaceTypes, CallTypes, queueVars, waitVars,
     poolVars, taskVars, callVars, TaskTypes, Running

LEMMA CompleteFrame ==
  ASSUME PoolInv, NEW w \in Workers, Complete(w)
  PROVE  /\ pc[w] = "complete" /\ pc'[w] = "destroy"
         /\ \A a \in Actors \ {w} : pc'[a] = pc[a]
         /\ callbacks'[task[w][1]] =
              IF kind[task[w][1]].kind = "void" THEN callbacks[task[w][1]] ELSE callbacks[task[w][1]] + 1
         /\ \A l \in CallIds : l # task[w][1] => callbacks'[l] = callbacks[l]
         /\ UNCHANGED <<cells, outstanding, dropped, task, call, todo, calls, kind, remaining, error,
                        captured, outcome>>
BY RunsTask DEF Complete, Goto, Actors, PoolInv, PlaceTypes, CallTypes, queueVars, waitVars,
     poolVars, taskVars, callVars, TaskTypes, Running

LEMMA DestroyTaskFrame ==
  ASSUME PoolInv, NEW w \in Workers, DestroyTask(w)
  PROVE  /\ pc[w] = "destroy" /\ pc'[w] = "finished"
         /\ \A a \in Actors \ {w} : pc'[a] = pc[a]
         /\ task'[w] = None /\ \A a \in Actors \ {w} : task'[a] = task[a]
         /\ UNCHANGED <<cells, outstanding, dropped, call, todo, calls, kind, remaining, error,
                        outcome, callbacks>>
BY PoolAssumption DEF DestroyTask, Goto, Actors, PoolInv, PlaceTypes, CallTypes, queueVars,
     waitVars, poolVars, taskVars, callVars

-----------------------------------------------------------------------------
(* Callers, places and outcomes. *)

\* One actor moves, and calls that were made stay what they are.
OthersStay(a) ==
  /\ \A b \in Actors \ {a} : pc'[b] = pc[b] /\ task'[b] = task[b]
  /\ \A d \in Clients \ {a} : call'[d] = call[d] /\ todo'[d] = todo[d] /\ dropped'[d] = dropped[d]
  /\ calls \in Nat /\ calls' \in {calls, calls + 1}
  /\ \A l \in CallIds : l <= calls => kind'[l] = kind[l]

LEMMA ClientSteps ==
  ASSUME PoolInv, NEW c \in Clients, ClientEngages(c)
  PROVE  OthersStay(c)
<1> calls \in Nat
  BY DEF PoolInv, CallTypes
<1>1. ASSUME NEW k \in CallKinds, Call(c, k) PROVE OthersStay(c)
  BY <1>1, CallFrame DEF OthersStay, CallIds
<1>2. CASE BuildTask(c)
  BY <1>2, BuildTaskFrame DEF OthersStay, CallIds
<1>3. CASE BuildThrows(c)
  BY <1>3, BuildThrowsFrame DEF OthersStay, CallIds
<1>4. CASE onTaskEnqueued(c)
  BY <1>4, onTaskEnqueuedFrame DEF OthersStay, CallIds
<1>5. CASE Reserve(c)
  BY <1>5, ReserveFrame DEF OthersStay, CallIds, DropTask, Reserve
<1>6. CASE Fill(c)
  BY <1>6, FillFrame DEF OthersStay, CallIds
<1>7. CASE Finished(c)
  BY <1>7, ClientFinishedFrame DEF OthersStay, CallIds
<1>8. CASE DropTask(c)
  BY <1>8, DropTaskFrame DEF OthersStay, CallIds, DropTask, Reserve
<1>9. CASE AllDropped(c)
  BY <1>9, AllDroppedFrame DEF OthersStay, CallIds
<1> QED
  BY <1>1, <1>2, <1>3, <1>4, <1>5, <1>6, <1>7, <1>8, <1>9 DEF ClientEngages

LEMMA WorkerSteps ==
  ASSUME PoolInv, NEW w \in Workers, WorkerEngages(w)
  PROVE  OthersStay(w) /\ UNCHANGED <<call, todo, dropped, calls, kind>>
<1> calls \in Nat /\ \A d \in Clients : d \in Clients \ {w}
  BY PoolAssumption DEF PoolInv, CallTypes
<1>0. Finished(w) => dropped' = dropped
  BY PoolAssumption DEF Finished, PoolInv, CallTypes
<1>1. CASE PopTask(w)
  BY <1>1, PopTaskFrame  DEF OthersStay, CallIds
<1>2. CASE onTaskStarted(w)
  BY <1>2, onTaskStartedFrame  DEF OthersStay, CallIds
<1>3. ASSUME NEW how \in {"returned", "threw"}, RunTask(w, how) PROVE OthersStay(w) /\ UNCHANGED <<call, todo, dropped, calls, kind>>
  BY <1>3, RunTaskFrame  DEF OthersStay, CallIds
<1>4. CASE FailBatch(w)
  BY <1>4, FailBatchFrame  DEF OthersStay, CallIds
<1>5. CASE KeepError(w)
  BY <1>5, KeepErrorFrame  DEF OthersStay, CallIds
<1>6. CASE CountOff(w)
  BY <1>6, CountOffFrame  DEF OthersStay, CallIds
<1>7. CASE Complete(w)
  BY <1>7, CompleteFrame  DEF OthersStay, CallIds
<1>8. CASE DestroyTask(w)
  BY <1>8, DestroyTaskFrame  DEF OthersStay, CallIds
<1>9. CASE Finished(w)
  BY <1>9, WorkerFinishedFrame , <1>0 DEF OthersStay, CallIds
<1> QED
  BY <1>1, <1>2, <1>3, <1>4, <1>5, <1>6, <1>7, <1>8, <1>9 DEF WorkerEngages


\* A step in which no task changes hands, starts or ends.
Still ==
  /\ UNCHANGED <<cells, task, captured>>
  /\ \A c \in Clients : /\ pc'[c] \in Holding <=> pc[c] \in Holding
                        /\ pc[c] \in Holding => call'[c] = call[c] /\ todo'[c] = todo[c]
                        /\ pc[c] = "fill" => pc'[c] = "fill"
  /\ \A w \in Workers : pc'[w] \in Running <=> pc[w] \in Running

Same ==
  /\ Still
  /\ UNCHANGED <<outcome, calls, kind>>
  /\ \A c \in Clients : pc'[c] \in Submitting =>
       pc[c] \in Submitting /\ call'[c] = call[c] /\ todo'[c] = todo[c]
  /\ \A w \in Workers : /\ pc'[w] \in {"start", "run"} => pc[w] \in {"start", "run"}
                        /\ pc'[w] \in Ran => pc[w] \in Ran

Moving ==
  \/ \E c \in Clients : BuildTask(c) \/ Reserve(c) \/ Fill(c) \/ DropTask(c)
  \/ \E w \in Workers : PopTask(w) \/ DestroyTask(w)

Starting ==
  \/ \E c \in Clients, k \in CallKinds : Call(c, k)
  \/ \E w \in Workers, how \in {"returned", "threw"} : RunTask(w, how)

LEMMA StillOrMoving ==
  ASSUME PoolInv, Quiet \/ Engaging
  PROVE  Same \/ (Still /\ Starting) \/ Moving
<1>1. CASE Quiet
  <2>1. \A a \in Actors : Aloof(a)
    BY <1>1 DEF Quiet
  <2>2. \A c \in Clients : /\ pc'[c] \in Submitting <=> pc[c] \in Submitting
                           /\ pc'[c] \in Holding <=> pc[c] \in Holding
                           /\ pc[c] = "fill" => pc'[c] = "fill"
    BY <2>1 DEF Aloof, Engaged, Submitting, Holding, Actors
  <2>3. \A w \in Workers : /\ pc'[w] \in Running <=> pc[w] \in Running
                           /\ pc'[w] \in {"start", "run"} => pc[w] \in {"start", "run"}
                           /\ pc'[w] \in Ran => pc[w] \in Ran
    BY <2>1 DEF Aloof, Engaged, Running, Ran, Actors
  <2>4. \A c \in Clients : call'[c] = call[c] /\ (pc[c] \in Submitting => todo'[c] = todo[c])
    BY <1>1 DEF Quiet
  <2>5. Holding \subseteq Submitting
    BY DEF Holding, Submitting
  <2> QED
    BY <1>1, <2>2, <2>3, <2>4, <2>5 DEF Quiet, Same, Still, taskVars
<1>2. ASSUME NEW c \in Clients, ClientEngages(c)
      PROVE  Same \/ (Still /\ Starting) \/ Moving
  <2>1. OthersStay(c) /\ c \in Actors /\ \A w \in Workers : w \in Actors \ {c}
    BY <1>2, ClientSteps, PoolAssumption DEF Actors
  <2>2. /\ \A d \in Clients \ {c} : pc'[d] = pc[d] /\ call'[d] = call[d] /\ todo'[d] = todo[d]
        /\ \A w \in Workers : pc'[w] = pc[w]
    BY <2>1 DEF OthersStay, Actors

  <2>3. ASSUME NEW k \in CallKinds, Call(c, k)
       PROVE  Still /\ Starting
    BY <2>2, <2>3, CallFrame DEF Still, Same, Starting, Submitting, Holding
  <2>4. CASE BuildThrows(c)
    BY <2>2, <2>4, BuildThrowsFrame DEF Still, Same, Starting, Submitting, Holding, BuildThrows
  <2>5. CASE onTaskEnqueued(c)
    BY <2>2, <2>5, onTaskEnqueuedFrame DEF Still, Same, Starting, Submitting, Holding
  <2>6. CASE Finished(c)
    BY <2>2, <2>6, ClientFinishedFrame DEF Still, Same, Starting, Submitting, Holding
  <2>7. CASE AllDropped(c)
    BY <2>2, <2>7, AllDroppedFrame DEF Still, Same, Starting, Submitting, Holding
  <2> QED
    BY <1>2, <2>3, <2>4, <2>5, <2>6, <2>7 DEF ClientEngages, Moving
<1>3. ASSUME NEW w \in Workers, WorkerEngages(w)
      PROVE  Same \/ (Still /\ Starting) \/ Moving
  <2>1. OthersStay(w) /\ w \in Actors /\ \A c \in Clients : c \in Actors \ {w}
    BY <1>3, WorkerSteps, PoolAssumption DEF Actors
  <2>2. /\ \A v \in Workers \ {w} : pc'[v] = pc[v]
        /\ \A c \in Clients : pc'[c] = pc[c] /\ call'[c] = call[c] /\ todo'[c] = todo[c]
    BY <1>3, <2>1, WorkerSteps DEF OthersStay, Actors
  <2>3. CASE onTaskStarted(w)
    BY <2>2, <2>3, onTaskStartedFrame DEF Still, Same, Starting, Running, Ran
  <2>4. ASSUME NEW how \in {"returned", "threw"}, RunTask(w, how)
       PROVE  Still /\ Starting
    BY <2>2, <2>4, RunTaskFrame DEF Still, Same, Starting, Running, Ran
  <2>5. CASE FailBatch(w)
    BY <2>2, <2>5, FailBatchFrame DEF Still, Same, Starting, Running, Ran
  <2>6. CASE KeepError(w)
    BY <2>2, <2>6, KeepErrorFrame DEF Still, Same, Starting, Running, Ran
  <2>7. CASE CountOff(w)
    BY <2>2, <2>7, CountOffFrame DEF Still, Same, Starting, Running, Ran
  <2>8. CASE Complete(w)
    BY <2>2, <2>8, CompleteFrame DEF Still, Same, Starting, Running, Ran
  <2>9. CASE Finished(w)
    BY <2>2, <2>9, WorkerFinishedFrame DEF Still, Same, Starting, Running, Ran
  <2> QED
    BY <1>3, <2>3, <2>4, <2>5, <2>6, <2>7, <2>8, <2>9 DEF WorkerEngages, Moving
<1> QED
  BY <1>1, <1>2, <1>3 DEF Engaging


\* What a call has of its caller.
CallerTells(c) ==
  /\ pc[c] \in Submitting => call[c] \in 1 .. calls /\ todo[c] + 1 \in 1 .. kind[call[c]].size
  /\ pc[c] \notin Submitting => call[c] = None
  /\ pc[c] \notin Submitting \cup {"signal"} => todo[c] = 0
  /\ pc[c] \notin {"drop", "finished"} => dropped[c] = 0

LEMMA CallersKept ==
  ASSUME PoolInv, Quiet \/ Engaging
  PROVE  CallersTell'
<1> USE DEF Submitting
<1>0. /\ \A c \in Clients : CallerTells(c)
      /\ \A c, d \in Clients : call[c] = call[d] /\ call[c] # None => c = d
      /\ \A c \in Clients : call[c] # None => call[c] \in 1 .. calls
      /\ calls \in 0 .. MaxCalls /\ MaxCalls \in Nat /\ \A n \in Nat : n # None
  <2>1. calls \in 0 .. MaxCalls /\ MaxCalls \in Nat /\ \A n \in Nat : n # None
    BY PoolAssumption DEF PoolInv, CallTypes
  <2> QED
    BY <2>1 DEF PoolInv, CallersTell, CallerTells
<1>1. CASE Quiet
  BY <1>0, <1>1 DEF Quiet, Aloof, Engaged, Running, Actors, CallersTell, CallerTells
<1>2. ASSUME NEW c \in Clients, ClientEngages(c)
      PROVE  CallersTell'
  <2>1. OthersStay(c)
    BY <1>2, ClientSteps
  <2>2. \A d \in Clients \ {c} : CallerTells(d)'
    <3> SUFFICES ASSUME NEW d \in Clients \ {c} PROVE CallerTells(d)'
      OBVIOUS
    <3>1. pc'[d] = pc[d] /\ call'[d] = call[d] /\ todo'[d] = todo[d] /\ dropped'[d] = dropped[d]
      BY <2>1 DEF OthersStay, Actors
    <3>2. call[d] \in 1 .. calls => call[d] \in 1 .. calls' /\ kind'[call[d]] = kind[call[d]]
      BY <1>0, <2>1 DEF OthersStay, CallIds
    <3> QED
      BY <1>0, <3>1, <3>2 DEF CallerTells
  <2>3. CallerTells(c)' /\ (call'[c] \in {None, call[c]} \/ (calls' = calls + 1 /\ call'[c] = calls'))
    <3>1. ASSUME NEW k \in CallKinds, Call(c, k)
         PROVE CallerTells(c)' /\ (call'[c] \in {None, call[c]} \/ (calls' = calls + 1 /\ call'[c] = calls'))
      BY <1>0, <3>1, CallFrame DEF CallerTells, PoolInv, CallTypes
    <3>2. CASE BuildTask(c)
      BY <1>0, <3>2, BuildTaskFrame DEF CallerTells, PoolInv, CallTypes
    <3>3. CASE BuildThrows(c)
      BY <1>0, <3>3, BuildThrowsFrame DEF CallerTells, PoolInv, CallTypes
    <3>4. CASE onTaskEnqueued(c)
      BY <1>0, <3>4, onTaskEnqueuedFrame DEF CallerTells, PoolInv, CallTypes
    <3>5. CASE Reserve(c)
      BY <1>0, <3>5, ReserveFrame DEF CallerTells, PoolInv, CallTypes, Reserve
    <3>6. CASE Fill(c)
      BY <1>0, <3>6, FillFrame, HoldsTask DEF CallerTells, Holding, PoolInv, CallTypes
    <3>7. CASE Finished(c)
      BY <1>0, <3>7, ClientFinishedFrame DEF CallerTells, PoolInv, CallTypes
    <3>8. CASE DropTask(c)
      BY <1>0, <3>8, DropTaskFrame, c \in Actors DEF CallerTells, Actors, PoolInv, CallTypes
    <3>9. CASE AllDropped(c)
      BY <1>0, <3>9, AllDroppedFrame DEF CallerTells, PoolInv, CallTypes
    <3> QED
      BY <1>2, <3>1, <3>2, <3>3, <3>4, <3>5, <3>6, <3>7, <3>8, <3>9 DEF ClientEngages
  <2>4. \A d \in Clients : CallerTells(d)'
    BY <2>2, <2>3
  <2>5. \A d \in Clients \ {c} : call'[d] = call[d]
    BY <2>1 DEF OthersStay
  <2>6. \A d \in Clients \ {c} : call'[d] = call'[c] => call'[d] = None
    BY <1>0, <2>3, <2>5
  <2>7. \A d, e \in Clients : call'[d] = call'[e] /\ call'[d] # None => d = e
    BY <1>0, <2>5, <2>6
  <2> QED
    BY <2>4, <2>7 DEF CallersTell, CallerTells
<1>3. ASSUME NEW w \in Workers, WorkerEngages(w)
      PROVE  CallersTell'
  <2>1. OthersStay(w) /\ UNCHANGED <<call, todo, dropped, calls, kind>>
    BY <1>3, WorkerSteps
  <2>2. \A c \in Clients : pc'[c] = pc[c]
    BY <2>1, PoolAssumption DEF OthersStay, Actors
  <2> QED
    BY <1>0, <2>1, <2>2 DEF CallersTell, CallerTells
<1> QED
  BY <1>1, <1>2, <1>3 DEF Engaging


\* The parts of OnePlace, for one actor each.
HasItsTask(a) ==
  IF a \in Clients THEN task[a] = IF pc[a] \in Holding THEN <<call[a], todo[a] + 1>> ELSE None
                   ELSE task[a] # None <=> pc[a] \in Running

PlacesAreRight ==
  /\ \A a \in Actors : HasItsTask(a)
  /\ \A a, b \in Actors : task[a] = task[b] /\ task[a] # None /\ a \in Workers => a = b
  /\ \A i, j \in 1 .. Len(cells) : cells[i].task = cells[j].task => i = j
  /\ \A i \in 1 .. Len(cells), a \in Actors :
       cells[i].task = task[a] => a \in Clients /\ pc[a] = "fill" /\ ~cells[i].filled

LEMMA PlacesAre == OnePlace <=> PlacesAreRight
<1>1. Workers \cap Clients = {} /\ \A a \in Actors : a \in Workers <=> a \notin Clients
  BY PoolAssumption DEF Actors
<1>2. ASSUME OnePlace
      PROVE  \A a, b \in Actors : task[a] = task[b] /\ task[a] # None /\ a \in Workers => a = b
  BY <1>1, <1>2 DEF OnePlace
<1>3. ASSUME \A a, b \in Actors : task[a] = task[b] /\ task[a] # None /\ a \in Workers => a = b
      PROVE  /\ \A v, w \in Workers : task[v] = task[w] /\ task[v] # None => v = w
             /\ \A w \in Workers, c \in Clients : task[w] # None => task[w] # task[c]
  BY <1>1, <1>3 DEF Actors
<1>4. (\A a \in Actors : HasItsTask(a)) <=>
        /\ \A c \in Clients : task[c] = IF pc[c] \in Holding THEN <<call[c], todo[c] + 1>> ELSE None
        /\ \A w \in Workers : task[w] # None <=> pc[w] \in Running
  BY <1>1 DEF HasItsTask, Actors
<1> QED
  BY <1>2, <1>3, <1>4 DEF OnePlace, PlacesAreRight

\* Two clients have different tasks, and cells have tasks.
LEMMA TasksDiffer ==
  ASSUME PoolInv
  PROVE  /\ \A c, d \in Clients : task[c] = task[d] /\ task[c] # None => c = d
         /\ \A i \in 1 .. Len(cells) : cells[i].task \in captured /\ cells[i].task # None
         /\ \A a \in Actors : task[a] # None => task[a] \in captured
         /\ None \notin captured
<1>1. None \notin Tasks /\ \A n \in CallIds : n # None
  <2>1. Tasks \subseteq Nat \X Nat /\ CallIds \subseteq Nat
    BY DEF Tasks, CallIds
  <2> QED
    BY <2>1, PoolAssumption
<1>2. None \notin captured
  BY <1>1 DEF PoolInv, TaskTypes
<1>3. ASSUME NEW c \in Clients, NEW d \in Clients, task[c] = task[d], task[c] # None
      PROVE  c = d
  <2>1. pc[c] \in Holding /\ pc[d] \in Holding
    BY <1>3 DEF PoolInv, OnePlace
  <2>2. task[c] = <<call[c], todo[c] + 1>> /\ task[d] = <<call[d], todo[d] + 1>> /\ call[c] \in CallIds
    BY <2>1, HoldsTask
  <2>3. task[c][1] = call[c] /\ task[d][1] = call[d]
    BY <2>2
  <2>4. call[c] = call[d] /\ call[c] # None
    BY <1>1, <1>3, <2>2, <2>3
  <2> QED
    BY <2>4 DEF PoolInv, CallersTell
<1> QED
  BY <1>2, <1>3 DEF PoolInv, CapturesInPlaces

PlacesHold == PlacesAreRight /\ CapturesInPlaces

LEMMA PlacesMove ==
  ASSUME PoolInv, Moving
  PROVE  PlacesHold'
<1>0. /\ PlacesAreRight /\ \A c \in Clients : c \in Actors /\ c \notin Workers
      /\ \A w \in Workers : w \in Actors /\ w \notin Clients
  BY PlacesAre, PoolAssumption DEF PoolInv, Actors
<1>1. ASSUME NEW c \in Clients, BuildTask(c) PROVE PlacesHold'
  <2> DEFINE t == <<call[c], todo[c] + 1>>
  <2>1. /\ pc[c] = "build" /\ pc'[c] = "count" /\ \A a \in Actors \ {c} : pc'[a] = pc[a]
        /\ task'[c] = t /\ \A a \in Actors \ {c} : task'[a] = task[a]
        /\ t # None /\ t \notin captured /\ captured' = captured \cup {t}
        /\ UNCHANGED <<cells, call, todo>>
    BY <1>1, BuildTaskFrame DEF Unbuilt
  <2>2. \A a \in Actors : HasItsTask(a)'
    BY <1>0, <2>1 DEF HasItsTask, PlacesAreRight, Holding
  <2>3. \A a, b \in Actors : task'[a] = task'[b] /\ task'[a] # None /\ a \in Workers => a = b
    BY <1>0, <2>1, TasksDiffer DEF PlacesAreRight
  <2>4. \A i \in 1 .. Len(cells), a \in Actors :
          cells[i].task = task'[a] => a \in Clients /\ pc'[a] = "fill" /\ ~cells[i].filled
    BY <1>0, <2>1, TasksDiffer DEF PlacesAreRight
  <2>5. CapturesInPlaces'
    <3>1. \A u \in captured' : InCells(u) \/ \E a \in Actors : task'[a] = u
      <4>1. \A u \in captured : InCells(u) \/ \E a \in Actors : task[a] = u
        BY DEF PoolInv, CapturesInPlaces
      <4>2. \A u \in captured : InCells(u) \/ \E a \in Actors \ {c} : task[a] = u
        BY <1>0, <2>1, <4>1, TasksDiffer, BuildTaskFrame DEF PlacesAreRight, HasItsTask, Holding
      <4> QED
        BY <1>0, <2>1, <4>2
    <3>2. \A u : InCells(u)' <=> InCells(u)
      BY <2>1 DEF InCells
    <3> QED
      BY <1>0, <2>1, <3>1, <3>2, TasksDiffer DEF CapturesInPlaces
  <2> QED
    BY <1>0, <2>1, <2>2, <2>3, <2>4, <2>5 DEF PlacesHold, PlacesAreRight
<1>2. ASSUME NEW c \in Clients, Reserve(c) PROVE PlacesHold'
  <2>1. /\ pc[c] = "reserve" /\ pc'[c] = "fill" /\ \A a \in Actors \ {c} : pc'[a] = pc[a]
        /\ UNCHANGED <<call, todo, task, captured>>
    BY <1>2, ReserveFrame
  <2>2. task[c] \in captured
    BY <2>1, HoldsTask DEF Holding
  <2>3. /\ Len(cells) \in Nat /\ Len(cells') = Len(cells) + 1
        /\ \A i \in 1 .. Len(cells) : cells'[i] = cells[i]
        /\ cells'[Len(cells) + 1].task = task[c] /\ ~cells'[Len(cells) + 1].filled
    BY <1>2, ReservedCells
  <2>4. \A i \in 1 .. Len(cells) : cells[i].task # task[c]
    BY <1>0, <2>1 DEF PlacesAreRight
  <2>5. \A a \in Actors : HasItsTask(a)'
    BY <1>0, <2>1 DEF HasItsTask, PlacesAreRight, Holding, Running
  <2>6. \A i, j \in 1 .. Len(cells') : cells'[i].task = cells'[j].task => i = j
    BY <1>0, <2>3, <2>4 DEF PlacesAreRight
  <2>7. \A i \in 1 .. Len(cells'), a \in Actors :
          cells'[i].task = task'[a] => a \in Clients /\ pc'[a] = "fill" /\ ~cells'[i].filled
    <3> SUFFICES ASSUME NEW i \in 1 .. Len(cells'), NEW a \in Actors, cells'[i].task = task[a]
                 PROVE  a \in Clients /\ pc'[a] = "fill" /\ ~cells'[i].filled
      BY <2>1
    <3>1. CASE i = Len(cells) + 1
      <4>1. task[a] = task[c] /\ task[c] # None /\ ~cells'[i].filled
        BY <2>1, <2>3, <3>1, HoldsTask DEF Holding
      <4>2. a \in Clients
        BY <1>0, <4>1 DEF PlacesAreRight, Actors
      <4> QED
        BY <2>1, <4>1, <4>2, TasksDiffer
    <3>2. CASE i \in 1 .. Len(cells)
      BY <1>0, <2>1, <2>3, <2>4, <3>2 DEF PlacesAreRight
    <3> QED
      BY <2>3, <3>1, <3>2
  <2>8. CapturesInPlaces'
    <3>1. \A u : InCells(u) => InCells(u)'
      BY <2>3 DEF InCells
    <3> QED
      BY <2>1, <2>2, <2>3, <3>1 DEF PoolInv, CapturesInPlaces
  <2> QED
    BY <1>0, <2>1, <2>5, <2>6, <2>7, <2>8 DEF PlacesHold, PlacesAreRight
<1>3. ASSUME NEW c \in Clients, Fill(c) PROVE PlacesHold'
  <2>1. /\ pc[c] = "fill" /\ pc'[c] \in {"signal", "build"} /\ \A a \in Actors \ {c} : pc'[a] = pc[a]
        /\ task'[c] = None /\ \A a \in Actors \ {c} : task'[a] = task[a]
        /\ \A d \in Clients \ {c} : call'[d] = call[d] /\ todo'[d] = todo[d]
        /\ UNCHANGED captured
    BY <1>3, FillFrame
  <2>2. /\ Len(cells) \in Nat /\ Len(cells') = Len(cells)
        /\ \A i \in 1 .. Len(cells) :
             /\ cells'[i].task = cells[i].task
             /\ cells'[i].filled <=> cells[i].filled \/ cells[i].task = task[c]
    BY <1>3, FilledCells
  <2>3. InCells(task[c])
    <3>1. DOMAIN cells = 1 .. Len(cells)
      BY LenProperties DEF PoolInv, QueueTypes
    <3> QED
      BY <1>3, <3>1 DEF Fill, InCells
  <2>4. \A a \in Actors : HasItsTask(a)'
    BY <1>0, <2>1 DEF HasItsTask, PlacesAreRight, Holding
  <2>5. \A a, b \in Actors : task'[a] = task'[b] /\ task'[a] # None /\ a \in Workers => a = b
    BY <1>0, <2>1 DEF PlacesAreRight
  <2>6. \A i \in 1 .. Len(cells'), a \in Actors :
          cells'[i].task = task'[a] => a \in Clients /\ pc'[a] = "fill" /\ ~cells'[i].filled
    <3> SUFFICES ASSUME NEW i \in 1 .. Len(cells), NEW a \in Actors, cells[i].task = task'[a]
                 PROVE  a \in Clients /\ pc'[a] = "fill" /\ ~cells'[i].filled
      BY <2>2
    <3>1. a # c /\ task'[a] = task[a] /\ task[a] # None
      BY <2>1, TasksDiffer
    <3>2. a \in Clients /\ pc[a] = "fill" /\ ~cells[i].filled
      BY <1>0, <3>1 DEF PlacesAreRight
    <3>3. cells[i].task # task[c]
      BY <3>1, <3>2, TasksDiffer
    <3> QED
      BY <2>1, <2>2, <3>1, <3>2, <3>3
  <2>7. CapturesInPlaces'
    <3>1. \A u : InCells(u) <=> InCells(u)'
      BY <2>2 DEF InCells
    <3> QED
      BY <2>1, <2>2, <2>3, <3>1 DEF PoolInv, CapturesInPlaces
  <2> QED
    BY <1>0, <2>1, <2>2, <2>4, <2>5, <2>6, <2>7 DEF PlacesHold, PlacesAreRight
<1>4. ASSUME NEW c \in Clients, DropTask(c) PROVE PlacesHold'
  <2>1. /\ cells # <<>> /\ cells[1].filled /\ cells' = Tail(cells)
        /\ \A a \in Actors : pc'[a] = pc[a]
        /\ UNCHANGED <<call, todo, task>>
    BY <1>4, DropTaskFrame
  <2>2. captured' = captured \ {cells[1].task}
    BY <1>4, DropPoints
  <2>3. /\ Len(cells) \in Nat /\ 1 \in 1 .. Len(cells) /\ Len(cells') = Len(cells) - 1
        /\ \A i \in 1 .. Len(cells) - 1 : cells'[i] = cells[i + 1]
    BY <2>1, TakenCells
  <2>4. \A i \in 1 .. Len(cells') : i + 1 \in 1 .. Len(cells) /\ cells'[i] = cells[i + 1]
    BY <2>3
  <2>5. \A a \in Actors : task[a] # cells[1].task
    BY <1>0, <2>1, <2>3 DEF PlacesAreRight
  <2>6. \A i, j \in 1 .. Len(cells') : cells'[i].task = cells'[j].task => i = j
    BY <1>0, <2>4 DEF PlacesAreRight
  <2>7. \A a \in Actors : HasItsTask(a)'
    BY <1>0, <2>1 DEF HasItsTask, PlacesAreRight, Holding, Running
  <2>8. \A i \in 1 .. Len(cells'), a \in Actors :
          cells'[i].task = task[a] => a \in Clients /\ pc[a] = "fill" /\ ~cells'[i].filled
    BY <1>0, <2>4 DEF PlacesAreRight
  <2>9. CapturesInPlaces'
    <3>1. \A u : InCells(u) /\ u # cells[1].task => InCells(u)'
      <4> SUFFICES ASSUME NEW u, NEW i \in 1 .. Len(cells), u = cells[i].task, i # 1 PROVE InCells(u)'
        BY DEF InCells
      <4>1. i - 1 \in 1 .. Len(cells') /\ cells'[i - 1] = cells[i]
        BY <2>3
      <4> QED
        BY <4>1 DEF InCells
    <3>2. \A i \in 1 .. Len(cells') : cells'[i].task # cells[1].task /\ cells'[i].task \in captured
      <4> SUFFICES ASSUME NEW i \in 1 .. Len(cells')
                   PROVE  cells'[i].task # cells[1].task /\ cells'[i].task \in captured
        OBVIOUS
      <4>1. i + 1 \in 1 .. Len(cells) /\ cells'[i] = cells[i + 1] /\ i + 1 # 1
        BY <2>4
      <4> QED
        BY <1>0, <2>3, <4>1, TasksDiffer DEF PlacesAreRight
    <3> QED
      BY <2>1, <2>2, <2>5, <3>1, <3>2 DEF PoolInv, CapturesInPlaces
  <2> QED
    BY <1>0, <2>1, <2>6, <2>7, <2>8, <2>9 DEF PlacesHold, PlacesAreRight
<1>5. ASSUME NEW w \in Workers, PopTask(w) PROVE PlacesHold'
  <2>1. /\ pc[w] = "pop" /\ \A a \in Actors \ {w} : pc'[a] = pc[a]
        /\ UNCHANGED <<call, todo, captured>>
    BY <1>5, PopTaskFrame
  <2>2. CASE pc'[w] = "lane" /\ UNCHANGED <<cells, task>>
    <3>1. \A a \in Actors : HasItsTask(a)'
      BY <1>0, <2>1, <2>2 DEF HasItsTask, PlacesAreRight, Running
    <3> QED
      BY <1>0, <2>1, <2>2, <3>1 DEF PlacesHold, PlacesAreRight, PoolInv, CapturesInPlaces,
           InCells
  <2>3. CASE /\ cells # <<>> /\ cells[1].filled /\ cells' = Tail(cells)
             /\ pc'[w] = "start" /\ task'[w] = cells[1].task
             /\ \A a \in Actors \ {w} : task'[a] = task[a]
    <3>3. /\ Len(cells) \in Nat /\ 1 \in 1 .. Len(cells) /\ Len(cells') = Len(cells) - 1
          /\ \A i \in 1 .. Len(cells) - 1 : cells'[i] = cells[i + 1]
      BY <2>3, TakenCells
    <3>4. \A i \in 1 .. Len(cells') : i + 1 \in 1 .. Len(cells) /\ cells'[i] = cells[i + 1]
      BY <3>3
    <3>5. \A a \in Actors : task[a] # cells[1].task
      BY <1>0, <2>3, <3>3 DEF PlacesAreRight
    <3>6. \A i, j \in 1 .. Len(cells') : cells'[i].task = cells'[j].task => i = j
      BY <1>0, <3>4 DEF PlacesAreRight
    <3>7. cells[1].task # None /\ cells[1].task \in captured
      BY <3>3, TasksDiffer
    <3>8. \A a \in Actors : HasItsTask(a)'
      BY <1>0, <2>1, <2>3, <3>7 DEF HasItsTask, PlacesAreRight, Running
    <3>9. \A i \in 1 .. Len(cells') : cells'[i].task # cells[1].task
      <4> SUFFICES ASSUME NEW i \in 1 .. Len(cells') PROVE cells'[i].task # cells[1].task
        OBVIOUS
      <4>1. i + 1 \in 1 .. Len(cells) /\ cells'[i] = cells[i + 1] /\ i + 1 # 1
        BY <3>4
      <4> QED
        BY <1>0, <3>3, <4>1 DEF PlacesAreRight
    <3>10. \A i \in 1 .. Len(cells'), a \in Actors :
             cells'[i].task = task'[a] => a \in Clients /\ pc'[a] = "fill" /\ ~cells'[i].filled
      BY <1>0, <2>1, <2>3, <3>4, <3>9 DEF PlacesAreRight
    <3>11. \A a, b \in Actors : task'[a] = task'[b] /\ task'[a] # None /\ a \in Workers => a = b
      BY <1>0, <2>3, <3>5 DEF PlacesAreRight
    <3>12. CapturesInPlaces'
      <4>1. \A u : InCells(u) /\ u # cells[1].task => InCells(u)'
        <5> SUFFICES ASSUME NEW u, NEW i \in 1 .. Len(cells), u = cells[i].task, i # 1 PROVE InCells(u)'
          BY DEF InCells
        <5>1. i - 1 \in 1 .. Len(cells') /\ cells'[i - 1] = cells[i]
          BY <3>3
        <5> QED
          BY <5>1 DEF InCells
      <4>2. task[w] = None
        BY <1>0, <2>1 DEF PlacesAreRight, HasItsTask, Running
      <4>3. \A u \in captured : InCells(u)' \/ \E a \in Actors : task'[a] = u
        BY <1>0, <2>3, <4>1, <4>2, TasksDiffer DEF PoolInv, CapturesInPlaces
      <4>4. \A i \in 1 .. Len(cells') : cells'[i].task \in captured
        BY <3>4, TasksDiffer
      <4> QED
        BY <2>1, <2>3, <3>7, <4>3, <4>4, TasksDiffer DEF CapturesInPlaces
    <3> QED
      BY <1>0, <3>6, <3>8, <3>10, <3>11, <3>12 DEF PlacesHold, PlacesAreRight
  <2> QED
    BY <1>5, <2>2, <2>3, PopTaskFrame
<1>6. ASSUME NEW w \in Workers, DestroyTask(w) PROVE PlacesHold'
  <2>1. /\ pc[w] = "destroy" /\ pc'[w] = "finished" /\ \A a \in Actors \ {w} : pc'[a] = pc[a]
        /\ task'[w] = None /\ \A a \in Actors \ {w} : task'[a] = task[a]
        /\ UNCHANGED <<cells, call, todo>>
    BY <1>6, DestroyTaskFrame
  <2>2. captured' = captured \ {task[w]} /\ task[w] # None
    BY <1>6, <2>1, DestroyPoints, RunsTask DEF Running
  <2>3. \A a \in Actors : HasItsTask(a)'
    BY <1>0, <2>1 DEF HasItsTask, PlacesAreRight, Running
  <2>4. \A a, b \in Actors : task'[a] = task'[b] /\ task'[a] # None /\ a \in Workers => a = b
    BY <1>0, <2>1 DEF PlacesAreRight
  <2>5. \A i \in 1 .. Len(cells), a \in Actors :
          cells[i].task = task'[a] => a \in Clients /\ pc'[a] = "fill" /\ ~cells[i].filled
    BY <1>0, <2>1, TasksDiffer DEF PlacesAreRight
  <2>6. CapturesInPlaces'
    <3>1. \A i \in 1 .. Len(cells) : cells[i].task # task[w]
      BY <1>0 DEF PlacesAreRight
    <3>2. \A a \in Actors \ {w} : task[a] # task[w]
      BY <1>0, <2>2 DEF PlacesAreRight
    <3> QED
      BY <2>1, <2>2, <3>1, <3>2 DEF PoolInv, CapturesInPlaces, InCells
  <2> QED
    BY <1>0, <2>1, <2>3, <2>4, <2>5, <2>6 DEF PlacesHold, PlacesAreRight
<1> QED
  BY <1>1, <1>2, <1>3, <1>4, <1>5, <1>6 DEF Moving

LEMMA PlacesKept ==
  ASSUME PoolInv, Quiet \/ Engaging
  PROVE  OnePlace' /\ CapturesInPlaces'
<1>1. CASE Still
  <2>1. OnePlace'
    BY <1>1 DEF Still, PoolInv, OnePlace
  <2>2. CapturesInPlaces'
    BY <1>1 DEF Still, PoolInv, CapturesInPlaces, InCells
  <2> QED
    BY <2>1, <2>2
<1>2. CASE Moving
  <2>1. PlacesHold'
    BY <1>2, PlacesMove
  <2>2. OnePlace' <=> PlacesAreRight'
    BY PlacesAre, PTL
  <2> QED
    BY <2>1, <2>2 DEF PlacesHold
<1> QED
  BY <1>1, <1>2, StillOrMoving DEF Same

\* The two halves of OutcomesTell.
OutcomesInPlaces ==
  /\ \A c \in Clients : task[c] # None => outcome[task[c]] = "none"
  /\ \A i \in 1 .. Len(cells) : outcome[cells[i].task] = "none"
  /\ \A w \in Workers : pc[w] \in {"start", "run"} => outcome[task[w]] = "none"
  /\ \A w \in Workers : pc[w] \in Ran => outcome[task[w]] \in Over

BuiltSoFar(c) == IF pc[c] \in Holding THEN todo[c] + 1 ELSE todo[c]

UnbuiltTells ==
  /\ \A t \in Tasks : t[1] > calls \/ t[2] > kind[t[1]].size => Unbuilt(t)
  /\ \A c \in Clients : pc[c] \in Submitting =>
       \A i \in 1 .. MaxSize : Unbuilt(<<call[c], i>>) <=> i > BuiltSoFar(c)

LEMMA OutcomesSplit == OutcomesTell <=> OutcomesInPlaces /\ UnbuiltTells
BY DEF OutcomesTell, OutcomesInPlaces, UnbuiltTells, BuiltSoFar

LEMMA UnbuiltStays ==
  ASSUME PoolInv, UNCHANGED <<calls, kind>>, \A u \in Tasks : Unbuilt(u)' <=> Unbuilt(u),
         \A c \in Clients : pc'[c] \in Submitting =>
           pc[c] \in Submitting /\ call'[c] = call[c] /\ BuiltSoFar(c)' = BuiltSoFar(c)
  PROVE  UnbuiltTells'
<1>1. UnbuiltTells
  BY OutcomesSplit DEF PoolInv
<1>2. \A c \in Clients : pc[c] \in Submitting => \A i \in 1 .. MaxSize : <<call[c], i>> \in Tasks
  BY PoolAssumption DEF PoolInv, CallersTell, CallTypes, Tasks, CallIds
<1>3. ASSUME NEW c \in Clients, pc'[c] \in Submitting, NEW i \in 1 .. MaxSize
      PROVE  (Unbuilt(<<call[c], i>>) <=> i > BuiltSoFar(c))'
  <2>1. PICK u \in Tasks : u = <<call[c], i>>
    BY <1>2, <1>3
  <2>2. /\ Unbuilt(u)' <=> Unbuilt(u)
        /\ Unbuilt(u) <=> i > BuiltSoFar(c)
        /\ call'[c] = call[c] /\ BuiltSoFar(c)' = BuiltSoFar(c)
    BY <1>1, <1>3, <2>1 DEF UnbuiltTells
  <2>3. <<call'[c], i>> = u
    BY <2>1, <2>2
  <2> QED
    BY <2>2, <2>3 DEF Unbuilt
<1>4. \A t \in Tasks : t[1] > calls \/ t[2] > kind[t[1]].size => Unbuilt(t)'
  BY <1>1 DEF UnbuiltTells
<1> QED
  BY <1>3, <1>4 DEF UnbuiltTells

LEMMA OutcomesKept ==
  ASSUME PoolInv, Quiet \/ Engaging
  PROVE  OutcomesTell'
<1> USE OutcomesSplit DEF PoolInv
<1>0. /\ \A c \in Clients : c \in Actors /\ c \notin Workers
      /\ \A w \in Workers : w \in Actors /\ w \notin Clients
  BY PoolAssumption DEF Actors
<1>. SUFFICES OutcomesInPlaces' /\ UnbuiltTells'
  <2>1. OutcomesTell' <=> OutcomesInPlaces' /\ UnbuiltTells'
    BY OutcomesSplit, PTL
  <2> QED
    BY <2>1
<1>1. CASE Same
  <2>1. OutcomesInPlaces'
    BY <1>1 DEF Same, Still, OutcomesInPlaces
  <2>2. \A u \in Tasks : Unbuilt(u)' <=> Unbuilt(u)
    BY <1>1 DEF Same, Still, Unbuilt
  <2>3. \A c \in Clients : pc'[c] \in Submitting =>
          pc[c] \in Submitting /\ call'[c] = call[c] /\ BuiltSoFar(c)' = BuiltSoFar(c)
    BY <1>1 DEF Same, Still, BuiltSoFar
  <2> QED
    BY <1>1, <2>1, <2>2, <2>3, UnbuiltStays DEF Same
<1>2. ASSUME NEW c \in Clients, NEW k \in CallKinds, Call(c, k)
      PROVE  OutcomesInPlaces' /\ UnbuiltTells'
  <2>1. /\ pc'[c] = IF k.size = 0 THEN "idle" ELSE "build"
        /\ \A a \in Actors \ {c} : pc'[a] = pc[a]
        /\ calls' = calls + 1 /\ calls + 1 \in CallIds /\ calls \in Nat
        /\ \A l \in CallIds \ {calls + 1} : kind'[l] = kind[l]
        /\ k.size # 0 => call'[c] = calls + 1
        /\ \A d \in Clients \ {c} : call'[d] = call[d]
        /\ pc[c] = "idle" /\ todo'[c] = 0
        /\ UNCHANGED <<cells, task, captured, outcome, todo>>
    BY <1>2, CallFrame DEF CallTypes, CallersTell, Submitting
  <2>2. OutcomesInPlaces'
    BY <1>0, <2>1 DEF OutcomesInPlaces
  <2>3. \A u \in Tasks : Unbuilt(u)' <=> Unbuilt(u)
    BY <2>1 DEF Unbuilt
  <2>4. \A u \in Tasks : u[1] > calls' \/ u[2] > kind'[u[1]].size => Unbuilt(u)'
    <3> SUFFICES ASSUME NEW u \in Tasks, u[1] > calls' \/ u[2] > kind'[u[1]].size
                 PROVE  Unbuilt(u)
      BY <2>3
    <3>1. u[1] \in CallIds /\ u[1] \in Nat
      BY DEF Tasks, CallIds
    <3>2. u[1] > calls \/ (u[1] # calls + 1 /\ kind'[u[1]] = kind[u[1]])
      BY <2>1, <3>1
    <3> QED
      BY <2>1, <3>1, <3>2 DEF UnbuiltTells
  <2>5. ASSUME NEW d \in Clients, pc'[d] \in Submitting, NEW i \in 1 .. MaxSize
        PROVE  (Unbuilt(<<call[d], i>>) <=> i > BuiltSoFar(d))'
    <3>1. CASE d = c
      <4>1. pc'[c] = "build" /\ call'[c] = calls + 1
        BY <2>1, <2>5, <3>1 DEF Submitting
      <4>2. BuiltSoFar(c)' = 0
        BY <2>1, <4>1 DEF BuiltSoFar, Holding
      <4>3. PICK u \in Tasks : u = <<calls + 1, i>>
        BY <2>1 DEF Tasks
      <4>4. Unbuilt(u)
        BY <2>1, <4>3 DEF UnbuiltTells
      <4> QED
        BY <2>1, <3>1, <4>1, <4>2, <4>3, <4>4 DEF Unbuilt
    <3>2. CASE d # c
      BY <1>0, <2>1, <2>5, <3>2 DEF UnbuiltTells, BuiltSoFar, Unbuilt
    <3> QED
      BY <3>1, <3>2
  <2> QED
    BY <2>2, <2>4, <2>5 DEF UnbuiltTells
<1>3. ASSUME NEW c \in Clients, BuildTask(c)
      PROVE  OutcomesInPlaces' /\ UnbuiltTells'
  <2> DEFINE t == <<call[c], todo[c] + 1>>
  <2>1. /\ pc[c] = "build" /\ pc'[c] = "count" /\ \A a \in Actors \ {c} : pc'[a] = pc[a]
        /\ task'[c] = t /\ \A a \in Actors \ {c} : task'[a] = task[a]
        /\ call[c] \in 1 .. calls /\ todo[c] \in Nat /\ todo[c] + 1 \in 1 .. kind[call[c]].size
        /\ t \in Tasks /\ captured' = captured \cup {t} /\ Unbuilt(t) /\ t[1] = call[c]
        /\ t[2] = todo[c] + 1 /\ calls \in Nat /\ kind[call[c]].size \in Nat
        /\ UNCHANGED <<cells, outcome, calls, kind, call, todo>>
    BY <1>3, BuildTaskFrame DEF CallTypes
  <2>2. OutcomesInPlaces'
    BY <1>0, <2>1 DEF OutcomesInPlaces, Unbuilt, Ran
  <2>3. \A u \in Tasks : Unbuilt(u)' <=> Unbuilt(u) /\ u # t
    BY <2>1 DEF Unbuilt
  <2>4. \A u \in Tasks : u[1] > calls \/ u[2] > kind[u[1]].size => Unbuilt(u)'
    BY <2>1, <2>3 DEF UnbuiltTells
  <2>5. ASSUME NEW d \in Clients, pc'[d] \in Submitting, NEW i \in 1 .. MaxSize
        PROVE  (Unbuilt(<<call[d], i>>) <=> i > BuiltSoFar(d))'
    <3>1. pc[d] \in Submitting /\ call'[d] = call[d]
      BY <1>0, <2>1, <2>5 DEF Submitting
    <3>2. call[d] \in 1 .. calls /\ call[d] \in CallIds
      BY <3>1, PoolAssumption DEF CallersTell, CallTypes, CallIds
    <3>3. PICK u \in Tasks : u = <<call[d], i>> /\ u[1] = call[d] /\ u[2] = i
      <4>1. <<call[d], i>> \in Tasks
        BY <2>5, <3>2 DEF Tasks
      <4> QED
        BY <4>1
    <3>4. Unbuilt(u) <=> i > BuiltSoFar(d)
      BY <3>1, <3>3 DEF UnbuiltTells
    <3>5. Unbuilt(<<call[d], i>>)' <=> Unbuilt(u) /\ u # t
      BY <2>3, <3>1, <3>3 DEF Unbuilt
    <3>6. CASE d = c
      <4>1. BuiltSoFar(c) = todo[c] /\ BuiltSoFar(c)' = todo[c] + 1
        BY <2>1 DEF BuiltSoFar, Holding
      <4>2. u # t <=> i # todo[c] + 1
        BY <3>3, <3>6
      <4> QED
        BY <2>1, <3>4, <3>5, <3>6, <4>1, <4>2
    <3>7. CASE d # c
      <4>1. call[d] # call[c]
        BY <1>3, <3>2, <3>7, PoolAssumption DEF CallersTell, CallIds
      <4>2. BuiltSoFar(d)' = BuiltSoFar(d) /\ u # t
        BY <1>0, <2>1, <3>3, <3>7, <4>1 DEF BuiltSoFar
      <4> QED
        BY <3>4, <3>5, <4>2
    <3> QED
      BY <3>6, <3>7
  <2> QED
    BY <2>1, <2>2, <2>4, <2>5 DEF UnbuiltTells
<1>4. ASSUME NEW c \in Clients, Reserve(c)
      PROVE  OutcomesInPlaces' /\ UnbuiltTells'
  <2>1. /\ pc[c] = "reserve" /\ pc'[c] = "fill" /\ \A a \in Actors \ {c} : pc'[a] = pc[a]
        /\ UNCHANGED <<outcome, captured, calls, kind, call, todo, task>>
    BY <1>4, ReserveFrame
  <2>2. outcome[task[c]] = "none"
    BY <2>1, HoldsTask DEF Holding, OutcomesInPlaces
  <2>3. OutcomesInPlaces'
    BY <1>0, <1>4, <2>1, <2>2, ReservedCells DEF OutcomesInPlaces, Ran
  <2>4. \A u \in Tasks : Unbuilt(u)' <=> Unbuilt(u)
    BY <2>1 DEF Unbuilt
  <2>5. \A d \in Clients : /\ pc'[d] \in Submitting => pc[d] \in Submitting
                           /\ call'[d] = call[d] /\ BuiltSoFar(d)' = BuiltSoFar(d)
    BY <1>0, <2>1 DEF BuiltSoFar, Holding, Submitting
  <2> QED
    BY <2>1, <2>3, <2>4, <2>5, UnbuiltStays
<1>5. ASSUME NEW c \in Clients, Fill(c)
      PROVE  OutcomesInPlaces' /\ UnbuiltTells'
  <2>1. /\ pc[c] = "fill" /\ pc'[c] = (IF todo[c] + 1 = kind[call[c]].size THEN "signal" ELSE "build")
        /\ \A a \in Actors \ {c} : pc'[a] = pc[a]
        /\ task'[c] = None /\ \A a \in Actors \ {c} : task'[a] = task[a]
        /\ todo'[c] = todo[c] + 1 /\ \A d \in Clients \ {c} : todo'[d] = todo[d]
        /\ call'[c] = (IF todo[c] + 1 = kind[call[c]].size THEN None ELSE call[c])
        /\ \A d \in Clients \ {c} : call'[d] = call[d]
        /\ UNCHANGED <<outcome, captured, calls, kind>>
    BY <1>5, FillFrame
  <2>2. Len(cells') = Len(cells) /\ \A i \in 1 .. Len(cells) : cells'[i].task = cells[i].task
    BY <1>5, FilledCells
  <2>3. OutcomesInPlaces'
    BY <1>0, <2>1, <2>2 DEF OutcomesInPlaces, Ran
  <2>4. \A u \in Tasks : Unbuilt(u)' <=> Unbuilt(u)
    BY <2>1 DEF Unbuilt
  <2>5. \A d \in Clients : pc'[d] \in Submitting =>
          pc[d] \in Submitting /\ call'[d] = call[d] /\ BuiltSoFar(d)' = BuiltSoFar(d)
    BY <1>0, <2>1 DEF BuiltSoFar, Holding, Submitting
  <2> QED
    BY <2>1, <2>3, <2>4, <2>5, UnbuiltStays
<1>6. ASSUME NEW c \in Clients, DropTask(c)
      PROVE  OutcomesInPlaces' /\ UnbuiltTells'
  <2>1. PICK t \in Tasks : t = cells[1].task
    BY <1>6, DropTaskFrame, TakenCells
  <2>2. /\ cells # <<>> /\ cells[1].filled /\ cells' = Tail(cells)
        /\ \A a \in Actors : pc'[a] = pc[a]
        /\ outcome'[t] = "dropped" /\ \A u \in Tasks : u # t => outcome'[u] = outcome[u]
        /\ t \in captured /\ captured' = captured \ {t}
        /\ UNCHANGED <<call, todo, calls, kind, task>>
    BY <1>6, <2>1, DropTaskFrame, DropPoints
  <2>3. /\ Len(cells) \in Nat /\ 1 \in 1 .. Len(cells) /\ Len(cells') = Len(cells) - 1
        /\ \A i \in 1 .. Len(cells) - 1 : cells'[i] = cells[i + 1]
    BY <2>2, TakenCells
  <2>4. \A a \in Actors : task[a] # t
    BY <1>0, <2>1, <2>2, <2>3 DEF OnePlace
  <2>5. \A i \in 1 .. Len(cells') : cells'[i].task # t /\ outcome[cells'[i].task] = "none" /\ cells'[i].task \in Tasks
    <3> SUFFICES ASSUME NEW i \in 1 .. Len(cells')
                 PROVE  cells'[i].task # t /\ outcome[cells'[i].task] = "none" /\ cells'[i].task \in Tasks
      OBVIOUS
    <3>1. i + 1 \in 1 .. Len(cells) /\ cells'[i] = cells[i + 1] /\ i + 1 # 1
      BY <2>3
    <3> QED
      BY <2>1, <2>3, <3>1 DEF OnePlace, OutcomesInPlaces, CapturesInPlaces, TaskTypes
  <2>6. \A a \in Actors : task[a] # None => task[a] \in Tasks
    BY DEF PlaceTypes
  <2>7. OutcomesInPlaces'
    BY <1>0, <2>2, <2>4, <2>5, <2>6 DEF OutcomesInPlaces, OnePlace, Running, Ran
  <2>8. \A u \in Tasks : Unbuilt(u)' <=> Unbuilt(u)
    BY <2>2 DEF Unbuilt
  <2>9. \A d \in Clients : pc'[d] = pc[d] /\ call'[d] = call[d] /\ BuiltSoFar(d)' = BuiltSoFar(d)
    BY <1>0, <2>2 DEF BuiltSoFar
  <2> QED
    BY <2>2, <2>7, <2>8, <2>9, UnbuiltStays
<1>7. ASSUME NEW w \in Workers, PopTask(w)
      PROVE  OutcomesInPlaces' /\ UnbuiltTells'
  <2>1. /\ pc[w] = "pop" /\ \A a \in Actors \ {w} : pc'[a] = pc[a]
        /\ UNCHANGED <<calls, kind, call, todo, captured, outcome>>
    BY <1>7, PopTaskFrame
  <2>2. \A u \in Tasks : Unbuilt(u)' <=> Unbuilt(u)
    BY <2>1 DEF Unbuilt
  <2>3. \A d \in Clients : pc'[d] = pc[d] /\ call'[d] = call[d] /\ BuiltSoFar(d)' = BuiltSoFar(d)
    BY <1>0, <2>1 DEF BuiltSoFar
  <2>4. UnbuiltTells'
    BY <2>1, <2>2, <2>3, UnbuiltStays
  <2>5. CASE pc'[w] = "lane" /\ UNCHANGED <<cells, task>>
    BY <1>0, <2>1, <2>4, <2>5 DEF OutcomesInPlaces, Ran
  <2>6. CASE /\ cells # <<>> /\ cells[1].filled /\ cells' = Tail(cells)
             /\ pc'[w] = "start" /\ task'[w] = cells[1].task
             /\ \A a \in Actors \ {w} : task'[a] = task[a]
    <3>1. /\ Len(cells) \in Nat /\ 1 \in 1 .. Len(cells) /\ Len(cells') = Len(cells) - 1
          /\ \A i \in 1 .. Len(cells) - 1 : cells'[i] = cells[i + 1]
      BY <2>6, TakenCells
    <3>2. \A i \in 1 .. Len(cells') : i + 1 \in 1 .. Len(cells) /\ cells'[i] = cells[i + 1]
      BY <3>1
    <3> QED
      BY <1>0, <2>1, <2>4, <2>6, <3>1, <3>2 DEF OutcomesInPlaces, Ran
  <2> QED
    BY <1>7, <2>5, <2>6, PopTaskFrame
<1>8. ASSUME NEW w \in Workers, NEW how \in {"returned", "threw"}, RunTask(w, how)
      PROVE  OutcomesInPlaces' /\ UnbuiltTells'
  <2>1. /\ pc[w] = "run" /\ \A a \in Actors \ {w} : pc'[a] = pc[a]
        /\ pc'[w] \in Ran
        /\ outcome'[task[w]] = how /\ \A u \in Tasks : u # task[w] => outcome'[u] = outcome[u]
        /\ UNCHANGED <<cells, task, call, todo, calls, kind, captured>>
    BY <1>8, RunTaskFrame DEF Ran
  <2>2. PICK t \in Tasks : t = task[w] /\ t \in captured /\ t # None
    BY <2>1, RunsTask DEF Running
  <2>3. /\ \A a \in Actors \ {w} : task[a] # t
        /\ \A i \in 1 .. Len(cells) : cells[i].task # t /\ cells[i].task \in Tasks
        /\ \A a \in Actors : task[a] # None => task[a] \in Tasks
    BY <1>0, <2>2 DEF OnePlace, CapturesInPlaces, TaskTypes, Actors
  <2>4. \A v \in Workers \ {w} : pc[v] \in Running => task[v] \in Tasks /\ task[v] # t
    BY <1>0, <2>3, RunsTask
  <2>5. OutcomesInPlaces'
    BY <1>0, <2>1, <2>2, <2>3, <2>4 DEF OutcomesInPlaces, Running, Ran, Over
  <2>6. \A u \in Tasks : Unbuilt(u)' <=> Unbuilt(u)
    BY <2>1, <2>2 DEF Unbuilt
  <2>7. \A d \in Clients : pc'[d] = pc[d] /\ call'[d] = call[d] /\ BuiltSoFar(d)' = BuiltSoFar(d)
    BY <1>0, <2>1 DEF BuiltSoFar
  <2> QED
    BY <2>1, <2>5, <2>6, <2>7, UnbuiltStays
<1>9. ASSUME NEW w \in Workers, DestroyTask(w)
      PROVE  OutcomesInPlaces' /\ UnbuiltTells'
  <2>1. /\ pc[w] = "destroy" /\ pc'[w] = "finished" /\ \A a \in Actors \ {w} : pc'[a] = pc[a]
        /\ task'[w] = None /\ \A a \in Actors \ {w} : task'[a] = task[a]
        /\ captured' = captured \ {task[w]}
        /\ UNCHANGED <<cells, call, todo, calls, kind, outcome>>
    BY <1>9, DestroyTaskFrame, DestroyPoints
  <2>2. outcome[task[w]] \in Over
    BY <2>1 DEF OutcomesInPlaces, Ran
  <2>3. OutcomesInPlaces'
    BY <1>0, <2>1 DEF OutcomesInPlaces, Ran
  <2>4. \A u \in Tasks : Unbuilt(u)' <=> Unbuilt(u)
    BY <2>1, <2>2 DEF Unbuilt, Over
  <2>5. \A d \in Clients : pc'[d] = pc[d] /\ call'[d] = call[d] /\ BuiltSoFar(d)' = BuiltSoFar(d)
    BY <1>0, <2>1 DEF BuiltSoFar
  <2> QED
    BY <2>1, <2>3, <2>4, <2>5, UnbuiltStays
<1> QED
  BY <1>1, <1>2, <1>3, <1>4, <1>5, <1>6, <1>7, <1>8, <1>9, StillOrMoving DEF Moving, Starting

-----------------------------------------------------------------------------
(* What is counted. *)

LEMMA CountedFinite ==
  ASSUME PoolInv
  PROVE  /\ IsFiniteSet(captured) /\ IsFiniteSet(Counted) /\ Cardinality(Counted) \in Nat
         /\ Cardinality(Ended) \in Nat
<1>1. IsFiniteSet(CallIds) /\ IsFiniteSet(1 .. MaxSize)
  <2>1. MaxCalls \in Int /\ MaxSize \in Int /\ 1 \in Int
    BY PoolAssumption
  <2> QED
    BY <2>1, FS_Interval DEF CallIds
<1>2. IsFiniteSet(Tasks)
  BY <1>1, FS_Product DEF Tasks
<1>3. IsFiniteSet(captured)
  BY <1>2, FS_Subset DEF PoolInv, TaskTypes
<1>4. IsFiniteSet(Counted)
  BY <1>3, FS_Subset DEF Counted
<1> QED
  BY <1>3, <1>4, FS_CardinalityType DEF PoolInv, CountIsExact

LEMMA EndedStays ==
  ASSUME \A w \in Workers : pc'[w] = "finished" <=> pc[w] = "finished", UNCHANGED dropped
  PROVE  Ended' = Ended
BY DEF Ended

LEMMA CountedStays ==
  ASSUME UNCHANGED captured,
         \A c \in Clients : /\ pc'[c] = "count" <=> pc[c] = "count"
                            /\ pc[c] = "count" => task'[c] = task[c]
  PROVE  Counted' = Counted
<1>1. \A t : NotCounted(t)' <=> NotCounted(t)
  BY DEF NotCounted
<1> QED
  BY <1>1 DEF Counted

CountsStay == UNCHANGED <<Counted, Ended, outstanding>>

LEMMA MostCountsStay ==
  ASSUME PoolInv, Quiet \/ Engaging
  PROVE  \/ CountsStay
         \/ \E c \in Clients : BuildTask(c) \/ onTaskEnqueued(c) \/ DropTask(c) \/ Finished(c)
         \/ \E w \in Workers : DestroyTask(w) \/ Finished(w)
<1>1. CASE Quiet
  <2>1. \A a \in Actors : (pc'[a] = "finished" <=> pc[a] = "finished") /\ (pc'[a] = "count" <=> pc[a] = "count")
    BY <1>1 DEF Quiet, Aloof, Engaged, Submitting
  <2>2. Ended' = Ended
    BY <1>1, <2>1, EndedStays DEF Quiet, Actors
  <2>3. Counted' = Counted
    BY <1>1, <2>1, CountedStays DEF Quiet, Actors, taskVars
  <2> QED
    BY <1>1, <2>2, <2>3 DEF Quiet, CountsStay
<1>2. ASSUME NEW c \in Clients,
             \/ \E k \in CallKinds : Call(c, k)
             \/ BuildThrows(c) \/ Reserve(c) \/ Fill(c) \/ AllDropped(c)
      PROVE  CountsStay
  <2>0. c \in Actors /\ \A w \in Workers : w \in Actors \ {c}
    BY PoolAssumption DEF Actors
  <2>1. /\ UNCHANGED <<captured, outstanding, dropped>>
        /\ \A a \in Actors \ {c} : pc'[a] = pc[a] /\ task'[a] = task[a]
        /\ pc'[c] # "count" /\ pc[c] # "count"
    <3>1. ASSUME NEW k \in CallKinds, Call(c, k)
         PROVE  /\ UNCHANGED <<captured, outstanding, dropped>>
                /\ \A a \in Actors \ {c} : pc'[a] = pc[a] /\ task'[a] = task[a]
                /\ pc'[c] # "count" /\ pc[c] # "count"
      BY <3>1, CallFrame
    <3>2. CASE BuildThrows(c)
      BY <3>2, BuildThrowsFrame, ThrowPoints
    <3>3. CASE Reserve(c)
      BY <3>3, ReserveFrame
    <3>4. CASE Fill(c)
      BY <3>4, FillFrame
    <3>5. CASE AllDropped(c)
      BY <3>5, AllDroppedFrame
    <3> QED
      BY <1>2, <3>1, <3>2, <3>3, <3>4, <3>5
  <2>2. Ended' = Ended
    BY <2>0, <2>1, EndedStays
  <2>3. \A d \in Clients : d \in Actors
    BY DEF Actors
  <2>4. Counted' = Counted
    BY <2>1, <2>3, CountedStays
  <2> QED
    BY <2>1, <2>2, <2>4 DEF CountsStay
<1>3. ASSUME NEW w \in Workers,
             \/ PopTask(w) \/ onTaskStarted(w) \/ \E how \in {"returned", "threw"} : RunTask(w, how)
             \/ FailBatch(w) \/ KeepError(w) \/ CountOff(w) \/ Complete(w)
      PROVE  CountsStay
  <2>0. w \in Actors /\ \A c \in Clients : c \in Actors \ {w}
    BY PoolAssumption DEF Actors
  <2>1. /\ UNCHANGED <<captured, outstanding, dropped>>
        /\ \A a \in Actors \ {w} : pc'[a] = pc[a] /\ task'[a] = task[a]
        /\ pc'[w] # "finished" /\ pc[w] # "finished"
    <3>1. CASE PopTask(w)
      BY <3>1, PopTaskFrame
    <3>2. CASE onTaskStarted(w)
      BY <3>2, onTaskStartedFrame
    <3>3. ASSUME NEW how \in {"returned", "threw"}, RunTask(w, how)
         PROVE  /\ UNCHANGED <<captured, outstanding, dropped>>
                /\ \A a \in Actors \ {w} : pc'[a] = pc[a] /\ task'[a] = task[a]
                /\ pc'[w] # "finished" /\ pc[w] # "finished"
      BY <3>3, RunTaskFrame
    <3>4. CASE FailBatch(w)
      BY <3>4, FailBatchFrame
    <3>5. CASE KeepError(w)
      BY <3>5, KeepErrorFrame
    <3>6. CASE CountOff(w)
      BY <3>6, CountOffFrame
    <3>7. CASE Complete(w)
      BY <3>7, CompleteFrame
    <3> QED
      BY <1>3, <3>1, <3>2, <3>3, <3>4, <3>5, <3>6, <3>7
  <2>2. \A v \in Workers : v \in Actors
    BY DEF Actors
  <2>3. Ended' = Ended
    BY <2>1, <2>2, EndedStays
  <2>4. Counted' = Counted
    BY <2>0, <2>1, CountedStays
  <2> QED
    BY <2>1, <2>3, <2>4 DEF CountsStay
<1> QED
  BY <1>1, <1>2, <1>3 DEF Engaging, ClientEngages, WorkerEngages

\* The tasks a shutdown has dropped are as many as it says.
LEMMA DroppedAreAsMany ==
  ASSUME NEW c, NEW n \in Nat
  PROVE  IsFiniteSet({c} \X (1 .. n)) /\ Cardinality({c} \X (1 .. n)) = n
<1>1. IsFiniteSet({c}) /\ Cardinality({c}) = 1
  BY FS_Singleton
<1>2. IsFiniteSet(1 .. n) /\ Cardinality(1 .. n) = n
  BY FS_Interval
<1>3. /\ IsFiniteSet({c} \X (1 .. n))
      /\ Cardinality({c} \X (1 .. n)) = Cardinality({c}) * Cardinality(1 .. n)
  BY <1>1, <1>2, FS_Product
<1>4. 1 * n = n
  OBVIOUS
<1> QED
  BY <1>1, <1>2, <1>3, <1>4

LEMMA CountKept ==
  ASSUME PoolInv, Quiet \/ Engaging
  PROVE  CountIsExact'
<1>0. /\ \A c \in Clients : c \in Actors /\ c \notin Workers
      /\ \A w \in Workers : w \in Actors /\ w \notin Clients
      /\ IsFiniteSet(Ended) /\ outstanding = Cardinality(Counted) + Cardinality(Ended)
      /\ IsFiniteSet(Counted) /\ Cardinality(Counted) \in Nat /\ Cardinality(Ended) \in Nat
  BY CountedFinite, PoolAssumption DEF Actors, PoolInv, CountIsExact
<1>1. CASE CountsStay
  BY <1>0, <1>1 DEF CountsStay, CountIsExact
<1>2. ASSUME NEW c \in Clients, BuildTask(c)
      PROVE  CountIsExact'
  <2>1. PICK t \in Tasks : t = <<call[c], todo[c] + 1>>
    BY <1>2, BuildTaskFrame
  <2>2. /\ pc[c] = "build" /\ pc'[c] = "count" /\ \A a \in Actors \ {c} : pc'[a] = pc[a]
        /\ task'[c] = t /\ \A a \in Actors \ {c} : task'[a] = task[a]
        /\ captured' = captured \cup {t} /\ t \notin captured
        /\ UNCHANGED <<outstanding, dropped>>
    BY <1>2, <2>1, BuildTaskFrame DEF Unbuilt
  <2>3. \A u \in captured : NotCounted(u)' <=> NotCounted(u)
    BY <1>0, <2>2 DEF NotCounted
  <2>4. NotCounted(t)'
    BY <2>2 DEF NotCounted
  <2>5. Counted' = Counted
    BY <2>2, <2>3, <2>4 DEF Counted
  <2>6. Ended' = Ended
    BY <1>0, <2>2, EndedStays
  <2> QED
    BY <1>0, <2>2, <2>5, <2>6 DEF CountIsExact
<1>3. ASSUME NEW c \in Clients, onTaskEnqueued(c)
      PROVE  CountIsExact'
  <2>1. /\ pc[c] = "count" /\ pc'[c] = "reserve" /\ \A a \in Actors \ {c} : pc'[a] = pc[a]
        /\ outstanding' = outstanding + 1
        /\ UNCHANGED <<task, captured, dropped>>
    BY <1>3, onTaskEnqueuedFrame
  <2>2. PICK t : t = task[c] /\ t \in captured /\ t # None
    BY <2>1, HoldsTask DEF Holding
  <2>3. NotCounted(t) /\ t \notin Counted
    BY <2>1, <2>2 DEF NotCounted, Counted
  <2>4. \A d \in Clients : task[d] = t => d = c
    BY <2>2, TasksDiffer
  <2>5. \A u \in captured : NotCounted(u)' <=> NotCounted(u) /\ u # t
    BY <1>0, <2>1, <2>2, <2>4 DEF NotCounted
  <2>6. Counted' = Counted \cup {t}
    BY <2>1, <2>2, <2>5 DEF Counted
  <2>7. Ended' = Ended
    BY <1>0, <2>1, EndedStays
  <2>8. Cardinality(Counted \cup {t}) = Cardinality(Counted) + 1
    BY <1>0, <2>3, FS_AddElement
  <2> QED
    BY <1>0, <2>1, <2>6, <2>7, <2>8 DEF CountIsExact
<1>4. ASSUME NEW c \in Clients, DropTask(c)
      PROVE  CountIsExact'
  <2>1. PICK t \in Tasks : t = cells[1].task
    BY <1>4, DropTaskFrame, TakenCells
  <2>2. /\ cells # <<>> /\ \A a \in Actors : pc'[a] = pc[a]
        /\ t \in captured /\ captured' = captured \ {t}
        /\ dropped'[c] = dropped[c] + 1 /\ \A d \in Clients \ {c} : dropped'[d] = dropped[d]
        /\ UNCHANGED <<task, outstanding>>
    BY <1>4, <2>1, DropTaskFrame, DropPoints
  <2>3. \A d \in Clients : pc[d] = "count" => task[d] # t
    BY <1>0, <2>1, <2>2, TakenCells DEF PoolInv, OnePlace
  <2>4. t \in Counted
    BY <2>2, <2>3 DEF Counted, NotCounted
  <2>5. \A u : NotCounted(u)' <=> NotCounted(u)
    BY <1>0, <2>2 DEF NotCounted
  <2>6. Counted' = Counted \ {t}
    BY <2>2, <2>5 DEF Counted
  <2>7. dropped[c] \in Nat
    BY DEF PoolInv, CallTypes
  <2> DEFINE e == <<c, dropped[c] + 1>>
  <2>8. e \notin Ended
    BY <1>0, <2>7 DEF Ended
  <2>9. Ended' = Ended \cup {e}
    <3>1. Ended' = {d \in Actors \X Nat : IF d[1] \in Workers THEN d[2] = 0 /\ pc'[d[1]] = "finished"
                                          ELSE d[2] \in 1 .. dropped'[d[1]]}
      BY DEF Ended
    <3>2. ASSUME NEW d \in Actors \X Nat
          PROVE  d \in Ended' <=> d \in Ended \/ d = e
      <4>1. CASE d[1] \in Workers
        BY <1>0, <2>2, <3>1, <4>1 DEF Ended
      <4>2. CASE d[1] \in Clients \ {c}
        BY <1>0, <2>2, <3>1, <4>2 DEF Ended
      <4>3. CASE d[1] = c
        <5>1. d = <<c, d[2]>> /\ d[2] \in Nat
          BY <4>3
        <5>2. d \in Ended' <=> d[2] \in 1 .. dropped[c] + 1
          BY <1>0, <2>2, <3>1, <4>3
        <5>3. d \in Ended <=> d[2] \in 1 .. dropped[c]
          BY <1>0, <4>3 DEF Ended
        <5>4. d = e <=> d[2] = dropped[c] + 1
          BY <5>1
        <5> QED
          BY <2>7, <5>1, <5>2, <5>3, <5>4
      <4> QED
        BY <4>1, <4>2, <4>3 DEF Actors
    <3>3. e \in Actors \X Nat
      BY <1>0, <2>7
    <3> HIDE DEF e
    <3>4. Ended \subseteq Actors \X Nat /\ Ended' \subseteq Actors \X Nat
      BY <3>1 DEF Ended
    <3> QED
      BY <3>2, <3>3, <3>4
  <2> HIDE DEF e
  <2>10. /\ IsFiniteSet(Ended \cup {e}) /\ Cardinality(Ended \cup {e}) = Cardinality(Ended) + 1
         /\ Cardinality(Counted \ {t}) = Cardinality(Counted) - 1
    BY <1>0, <2>4, <2>8, FS_AddElement, FS_RemoveElement
  <2> QED
    BY <1>0, <2>2, <2>6, <2>9, <2>10 DEF CountIsExact
<1>5. ASSUME NEW c \in Clients, Finished(c)
      PROVE  CountIsExact'
  <2>1. /\ pc[c] = "finished" /\ pc'[c] \in {"anyWaiter", "idle"} /\ \A a \in Actors \ {c} : pc'[a] = pc[a]
        /\ outstanding' = outstanding - dropped[c]
        /\ dropped'[c] = 0 /\ \A d \in Clients \ {c} : dropped'[d] = dropped[d]
        /\ UNCHANGED <<task, captured>>
    BY <1>5, ClientFinishedFrame
  <2>2. Counted' = Counted
    BY <1>0, <2>1, CountedStays
  <2>3. PICK n \in Nat : n = dropped[c]
    BY DEF PoolInv, CallTypes
  <2> DEFINE D == {c} \X (1 .. n)
  <2>4. IsFiniteSet(D) /\ Cardinality(D) = n
    BY DroppedAreAsMany
  <2>5. D \subseteq Ended
    BY <1>0, <2>3 DEF Ended
  <2>6. Ended' = Ended \ D
    <3>1. Ended' = {d \in Actors \X Nat : IF d[1] \in Workers THEN d[2] = 0 /\ pc'[d[1]] = "finished"
                                          ELSE d[2] \in 1 .. dropped'[d[1]]}
      BY DEF Ended
    <3>2. ASSUME NEW d \in Actors \X Nat
          PROVE  d \in Ended' <=> d \in Ended /\ d \notin D
      <4>1. CASE d[1] \in Workers
        BY <1>0, <2>1, <3>1, <4>1 DEF Ended
      <4>2. CASE d[1] \in Clients \ {c}
        BY <1>0, <2>1, <3>1, <4>2 DEF Ended
      <4>3. CASE d[1] = c
        <5>1. d = <<c, d[2]>> /\ d[2] \in Nat
          BY <4>3
        <5>2. d \notin Ended'
          BY <1>0, <2>1, <3>1, <4>3
        <5>3. d \in Ended => d \in D
          BY <1>0, <2>3, <4>3, <5>1 DEF Ended
        <5> QED
          BY <5>2, <5>3
      <4> QED
        BY <4>1, <4>2, <4>3 DEF Actors
    <3> HIDE DEF D
    <3>3. Ended \subseteq Actors \X Nat /\ Ended' \subseteq Actors \X Nat
      BY <3>1 DEF Ended
    <3> QED
      BY <3>2, <3>3
  <2> HIDE DEF D
  <2>7. IsFiniteSet(Ended \ D) /\ Cardinality(Ended \ D) = Cardinality(Ended) - n
    <3>1. Ended \cap D = D
      BY <2>5
    <3> QED
      BY <1>0, <2>4, <3>1, FS_Difference
  <2> QED
    BY <1>0, <2>1, <2>2, <2>3, <2>6, <2>7 DEF CountIsExact
<1>6. ASSUME NEW w \in Workers, DestroyTask(w)
      PROVE  CountIsExact'
  <2>1. /\ pc[w] = "destroy" /\ pc'[w] = "finished" /\ \A a \in Actors \ {w} : pc'[a] = pc[a]
        /\ \A a \in Actors \ {w} : task'[a] = task[a]
        /\ UNCHANGED <<outstanding, dropped>>
    BY <1>6, DestroyTaskFrame
  <2>2. PICK t : t = task[w] /\ t \in captured /\ captured' = captured \ {t} /\ t # None
    BY <1>6, <2>1, DestroyPoints, RunsTask DEF Running
  <2>3. \A u : NotCounted(u)' <=> NotCounted(u)
    BY <1>0, <2>1 DEF NotCounted
  <2>4. t \in Counted
    BY <2>2 DEF Counted, NotCounted, PoolInv, OnePlace
  <2>5. Counted' = Counted \ {t}
    BY <2>2, <2>3 DEF Counted
  <2> DEFINE e == <<w, 0>>
  <2>6. e \notin Ended
    BY <1>0, <2>1 DEF Ended
  <2>7. Ended' = Ended \cup {e}
    <3>1. Ended' = {d \in Actors \X Nat : IF d[1] \in Workers THEN d[2] = 0 /\ pc'[d[1]] = "finished"
                                          ELSE d[2] \in 1 .. dropped'[d[1]]}
      BY DEF Ended
    <3>2. ASSUME NEW d \in Actors \X Nat
          PROVE  d \in Ended' <=> d \in Ended \/ d = e
      <4>1. CASE d[1] # w
        BY <2>1, <3>1, <4>1 DEF Ended
      <4>2. CASE d[1] = w
        BY <2>1, <3>1, <4>2 DEF Ended
      <4> QED
        BY <4>1, <4>2
    <3>3. e \in Actors \X Nat
      BY <1>0
    <3> HIDE DEF e
    <3>4. Ended \subseteq Actors \X Nat /\ Ended' \subseteq Actors \X Nat
      BY <3>1 DEF Ended
    <3> QED
      BY <3>2, <3>3, <3>4
  <2> HIDE DEF e
  <2>8. /\ IsFiniteSet(Ended \cup {e}) /\ Cardinality(Ended \cup {e}) = Cardinality(Ended) + 1
        /\ Cardinality(Counted \ {t}) = Cardinality(Counted) - 1
    BY <1>0, <2>4, <2>6, FS_AddElement, FS_RemoveElement
  <2> QED
    BY <1>0, <2>1, <2>5, <2>7, <2>8 DEF CountIsExact
<1>7. ASSUME NEW w \in Workers, Finished(w)
      PROVE  CountIsExact'
  <2>1. /\ pc[w] = "finished" /\ pc'[w] \in {"anyWaiter", "top"} /\ \A a \in Actors \ {w} : pc'[a] = pc[a]
        /\ outstanding' = outstanding - 1
        /\ UNCHANGED <<task, captured, dropped>>
    BY <1>7, WorkerFinishedFrame, WorkerSteps DEF WorkerEngages
  <2>2. Counted' = Counted
    BY <1>0, <2>1, CountedStays
  <2> DEFINE e == <<w, 0>>
  <2>3. e \in Ended
    BY <1>0, <2>1 DEF Ended
  <2>4. Ended' = Ended \ {e}
    <3>1. Ended' = {d \in Actors \X Nat : IF d[1] \in Workers THEN d[2] = 0 /\ pc'[d[1]] = "finished"
                                          ELSE d[2] \in 1 .. dropped'[d[1]]}
      BY DEF Ended
    <3>2. ASSUME NEW d \in Actors \X Nat
          PROVE  d \in Ended' <=> d \in Ended /\ d # e
      <4>1. CASE d[1] # w
        BY <2>1, <3>1, <4>1 DEF Ended
      <4>2. CASE d[1] = w
        BY <2>1, <3>1, <4>2 DEF Ended
      <4> QED
        BY <4>1, <4>2
    <3> HIDE DEF e
    <3>3. Ended \subseteq Actors \X Nat /\ Ended' \subseteq Actors \X Nat
      BY <3>1 DEF Ended
    <3> QED
      BY <3>2, <3>3
  <2> HIDE DEF e
  <2>5. IsFiniteSet(Ended \ {e}) /\ Cardinality(Ended \ {e}) = Cardinality(Ended) - 1
    BY <1>0, <2>3, FS_RemoveElement
  <2> QED
    BY <1>0, <2>1, <2>2, <2>4, <2>5 DEF CountIsExact
<1> QED
  BY <1>1, <1>2, <1>3, <1>4, <1>5, <1>6, <1>7, MostCountsStay

-----------------------------------------------------------------------------
(* Waiters. *)

Waiting == {"lockCheck", "check", "fallAsleep", "asleep", "endWait"}
WaitersStay ==
  /\ UNCHANGED idleWaiters
  /\ \A d \in Clients : pc'[d] \in Waiting <=> pc[d] \in Waiting
WaitsBegin == \E d \in Clients : BeginWait(d) \/ EndWait(d)

LEMMA WaitersStayOrBegin ==
  ASSUME PoolInv, [Next]_vars
  PROVE  WaitersStay \/ WaitsBegin
<1> USE DEF Goto
<1>1. CASE UNCHANGED vars
  BY <1>1 DEF vars, waitVars, WaitersStay
<1>2. ASSUME NEW c \in Clients, Begin(c) \/ Submit(c) \/ Wait(c) \/ Shutdown(c) \/ OnTasksFinished(c)
      PROVE  WaitersStay \/ WaitsBegin
  <2>0. c \in Actors /\ c \notin Workers
    BY PoolAssumption DEF Actors
  <2>1. ASSUME NEW k \in CallKinds, Call(c, k) PROVE WaitersStay \/ WaitsBegin
    BY <2>0, <2>1, PoolAssumption DEF Call, Continue, WaitersStay, Waiting, PoolInv,
         PlaceTypes, waitVars, Actors
  <2>2. ASSUME NEW n \in 1 .. MaxShares, NEW background \in BOOLEAN, Share(c, n, background) PROVE WaitersStay \/ WaitsBegin
    BY <2>0, <2>2, PoolAssumption DEF Share, Continue, WaitersStay, Waiting, PoolInv,
         PlaceTypes, waitVars, Actors
  <2>3. CASE helpThread(c)
    BY <2>0, <2>3, PoolAssumption DEF helpThread, Continue, WaitersStay, Waiting, PoolInv,
         PlaceTypes, waitVars, Actors
  <2>4. CASE BeginWait(c)
    BY <2>4 DEF WaitsBegin
  <2>5. CASE initPool(c)
    BY <2>0, <2>5, PoolAssumption DEF initPool, Continue, WaitersStay, Waiting, PoolInv,
         PlaceTypes, waitVars, Actors
  <2>6. CASE RequestStop(c)
    BY <2>0, <2>6, PoolAssumption DEF RequestStop, Continue, WaitersStay, Waiting, PoolInv,
         PlaceTypes, waitVars, Actors
  <2>7. CASE BuildTask(c)
    BY <2>0, <2>7, PoolAssumption DEF BuildTask, Continue, WaitersStay, Waiting, PoolInv,
         PlaceTypes, waitVars, Actors
  <2>8. CASE BuildThrows(c)
    BY <2>0, <2>8, PoolAssumption DEF BuildThrows, Continue, WaitersStay, Waiting, PoolInv,
         PlaceTypes, waitVars, Actors
  <2>9. CASE onTaskEnqueued(c)
    BY <2>0, <2>9, PoolAssumption DEF onTaskEnqueued, Continue, WaitersStay, Waiting, PoolInv,
         PlaceTypes, waitVars, Actors
  <2>10. CASE Reserve(c)
    BY <2>0, <2>10, PoolAssumption DEF Reserve, Continue, WaitersStay, Waiting, PoolInv,
         PlaceTypes, waitVars, Actors
  <2>11. CASE Fill(c)
    BY <2>0, <2>11, PoolAssumption DEF Fill, Continue, WaitersStay, Waiting, PoolInv,
         PlaceTypes, waitVars, Actors
  <2>12. CASE Signal(c)
    BY <2>0, <2>12, PoolAssumption DEF Signal, Continue, WaitersStay, Waiting, PoolInv,
         PlaceTypes, waitVars, Actors
  <2>13. CASE LockCheck(c)
    BY <2>0, <2>13, PoolAssumption DEF LockCheck, Continue, WaitersStay, Waiting, PoolInv,
         PlaceTypes, waitVars, Actors
  <2>14. CASE CheckDone(c)
    BY <2>0, <2>14, PoolAssumption DEF CheckDone, Continue, WaitersStay, Waiting, PoolInv,
         PlaceTypes, waitVars, Actors
  <2>15. CASE FallAsleep(c)
    BY <2>0, <2>15, PoolAssumption DEF FallAsleep, Continue, WaitersStay, Waiting, PoolInv,
         PlaceTypes, waitVars, Actors
  <2>16. CASE WakeUp(c)
    BY <2>0, <2>16, PoolAssumption DEF WakeUp, Continue, WaitersStay, Waiting, PoolInv,
         PlaceTypes, waitVars, Actors
  <2>17. CASE EndWait(c)
    BY <2>17 DEF WaitsBegin
  <2>18. CASE SignalStop(c)
    BY <2>0, <2>18, PoolAssumption DEF SignalStop, Continue, WaitersStay, Waiting, PoolInv,
         PlaceTypes, waitVars, Actors
  <2>19. CASE JoinAll(c)
    BY <2>0, <2>19, PoolAssumption DEF JoinAll, Continue, WaitersStay, Waiting, PoolInv,
         PlaceTypes, waitVars, Actors
  <2>20. CASE DropTask(c)
    BY <2>0, <2>20, PoolAssumption DEF DropTask, Continue, WaitersStay, Waiting, PoolInv,
         PlaceTypes, waitVars, Actors
  <2>21. CASE AllDropped(c)
    BY <2>0, <2>21, PoolAssumption DEF AllDropped, Continue, WaitersStay, Waiting, PoolInv,
         PlaceTypes, waitVars, Actors
  <2>22. CASE Finished(c)
    BY <2>0, <2>22, PoolAssumption DEF Finished, Continue, WaitersStay, Waiting, PoolInv,
         PlaceTypes, waitVars, Actors
  <2>23. CASE AnyWaiter(c)
    BY <2>0, <2>23, PoolAssumption DEF AnyWaiter, Continue, WaitersStay, Waiting, PoolInv,
         PlaceTypes, waitVars, Actors
  <2>24. CASE PassMutex(c)
    BY <2>0, <2>24, PoolAssumption DEF PassMutex, Continue, WaitersStay, Waiting, PoolInv,
         PlaceTypes, waitVars, Actors
  <2>25. CASE NotifyAll(c)
    BY <2>0, <2>25, PoolAssumption DEF NotifyAll, Continue, WaitersStay, Waiting, PoolInv,
         PlaceTypes, waitVars, Actors
  <2> QED
    BY <1>2, <2>1, <2>2, <2>3, <2>4, <2>5, <2>6, <2>7, <2>8, <2>9, <2>10, <2>11, <2>12, <2>13,
         <2>14, <2>15, <2>16, <2>17, <2>18, <2>19, <2>20, <2>21, <2>22, <2>23, <2>24, <2>25
       DEF Begin, Submit, Wait, Shutdown, OnTasksFinished
<1>3. ASSUME NEW w \in Workers, Worker(w) \/ OnTasksFinished(w)
      PROVE  WaitersStay \/ WaitsBegin
  <2>0. w \in Actors /\ w \notin Clients
    BY PoolAssumption DEF Actors
  <2>1. CASE CheckStop(w)
    BY <2>0, <2>1, PoolAssumption DEF CheckStop, Continue, WaitersStay, Waiting, PoolInv,
         PlaceTypes, waitVars, Actors
  <2>2. CASE HelpParallel(w)
    BY <2>0, <2>2, PoolAssumption DEF HelpParallel, Continue, WaitersStay, Waiting, PoolInv,
         PlaceTypes, waitVars, Actors
  <2>3. CASE PopTask(w)
    BY <2>0, <2>3, PoolAssumption DEF PopTask, Continue, WaitersStay, Waiting, PoolInv,
         PlaceTypes, waitVars, Actors
  <2>4. CASE HelpBackground(w)
    BY <2>0, <2>4, PoolAssumption DEF HelpBackground, Continue, WaitersStay, Waiting, PoolInv,
         PlaceTypes, waitVars, Actors
  <2>5. CASE LoopOver(w)
    BY <2>0, <2>5, PoolAssumption DEF LoopOver, Continue, WaitersStay, Waiting, PoolInv,
         PlaceTypes, waitVars, Actors
  <2>6. CASE frameWaiting(w)
    BY <2>0, <2>6, PoolAssumption DEF frameWaiting, Continue, WaitersStay, Waiting, PoolInv,
         PlaceTypes, waitVars, Actors
  <2>7. CASE PutBack(w)
    BY <2>0, <2>7, PoolAssumption DEF PutBack, Continue, WaitersStay, Waiting, PoolInv,
         PlaceTypes, waitVars, Actors
  <2>8. CASE Wake(w)
    BY <2>0, <2>8, PoolAssumption DEF Wake, Continue, WaitersStay, Waiting, PoolInv,
         PlaceTypes, waitVars, Actors
  <2>9. CASE Timeout(w)
    BY <2>0, <2>9, PoolAssumption DEF Timeout, Continue, WaitersStay, Waiting, PoolInv,
         PlaceTypes, waitVars, Actors
  <2>10. CASE onTaskStarted(w)
    BY <2>0, <2>10, PoolAssumption DEF onTaskStarted, Continue, WaitersStay, Waiting, PoolInv,
         PlaceTypes, waitVars, Actors
  <2>11. ASSUME NEW how \in {"returned", "threw"}, RunTask(w, how) PROVE WaitersStay \/ WaitsBegin
    BY <2>0, <2>11, PoolAssumption DEF RunTask, Continue, WaitersStay, Waiting, PoolInv,
         PlaceTypes, waitVars, Actors
  <2>12. CASE FailBatch(w)
    BY <2>0, <2>12, PoolAssumption DEF FailBatch, Continue, WaitersStay, Waiting, PoolInv,
         PlaceTypes, waitVars, Actors
  <2>13. CASE KeepError(w)
    BY <2>0, <2>13, PoolAssumption DEF KeepError, Continue, WaitersStay, Waiting, PoolInv,
         PlaceTypes, waitVars, Actors
  <2>14. CASE CountOff(w)
    BY <2>0, <2>14, PoolAssumption DEF CountOff, Continue, WaitersStay, Waiting, PoolInv,
         PlaceTypes, waitVars, Actors
  <2>15. CASE Complete(w)
    BY <2>0, <2>15, PoolAssumption DEF Complete, Continue, WaitersStay, Waiting, PoolInv,
         PlaceTypes, waitVars, Actors
  <2>16. CASE DestroyTask(w)
    BY <2>0, <2>16, PoolAssumption DEF DestroyTask, Continue, WaitersStay, Waiting, PoolInv,
         PlaceTypes, waitVars, Actors
  <2>17. CASE Finished(w)
    BY <2>0, <2>17, PoolAssumption DEF Finished, Continue, WaitersStay, Waiting, PoolInv,
         PlaceTypes, waitVars, Actors
  <2>18. CASE AnyWaiter(w)
    BY <2>0, <2>18, PoolAssumption DEF AnyWaiter, Continue, WaitersStay, Waiting, PoolInv,
         PlaceTypes, waitVars, Actors
  <2>19. CASE PassMutex(w)
    BY <2>0, <2>19, PoolAssumption DEF PassMutex, Continue, WaitersStay, Waiting, PoolInv,
         PlaceTypes, waitVars, Actors
  <2>20. CASE NotifyAll(w)
    BY <2>0, <2>20, PoolAssumption DEF NotifyAll, Continue, WaitersStay, Waiting, PoolInv,
         PlaceTypes, waitVars, Actors
  <2> QED
    BY <1>3, <2>1, <2>2, <2>3, <2>4, <2>5, <2>6, <2>7, <2>8, <2>9, <2>10, <2>11, <2>12, <2>13,
         <2>14, <2>15, <2>16, <2>17, <2>18, <2>19, <2>20 DEF Worker, OnTasksFinished
<1> QED
  BY <1>1, <1>2, <1>3 DEF Next


LEMMA WaitersKept ==
  ASSUME PoolInv, [Next]_vars
  PROVE  WaitersAreCounted'
<1>0. IsFiniteSet(Waiters) /\ idleWaiters = Cardinality(Waiters) /\ Cardinality(Waiters) \in Nat
  BY PoolAssumption, FS_Subset, FS_CardinalityType DEF Waiters, PoolInv, WaitersAreCounted
<1>1. CASE WaitersStay
  BY <1>0, <1>1 DEF WaitersStay, Waiting, Waiters, WaitersAreCounted
<1>2. ASSUME NEW c \in Clients, BeginWait(c)
      PROVE  WaitersAreCounted'
  <2>1. /\ pc[c] = "idle" /\ pc'[c] = "lockCheck" /\ idleWaiters' = idleWaiters + 1
        /\ \A d \in Clients \ {c} : pc'[d] = pc[d]
    BY <1>2 DEF BeginWait, Goto, PoolInv, PlaceTypes, Actors
  <2>2. c \notin Waiters /\ Waiters' = Waiters \cup {c}
    BY <2>1 DEF Waiters
  <2>3. Cardinality(Waiters \cup {c}) = Cardinality(Waiters) + 1
    BY <1>0, <2>2, FS_AddElement
  <2> QED
    BY <1>0, <2>1, <2>2, <2>3 DEF WaitersAreCounted
<1>3. ASSUME NEW c \in Clients, EndWait(c)
      PROVE  WaitersAreCounted'
  <2>1. /\ pc[c] = "endWait" /\ pc'[c] = "idle" /\ idleWaiters' = idleWaiters - 1
        /\ \A d \in Clients \ {c} : pc'[d] = pc[d]
    BY <1>3 DEF EndWait, Goto, PoolInv, PlaceTypes, Actors
  <2>2. c \in Waiters /\ Waiters' = Waiters \ {c}
    BY <2>1 DEF Waiters
  <2>3. Cardinality(Waiters \ {c}) = Cardinality(Waiters) - 1
    BY <1>0, <2>2, FS_RemoveElement
  <2> QED
    BY <1>0, <2>1, <2>2, <2>3 DEF WaitersAreCounted
<1> QED
  BY <1>1, <1>2, <1>3, WaitersStayOrBegin DEF WaitsBegin

-----------------------------------------------------------------------------
(* Promises. *)

\* Promises are set once, those of tasks only by running them.
PromisesStay == UNCHANGED <<promise, captured, call, kind, calls, outcome>>

LEMMA MostPromisesStay ==
  ASSUME PoolInv, Quiet \/ Engaging
  PROVE  \/ PromisesStay
         \/ \E c \in Clients, k \in CallKinds : Call(c, k)
         \/ \E c \in Clients : BuildTask(c) \/ BuildThrows(c) \/ Fill(c) \/ DropTask(c)
         \/ \E w \in Workers, how \in {"returned", "threw"} : RunTask(w, how)
         \/ \E w \in Workers : Complete(w) \/ DestroyTask(w)
<1>1. CASE Quiet
  BY <1>1 DEF Quiet, taskVars, PromisesStay
<1>2. ASSUME NEW c \in Clients, onTaskEnqueued(c)
      PROVE  PromisesStay
  BY <1>2, onTaskEnqueuedFrame DEF PromisesStay
<1>3. ASSUME NEW c \in Clients, Reserve(c)
      PROVE  PromisesStay
  BY <1>3, ReserveFrame DEF PromisesStay
<1>4. ASSUME NEW c \in Clients, Finished(c)
      PROVE  PromisesStay
  BY <1>4, ClientFinishedFrame DEF PromisesStay
<1>5. ASSUME NEW c \in Clients, AllDropped(c)
      PROVE  PromisesStay
  BY <1>5, AllDroppedFrame DEF PromisesStay
<1>6. ASSUME NEW w \in Workers, PopTask(w)
      PROVE  PromisesStay
  BY <1>6, PopTaskFrame DEF PromisesStay
<1>7. ASSUME NEW w \in Workers, onTaskStarted(w)
      PROVE  PromisesStay
  BY <1>7, onTaskStartedFrame DEF PromisesStay
<1>8. ASSUME NEW w \in Workers, FailBatch(w)
      PROVE  PromisesStay
  BY <1>8, FailBatchFrame DEF PromisesStay
<1>9. ASSUME NEW w \in Workers, KeepError(w)
      PROVE  PromisesStay
  BY <1>9, KeepErrorFrame DEF PromisesStay
<1>10. ASSUME NEW w \in Workers, CountOff(w)
      PROVE  PromisesStay
  BY <1>10, CountOffFrame DEF PromisesStay
<1>11. ASSUME NEW w \in Workers, Finished(w)
      PROVE  PromisesStay
  BY <1>11, WorkerFinishedFrame DEF PromisesStay
<1> QED
  BY <1>1, <1>2, <1>3, <1>4, <1>5, <1>6, <1>7, <1>8, <1>9, <1>10, <1>11 DEF Engaging,
       ClientEngages, WorkerEngages

LEMMA PromisesMove ==
  ASSUME PoolInv, Quiet \/ Engaging
  PROVE  \/ \E c \in Clients, k \in CallKinds : Call(c, k)
         \/ /\ UNCHANGED <<kind, calls>>
            /\ \A m \in CallIds, i \in 0 .. MaxSize :
                 \/ promise'[m][i] = promise[m][i]
                 \/ /\ promise[m][i] = "pending"
                    /\ promise'[m][i] \in {"value", "exception", "broken"}
<1> DEFINE Moves == /\ UNCHANGED <<kind, calls>>
                    /\ \A m \in CallIds, i \in 0 .. MaxSize :
                         \/ promise'[m][i] = promise[m][i]
                         \/ /\ promise[m][i] = "pending"
                            /\ promise'[m][i] \in {"value", "exception", "broken"}
<1>1. CASE PromisesStay
  BY <1>1 DEF PromisesStay
<1>2. ASSUME NEW c \in Clients, BuildTask(c) PROVE Moves
  BY <1>2, BuildTaskFrame
<1>3. ASSUME NEW c \in Clients, BuildThrows(c) PROVE Moves
  BY <1>3, BuildThrowsFrame, ThrowPoints
<1>4. ASSUME NEW c \in Clients, Fill(c) PROVE Moves
  BY <1>4, FillFrame
<1>5. ASSUME NEW c \in Clients, DropTask(c) PROVE Moves
  BY <1>5, DropTaskFrame, DropPoints
<1>6. ASSUME NEW w \in Workers, NEW how \in {"returned", "threw"}, RunTask(w, how) PROVE Moves
  <2>1. pc[w] = "run" /\ UNCHANGED <<kind, calls>>
    BY <1>6, RunTaskFrame
  <2>2. kind[task[w][1]].kind \in {"each", "merged"} => promise[task[w][1]][task[w][2]] = "pending"
    BY <2>1, RunPending
  <2> QED
    BY <1>6, <2>1, <2>2, RunPoints
<1>7. ASSUME NEW w \in Workers, Complete(w) PROVE Moves
  <2>1. pc[w] = "complete" /\ UNCHANGED <<kind, calls>>
    BY <1>7, CompleteFrame
  <2>2. kind[task[w][1]].kind = "void" => promise[task[w][1]][0] = "pending"
    BY <2>1, CompletePending
  <2> QED
    BY <1>7, <2>1, <2>2, CompletePoints
<1>8. ASSUME NEW w \in Workers, DestroyTask(w) PROVE Moves
  BY <1>8, DestroyTaskFrame, DestroyPoints
<1> QED
  BY <1>1, <1>2, <1>3, <1>4, <1>5, <1>6, <1>7, <1>8, MostPromisesStay

\* What a call does to promises: it makes those of its own number.
LEMMA CallPoints ==
  ASSUME PoolInv, NEW c \in Clients, NEW k \in CallKinds, Call(c, k)
  PROVE  /\ calls \in Nat /\ calls' = calls + 1 /\ calls + 1 \in CallIds
         /\ kind'[calls + 1] = k /\ k.size \in 0 .. MaxSize
         /\ \A m \in CallIds : m # calls + 1 => promise'[m] = promise[m] /\ kind'[m] = kind[m]
         /\ \A m \in CallIds : m # calls + 1 => (m <= calls' <=> m <= calls)
         /\ \A l \in CallIds, i \in 0 .. MaxSize : l = calls + 1 =>
              /\ promise'[l][i] # "none" <=> HasPromise(l, i)'
              /\ promise'[l][i] = "pending" => k.size # 0
              /\ promise'[l][i] \in {"none", "pending", "value"}
              /\ i # 0 => promise'[l][i] # "value"
<1>1. calls \in Nat /\ MaxSize \in Nat
  BY PoolAssumption DEF PoolInv, CallTypes
<1>2. /\ calls' = calls + 1 /\ calls + 1 \in CallIds /\ k \in [kind : Kinds, size : 0 .. MaxSize]
      /\ kind'[calls + 1] = k /\ \A l \in CallIds \ {calls + 1} : kind'[l] = kind[l]
      /\ \A l \in CallIds \ {calls + 1} : promise'[l] = promise[l]
      /\ \A i \in 0 .. MaxSize : promise'[calls + 1][i] =
           IF k.kind = "void" /\ i = 0 THEN IF k.size = 0 THEN "value" ELSE "pending"
           ELSE IF k.kind \in {"each", "merged"} /\ i \in 1 .. k.size THEN "pending"
           ELSE "none"
  BY CallFrame
<1>3. \A m \in CallIds : m # calls + 1 => (m <= calls' <=> m <= calls)
  BY <1>1, <1>2 DEF CallIds
<1>4. k.size \in 0 .. MaxSize /\ calls + 1 <= calls'
  BY <1>1, <1>2
<1>5. ASSUME NEW l \in CallIds, NEW i \in 0 .. MaxSize, l = calls + 1
      PROVE  /\ promise'[l][i] # "none" <=> HasPromise(l, i)'
             /\ promise'[l][i] = "pending" => k.size # 0
             /\ promise'[l][i] \in {"none", "pending", "value"}
             /\ i # 0 => promise'[l][i] # "value"
  <2>1. i # 0 => (i \in 1 .. k.size <=> i <= k.size)
    BY <1>1, <1>4
  <2>2. l <= calls' /\ kind'[l] = k
    BY <1>2, <1>4, <1>5
  <2>3. HasPromise(l, i)' <=> IF i = 0 THEN k.kind = "void" ELSE k.kind \in {"each", "merged"} /\ i <= k.size
    BY <2>2 DEF HasPromise
  <2>4. promise'[l][i] = IF k.kind = "void" /\ i = 0 THEN IF k.size = 0 THEN "value" ELSE "pending"
                         ELSE IF k.kind \in {"each", "merged"} /\ i \in 1 .. k.size THEN "pending"
                         ELSE "none"
    BY <1>2, <1>5
  <2>5. i # 0 /\ i \in 1 .. k.size => k.size # 0
    BY <1>4
  <2> QED
    BY <2>1, <2>3, <2>4, <2>5
<1> QED
  BY <1>1, <1>2, <1>3, <1>4, <1>5

LEMMA FitKept ==
  ASSUME PoolInv, Quiet \/ Engaging
  PROVE  PromisesFit'
<1>1. ASSUME NEW c \in Clients, NEW k \in CallKinds, Call(c, k)
      PROVE  PromisesFit'
  <2> SUFFICES ASSUME NEW l \in CallIds, NEW i \in 0 .. MaxSize
               PROVE  promise'[l][i] # "none" <=> HasPromise(l, i)'
    BY DEF PromisesFit
  <2>1. CASE l = calls + 1
    BY <1>1, <2>1, CallPoints
  <2>2. CASE l # calls + 1
    <3>1. HasPromise(l, i)' <=> HasPromise(l, i)
      BY <1>1, <2>2, CallPoints DEF HasPromise
    <3> QED
      BY <1>1, <2>2, <3>1, CallPoints DEF PoolInv, PromisesFit
  <2> QED
    BY <2>1, <2>2
<1>2. CASE /\ UNCHANGED <<kind, calls>>
           /\ \A m \in CallIds, i \in 0 .. MaxSize :
                \/ promise'[m][i] = promise[m][i]
                \/ promise[m][i] = "pending" /\ promise'[m][i] \in {"value", "exception", "broken"}
  <2>1. \A m, i : HasPromise(m, i)' <=> HasPromise(m, i)
    BY <1>2 DEF HasPromise
  <2> QED
    BY <1>2, <2>1 DEF PoolInv, PromisesFit
<1> QED
  BY <1>1, <1>2, PromisesMove


LEMMA ResultsKept ==
  ASSUME PoolInv, Quiet \/ Engaging
  PROVE  ResultsTell'
<1>0. \A l \in CallIds, i \in 1 .. MaxSize : i \in 0 .. MaxSize /\ <<l, i>> \in Tasks
  BY PoolAssumption DEF Tasks
<1>1. ASSUME NEW c \in Clients, NEW k \in CallKinds, Call(c, k)
      PROVE  ResultsTell'
  <2> SUFFICES ASSUME NEW l \in CallIds, NEW i \in 1 .. MaxSize, HasPromise(l, i)'
               PROVE  /\ promise'[l][i] = "value" <=> outcome'[<<l, i>>] = "returned"
                      /\ promise'[l][i] = "exception" <=> outcome'[<<l, i>>] = "threw"
    BY DEF ResultsTell
  <2>1. outcome' = outcome
    BY <1>1, CallFrame
  <2>2. CASE l = calls + 1
    <3>1. promise'[l][i] \in {"none", "pending"}
      BY <1>0, <1>1, <2>2, CallPoints
    <3>2. <<l, i>> \in Tasks /\ <<l, i>>[1] > calls
      BY <1>0, <1>1, <2>2, CallPoints
    <3>3. outcome[<<l, i>>] = "none"
      BY <3>2 DEF PoolInv, OutcomesTell, Unbuilt
    <3> QED
      BY <2>1, <3>1, <3>3
  <2>3. CASE l # calls + 1
    <3>1. HasPromise(l, i) /\ promise'[l] = promise[l]
      BY <1>1, <2>3, CallPoints DEF HasPromise
    <3> QED
      BY <2>1, <3>1 DEF PoolInv, ResultsTell
  <2> QED
    BY <2>2, <2>3
<1>2. CASE /\ UNCHANGED <<kind, calls, outcome>>
           /\ \A m \in CallIds, i \in 1 .. MaxSize :
                \/ promise'[m][i] = promise[m][i]
                \/ promise[m][i] = "pending" /\ promise'[m][i] = "broken"
  <2>1. \A m, i : HasPromise(m, i)' <=> HasPromise(m, i)
    BY <1>2 DEF HasPromise
  <2> QED
    BY <1>2, <2>1 DEF PoolInv, ResultsTell
<1>3. ASSUME NEW w \in Workers, NEW how \in {"returned", "threw"}, RunTask(w, how)
      PROVE  ResultsTell'
  <2> SUFFICES ASSUME NEW l \in CallIds, NEW i \in 1 .. MaxSize, HasPromise(l, i)'
               PROVE  /\ promise'[l][i] = "value" <=> outcome'[<<l, i>>] = "returned"
                      /\ promise'[l][i] = "exception" <=> outcome'[<<l, i>>] = "threw"
    BY DEF ResultsTell
  <2>1. /\ outcome'[task[w]] = how /\ \A u \in Tasks : u # task[w] => outcome'[u] = outcome[u]
        /\ UNCHANGED <<kind, calls>> /\ pc[w] = "run"
    BY <1>3, RunTaskFrame
  <2>2. /\ task[w] = <<task[w][1], task[w][2]>>
        /\ task[w][1] \in CallIds /\ task[w][2] \in 1 .. MaxSize
    BY <2>1, RunsTask DEF Running
  <2>3. HasPromise(l, i) /\ kind[l].kind \in {"each", "merged"}
    BY <1>0, <2>1, PoolAssumption DEF HasPromise
  <2>4. promise'[l][i] = IF l = task[w][1] /\ i = task[w][2]
                         THEN IF how = "threw" THEN "exception" ELSE "value" ELSE promise[l][i]
    BY <1>0, <1>3, <2>3, RunPoints
  <2>5. CASE l = task[w][1] /\ i = task[w][2]
    <3>1. outcome'[<<l, i>>] = how
      BY <2>1, <2>2, <2>5
    <3> QED
      BY <2>4, <2>5, <3>1
  <2>6. CASE ~(l = task[w][1] /\ i = task[w][2])
    <3>1. <<l, i>> # task[w]
      BY <2>2, <2>6
    <3>2. outcome'[<<l, i>>] = outcome[<<l, i>>]
      BY <1>0, <2>1, <3>1
    <3> QED
      BY <2>3, <2>4, <2>6, <3>2 DEF PoolInv, ResultsTell
  <2> QED
    BY <2>5, <2>6
<1>4. ASSUME NEW c \in Clients, DropTask(c)
      PROVE  ResultsTell'
  <2> SUFFICES ASSUME NEW l \in CallIds, NEW i \in 1 .. MaxSize, HasPromise(l, i)'
               PROVE  /\ promise'[l][i] = "value" <=> outcome'[<<l, i>>] = "returned"
                      /\ promise'[l][i] = "exception" <=> outcome'[<<l, i>>] = "threw"
    BY DEF ResultsTell
  <2>1. PICK t \in Tasks : t = cells[1].task /\ outcome[t] = "none"
    BY <1>4, DropTaskFrame, TakenCells DEF PoolInv, OutcomesTell
  <2>2. /\ outcome'[t] = "dropped" /\ \A u \in Tasks : u # t => outcome'[u] = outcome[u]
        /\ UNCHANGED <<kind, calls>>
    BY <1>4, <2>1, DropTaskFrame
  <2>3. promise'[l][i] = promise[l][i] \/ (promise[l][i] = "pending" /\ promise'[l][i] = "broken")
    BY <1>0, <1>4, DropPoints
  <2>4. HasPromise(l, i)
    BY <2>2 DEF HasPromise
  <2>5. outcome'[<<l, i>>] = outcome[<<l, i>>] \/ (outcome[<<l, i>>] = "none" /\ outcome'[<<l, i>>] = "dropped")
    BY <1>0, <2>1, <2>2
  <2> QED
    BY <2>3, <2>4, <2>5 DEF PoolInv, ResultsTell
<1>5. CASE PromisesStay
  BY <1>2, <1>5 DEF PromisesStay
<1>6. ASSUME NEW c \in Clients, BuildTask(c) PROVE ResultsTell'
  BY <1>2, <1>6, BuildTaskFrame
<1>7. ASSUME NEW c \in Clients, BuildThrows(c) PROVE ResultsTell'
  BY <1>0, <1>2, <1>7, BuildThrowsFrame, ThrowPoints
<1>8. ASSUME NEW c \in Clients, Fill(c) PROVE ResultsTell'
  BY <1>2, <1>8, FillFrame
<1>9. ASSUME NEW w \in Workers, Complete(w) PROVE ResultsTell'
  <2>1. \A m \in CallIds, i \in 1 .. MaxSize : promise'[m][i] = promise[m][i]
    BY <1>0, <1>9, CompletePoints
  <2> QED
    BY <1>2, <1>9, <2>1, CompleteFrame
<1>10. ASSUME NEW w \in Workers, DestroyTask(w) PROVE ResultsTell'
  BY <1>0, <1>2, <1>10, DestroyTaskFrame, DestroyPoints
<1> QED
  BY <1>1, <1>3, <1>4, <1>5, <1>6, <1>7, <1>8, <1>9, <1>10, MostPromisesStay

\* The two promises' properties, for one of them.
PromiseHeld(l, i) ==
  IF kind[l].kind = "each"
    THEN /\ promise[l][i] = "broken" => <<l, i>> \notin captured /\ (Unbuilt(<<l, i>>) => ~Called(l))
         /\ promise[l][i] = "pending" => <<l, i>> \in captured \/ (Unbuilt(<<l, i>>) /\ Called(l))
    ELSE /\ promise[l][i] = "broken" => ~Open(l)
         /\ promise[l][i] = "pending" => Open(l)

LEMMA HeldAre == BrokenIsOver /\ PendingIsHeld <=> \A l \in CallIds, i \in 0 .. MaxSize : PromiseHeld(l, i)
BY DEF BrokenIsOver, PendingIsHeld, PromiseHeld

\* A promise of a call that takes one task from each is that of a task.
LEMMA EachHasTask ==
  ASSUME PoolInv, NEW l \in CallIds, NEW i \in 0 .. MaxSize, kind[l].kind = "each",
         promise[l][i] \in {"pending", "broken"}
  PROVE  i \in 1 .. MaxSize /\ <<l, i>> \in Tasks /\ i <= kind[l].size
<1>1. HasPromise(l, i)
  BY DEF PoolInv, PromisesFit
<1>2. i # 0 /\ i <= kind[l].size
  BY <1>1 DEF HasPromise
<1> QED
  BY <1>2, PoolAssumption DEF Tasks

\* What neither takes a task nor lets go of a call changes nothing.
LEMMA HeldStays ==
  ASSUME PoolInv, UNCHANGED <<captured, call, kind>>,
         \A u \in Tasks : Unbuilt(u)' <=> Unbuilt(u),
         \A l \in CallIds, i \in 0 .. MaxSize :
           promise'[l][i] \in {"pending", "broken"} => promise'[l][i] = promise[l][i]
  PROVE  \A l \in CallIds, i \in 0 .. MaxSize : PromiseHeld(l, i)'
<1> SUFFICES ASSUME NEW l \in CallIds, NEW i \in 0 .. MaxSize, promise'[l][i] \in {"pending", "broken"}
             PROVE  PromiseHeld(l, i)'
  BY DEF PromiseHeld
<1>1. PromiseHeld(l, i) /\ promise'[l][i] = promise[l][i]
  BY HeldAre DEF PoolInv
<1>2. (Open(l)' <=> Open(l)) /\ (Called(l)' <=> Called(l))
  BY DEF Open, Called
<1>3. CASE kind[l].kind = "each"
  <2>1. Unbuilt(<<l, i>>)' <=> Unbuilt(<<l, i>>)
    BY <1>1, <1>3, EachHasTask
  <2> QED
    BY <1>1, <1>2, <1>3, <2>1 DEF PromiseHeld
<1>4. CASE kind[l].kind # "each"
  BY <1>1, <1>2, <1>4 DEF PromiseHeld
<1> QED
  BY <1>3, <1>4

\* The captures of a task go, that was built.
LEMMA HeldWhenForgotten ==
  ASSUME PoolInv, NEW t \in captured, captured' = captured \ {t}, UNCHANGED <<call, kind>>,
         \A u \in Tasks : Unbuilt(u)' <=> Unbuilt(u),
         \A m \in CallIds, i \in 0 .. MaxSize :
           promise'[m][i] = IF /\ m = t[1] /\ promise[m][i] = "pending"
                               /\ IF kind[m].kind = "each" THEN i = t[2] ELSE ~Open(m)'
                            THEN "broken" ELSE promise[m][i]
  PROVE  \A l \in CallIds, i \in 0 .. MaxSize : PromiseHeld(l, i)'
<1> SUFFICES ASSUME NEW l \in CallIds, NEW i \in 0 .. MaxSize, promise'[l][i] \in {"pending", "broken"}
             PROVE  PromiseHeld(l, i)'
  BY DEF PromiseHeld
<1>1. PromiseHeld(l, i) /\ promise[l][i] \in {"pending", "broken"}
  BY HeldAre DEF PoolInv
<1>2. Called(l)' <=> Called(l)
  BY DEF Called
<1>3. t = <<t[1], t[2]>>
  BY TaskFits
<1>4. CASE kind[l].kind = "each"
  <2>1. <<l, i>> \in Tasks /\ (Unbuilt(<<l, i>>)' <=> Unbuilt(<<l, i>>))
    BY <1>1, <1>4, EachHasTask
  <2>2. <<l, i>> = t <=> l = t[1] /\ i = t[2]
    BY <1>3
  <2>3. ~Unbuilt(t)
    BY DEF Unbuilt
  <2>4. promise'[l][i] = IF <<l, i>> = t /\ promise[l][i] = "pending" THEN "broken" ELSE promise[l][i]
    BY <1>4, <2>2
  <2> QED
    BY <1>1, <1>2, <1>4, <2>1, <2>3, <2>4 DEF PromiseHeld
<1>5. CASE kind[l].kind # "each" /\ l = t[1]
  <2>1. Open(l)' => Open(l)
    BY DEF Open
  <2>2. promise'[l][i] = IF promise[l][i] = "pending" /\ ~Open(l)' THEN "broken" ELSE promise[l][i]
    BY <1>5
  <2> QED
    BY <1>1, <1>5, <2>1, <2>2 DEF PromiseHeld
<1>6. CASE kind[l].kind # "each" /\ l # t[1]
  <2>1. Open(l)' <=> Open(l)
    BY <1>6 DEF Open
  <2>2. promise'[l][i] = promise[l][i]
    BY <1>6
  <2> QED
    BY <1>1, <1>6, <2>1, <2>2 DEF PromiseHeld
<1> QED
  BY <1>4, <1>5, <1>6

LEMMA HeldKept ==
  ASSUME PoolInv, Quiet \/ Engaging
  PROVE  BrokenIsOver' /\ PendingIsHeld'
<1> DEFINE Held == \A l \in CallIds, i \in 0 .. MaxSize : PromiseHeld(l, i)
<1>0. \A l \in CallIds, i \in 0 .. MaxSize : PromiseHeld(l, i)
  BY HeldAre DEF PoolInv
<1>1. ASSUME PromisesStay
      PROVE  Held'
  <2>1. \A u \in Tasks : Unbuilt(u)' <=> Unbuilt(u)
    BY <1>1 DEF PromisesStay, Unbuilt
  <2> QED
    BY <1>1, <2>1, HeldStays DEF PromisesStay
<1>2. ASSUME NEW c \in Clients, NEW k \in CallKinds, Call(c, k)
      PROVE  Held'
  <2> SUFFICES ASSUME NEW l \in CallIds, NEW i \in 0 .. MaxSize, promise'[l][i] \in {"pending", "broken"}
               PROVE  PromiseHeld(l, i)'
    BY DEF PromiseHeld
  <2>1. /\ call'[c] = (IF k.size = 0 THEN None ELSE calls + 1)
        /\ \A d \in Clients \ {c} : call'[d] = call[d]
        /\ pc[c] = "idle" /\ calls + 1 \in CallIds
        /\ UNCHANGED <<captured, outcome>>
    BY <1>2, CallFrame
  <2>2. call[c] = None
    BY <2>1 DEF PoolInv, CallersTell, Submitting
  <2>3. CASE l = calls + 1
    <3>1. k.size # 0 /\ promise'[l][i] = "pending"
      BY <1>2, <2>3, CallPoints
    <3>2. call'[c] = l
      BY <2>1, <2>3, <3>1
    <3>3. Open(l)' /\ Called(l)'
      BY <3>2 DEF Open, Called
    <3>4. i # 0 => Unbuilt(<<l, i>>)'
      <4>1. i # 0 => <<l, i>> \in Tasks /\ <<l, i>>[1] > calls
        BY <1>2, <2>3, CallPoints, PoolAssumption DEF Tasks
      <4>2. i # 0 => Unbuilt(<<l, i>>)
        BY <4>1 DEF PoolInv, OutcomesTell
      <4> QED
        BY <2>1, <4>2 DEF Unbuilt
    <3>5. HasPromise(l, i)'
      BY <1>2, <2>3, <3>1, CallPoints
    <3>6. kind'[l].kind = "each" => i # 0
      BY <3>5 DEF HasPromise
    <3> QED
      BY <3>1, <3>3, <3>4, <3>6 DEF PromiseHeld
  <2>4. CASE l # calls + 1
    <3>1. promise'[l] = promise[l] /\ kind'[l] = kind[l]
      BY <1>2, <2>4, CallPoints
    <3>2. \A n \in CallIds : n # None
      <4>1. CallIds \subseteq Nat
        BY DEF CallIds
      <4> QED
        BY <4>1, PoolAssumption
    <3>3. Called(l)' <=> Called(l)
      BY <2>1, <2>2, <2>4, <3>2 DEF Called
    <3>4. Open(l)' <=> Open(l)
      BY <2>1, <3>3 DEF Open, Called
    <3>5. Unbuilt(<<l, i>>)' <=> Unbuilt(<<l, i>>)
      BY <2>1 DEF Unbuilt
    <3> QED
      BY <1>0, <2>1, <3>1, <3>3, <3>4, <3>5 DEF PromiseHeld
  <2> QED
    BY <2>3, <2>4
<1>3. ASSUME NEW c \in Clients, BuildTask(c)
      PROVE  Held'
  <2> SUFFICES ASSUME NEW l \in CallIds, NEW i \in 0 .. MaxSize, promise'[l][i] \in {"pending", "broken"}
               PROVE  PromiseHeld(l, i)'
    BY DEF PromiseHeld
  <2>1. PICK t \in Tasks : t = <<call[c], todo[c] + 1>> /\ t[1] = call[c]
    BY <1>3, BuildTaskFrame
  <2>2. /\ captured' = captured \cup {t} /\ Unbuilt(t)
        /\ UNCHANGED <<promise, call, kind, outcome>>
    BY <1>3, <2>1, BuildTaskFrame
  <2>3. Called(l)' <=> Called(l)
    BY <2>2 DEF Called
  <2>4. Called(t[1]) /\ Open(t[1])
    BY <2>1 DEF Called, Open
  <2>5. Open(l)' <=> Open(l)
    BY <2>2, <2>4 DEF Open
  <2>6. Unbuilt(<<l, i>>)' <=> Unbuilt(<<l, i>>) /\ <<l, i>> # t
    BY <2>2 DEF Unbuilt
  <2>7. <<l, i>> = t => Called(l)
    BY <2>4
  <2> QED
    BY <1>0, <2>2, <2>3, <2>5, <2>6, <2>7 DEF PromiseHeld
<1>4. ASSUME NEW c \in Clients, BuildThrows(c)
      PROVE  Held'
  <2> SUFFICES ASSUME NEW l \in CallIds, NEW i \in 0 .. MaxSize, promise'[l][i] \in {"pending", "broken"}
               PROVE  PromiseHeld(l, i)'
    BY DEF PromiseHeld
  <2>1. /\ pc[c] = "build" /\ call[c] \in CallIds /\ todo[c] \in Nat
        /\ call'[c] = None /\ \A d \in Clients \ {c} : call'[d] = call[d]
        /\ UNCHANGED <<captured, kind, outcome>>
    BY <1>4, BuildThrowsFrame, ThrowPoints DEF PoolInv, CallTypes
  <2>2. promise'[l][i] = IF /\ l = call[c] /\ promise[l][i] = "pending"
                            /\ IF kind[l].kind = "each" THEN i > todo[c] ELSE ~Open(l)'
                         THEN "broken" ELSE promise[l][i]
    BY <1>4, ThrowPoints
  <2>3. l # None
    BY PoolAssumption DEF CallIds
  <2>4. Unbuilt(<<l, i>>)' <=> Unbuilt(<<l, i>>)
    BY <2>1 DEF Unbuilt
  <2>5. promise[l][i] \in {"pending", "broken"}
    BY <2>2
  <2>6. CASE kind[l].kind # "each"
    <3>1. Open(l)' => Open(l)
      BY <2>1, <2>3 DEF Open
    <3>2. l # call[c] => (Open(l)' <=> Open(l))
      BY <2>1, <2>3 DEF Open
    <3> QED
      BY <1>0, <2>1, <2>2, <2>6, <3>1, <3>2 DEF PromiseHeld
  <2>7. CASE kind[l].kind = "each" /\ l # call[c]
    <3>1. Called(l)' <=> Called(l)
      BY <2>1, <2>3, <2>7 DEF Called
    <3> QED
      BY <1>0, <2>1, <2>2, <2>4, <2>7, <3>1 DEF PromiseHeld
  <2>8. CASE kind[l].kind = "each" /\ l = call[c]
    <3>1. Called(l) /\ ~Called(l)'
      BY <2>1, <2>3, <2>8 DEF Called, PoolInv, CallersTell
    <3>2. i \in 1 .. MaxSize
      BY <2>5, <2>8, EachHasTask
    <3>3. Unbuilt(<<l, i>>) <=> i > todo[c]
      BY <2>1, <2>8, <3>2 DEF PoolInv, OutcomesTell, Submitting, Holding
    <3>4. Unbuilt(<<l, i>>) => <<l, i>> \notin captured
      BY DEF Unbuilt
    <3> QED
      BY <1>0, <2>1, <2>2, <2>4, <2>8, <3>1, <3>3, <3>4 DEF PromiseHeld
  <2> QED
    BY <2>6, <2>7, <2>8
<1>5. ASSUME NEW c \in Clients, Fill(c)
      PROVE  Held'
  <2> SUFFICES ASSUME NEW l \in CallIds, NEW i \in 0 .. MaxSize, promise'[l][i] \in {"pending", "broken"}
               PROVE  PromiseHeld(l, i)'
    BY DEF PromiseHeld
  <2>1. /\ pc[c] = "fill" /\ call'[c] = (IF todo[c] + 1 = kind[call[c]].size THEN None ELSE call[c])
        /\ \A d \in Clients \ {c} : call'[d] = call[d]
        /\ UNCHANGED <<captured, kind, outcome, promise>>
    BY <1>5, FillFrame
  <2>2. /\ call[c] \in CallIds /\ todo[c] + 1 \in 1 .. kind[call[c]].size
        /\ task[c] \in captured /\ task[c][1] = call[c] /\ todo[c] \in Nat /\ kind[call[c]].size \in Nat
    BY <2>1, HoldsTask DEF Holding, PoolInv, CallTypes
  <2>3. l # None
    BY PoolAssumption DEF CallIds
  <2>4. Unbuilt(<<l, i>>)' <=> Unbuilt(<<l, i>>)
    BY <2>1 DEF Unbuilt
  <2>5. Called(l)' => Called(l)
    BY <2>1, <2>3 DEF Called
  <2>6. Open(l)' <=> Open(l)
    BY <2>1, <2>2, <2>3 DEF Open
  <2>7. CASE l # call[c] \/ call'[c] = call[c]
    <3>1. Called(l)' <=> Called(l)
      BY <2>1, <2>3, <2>7 DEF Called
    <3> QED
      BY <1>0, <2>1, <2>4, <2>6, <3>1 DEF PromiseHeld
  <2>8. CASE kind[l].kind # "each"
    BY <1>0, <2>1, <2>6, <2>8 DEF PromiseHeld
  <2>9. CASE kind[l].kind = "each" /\ l = call[c] /\ todo[c] + 1 = kind[l].size
    <3>1. i \in 1 .. MaxSize /\ i <= kind[l].size
      BY <2>1, <2>9, EachHasTask
    <3>2. Unbuilt(<<l, i>>) <=> i > todo[c] + 1
      BY <2>1, <2>9, <3>1 DEF PoolInv, OutcomesTell, Submitting, Holding
    <3>3. ~Unbuilt(<<l, i>>)
      BY <2>2, <2>9, <3>1, <3>2
    <3> QED
      BY <1>0, <2>1, <2>4, <2>5, <2>9, <3>3 DEF PromiseHeld
  <2> QED
    BY <2>1, <2>7, <2>8, <2>9
<1>6. ASSUME NEW c \in Clients, DropTask(c)
      PROVE  Held'
  <2>1. PICK t \in captured : t = cells[1].task
    BY <1>6, DropPoints
  <2>2. /\ captured' = captured \ {t} /\ UNCHANGED <<call, kind>>
        /\ outcome'[t] = "dropped" /\ \A u \in Tasks : u # t => outcome'[u] = outcome[u]
    BY <1>6, <2>1, DropPoints, DropTaskFrame
  <2>3. \A u \in Tasks : Unbuilt(u)' <=> Unbuilt(u)
    BY <2>2 DEF Unbuilt
  <2>4. \A m \in CallIds, i \in 0 .. MaxSize :
          promise'[m][i] = IF /\ m = t[1] /\ promise[m][i] = "pending"
                              /\ IF kind[m].kind = "each" THEN i = t[2] ELSE ~Open(m)'
                           THEN "broken" ELSE promise[m][i]
    BY <1>6, <2>1, DropPoints
  <2> QED
    BY <2>2, <2>3, <2>4, HeldWhenForgotten
<1>7. ASSUME NEW w \in Workers, NEW how \in {"returned", "threw"}, RunTask(w, how)
      PROVE  Held'
  <2>1. /\ outcome'[task[w]] = how /\ \A u \in Tasks : u # task[w] => outcome'[u] = outcome[u]
        /\ UNCHANGED <<call, kind, captured>> /\ task[w] \in captured
    BY <1>7, RunTaskFrame, RunPoints
  <2>2. \A u \in Tasks : Unbuilt(u)' <=> Unbuilt(u)
    BY <2>1 DEF Unbuilt
  <2>3. \A l \in CallIds, i \in 0 .. MaxSize :
          promise'[l][i] \in {"pending", "broken"} => promise'[l][i] = promise[l][i]
    BY <1>7, RunPoints
  <2> QED
    BY <2>1, <2>2, <2>3, HeldStays
<1>8. ASSUME NEW w \in Workers, Complete(w)
      PROVE  Held'
  <2>1. UNCHANGED <<call, kind, captured, outcome>>
    BY <1>8, CompleteFrame
  <2>2. \A u \in Tasks : Unbuilt(u)' <=> Unbuilt(u)
    BY <2>1 DEF Unbuilt
  <2>3. \A l \in CallIds, i \in 0 .. MaxSize :
          promise'[l][i] \in {"pending", "broken"} => promise'[l][i] = promise[l][i]
    BY <1>8, CompletePoints
  <2> QED
    BY <2>1, <2>2, <2>3, HeldStays
<1>9. ASSUME NEW w \in Workers, DestroyTask(w)
      PROVE  Held'
  <2>1. PICK t \in captured : t = task[w]
    BY <1>9, DestroyPoints
  <2>2. /\ captured' = captured \ {t} /\ UNCHANGED <<call, kind, outcome>> /\ outcome[t] \in Over
    BY <1>9, <2>1, DestroyPoints, DestroyTaskFrame DEF PoolInv, OutcomesTell, Ran
  <2>3. \A u \in Tasks : Unbuilt(u)' <=> Unbuilt(u)
    BY <2>2 DEF Unbuilt, Over
  <2>4. \A m \in CallIds, i \in 0 .. MaxSize :
          promise'[m][i] = IF /\ m = t[1] /\ promise[m][i] = "pending"
                              /\ IF kind[m].kind = "each" THEN i = t[2] ELSE ~Open(m)'
                           THEN "broken" ELSE promise[m][i]
    BY <1>9, <2>1, DestroyPoints
  <2> QED
    BY <2>2, <2>3, <2>4, HeldWhenForgotten
<1>10. BrokenIsOver' /\ PendingIsHeld' <=> Held'
  BY HeldAre, PTL
<1> HIDE DEF Held
<1>11. Held'
  BY <1>1, <1>2, <1>3, <1>4, <1>5, <1>6, <1>7, <1>8, <1>9, MostPromisesStay
<1> QED
  BY <1>10, <1>11

-----------------------------------------------------------------------------
(* Batches. *)

Batching == {"fail", "keep", "sub", "complete"}

WorkersStay ==
  \A w \in Workers : pc[w] \in Batching \/ pc'[w] \in Batching => pc'[w] = pc[w] /\ task'[w] = task[w]

BatchesStay ==
  /\ WorkersStay
  /\ UNCHANGED <<outcome, kind, calls, remaining, error, promise, callbacks>>

Aside ==
  \/ \E c \in Clients, k \in CallKinds : Call(c, k)
  \/ \E c \in Clients : BuildThrows(c) \/ DropTask(c)
  \/ \E w \in Workers : DestroyTask(w)

\* What runs in a batch, and is counted off by it.
InBatch(w) == FailBatch(w) \/ KeepError(w) \/ CountOff(w) \/ Complete(w)

LEMMA MostBatchesStay ==
  ASSUME PoolInv, Quiet \/ Engaging
  PROVE  \/ BatchesStay
         \/ WorkersStay /\ Aside
         \/ \E w \in Workers, how \in {"returned", "threw"} : RunTask(w, how)
         \/ \E w \in Workers : InBatch(w)
<1>1. CASE Quiet
  <2>1. \A w \in Workers : Aloof(w)
    BY <1>1 DEF Quiet, Actors
  <2>2. WorkersStay
    BY <1>1, <2>1 DEF Quiet, Aloof, Engaged, Running, WorkersStay, Batching
  <2> QED
    BY <1>1, <2>2 DEF Quiet, taskVars, BatchesStay
<1>2. ASSUME NEW c \in Clients, ClientEngages(c)
      PROVE  BatchesStay \/ (WorkersStay /\ Aside)
  <2>1. \A w \in Workers : pc'[w] = pc[w] /\ task'[w] = task[w]
    BY <1>2, ClientSteps, PoolAssumption DEF OthersStay, Actors
  <2>2. WorkersStay
    BY <2>1 DEF WorkersStay
  <2>3. CASE BuildTask(c)
    BY <2>2, <2>3, BuildTaskFrame DEF BatchesStay
  <2>4. CASE onTaskEnqueued(c)
    BY <2>2, <2>4, onTaskEnqueuedFrame DEF BatchesStay
  <2>5. CASE Reserve(c)
    BY <2>2, <2>5, ReserveFrame DEF BatchesStay
  <2>6. CASE Fill(c)
    BY <2>2, <2>6, FillFrame DEF BatchesStay
  <2>7. CASE Finished(c)
    BY <2>2, <2>7, ClientFinishedFrame DEF BatchesStay
  <2>8. CASE AllDropped(c)
    BY <2>2, <2>8, AllDroppedFrame DEF BatchesStay
  <2> QED
    BY <1>2, <2>2, <2>3, <2>4, <2>5, <2>6, <2>7, <2>8 DEF ClientEngages, Aside
<1>3. ASSUME NEW w \in Workers, PopTask(w) \/ onTaskStarted(w) \/ Finished(w)
      PROVE  BatchesStay
  <2>1. \A v \in Workers \ {w} : pc'[v] = pc[v] /\ task'[v] = task[v]
    BY <1>3, WorkerSteps DEF OthersStay, Actors, WorkerEngages
  <2>2. pc[w] \notin Batching /\ pc'[w] \notin Batching
    BY <1>3, PopTaskFrame, onTaskStartedFrame, WorkerFinishedFrame DEF Batching
  <2>3. WorkersStay
    BY <2>1, <2>2 DEF WorkersStay
  <2>4. UNCHANGED <<outcome, kind, calls, remaining, error, promise, callbacks>>
    BY <1>3, PopTaskFrame, onTaskStartedFrame, WorkerFinishedFrame
  <2> QED
    BY <2>3, <2>4 DEF BatchesStay
<1>4. ASSUME NEW w \in Workers, DestroyTask(w)
      PROVE  WorkersStay /\ Aside
  <2>1. \A v \in Workers \ {w} : pc'[v] = pc[v] /\ task'[v] = task[v]
    BY <1>4, WorkerSteps DEF OthersStay, Actors, WorkerEngages
  <2>2. pc[w] \notin Batching /\ pc'[w] \notin Batching
    BY <1>4, DestroyTaskFrame DEF Batching
  <2> QED
    BY <1>4, <2>1, <2>2 DEF WorkersStay, Aside
<1> QED
  BY <1>1, <1>2, <1>3, <1>4 DEF Engaging, WorkerEngages, InBatch

\* One that moves alone.
LEMMA OneInBatch ==
  ASSUME PoolInv, NEW w \in Workers,
         InBatch(w) \/ \E how \in {"returned", "threw"} : RunTask(w, how)
  PROVE  /\ \A v \in Workers \ {w} : pc'[v] = pc[v]
         /\ UNCHANGED <<task, kind, calls>>
         /\ pc[w] \in Running
         /\ task[w] \in Tasks /\ task[w] \in captured
         /\ task[w] = <<task[w][1], task[w][2]>>
         /\ task[w][1] \in CallIds /\ task[w][1] \in 1 .. calls
         /\ task[w][2] \in 1 .. kind[task[w][1]].size
         /\ \A v \in Workers \ {w} : task[v] # task[w]
<1>1. \A v \in Workers \ {w} : pc'[v] = pc[v]
  BY WorkerSteps DEF OthersStay, Actors, WorkerEngages, InBatch
<1>2. pc[w] \in Running /\ UNCHANGED <<task, kind, calls>>
  BY FailBatchFrame, KeepErrorFrame, CountOffFrame, CompleteFrame, RunTaskFrame DEF InBatch,
       Running
<1>3. /\ task[w] \in Tasks /\ task[w] \in captured /\ task[w] # None
      /\ task[w] = <<task[w][1], task[w][2]>>
      /\ task[w][1] \in CallIds /\ task[w][1] \in 1 .. calls
      /\ task[w][2] \in 1 .. kind[task[w][1]].size
  BY <1>2, RunsTask
<1>4. \A v \in Workers \ {w} : task[v] # task[w]
  BY <1>3 DEF PoolInv, OnePlace
<1> QED
  BY <1>1, <1>2, <1>3, <1>4

\* A batch with a task that is not counted off is not over.
LEMMA LeftAreCounted ==
  ASSUME PoolInv, NEW l \in 1 .. calls, IsBatch(l)
  PROVE  /\ IsFiniteSet(Left(l)) /\ remaining[l] = Cardinality(Left(l)) /\ remaining[l] \in Nat
         /\ \A i \in 1 .. kind[l].size : ~CountedOff(<<l, i>>) => remaining[l] # 0
<1>1. kind[l].size \in Nat
  BY PoolAssumption DEF PoolInv, CallTypes, CallIds
<1>2. IsFiniteSet(1 .. kind[l].size)
  BY <1>1, FS_Interval
<1>3. IsFiniteSet(Left(l))
  BY <1>2, FS_Subset DEF Left
<1>4. remaining[l] = Cardinality(Left(l))
  BY DEF PoolInv, CountDown
<1>5. ASSUME NEW i \in 1 .. kind[l].size, ~CountedOff(<<l, i>>)
      PROVE  remaining[l] # 0
  <2>1. i \in Left(l)
    BY <1>5 DEF Left
  <2> QED
    BY <1>3, <1>4, <2>1, FS_EmptySet
<1> QED
  BY <1>3, <1>4, <1>5, FS_CardinalityType

\* A worker that has still to count off its task.
LEMMA CountingIsLeft ==
  ASSUME PoolInv, NEW w \in Workers, pc[w] \in Counting
  PROVE  remaining[task[w][1]] # 0 /\ IsBatch(task[w][1]) /\ task[w][1] \in 1 .. calls
<1>1. /\ task[w] = <<task[w][1], task[w][2]>> /\ task[w][1] \in 1 .. calls
      /\ task[w][2] \in 1 .. kind[task[w][1]].size
  BY RunsTask DEF Counting, Running
<1>2. IsBatch(task[w][1])
  BY DEF PoolInv, WorkersTell, Counting, IsBatch
<1>3. ~CountedOff(<<task[w][1], task[w][2]>>)
  BY <1>1 DEF CountedOff
<1> QED
  BY <1>1, <1>2, <1>3, LeftAreCounted

\* A call that was not made has no task and no worker.
LEMMA NotCalled ==
  ASSUME PoolInv, NEW l \in CallIds, l > calls
  PROVE  /\ \A i \in 1 .. MaxSize : outcome[<<l, i>>] = "none"
         /\ \A w \in Workers : pc[w] \in Running => task[w][1] # l
         /\ error[l].kept = None /\ ~error[l].failed /\ callbacks[l] = 0
<1>1. \A i \in 1 .. MaxSize : outcome[<<l, i>>] = "none"
  BY DEF PoolInv, OutcomesTell, Unbuilt, Tasks
<1>2. calls \in Nat /\ l \in Nat
  BY DEF PoolInv, CallTypes, CallIds
<1>3. \A w \in Workers : pc[w] \in Running => task[w][1] # l
  BY <1>2, RunsTask
<1>4. error[l].kept = None
  <2> SUFFICES ASSUME error[l].kept # None PROVE FALSE
    OBVIOUS
  <2>1. PICK t \in Tasks : t = error[l].kept /\ t[1] = l /\ outcome[t] = "threw"
    BY DEF PoolInv, ErrorsTell, TaskTypes
  <2> QED
    BY <2>1 DEF PoolInv, OutcomesTell, Unbuilt
<1>5. ~error[l].failed
  BY <1>3, <1>4 DEF PoolInv, ErrorsTell, Running
<1> QED
  BY <1>1, <1>3, <1>4, <1>5 DEF PoolInv, NoOtherCallbacks

LEMMA WorkersTold ==
  ASSUME PoolInv, Quiet \/ Engaging
  PROVE  WorkersTell'
<1>0. \A w \in Workers : pc[w] \in Batching => pc[w] \in Running /\ task[w] \in Tasks /\ outcome[task[w]] \in Over
  BY RunsTask DEF Batching, Running, PoolInv, OutcomesTell, Ran
<1>1. CASE BatchesStay
  BY <1>1 DEF BatchesStay, WorkersStay, Batching, IsBatch, PoolInv, WorkersTell
<1>2. CASE WorkersStay /\ Aside
  <2>1. ASSUME NEW w \in Workers, pc[w] \in Batching
        PROVE  outcome'[task[w]] = outcome[task[w]] /\ kind'[task[w][1]] = kind[task[w][1]]
    <3>1. /\ task[w] \in Tasks /\ outcome[task[w]] \in Over
          /\ task[w][1] \in CallIds /\ task[w][1] \in 1 .. calls
      BY <1>0, <2>1, RunsTask
    <3>2. ASSUME NEW c \in Clients, NEW k \in CallKinds, Call(c, k)
          PROVE  outcome'[task[w]] = outcome[task[w]] /\ kind'[task[w][1]] = kind[task[w][1]]
      <4>1. task[w][1] # calls + 1
        BY <3>1, <3>2, CallPoints
      <4> QED
        BY <3>1, <3>2, <4>1, CallPoints, CallFrame
    <3>3. ASSUME NEW c \in Clients, BuildThrows(c)
          PROVE  outcome'[task[w]] = outcome[task[w]] /\ kind'[task[w][1]] = kind[task[w][1]]
      BY <3>3, BuildThrowsFrame
    <3>4. ASSUME NEW c \in Clients, DropTask(c)
          PROVE  outcome'[task[w]] = outcome[task[w]] /\ kind'[task[w][1]] = kind[task[w][1]]
      <4>1. outcome[cells[1].task] = "none"
        BY <3>4, DropTaskFrame, TakenCells DEF PoolInv, OutcomesTell
      <4> QED
        BY <3>1, <3>4, <4>1, DropTaskFrame DEF Over
    <3>5. ASSUME NEW v \in Workers, DestroyTask(v)
          PROVE  outcome'[task[w]] = outcome[task[w]] /\ kind'[task[w][1]] = kind[task[w][1]]
      BY <3>5, DestroyTaskFrame
    <3> QED
      BY <1>2, <3>2, <3>3, <3>4, <3>5 DEF Aside
  <2>2. \A w \in Workers : pc'[w] \in Batching => pc'[w] = pc[w] /\ task'[w] = task[w]
    BY <1>2 DEF WorkersStay
  <2> QED
    BY <2>1, <2>2 DEF PoolInv, WorkersTell, IsBatch, Batching
<1>3. ASSUME NEW w \in Workers, NEW how \in {"returned", "threw"}, RunTask(w, how)
      PROVE  WorkersTell'
  <2>1. /\ pc[w] = "run" /\ outcome'[task[w]] = how
        /\ \A t \in Tasks : t # task[w] => outcome'[t] = outcome[t]
    BY <1>3, RunTaskFrame
  <2>2. /\ pc'[w] \in {"fail", "sub", "destroy"}
        /\ pc'[w] = "fail" => kind[task[w][1]].kind = "void" /\ how = "threw"
        /\ pc'[w] = "sub" => IsBatch(task[w][1])
    BY <1>3, RunTaskFrame DEF IsBatch
  <2>3. ASSUME NEW v \in Workers \ {w}, pc'[v] \in Batching
        PROVE  pc'[v] = pc[v] /\ outcome'[task[v]] = outcome[task[v]]
    BY <1>0, <1>3, <2>1, <2>3, OneInBatch
  <2>4. UNCHANGED <<task, kind>>
    BY <1>3, OneInBatch
  <2> QED
    BY <2>1, <2>2, <2>3, <2>4 DEF PoolInv, WorkersTell, IsBatch, Batching
<1>4. ASSUME NEW w \in Workers, InBatch(w)
      PROVE  WorkersTell'
  <2>1. UNCHANGED <<task, kind, outcome>> /\ \A v \in Workers \ {w} : pc'[v] = pc[v]
    BY <1>4, OneInBatch, FailBatchFrame, KeepErrorFrame, CountOffFrame, CompleteFrame
       DEF InBatch
  <2>2. \/ pc[w] = "fail" /\ pc'[w] \in {"sub", "keep"}
        \/ pc[w] = "keep" /\ pc'[w] = "sub"
        \/ pc[w] = "sub" /\ pc'[w] \in {"complete", "destroy"}
        \/ pc[w] = "complete" /\ pc'[w] = "destroy"
    BY <1>4, FailBatchFrame, KeepErrorFrame, CountOffFrame, CompleteFrame DEF InBatch
  <2> QED
    BY <2>1, <2>2 DEF PoolInv, WorkersTell, IsBatch
<1> QED
  BY <1>1, <1>2, <1>3, <1>4, MostBatchesStay

LEMMA LeftStays ==
  ASSUME NEW l, kind'[l] = kind[l],
         \A i \in 1 .. kind[l].size : CountedOff(<<l, i>>)' <=> CountedOff(<<l, i>>)
  PROVE  Left(l)' = Left(l)
BY DEF Left

\* Who is counted off does not change with workers that stay where they are.
LEMMA CountedOffStays ==
  ASSUME PoolInv, NEW t \in Tasks, WorkersStay, outcome'[t] \in Over <=> outcome[t] \in Over
  PROVE  CountedOff(t)' <=> CountedOff(t)
<1>1. \A w \in Workers : pc'[w] \in Counting /\ task'[w] = t <=> pc[w] \in Counting /\ task[w] = t
  BY DEF WorkersStay, Counting, Batching
<1> QED
  BY <1>1 DEF CountedOff

LEMMA TaskOfCall ==
  ASSUME PoolInv, NEW l \in 1 .. calls, NEW i \in 1 .. kind[l].size
  PROVE  l \in CallIds /\ i \in 1 .. MaxSize /\ <<l, i>> \in Tasks
<1>1. l \in CallIds
  BY PoolAssumption DEF PoolInv, CallTypes, CallIds
<1>2. i \in 1 .. MaxSize
  BY <1>1, PoolAssumption DEF PoolInv, CallTypes
<1> QED
  BY <1>1, <1>2 DEF Tasks

LEMMA CountedDown ==
  ASSUME PoolInv, Quiet \/ Engaging
  PROVE  CountDown'
<1>1. ASSUME WorkersStay, UNCHANGED <<kind, calls, remaining>>,
             \A t \in Tasks : outcome'[t] \in Over <=> outcome[t] \in Over
      PROVE  CountDown'
  <2>1. \A l \in 1 .. calls : Left(l)' = Left(l)
    BY <1>1, CountedOffStays, TaskOfCall, LeftStays
  <2> QED
    BY <1>1, <2>1 DEF CountDown, IsBatch, PoolInv
<1>2. CASE BatchesStay
  BY <1>1, <1>2 DEF BatchesStay
<1>3. CASE WorkersStay /\ Aside
  <2>1. ASSUME NEW c \in Clients, NEW k \in CallKinds, Call(c, k)
        PROVE  CountDown'
    <3> SUFFICES ASSUME NEW l \in 1 .. calls', IsBatch(l)'
                 PROVE  remaining'[l] = Cardinality(Left(l)')
      BY DEF CountDown
    <3>1. /\ outcome' = outcome /\ remaining'[calls + 1] = k.size
          /\ \A m \in CallIds \ {calls + 1} : remaining'[m] = remaining[m]
      BY <2>1, CallFrame
    <3>2. CASE l = calls + 1
      <4>1. k.size \in 0 .. MaxSize /\ kind'[l] = k /\ l \in CallIds /\ l > calls /\ MaxSize \in Nat
        BY <2>1, <3>2, CallPoints, PoolAssumption
      <4>2. \A i \in 1 .. k.size : ~CountedOff(<<l, i>>)'
        BY <3>1, <4>1, NotCalled DEF CountedOff, Over
      <4>3. Left(l)' = 1 .. k.size
        BY <4>1, <4>2 DEF Left
      <4>4. k.size \in Int /\ 1 \in Int /\ (IF 1 > k.size THEN 0 ELSE k.size - 1 + 1) = k.size
        BY <4>1
      <4>5. Cardinality(1 .. k.size) = k.size
        BY <4>4, FS_Interval
      <4> QED
        BY <3>1, <3>2, <4>3, <4>5
    <3>3. CASE l # calls + 1
      <4>0. /\ calls' = calls + 1 /\ calls + 1 \in CallIds /\ calls \in Nat
            /\ \A m \in CallIds : m # calls + 1 => kind'[m] = kind[m]
        BY <2>1, CallPoints
      <4>5. l \in 1 .. calls /\ l \in CallIds
        BY <3>3, <4>0, PoolAssumption DEF CallIds
      <4>1. l \in 1 .. calls /\ l \in CallIds /\ kind'[l] = kind[l]
        BY <3>3, <4>0, <4>5
      <4>2. Left(l)' = Left(l)
        BY <1>3, <3>1, <4>1, CountedOffStays, TaskOfCall, LeftStays
      <4> QED
        BY <3>1, <3>3, <4>1, <4>2 DEF PoolInv, CountDown, IsBatch
    <3> QED
      BY <3>2, <3>3
  <2>2. ASSUME NEW c \in Clients, BuildThrows(c)
        PROVE  CountDown'
    BY <1>1, <1>3, <2>2, BuildThrowsFrame
  <2>3. ASSUME NEW c \in Clients, DropTask(c)
        PROVE  CountDown'
    <3>1. outcome[cells[1].task] = "none" /\ outcome'[cells[1].task] = "dropped"
      BY <2>3, DropTaskFrame, TakenCells DEF PoolInv, OutcomesTell
    <3>2. \A t \in Tasks : outcome'[t] \in Over <=> outcome[t] \in Over
      BY <2>3, <3>1, DropTaskFrame DEF Over
    <3> QED
      BY <1>1, <1>3, <2>3, <3>2, DropTaskFrame
  <2>4. ASSUME NEW w \in Workers, DestroyTask(w)
        PROVE  CountDown'
    BY <1>1, <1>3, <2>4, DestroyTaskFrame
  <2> QED
    BY <1>3, <2>1, <2>2, <2>3, <2>4 DEF Aside
<1>4. ASSUME NEW w \in Workers, NEW how \in {"returned", "threw"}, RunTask(w, how)
      PROVE  CountDown'
  <2> SUFFICES ASSUME NEW l \in 1 .. calls, IsBatch(l)
               PROVE  remaining'[l] = Cardinality(Left(l)')
    BY <1>4, RunTaskFrame DEF CountDown, IsBatch
  <2>1. /\ outcome'[task[w]] = how /\ \A t \in Tasks : t # task[w] => outcome'[t] = outcome[t]
        /\ UNCHANGED <<remaining, kind, task>> /\ pc[w] = "run"
        /\ \A v \in Workers \ {w} : pc'[v] = pc[v]
    BY <1>4, RunTaskFrame, OneInBatch
  <2>2. task[w] = <<task[w][1], task[w][2]>>
    BY <1>4, OneInBatch
  <2>3. \A i \in 1 .. kind[l].size : CountedOff(<<l, i>>)' <=> CountedOff(<<l, i>>)
    <3> SUFFICES ASSUME NEW i \in 1 .. kind[l].size
                 PROVE  CountedOff(<<l, i>>)' <=> CountedOff(<<l, i>>)
      OBVIOUS
    <3>1. CASE <<l, i>> = task[w]
      <4>1. task[w][1] = l
        BY <3>1
      <4>2. pc'[w] \in Counting
        BY <1>4, <4>1, RunTaskFrame DEF IsBatch, Counting
      <4>3. outcome[task[w]] = "none"
        BY <2>1 DEF PoolInv, OutcomesTell
      <4> QED
        BY <2>1, <3>1, <4>2, <4>3 DEF CountedOff, Over
    <3>2. CASE <<l, i>> # task[w]
      <4>1. outcome'[<<l, i>>] = outcome[<<l, i>>]
        BY <2>1, <3>2, TaskOfCall
      <4> QED
        BY <2>1, <3>2, <4>1 DEF CountedOff
    <3> QED
      BY <3>1, <3>2
  <2>4. Left(l)' = Left(l)
    BY <2>1, <2>3, LeftStays
  <2> QED
    BY <2>1, <2>4 DEF PoolInv, CountDown
<1>5. ASSUME NEW w \in Workers, FailBatch(w) \/ KeepError(w) \/ Complete(w)
      PROVE  CountDown'
  <2>1. /\ UNCHANGED <<task, kind, calls, outcome, remaining>>
        /\ \A v \in Workers \ {w} : pc'[v] = pc[v]
        /\ pc[w] \in Counting <=> pc'[w] \in Counting
    BY <1>5, OneInBatch, FailBatchFrame, KeepErrorFrame, CompleteFrame DEF InBatch, Counting
  <2>2. \A t : CountedOff(t)' <=> CountedOff(t)
    BY <2>1 DEF CountedOff
  <2>3. \A l \in 1 .. calls : Left(l)' = Left(l)
    BY <2>1, <2>2, LeftStays
  <2> QED
    BY <2>1, <2>3 DEF CountDown, IsBatch, PoolInv
<1>6. ASSUME NEW w \in Workers, CountOff(w)
      PROVE  CountDown'
  <2>1. /\ UNCHANGED <<task, kind, calls, outcome>>
        /\ \A v \in Workers \ {w} : pc'[v] = pc[v] /\ task[v] # task[w]
        /\ pc[w] = "sub" /\ pc'[w] \in {"complete", "destroy"}
        /\ task[w] = <<task[w][1], task[w][2]>>
        /\ task[w][1] \in 1 .. calls /\ task[w][2] \in 1 .. kind[task[w][1]].size
        /\ remaining'[task[w][1]] = remaining[task[w][1]] - 1
        /\ \A l \in CallIds : l # task[w][1] => remaining'[l] = remaining[l]
    BY <1>6, OneInBatch, CountOffFrame DEF InBatch
  <2> SUFFICES ASSUME NEW l \in 1 .. calls, IsBatch(l)
               PROVE  remaining'[l] = Cardinality(Left(l)')
    BY <2>1 DEF CountDown, IsBatch
  <2>2. CASE l = task[w][1]
    <3>1. PICK j \in 1 .. kind[l].size : task[w] = <<l, j>>
      BY <2>1, <2>2
    <3>2. outcome[<<l, j>>] \in Over
      BY <2>1, <3>1 DEF PoolInv, OutcomesTell, Ran
    <3>3. ~CountedOff(<<l, j>>)
      BY <2>1, <3>1 DEF CountedOff, Counting
    <3>4. CountedOff(<<l, j>>)'
      BY <2>1, <3>1, <3>2 DEF CountedOff, Counting
    <3>5. ASSUME NEW i \in 1 .. kind[l].size, i # j
          PROVE  CountedOff(<<l, i>>)' <=> CountedOff(<<l, i>>)
      <4>1. task[w] # <<l, i>>
        BY <3>1, <3>5
      <4> QED
        BY <2>1, <4>1 DEF CountedOff
    <3>6. Left(l)' = Left(l) \ {j}
      BY <2>1, <3>4, <3>5 DEF Left
    <3>7. j \in Left(l)
      BY <3>3 DEF Left
    <3>8. /\ IsFiniteSet(Left(l)) /\ remaining[l] = Cardinality(Left(l))
      BY LeftAreCounted
    <3>9. Cardinality(Left(l) \ {j}) = Cardinality(Left(l)) - 1
      BY <3>7, <3>8, FS_RemoveElement
    <3> QED
      BY <2>1, <2>2, <3>6, <3>8, <3>9
  <2>3. CASE l # task[w][1]
    <3>1. ASSUME NEW i \in 1 .. kind[l].size
          PROVE  CountedOff(<<l, i>>)' <=> CountedOff(<<l, i>>)
      <4>1. task[w] # <<l, i>>
        BY <2>3
      <4> QED
        BY <2>1, <4>1 DEF CountedOff
    <3>2. Left(l)' = Left(l)
      BY <2>1, <3>1, LeftStays
    <3>3. l \in CallIds
      BY PoolAssumption DEF PoolInv, CallTypes, CallIds
    <3> QED
      BY <2>1, <2>3, <3>2, <3>3 DEF PoolInv, CountDown
  <2> QED
    BY <2>2, <2>3
<1> QED
  BY <1>2, <1>3, <1>4, <1>5, <1>6, MostBatchesStay DEF InBatch

LEMMA CompletedOnce ==
  ASSUME PoolInv, Quiet \/ Engaging
  PROVE  CompletesOnce'
<1>0. \A w \in Workers : pc[w] = "complete" =>
        /\ remaining[task[w][1]] = 0 /\ task[w][1] \in CallIds /\ task[w][1] \in 1 .. calls
  BY RunsTask DEF Running, PoolInv, CompletesOnce
<1>1. ASSUME WorkersStay, \A l \in 1 .. calls : remaining'[l] = remaining[l]
      PROVE  CompletesOnce'
  <2>1. \A w \in Workers : pc'[w] = "complete" => pc[w] = "complete" /\ task'[w] = task[w]
    BY <1>1 DEF WorkersStay, Batching
  <2> QED
    BY <1>0, <1>1, <2>1 DEF CompletesOnce, PoolInv
<1>2. CASE BatchesStay
  BY <1>1, <1>2 DEF BatchesStay
<1>3. CASE WorkersStay /\ Aside
  <2>1. ASSUME NEW c \in Clients, NEW k \in CallKinds, Call(c, k)
        PROVE  \A l \in 1 .. calls : remaining'[l] = remaining[l]
    <3>1. \A l \in 1 .. calls : l \in CallIds /\ l # calls + 1
      BY PoolAssumption DEF PoolInv, CallTypes, CallIds
    <3> QED
      BY <2>1, <3>1, CallFrame
  <2>2. \A c \in Clients : BuildThrows(c) => remaining' = remaining
    BY BuildThrowsFrame
  <2>3. \A c \in Clients : DropTask(c) => remaining' = remaining
    BY DropTaskFrame
  <2>4. \A w \in Workers : DestroyTask(w) => remaining' = remaining
    BY DestroyTaskFrame
  <2> QED
    BY <1>1, <1>3, <2>1, <2>2, <2>3, <2>4 DEF Aside
<1>4. ASSUME NEW w \in Workers, NEW how \in {"returned", "threw"}, RunTask(w, how)
      PROVE  CompletesOnce'
  <2>1. /\ UNCHANGED <<task, remaining>> /\ \A v \in Workers \ {w} : pc'[v] = pc[v]
        /\ pc'[w] # "complete"
    BY <1>4, OneInBatch, RunTaskFrame
  <2> QED
    BY <2>1 DEF PoolInv, CompletesOnce
<1>5. ASSUME NEW w \in Workers, FailBatch(w) \/ KeepError(w) \/ Complete(w)
      PROVE  CompletesOnce'
  <2>1. /\ UNCHANGED <<task, remaining>> /\ \A v \in Workers \ {w} : pc'[v] = pc[v]
        /\ pc'[w] # "complete"
    BY <1>5, OneInBatch, FailBatchFrame, KeepErrorFrame, CompleteFrame DEF InBatch
  <2> QED
    BY <2>1 DEF PoolInv, CompletesOnce
<1>6. ASSUME NEW w \in Workers, CountOff(w)
      PROVE  CompletesOnce'
  <2>1. /\ UNCHANGED task
        /\ \A v \in Workers \ {w} : pc'[v] = pc[v]
        /\ pc[w] = "sub"
        /\ pc'[w] = (IF remaining[task[w][1]] = 1 THEN "complete" ELSE "destroy")
        /\ remaining'[task[w][1]] = remaining[task[w][1]] - 1
        /\ \A l \in CallIds : l # task[w][1] => remaining'[l] = remaining[l]
    BY <1>6, OneInBatch, CountOffFrame DEF InBatch
  <2>2. remaining[task[w][1]] # 0
    BY <2>1, CountingIsLeft DEF Counting
  <2>3. \A v \in Workers : pc[v] = "complete" => v # w /\ task[v][1] # task[w][1] /\ task[v][1] \in CallIds
    BY <1>0, <2>1, <2>2
  <2> QED
    BY <1>0, <2>1, <2>3 DEF PoolInv, CompletesOnce
<1> QED
  BY <1>2, <1>3, <1>4, <1>5, <1>6, MostBatchesStay DEF InBatch

LEMMA NoOtherCalledBack ==
  ASSUME PoolInv, Quiet \/ Engaging
  PROVE  NoOtherCallbacks'
<1>1. ASSUME UNCHANGED <<kind, calls, callbacks>>
      PROVE  NoOtherCallbacks'
  BY <1>1 DEF PoolInv, NoOtherCallbacks
<1>2. CASE BatchesStay
  BY <1>1, <1>2 DEF BatchesStay
<1>3. ASSUME NEW c \in Clients, NEW k \in CallKinds, Call(c, k)
      PROVE  NoOtherCallbacks'
  <2>1. callbacks' = callbacks
    BY <1>3, CallFrame
  <2> SUFFICES ASSUME NEW l \in CallIds, l > calls' \/ kind'[l].kind # "callback" \/ kind'[l].size = 0
               PROVE  callbacks[l] = 0
    BY <2>1 DEF NoOtherCallbacks
  <2>2. l # calls + 1 => l > calls \/ kind[l].kind # "callback" \/ kind[l].size = 0
    BY <1>3, CallPoints DEF CallIds
  <2>3. l = calls + 1 => l > calls
    BY <1>3, CallPoints
  <2> QED
    BY <2>2, <2>3 DEF PoolInv, NoOtherCallbacks
<1>4. ASSUME NEW c \in Clients, BuildThrows(c) \/ DropTask(c)
      PROVE  NoOtherCallbacks'
  BY <1>1, <1>4, BuildThrowsFrame, DropTaskFrame
<1>5. ASSUME NEW w \in Workers, DestroyTask(w)
      PROVE  NoOtherCallbacks'
  BY <1>1, <1>5, DestroyTaskFrame
<1>6. ASSUME NEW w \in Workers, NEW how \in {"returned", "threw"}, RunTask(w, how)
      PROVE  NoOtherCallbacks'
  BY <1>1, <1>6, RunTaskFrame
<1>7. ASSUME NEW w \in Workers, FailBatch(w) \/ KeepError(w) \/ CountOff(w)
      PROVE  NoOtherCallbacks'
  BY <1>1, <1>7, FailBatchFrame, KeepErrorFrame, CountOffFrame
<1>8. ASSUME NEW w \in Workers, Complete(w)
      PROVE  NoOtherCallbacks'
  <2>1. /\ UNCHANGED <<kind, calls>>
        /\ callbacks'[task[w][1]] =
             IF kind[task[w][1]].kind = "void" THEN callbacks[task[w][1]] ELSE callbacks[task[w][1]] + 1
        /\ \A l \in CallIds : l # task[w][1] => callbacks'[l] = callbacks[l]
        /\ pc[w] = "complete"
    BY <1>8, CompleteFrame
  <2>2. task[w][1] \in 1 .. calls /\ task[w][2] \in 1 .. kind[task[w][1]].size /\ IsBatch(task[w][1])
    BY <1>8, <2>1, OneInBatch DEF InBatch, PoolInv, WorkersTell
  <2>3. calls \in Nat /\ ~(task[w][1] > calls) /\ kind[task[w][1]].size # 0
    BY <2>2 DEF PoolInv, CallTypes
  <2> QED
    BY <2>1, <2>2, <2>3 DEF PoolInv, NoOtherCallbacks, IsBatch
<1> QED
  BY <1>2, <1>3, <1>4, <1>5, <1>6, <1>7, <1>8, MostBatchesStay DEF InBatch, Aside

LEMMA EmptyKept ==
  ASSUME PoolInv, Quiet \/ Engaging
  PROVE  EmptyBatches'
<1>0. \A l \in 1 .. calls : l \in CallIds
  BY PoolAssumption DEF PoolInv, CallTypes, CallIds
<1>1. ASSUME NEW c \in Clients, NEW k \in CallKinds, Call(c, k)
      PROVE  EmptyBatches'
  <2> SUFFICES ASSUME NEW l \in 1 .. calls', kind'[l].kind = "void", kind'[l].size = 0
               PROVE  promise'[l][0] = "value"
    BY DEF EmptyBatches
  <2>1. CASE l = calls + 1
    <3>1. /\ kind'[l] = k /\ 0 \in 0 .. MaxSize
          /\ \A i \in 0 .. MaxSize : promise'[calls + 1][i] =
               IF k.kind = "void" /\ i = 0 THEN IF k.size = 0 THEN "value" ELSE "pending"
               ELSE IF k.kind \in {"each", "merged"} /\ i \in 1 .. k.size THEN "pending"
               ELSE "none"
      BY <1>1, <2>1, CallFrame, PoolAssumption
    <3> QED
      BY <2>1, <3>1
  <2>2. CASE l # calls + 1
    <3>1. l \in 1 .. calls
      BY <1>1, <2>2, CallPoints
    <3> QED
      BY <1>0, <1>1, <2>2, <3>1, CallPoints DEF PoolInv, EmptyBatches
  <2> QED
    BY <2>1, <2>2
<1>2. CASE /\ UNCHANGED <<kind, calls>>
           /\ \A m \in CallIds, i \in 0 .. MaxSize :
                \/ promise'[m][i] = promise[m][i]
                \/ promise[m][i] = "pending" /\ promise'[m][i] \in {"value", "exception", "broken"}
  <2>1. 0 \in 0 .. MaxSize
    BY PoolAssumption
  <2> QED
    BY <1>0, <1>2, <2>1 DEF PoolInv, EmptyBatches
<1> QED
  BY <1>1, <1>2, PromisesMove

-----------------------------------------------------------------------------
(* The end of a batch. *)

EndsRight(l) ==
  kind[l].size # 0 =>
    /\ kind[l].kind = "void" =>
         /\ promise[l][0] \in {"value", "exception"} <=> remaining[l] = 0 /\ ~Completing(l)
         /\ promise[l][0] = "broken" => remaining[l] # 0
    /\ kind[l].kind = "callback" =>
         callbacks[l] = IF remaining[l] = 0 /\ ~Completing(l) THEN 1 ELSE 0

LEMMA EndsAre == BatchEnds <=> \A l \in 1 .. calls : EndsRight(l)
BY DEF BatchEnds, EndsRight

LEMMA EndsStay ==
  ASSUME NEW l, EndsRight(l), kind'[l] = kind[l], remaining'[l] = remaining[l],
         Completing(l)' <=> Completing(l), callbacks'[l] = callbacks[l],
         kind[l].kind = "void" =>
           \/ promise'[l][0] = promise[l][0]
           \/ promise[l][0] = "pending" /\ promise'[l][0] = "broken" /\ remaining[l] # 0
  PROVE  EndsRight(l)'
<1>1. CASE kind[l].kind = "void"
  BY <1>1 DEF EndsRight
<1>2. CASE kind[l].kind # "void"
  BY <1>2 DEF EndsRight
<1> QED
  BY <1>1, <1>2

LEMMA CompletingStays ==
  ASSUME NEW l, WorkersStay
  PROVE  Completing(l)' <=> Completing(l)
BY DEF Completing, WorkersStay, Batching

\* A batch with a task that was not run is not over.
LEMMA UnrunIsLeft ==
  ASSUME PoolInv, NEW l \in 1 .. calls, IsBatch(l), NEW i \in 1 .. kind[l].size,
         outcome[<<l, i>>] \notin Over
  PROVE  remaining[l] # 0
<1>1. ~CountedOff(<<l, i>>)
  BY DEF CountedOff
<1> QED
  BY <1>1, LeftAreCounted

LEMMA EndsKept ==
  ASSUME PoolInv, Quiet \/ Engaging
  PROVE  BatchEnds'
<1> DEFINE AllEnd == \A l \in 1 .. calls : EndsRight(l)
<1>0. AllEnd /\ (\A l \in 1 .. calls : l \in CallIds) /\ 0 \in 0 .. MaxSize /\ calls \in Nat
  BY EndsAre, PoolAssumption DEF PoolInv, CallTypes, CallIds
<1>1. ASSUME BatchesStay
      PROVE  AllEnd'
  <2>1. \A l \in 1 .. calls : EndsRight(l)'
    BY <1>0, <1>1, EndsStay, CompletingStays DEF BatchesStay
  <2> QED
    BY <1>1, <2>1 DEF BatchesStay
<1>2. ASSUME NEW c \in Clients, NEW k \in CallKinds, Call(c, k), WorkersStay
      PROVE  AllEnd'
  <2> SUFFICES ASSUME NEW l \in 1 .. calls'
               PROVE  EndsRight(l)'
    OBVIOUS
  <2>1. CASE l = calls + 1
    <3>1. /\ kind'[l] = k /\ k.size \in 0 .. MaxSize /\ remaining'[l] = k.size /\ l \in CallIds
          /\ promise'[l][0] = IF k.kind = "void" THEN IF k.size = 0 THEN "value" ELSE "pending"
                                                 ELSE "none"
          /\ callbacks' = callbacks
      BY <1>0, <1>2, <2>1, CallFrame, CallPoints
    <3>2. callbacks[l] = 0
      BY <1>0, <2>1, <3>1, NotCalled
    <3> QED
      BY <3>1, <3>2 DEF EndsRight
  <2>2. CASE l # calls + 1
    <3>1. l \in 1 .. calls /\ l \in CallIds
      BY <1>0, <1>2, <2>2, CallPoints
    <3>2. /\ kind'[l] = kind[l] /\ remaining'[l] = remaining[l] /\ promise'[l] = promise[l]
          /\ callbacks' = callbacks
      BY <1>2, <2>2, <3>1, CallFrame
    <3> QED
      BY <1>0, <1>2, <3>1, <3>2, EndsStay, CompletingStays
  <2> QED
    BY <2>1, <2>2
<1>3. ASSUME NEW c \in Clients, BuildThrows(c), WorkersStay
      PROVE  AllEnd'
  <2>1. UNCHANGED <<kind, calls, remaining, callbacks>> /\ pc[c] = "build"
    BY <1>3, BuildThrowsFrame
  <2>2. ASSUME NEW l \in 1 .. calls, promise'[l][0] # promise[l][0], kind[l].kind = "void"
        PROVE  promise[l][0] = "pending" /\ promise'[l][0] = "broken" /\ remaining[l] # 0
    <3>1. l = call[c] /\ promise[l][0] = "pending" /\ promise'[l][0] = "broken"
      BY <1>0, <1>3, <2>2, ThrowPoints
    <3>2. PICK i : i = todo[c] + 1 /\ i \in 1 .. kind[l].size /\ i \in 1 .. MaxSize /\ i > todo[c]
      <4>1. todo[c] + 1 \in 1 .. kind[l].size
        BY <2>1, <3>1 DEF PoolInv, CallersTell, Submitting
      <4> QED
        BY <1>0, <4>1, PoolAssumption DEF PoolInv, CallTypes
    <3>3. Unbuilt(<<l, i>>)
      BY <2>1, <3>1, <3>2 DEF PoolInv, OutcomesTell, Submitting, Holding
    <3>4. remaining[l] # 0
      BY <2>2, <3>2, <3>3, UnrunIsLeft DEF Unbuilt, Over, IsBatch
    <3> QED
      BY <3>1, <3>4
  <2>3. \A l \in 1 .. calls : EndsRight(l)'
    BY <1>0, <1>3, <2>1, <2>2, EndsStay, CompletingStays
  <2> QED
    BY <2>1, <2>3
<1>4. ASSUME NEW c \in Clients, DropTask(c), WorkersStay
      PROVE  AllEnd'
  <2>1. UNCHANGED <<kind, calls, remaining, callbacks>>
    BY <1>4, DropTaskFrame
  <2>2. PICK t \in captured : t = cells[1].task /\ outcome[t] = "none"
    BY <1>4, DropTaskFrame, TakenCells DEF PoolInv, OutcomesTell, CapturesInPlaces
  <2>3. ASSUME NEW l \in 1 .. calls, promise'[l][0] # promise[l][0], kind[l].kind = "void"
        PROVE  promise[l][0] = "pending" /\ promise'[l][0] = "broken" /\ remaining[l] # 0
    <3>1. l = t[1] /\ promise[l][0] = "pending" /\ promise'[l][0] = "broken"
      BY <1>0, <1>4, <2>2, <2>3, DropPoints
    <3>2. t = <<l, t[2]>> /\ t[2] \in 1 .. kind[l].size
      BY <1>0, <3>1, TaskFits, PoolAssumption DEF PoolInv, CallTypes
    <3>3. remaining[l] # 0
      BY <2>2, <2>3, <3>2, UnrunIsLeft DEF Over, IsBatch
    <3> QED
      BY <3>1, <3>3
  <2>4. \A l \in 1 .. calls : EndsRight(l)'
    BY <1>0, <1>4, <2>1, <2>3, EndsStay, CompletingStays
  <2> QED
    BY <2>1, <2>4
<1>5. ASSUME NEW w \in Workers, DestroyTask(w), WorkersStay
      PROVE  AllEnd'
  <2>1. UNCHANGED <<kind, calls, remaining, callbacks, call>> /\ pc[w] = "destroy"
    BY <1>5, DestroyTaskFrame
  <2>2. ASSUME NEW l \in 1 .. calls, promise'[l][0] # promise[l][0], kind[l].kind = "void",
               kind[l].size # 0
        PROVE  promise[l][0] = "pending" /\ promise'[l][0] = "broken" /\ remaining[l] # 0
    <3>1. promise[l][0] = "pending" /\ promise'[l][0] = "broken" /\ ~Open(l)'
      BY <1>0, <1>5, <2>2, DestroyPoints
    <3>2. ASSUME Completing(l)
          PROVE  FALSE
      <4>1. PICK v \in Workers : pc[v] = "complete" /\ task[v][1] = l
        BY <3>2 DEF Completing
      <4>2. task[v] \in captured /\ task[v] # None /\ v # w
        BY <2>1, <4>1, RunsTask DEF Running
      <4>3. task[v] # task[w]
        BY <4>2 DEF PoolInv, OnePlace
      <4>4. task[v] \in captured'
        BY <1>5, <4>2, <4>3, DestroyPoints
      <4> QED
        BY <3>1, <4>1, <4>4 DEF Open
    <3>3. remaining[l] # 0
      BY <1>0, <2>2, <3>1, <3>2 DEF EndsRight
    <3> QED
      BY <3>1, <3>3
  <2>3. ASSUME NEW l \in 1 .. calls, kind[l].size # 0
        PROVE  EndsRight(l)'
    BY <1>0, <1>5, <2>1, <2>2, <2>3, EndsStay, CompletingStays
  <2>4. ASSUME NEW l \in 1 .. calls, kind[l].size = 0
        PROVE  EndsRight(l)'
    BY <2>1, <2>4 DEF EndsRight
  <2> QED
    BY <2>1, <2>3, <2>4
<1>6. ASSUME NEW w \in Workers,
             \/ \E how \in {"returned", "threw"} : RunTask(w, how)
             \/ FailBatch(w) \/ KeepError(w)
      PROVE  AllEnd'
  <2>1. /\ UNCHANGED <<kind, calls, task>> /\ task[w][2] \in 1 .. kind[task[w][1]].size
        /\ \A v \in Workers \ {w} : pc'[v] = pc[v]
    BY <1>6, OneInBatch DEF InBatch
  <2>2. UNCHANGED <<remaining, callbacks>> /\ pc[w] # "complete" /\ pc'[w] # "complete"
    BY <1>6, RunTaskFrame, FailBatchFrame, KeepErrorFrame
  <2>3. \A l \in 1 .. calls : Completing(l)' <=> Completing(l)
    BY <2>1, <2>2 DEF Completing
  <2>4. \A l \in 1 .. calls : promise'[l][0] = promise[l][0]
    BY <1>0, <1>6, <2>1, RunPoints, FailBatchFrame, KeepErrorFrame
  <2>5. \A l \in 1 .. calls : EndsRight(l)'
    BY <1>0, <2>1, <2>2, <2>3, <2>4, EndsStay
  <2> QED
    BY <2>1, <2>5
<1>7. ASSUME NEW w \in Workers, CountOff(w)
      PROVE  AllEnd'
  <2>1. /\ UNCHANGED <<kind, calls, task, promise, callbacks>>
        /\ task[w][1] \in 1 .. calls /\ task[w] \in captured
        /\ task[w][2] \in 1 .. kind[task[w][1]].size
        /\ \A v \in Workers \ {w} : pc'[v] = pc[v]
        /\ pc[w] = "sub" /\ (pc'[w] = IF remaining[task[w][1]] = 1 THEN "complete" ELSE "destroy")
        /\ remaining'[task[w][1]] = remaining[task[w][1]] - 1
        /\ \A l \in CallIds : l # task[w][1] => remaining'[l] = remaining[l]
    BY <1>7, OneInBatch, CountOffFrame DEF InBatch
  <2> SUFFICES ASSUME NEW l \in 1 .. calls
               PROVE  EndsRight(l)'
    BY <2>1
  <2>2. CASE l = task[w][1]
    <3>1. IsBatch(l) /\ remaining[l] # 0 /\ remaining[l] \in Nat
      BY <2>1, <2>2, CountingIsLeft, LeftAreCounted DEF Counting
    <3>2. kind[l].kind = "void" => promise[l][0] # "broken"
      BY <1>0, <2>1, <2>2 DEF PoolInv, BrokenIsOver, Open
    <3>3. remaining[l] = 1 => Completing(l)'
      BY <2>1, <2>2 DEF Completing
    <3>4. remaining'[l] = 0 => Completing(l)'
      BY <2>1, <2>2, <3>1, <3>3
    <3> QED
      BY <1>0, <2>1, <3>1, <3>2, <3>4 DEF EndsRight
  <2>3. CASE l # task[w][1]
    <3>1. Completing(l)' <=> Completing(l)
      BY <2>1, <2>3 DEF Completing
    <3> QED
      BY <1>0, <2>1, <2>3, <3>1, EndsStay
  <2> QED
    BY <2>2, <2>3
<1>8. ASSUME NEW w \in Workers, Complete(w)
      PROVE  AllEnd'
  <2>1. /\ UNCHANGED <<kind, calls, task, remaining>>
        /\ task[w][1] \in 1 .. calls /\ task[w][1] \in CallIds
        /\ \A v \in Workers \ {w} : pc'[v] = pc[v]
        /\ pc[w] = "complete" /\ pc'[w] = "destroy"
        /\ callbacks'[task[w][1]] = IF kind[task[w][1]].kind = "void" THEN callbacks[task[w][1]]
                                                                      ELSE callbacks[task[w][1]] + 1
        /\ \A l \in CallIds : l # task[w][1] => callbacks'[l] = callbacks[l]
    BY <1>8, OneInBatch, CompleteFrame DEF InBatch
  <2>2. \A l \in 1 .. calls : promise'[l][0] =
          IF l = task[w][1] /\ kind[l].kind = "void"
          THEN IF error[l].kept # None THEN "exception" ELSE "value" ELSE promise[l][0]
    BY <1>0, <1>8, CompletePoints
  <2> SUFFICES ASSUME NEW l \in 1 .. calls
               PROVE  EndsRight(l)'
    BY <2>1
  <2>3. CASE l = task[w][1]
    <3>1. remaining[l] = 0 /\ Completing(l)
      BY <2>1, <2>3 DEF PoolInv, CompletesOnce, Completing
    <3>2. ~Completing(l)'
      BY <2>1, <2>3 DEF PoolInv, CompletesOnce, Completing
    <3> QED
      BY <1>0, <2>1, <2>2, <2>3, <3>1, <3>2 DEF EndsRight
  <2>4. CASE l # task[w][1]
    <3>1. Completing(l)' <=> Completing(l)
      BY <2>1, <2>4 DEF Completing
    <3> QED
      BY <1>0, <2>1, <2>2, <2>4, <3>1, EndsStay
  <2> QED
    BY <2>3, <2>4
<1>9. BatchEnds' <=> AllEnd'
  BY EndsAre, PTL
<1> HIDE DEF AllEnd
<1>10. AllEnd'
  BY <1>1, <1>2, <1>3, <1>4, <1>5, <1>6, <1>7, <1>8, MostBatchesStay DEF InBatch, Aside
<1> QED
  BY <1>9, <1>10

\* The errors of a batch.
ErrorRight(l) ==
  /\ error[l].kept # None => /\ error[l].kept[1] = l /\ error[l].kept[2] <= kind[l].size
                             /\ outcome[error[l].kept] = "threw"
  /\ error[l].failed =>
       error[l].kept # None \/ \E w \in Workers : pc[w] = "keep" /\ task[w][1] = l
  /\ l <= calls /\ kind[l].kind = "void" =>
       \A i \in 1 .. kind[l].size : outcome[<<l, i>>] = "threw" =>
         error[l].failed \/ \E w \in Workers : pc[w] = "fail" /\ task[w] = <<l, i>>

LEMMA ErrorsAre == ErrorsTell <=> \A l \in CallIds : ErrorRight(l)
BY DEF ErrorsTell, ErrorRight

LEMMA CallHasTasks ==
  ASSUME PoolInv, NEW l \in CallIds
  PROVE  /\ \A i \in 1 .. kind[l].size : <<l, i>> \in Tasks
         /\ error[l].kept # None => error[l].kept \in Tasks
<1>1. \A i \in 1 .. kind[l].size : i \in 1 .. MaxSize
  BY PoolAssumption DEF PoolInv, CallTypes
<1> QED
  BY <1>1 DEF PoolInv, TaskTypes, Tasks

\* No task of the call throws, and nothing is said of its error.
LEMMA ErrorStays ==
  ASSUME PoolInv, NEW l \in CallIds, WorkersStay,
         error'[l] = error[l], kind'[l] = kind[l], l <= calls' <=> l <= calls,
         \A t \in Tasks : outcome'[t] = "threw" <=> outcome[t] = "threw"
  PROVE  ErrorRight(l)'
<1>1. ErrorRight(l)
  BY ErrorsAre DEF PoolInv
<1>2. (\E w \in Workers : pc[w] = "keep" /\ task[w][1] = l) =>
        \E w \in Workers : pc'[w] = "keep" /\ task'[w][1] = l
  BY DEF WorkersStay, Batching
<1>3. ASSUME NEW i, \E w \in Workers : pc[w] = "fail" /\ task[w] = <<l, i>>
      PROVE  \E w \in Workers : pc'[w] = "fail" /\ task'[w] = <<l, i>>
  BY <1>3 DEF WorkersStay, Batching
<1> QED
  BY <1>1, <1>2, <1>3, CallHasTasks DEF ErrorRight

LEMMA ErrorsKept ==
  ASSUME PoolInv, Quiet \/ Engaging
  PROVE  ErrorsTell'
<1> DEFINE AllErrors == \A l \in CallIds : ErrorRight(l)
<1>0. AllErrors
  BY ErrorsAre DEF PoolInv
<1>1. ASSUME WorkersStay, UNCHANGED <<error, kind, calls, outcome>>
      PROVE  AllErrors'
  BY <1>1, ErrorStays
<1>2. ASSUME BatchesStay
      PROVE  AllErrors'
  BY <1>1, <1>2 DEF BatchesStay
<1>3. ASSUME NEW c \in Clients, NEW k \in CallKinds, Call(c, k), WorkersStay
      PROVE  AllErrors'
  <2> SUFFICES ASSUME NEW l \in CallIds
               PROVE  ErrorRight(l)'
    OBVIOUS
  <2>1. UNCHANGED <<error, outcome>> /\ calls + 1 \in CallIds /\ calls \in Nat
    BY <1>3, CallFrame, CallPoints
  <2>2. CASE l = calls + 1
    <3>1. /\ l > calls
      BY <2>1, <2>2
    <3>2. error[l].kept = None /\ ~error[l].failed /\ \A i \in 1 .. MaxSize : outcome[<<l, i>>] = "none"
      BY <3>1, NotCalled
    <3>3. \A i \in 1 .. kind'[l].size : i \in 1 .. MaxSize
      BY <1>3, <2>2, CallPoints, PoolAssumption
    <3> QED
      BY <2>1, <3>2, <3>3 DEF ErrorRight
  <2>3. CASE l # calls + 1
    BY <1>3, <2>1, <2>3, ErrorStays, CallPoints
  <2> QED
    BY <2>2, <2>3
<1>4. ASSUME NEW c \in Clients, BuildThrows(c), WorkersStay
      PROVE  AllErrors'
  BY <1>1, <1>4, BuildThrowsFrame
<1>5. ASSUME NEW c \in Clients, DropTask(c), WorkersStay
      PROVE  AllErrors'
  <2>1. UNCHANGED <<error, kind, calls>>
    BY <1>5, DropTaskFrame
  <2>2. outcome[cells[1].task] = "none"
    BY <1>5, DropTaskFrame, TakenCells DEF PoolInv, OutcomesTell
  <2>3. \A t \in Tasks : outcome'[t] = "threw" <=> outcome[t] = "threw"
    BY <1>5, <2>2, DropTaskFrame
  <2> QED
    BY <1>5, <2>1, <2>3, ErrorStays
<1>6. ASSUME NEW w \in Workers, DestroyTask(w), WorkersStay
      PROVE  AllErrors'
  BY <1>1, <1>6, DestroyTaskFrame
<1>7. ASSUME NEW w \in Workers, NEW how \in {"returned", "threw"}, RunTask(w, how)
      PROVE  AllErrors'
  <2> SUFFICES ASSUME NEW l \in CallIds
               PROVE  ErrorRight(l)'
    OBVIOUS
  <2>1. /\ UNCHANGED <<error, kind, calls, task>> /\ pc[w] = "run"
        /\ \A v \in Workers \ {w} : pc'[v] = pc[v]
        /\ task[w] \in Tasks /\ outcome'[task[w]] = how
        /\ \A t \in Tasks : t # task[w] => outcome'[t] = outcome[t]
        /\ outcome[task[w]] = "none"
    BY <1>7, OneInBatch, RunTaskFrame DEF PoolInv, OutcomesTell
  <2>2. error[l].kept # None => error[l].kept \in Tasks /\ error[l].kept # task[w]
    BY <1>0, <2>1, CallHasTasks DEF ErrorRight
  <2>3. (\E v \in Workers : pc[v] = "keep" /\ task[v][1] = l) =>
          \E v \in Workers : pc'[v] = "keep" /\ task'[v][1] = l
    BY <2>1
  <2>4. ASSUME l <= calls, kind[l].kind = "void", NEW i \in 1 .. kind[l].size,
               outcome'[<<l, i>>] = "threw"
        PROVE  error[l].failed \/ \E v \in Workers : pc'[v] = "fail" /\ task'[v] = <<l, i>>
    <3>1. <<l, i>> \in Tasks
      BY CallHasTasks
    <3>2. CASE <<l, i>> = task[w]
      <4>1. task[w][1] = l
        BY <3>2
      <4>2. kind[task[w][1]].kind = "void" /\ how = "threw"
        BY <2>1, <2>4, <3>2, <4>1
      <4>3. pc'[w] = "fail"
        BY <1>7, <4>2, RunTaskFrame
      <4> QED
        BY <2>1, <3>2, <4>3
    <3>3. CASE <<l, i>> # task[w]
      <4>1. outcome[<<l, i>>] = "threw"
        BY <2>1, <2>4, <3>1, <3>3
      <4>2. error[l].failed \/ \E v \in Workers : pc[v] = "fail" /\ task[v] = <<l, i>>
        BY <1>0, <2>4, <4>1 DEF ErrorRight
      <4> QED
        BY <2>1, <4>2
    <3> QED
      BY <3>2, <3>3
  <2> QED
    BY <1>0, <2>1, <2>2, <2>3, <2>4 DEF ErrorRight
<1>8. ASSUME NEW w \in Workers, InBatch(w)
      PROVE  AllErrors'
  <2> SUFFICES ASSUME NEW l \in CallIds
               PROVE  ErrorRight(l)'
    OBVIOUS
  <2>1. /\ UNCHANGED <<kind, calls, task, outcome>>
        /\ \A v \in Workers \ {w} : pc'[v] = pc[v]
    BY <1>8, OneInBatch, FailBatchFrame, KeepErrorFrame, CountOffFrame, CompleteFrame DEF InBatch
  <2>2. task[w] # None /\ task[w][2] <= kind[task[w][1]].size /\ task[w] = <<task[w][1], task[w][2]>>
    BY <1>8, OneInBatch, RunsTask
  <2>3. ErrorRight(l)
    BY <1>0
  <2>4. CASE FailBatch(w)
    <3>1. /\ pc[w] = "fail" /\ (pc'[w] = IF error[task[w][1]].failed THEN "sub" ELSE "keep")
          /\ error'[task[w][1]].failed /\ error'[task[w][1]].kept = error[task[w][1]].kept
          /\ l # task[w][1] => error'[l] = error[l]
      BY <2>4, FailBatchFrame
    <3>2. (\E v \in Workers : pc[v] = "keep" /\ task[v][1] = l) =>
            \E v \in Workers : pc'[v] = "keep" /\ task'[v][1] = l
      BY <2>1, <3>1
    <3>3. CASE l = task[w][1]
      BY <2>1, <2>3, <3>1, <3>2, <3>3 DEF ErrorRight
    <3>4. CASE l # task[w][1]
      <4>1. \A i : task[w] # <<l, i>>
        BY <3>4
      <4>2. \A i : (\E v \in Workers : pc[v] = "fail" /\ task[v] = <<l, i>>) =>
                     \E v \in Workers : pc'[v] = "fail" /\ task'[v] = <<l, i>>
        BY <2>1, <4>1
      <4> QED
        BY <2>1, <2>3, <3>1, <3>2, <3>4, <4>2 DEF ErrorRight
    <3> QED
      BY <3>3, <3>4
  <2>5. CASE ~FailBatch(w)
    <3>1. pc[w] # "fail" /\ (pc[w] = "keep" => KeepError(w))
      BY <1>8, <2>5, KeepErrorFrame, CountOffFrame, CompleteFrame DEF InBatch
    <3>2. \A i : (\E v \in Workers : pc[v] = "fail" /\ task[v] = <<l, i>>) =>
                   \E v \in Workers : pc'[v] = "fail" /\ task'[v] = <<l, i>>
      BY <2>1, <3>1
    <3>3. ASSUME KeepError(w), l = task[w][1]
          PROVE  ErrorRight(l)'
      <4>1. error'[l].failed = error[l].failed /\ error'[l].kept = task[w] /\ pc[w] = "keep"
        BY <3>3, KeepErrorFrame
      <4>2. outcome[task[w]] = "threw"
        BY <4>1 DEF PoolInv, WorkersTell
      <4> QED
        BY <2>1, <2>2, <2>3, <3>2, <3>3, <4>1, <4>2 DEF ErrorRight
    <3>4. ASSUME ~(KeepError(w) /\ l = task[w][1])
          PROVE  ErrorRight(l)'
      <4>1. error'[l] = error[l]
        BY <1>8, <2>5, <3>4, KeepErrorFrame, CountOffFrame, CompleteFrame DEF InBatch
      <4>2. (\E v \in Workers : pc[v] = "keep" /\ task[v][1] = l) =>
              \E v \in Workers : pc'[v] = "keep" /\ task'[v][1] = l
        BY <2>1, <3>1, <3>4
      <4> QED
        BY <2>1, <2>3, <3>2, <4>1, <4>2 DEF ErrorRight
    <3> QED
      BY <3>3, <3>4
  <2> QED
    BY <2>4, <2>5
<1>9. ErrorsTell' <=> AllErrors'
  BY ErrorsAre, PTL
<1> HIDE DEF AllErrors
<1>10. AllErrors'
  BY <1>2, <1>3, <1>4, <1>5, <1>6, <1>7, <1>8, MostBatchesStay DEF Aside
<1> QED
  BY <1>9, <1>10

\* The promise of a batch tells of its error.
TellsRight(l) ==
  kind[l].kind = "void" =>
    /\ promise[l][0] = "value" => ~error[l].failed
    /\ promise[l][0] = "exception" => error[l].kept # None

LEMMA BatchTold ==
  ASSUME PoolInv, Quiet \/ Engaging
  PROVE  BatchTells'
<1>0. /\ \A l \in 1 .. calls : TellsRight(l) /\ l \in CallIds
      /\ 0 \in 0 .. MaxSize
  <2>1. \A l \in 1 .. calls : TellsRight(l)
    BY DEF PoolInv, BatchTells, TellsRight
  <2>2. (\A l \in 1 .. calls : l \in CallIds) /\ 0 \in 0 .. MaxSize
    BY PoolAssumption DEF PoolInv, CallTypes, CallIds
  <2> QED
    BY <2>1, <2>2
<1>1. ASSUME UNCHANGED <<kind, calls, error>>,
             \A l \in 1 .. calls : promise'[l][0] = promise[l][0] \/ promise'[l][0] = "broken"
      PROVE  BatchTells'
  BY <1>0, <1>1 DEF BatchTells, TellsRight
<1>2. CASE BatchesStay
  BY <1>1, <1>2 DEF BatchesStay
<1>3. ASSUME NEW c \in Clients, NEW k \in CallKinds, Call(c, k)
      PROVE  BatchTells'
  <2> SUFFICES ASSUME NEW l \in 1 .. calls'
               PROVE  TellsRight(l)'
    BY DEF BatchTells, TellsRight
  <2>1. /\ error' = error /\ calls + 1 \in CallIds /\ calls \in Nat
    BY <1>3, CallFrame, CallPoints
  <2>2. CASE l = calls + 1
    <3>1. l > calls /\ l \in CallIds
      BY <2>1, <2>2
    <3>2. ~error[l].failed /\ promise'[l][0] # "exception"
      BY <1>0, <1>3, <2>2, <3>1, NotCalled, CallPoints
    <3> QED
      BY <2>1, <3>2 DEF TellsRight
  <2>3. CASE l # calls + 1
    <3>1. l \in 1 .. calls
      BY <1>3, <2>3, CallPoints
    <3>2. promise'[l] = promise[l] /\ kind'[l] = kind[l]
      BY <1>0, <1>3, <2>3, <3>1, CallPoints
    <3> QED
      BY <1>0, <2>1, <3>1, <3>2 DEF TellsRight
  <2> QED
    BY <2>2, <2>3
<1>4. ASSUME NEW c \in Clients, BuildThrows(c)
      PROVE  BatchTells'
  BY <1>0, <1>1, <1>4, BuildThrowsFrame, ThrowPoints
<1>5. ASSUME NEW c \in Clients, DropTask(c)
      PROVE  BatchTells'
  BY <1>0, <1>1, <1>5, DropTaskFrame, DropPoints
<1>6. ASSUME NEW w \in Workers, DestroyTask(w)
      PROVE  BatchTells'
  BY <1>0, <1>1, <1>6, DestroyTaskFrame, DestroyPoints
<1>7. ASSUME NEW w \in Workers, NEW how \in {"returned", "threw"}, RunTask(w, how)
      PROVE  BatchTells'
  <2>1. task[w][2] # 0
    BY <1>7, OneInBatch
  <2> QED
    BY <1>0, <1>1, <1>7, <2>1, RunTaskFrame, RunPoints
<1>8. ASSUME NEW w \in Workers, FailBatch(w) \/ KeepError(w)
      PROVE  BatchTells'
  <2>1. /\ UNCHANGED <<kind, calls, promise>> /\ pc[w] \in Counting
        /\ \A l \in CallIds : l # task[w][1] => error'[l] = error[l]
        /\ task[w][2] \in 1 .. kind[task[w][1]].size
    BY <1>8, OneInBatch, FailBatchFrame, KeepErrorFrame DEF InBatch, Counting
  <2>2. ASSUME NEW l \in 1 .. calls, l = task[w][1], kind[l].kind = "void"
        PROVE  promise[l][0] \notin {"value", "exception"}
    <3>1. remaining[l] # 0 /\ kind[l].size # 0
      BY <2>1, <2>2, CountingIsLeft
    <3> QED
      BY <2>2, <3>1 DEF PoolInv, BatchEnds
  <2> QED
    BY <1>0, <2>1, <2>2 DEF BatchTells, TellsRight
<1>9. ASSUME NEW w \in Workers, CountOff(w)
      PROVE  BatchTells'
  BY <1>1, <1>9, CountOffFrame
<1>10. ASSUME NEW w \in Workers, Complete(w)
      PROVE  BatchTells'
  <2>1. UNCHANGED <<kind, calls, error>> /\ pc[w] = "complete"
    BY <1>10, CompleteFrame
  <2>2. \A l \in 1 .. calls : promise'[l][0] =
          IF l = task[w][1] /\ kind[l].kind = "void"
          THEN IF error[l].kept # None THEN "exception" ELSE "value" ELSE promise[l][0]
    BY <1>0, <1>10, CompletePoints
  <2>3. ASSUME NEW l \in 1 .. calls, l = task[w][1], error[l].kept = None
        PROVE  ~error[l].failed
    <3>1. remaining[l] = 0
      BY <2>1, <2>3 DEF PoolInv, CompletesOnce
    <3>2. ~\E v \in Workers : pc[v] = "keep" /\ task[v][1] = l
      BY <3>1, CountingIsLeft DEF Counting
    <3> QED
      BY <1>0, <2>3, <3>2 DEF PoolInv, ErrorsTell
  <2> QED
    BY <1>0, <2>1, <2>2, <2>3 DEF BatchTells, TellsRight
<1> QED
  BY <1>2, <1>3, <1>4, <1>5, <1>6, <1>7, <1>8, <1>9, <1>10, MostBatchesStay DEF InBatch, Aside

-----------------------------------------------------------------------------
(* The invariant. *)

LEMMA PoolInvAtFirst == Init => PoolInv
<1> SUFFICES ASSUME Init PROVE PoolInv
  OBVIOUS
<1>1. /\ cells = <<>> /\ Len(cells) = 0 /\ calls = 0 /\ captured = {}
      /\ \A a \in Actors : pc[a] \in {"off", "idle"} /\ task[a] = None
      /\ \A c \in Clients : c \in Actors /\ call[c] = None /\ todo[c] = 0 /\ dropped[c] = 0
      /\ \A w \in Workers : w \in Actors
      /\ \A t \in Tasks : outcome[t] = "none"
      /\ \A l \in CallIds : ~(l <= 0) /\ error[l].kept = None /\ ~error[l].failed /\ callbacks[l] = 0
      /\ \A l \in CallIds, i \in 0 .. MaxSize : promise[l][i] = "none"
      /\ MaxSize \in Nat /\ MaxCalls \in Nat
  BY PoolAssumption DEF Init, Actors, CallIds
<1>2. QueueTypes
  BY DEF Init, QueueTypes
<1>3. PlaceTypes
  BY DEF Init, PlaceTypes
<1>4. CallTypes
  BY PoolAssumption DEF Init, CallTypes, NoCall, Kinds
<1>5. TaskTypes
  BY DEF Init, TaskTypes
<1>6. CallersTell
  BY <1>1 DEF CallersTell, Submitting
<1>7. OnePlace /\ CapturesInPlaces
  BY <1>1 DEF OnePlace, CapturesInPlaces, InCells, Holding, Running
<1>8. OutcomesTell
  BY <1>1 DEF OutcomesTell, Unbuilt, Ran, Submitting
<1>9. CountIsExact
  <2>1. Counted = {}
    BY <1>1 DEF Counted
  <2>2. \A e \in Actors \X Nat : IF e[1] \in Workers THEN pc[e[1]] # "finished"
                                                     ELSE ~(e[2] \in 1 .. dropped[e[1]])
    BY <1>1 DEF Actors
  <2>3. Ended = {}
    BY <2>2 DEF Ended
  <2> QED
    BY <2>1, <2>3, FS_EmptySet DEF CountIsExact, Init
<1>10. WaitersAreCounted
  <2>1. Waiters = {}
    BY <1>1 DEF Waiters
  <2> QED
    BY <2>1, FS_EmptySet DEF WaitersAreCounted, Init
<1>11. PromisesFit /\ ResultsTell /\ BrokenIsOver /\ PendingIsHeld
  BY <1>1 DEF PromisesFit, ResultsTell, BrokenIsOver, PendingIsHeld, HasPromise
<1>12. CountDown /\ BatchEnds /\ EmptyBatches /\ BatchTells
  BY <1>1 DEF CountDown, BatchEnds, EmptyBatches, BatchTells
<1>13. WorkersTell /\ CompletesOnce
  BY <1>1 DEF WorkersTell, CompletesOnce
<1>14. NoOtherCallbacks /\ ErrorsTell
  BY <1>1 DEF NoOtherCallbacks, ErrorsTell
<1> QED
  BY <1>2, <1>3, <1>4, <1>5, <1>6, <1>7, <1>8, <1>9, <1>10, <1>11, <1>12, <1>13, <1>14
     DEF PoolInv

LEMMA PoolInvKept == PoolInv /\ [Next]_vars => PoolInv'
<1> SUFFICES ASSUME PoolInv, [Next]_vars PROVE PoolInv'
  OBVIOUS
<1>1. Quiet \/ Engaging
  BY QuietOrEngaging
<1>2. QueueTypes' /\ PlaceTypes' /\ CallTypes' /\ TaskTypes'
  BY <1>1, QueueTyped, PlacesTyped, CallsTyped, TasksTyped
<1>3. CallersTell' /\ OnePlace' /\ CapturesInPlaces' /\ OutcomesTell'
  BY <1>1, CallersKept, PlacesKept, OutcomesKept
<1>4. CountIsExact' /\ WaitersAreCounted'
  BY <1>1, CountKept, WaitersKept
<1>5. PromisesFit' /\ ResultsTell' /\ BrokenIsOver' /\ PendingIsHeld'
  BY <1>1, FitKept, ResultsKept, HeldKept
<1>6. CountDown' /\ WorkersTell' /\ CompletesOnce' /\ BatchEnds'
  BY <1>1, CountedDown, WorkersTold, CompletedOnce, EndsKept
<1>7. NoOtherCallbacks' /\ EmptyBatches' /\ ErrorsTell' /\ BatchTells'
  BY <1>1, NoOtherCalledBack, EmptyKept, ErrorsKept, BatchTold
<1> QED
  BY <1>2, <1>3, <1>4, <1>5, <1>6, <1>7 DEF PoolInv

\* The invariant of the pool: every task is in one place from submit to the
\* end of its captures, is counted in outstandingTasks from onTaskEnqueued to
\* onTasksFinished, and the promises and the state of its batch tell where it
\* is.
THEOREM PoolInvariant == Spec => []PoolInv
<1>1. Init => PoolInv
  BY PoolInvAtFirst
<1>2. PoolInv /\ [Next]_vars => PoolInv'
  BY PoolInvKept
<1> QED
  BY <1>1, <1>2, PTL DEF Spec

-----------------------------------------------------------------------------
(* What follows from it. *)

\* waitUntilFinished sees outstandingTasks = 0 only when every task that was
\* counted is over and its captures are gone: no submitted task is missing
\* from the counter, however submit, workerThread and shutdownPool interleave.
THEOREM NothingIsLeftBehind == Spec => []NothingLeftBehind
<1>1. ASSUME PoolInv
      PROVE  NothingLeftBehind
  <2>1. outstanding = Cardinality(Counted) + Cardinality(Ended) /\ IsFiniteSet(Ended)
    BY <1>1 DEF PoolInv, CountIsExact
  <2>2. IsFiniteSet(Counted)
    BY <1>1, CountedFinite
  <2>3. Cardinality(Counted) \in Nat /\ Cardinality(Ended) \in Nat
    BY <2>1, <2>2, FS_CardinalityType
  <2> QED
    BY <2>1, <2>3 DEF NothingLeftBehind, Counted
<1> QED
  BY <1>1, PoolInvariant, PTL

\* No future of enqueue or enqueueBatch stays unready for ever because its
\* promise was lost: with the captures of the last task, and the call that
\* made them, every promise of the call is set or broken.
THEOREM NoFutureIsOrphaned == Spec => []NoOrphanedFuture
<1>1. ASSUME PoolInv
      PROVE  NoOrphanedFuture
  <2> SUFFICES ASSUME NEW l \in 1 .. calls, \A t \in captured : t[1] # l,
                      \A c \in Clients : call[c] # l, NEW i \in 0 .. MaxSize
               PROVE  promise[l][i] # "pending"
    BY DEF NoOrphanedFuture
  <2>1. l \in CallIds
    BY <1>1, PoolAssumption DEF PoolInv, CallTypes, CallIds
  <2>2. ~Open(l) /\ ~Called(l) /\ <<l, i>> \notin captured
    BY DEF Open, Called
  <2> QED
    BY <1>1, <2>1, <2>2 DEF PoolInv, PendingIsHeld
<1> QED
  BY <1>1, PoolInvariant, PTL

\* A batch of which nothing remains has run every task.
LEMMA NothingRemains ==
  ASSUME PoolInv, NEW l \in 1 .. calls, IsBatch(l), remaining[l] = 0
  PROVE  /\ \A i \in 1 .. kind[l].size : outcome[<<l, i>>] \in Over
         /\ \A w \in Workers : pc[w] \in Counting => task[w][1] # l
<1>1. \A i \in 1 .. kind[l].size : CountedOff(<<l, i>>)
  BY LeftAreCounted
<1> QED
  BY <1>1, CountingIsLeft DEF CountedOff

\* What a future says is what became of its task, or of all the tasks of its
\* batch, and onFinished is called once, after the last of them: BatchState
\* and DetachBatchState count their tasks off without a lock, an error is
\* kept by the first that fails, and dropped tasks break promises.
THEOREM FuturesAreTrue == Spec => []FuturesTellTheTruth
<1>1. ASSUME PoolInv, NEW l \in 1 .. calls
      PROVE  LET ended(how) == {i \in 1 .. kind[l].size : outcome[<<l, i>>] \in how}
                 all == 1 .. kind[l].size
             IN
             /\ \A i \in all :
                  /\ promise[l][i] = "value" => i \in ended({"returned"})
                  /\ promise[l][i] = "exception" => i \in ended({"threw"})
                  /\ promise[l][i] = "broken" => i \in ended({"dropped", "none"})
             /\ promise[l][0] = "value" => all = ended({"returned"})
             /\ promise[l][0] = "exception" =>
                  all = ended({"returned", "threw"}) /\ ended({"threw"}) # {}
             /\ promise[l][0] = "broken" => ended({"dropped", "none"}) # {}
             /\ callbacks[l] <= 1
             /\ callbacks[l] = 1 => all = ended({"returned", "threw"})
  <2>0. /\ l \in CallIds /\ l <= calls /\ 0 \in 0 .. MaxSize /\ ~(l > calls)
        /\ \A i \in 1 .. kind[l].size : i \in 1 .. MaxSize /\ <<l, i>> \in Tasks /\ i # 0 /\ i \in 0 .. MaxSize
    <3>1. /\ l \in CallIds /\ l <= calls /\ 0 \in 0 .. MaxSize /\ ~(l > calls)
      BY <1>1, PoolAssumption DEF PoolInv, CallTypes, CallIds
    <3>2. \A i \in 1 .. kind[l].size : i \in 1 .. MaxSize /\ <<l, i>> \in Tasks
      BY <1>1, TaskOfCall
    <3> QED
      BY <3>1, <3>2, PoolAssumption
  <2>1. \A i \in 1 .. kind[l].size : outcome[<<l, i>>] \in {"none", "returned", "threw", "dropped"}
    BY <1>1, <2>0 DEF PoolInv, TaskTypes
  <2>2. ASSUME NEW i \in 1 .. kind[l].size, promise[l][i] # "none"
        PROVE  /\ promise[l][i] = "value" <=> outcome[<<l, i>>] = "returned"
               /\ promise[l][i] = "exception" <=> outcome[<<l, i>>] = "threw"
    BY <1>1, <2>0, <2>2 DEF PoolInv, PromisesFit, ResultsTell
  <2>3. promise[l][0] # "none" => IsBatch(l) /\ kind[l].kind = "void"
    BY <1>1, <2>0 DEF PoolInv, PromisesFit, HasPromise, IsBatch
  <2>4. ASSUME promise[l][0] \in {"value", "exception"}, kind[l].size # 0
        PROVE  /\ \A i \in 1 .. kind[l].size : outcome[<<l, i>>] \in Over
               /\ \A w \in Workers : pc[w] \in Counting => task[w][1] # l
    BY <1>1, <2>3, <2>4, NothingRemains DEF PoolInv, BatchEnds
  <2>5. ASSUME promise[l][0] = "value", NEW i \in 1 .. kind[l].size
        PROVE  outcome[<<l, i>>] = "returned"
    <3>1. kind[l].size # 0
      BY <2>5
    <3>2. ~error[l].failed
      BY <1>1, <2>3, <2>5 DEF PoolInv, BatchTells
    <3>3. ~\E w \in Workers : pc[w] = "fail" /\ task[w] = <<l, i>>
      BY <2>4, <2>5, <3>1 DEF Counting
    <3>4. outcome[<<l, i>>] # "threw"
      BY <1>1, <2>0, <2>3, <2>5, <3>2, <3>3 DEF PoolInv, ErrorsTell
    <3> QED
      BY <2>4, <2>5, <3>1, <3>4 DEF Over
  <2>6. ASSUME promise[l][0] = "exception"
        PROVE  /\ \A i \in 1 .. kind[l].size : outcome[<<l, i>>] \in Over
               /\ \E i \in 1 .. kind[l].size : outcome[<<l, i>>] = "threw"
    <3>1. kind[l].size # 0
      BY <1>1, <2>3, <2>6 DEF PoolInv, EmptyBatches
    <3>2. error[l].kept # None
      BY <1>1, <2>3, <2>6 DEF PoolInv, BatchTells
    <3>3. PICK t \in Tasks : t = error[l].kept /\ t[1] = l /\ t[2] <= kind[l].size /\ outcome[t] = "threw"
      <4>1. error[l].kept \in Tasks
        BY <1>1, <2>0, <3>2, CallHasTasks
      <4>2. error[l].kept[1] = l /\ error[l].kept[2] <= kind[l].size /\ outcome[error[l].kept] = "threw"
        BY <1>1, <2>0, <3>2 DEF PoolInv, ErrorsTell
      <4> QED
        BY <4>1, <4>2
    <3>4. t = <<l, t[2]>> /\ t[2] \in 1 .. kind[l].size
      BY <1>1, <2>0, <3>3, PoolAssumption DEF Tasks, PoolInv, CallTypes
    <3> QED
      BY <2>4, <2>6, <3>1, <3>3, <3>4
  <2>7. ASSUME promise[l][0] = "broken"
        PROVE  \E i \in 1 .. kind[l].size : outcome[<<l, i>>] \in {"dropped", "none"}
    <3>1. kind[l].size # 0
      BY <1>1, <2>3, <2>7 DEF PoolInv, EmptyBatches
    <3>2. remaining[l] # 0 /\ remaining[l] = Cardinality(Left(l))
      BY <1>1, <2>3, <2>7, <3>1, LeftAreCounted DEF PoolInv, BatchEnds
    <3>3. PICK i \in 1 .. kind[l].size : ~CountedOff(<<l, i>>)
      <4>1. Left(l) # {}
        BY <3>2, FS_EmptySet
      <4> QED
        BY <4>1 DEF Left
    <3>4. ~Open(l)
      BY <1>1, <2>0, <2>3, <2>7 DEF PoolInv, BrokenIsOver
    <3>5. ASSUME NEW w \in Workers, pc[w] \in Counting, task[w] = <<l, i>>
          PROVE  FALSE
      BY <1>1, <3>4, <3>5, RunsTask DEF Open, Counting, Running
    <3> QED
      BY <2>1, <3>3, <3>5 DEF CountedOff, Over
  <2>8. callbacks[l] \in {0, 1}
    BY <1>1, <2>0 DEF PoolInv, NoOtherCallbacks, BatchEnds
  <2>9. ASSUME callbacks[l] = 1
        PROVE  \A i \in 1 .. kind[l].size : outcome[<<l, i>>] \in Over
    <3>1. kind[l].kind = "callback" /\ kind[l].size # 0
      BY <1>1, <2>0, <2>9 DEF PoolInv, NoOtherCallbacks
    <3>2. remaining[l] = 0
      BY <1>1, <2>9, <3>1 DEF PoolInv, BatchEnds
    <3> QED
      BY <1>1, <3>1, <3>2, NothingRemains DEF IsBatch
  <2> QED
    BY <2>1, <2>2, <2>5, <2>6, <2>7, <2>8, <2>9 DEF Over
<1>2. PoolInv => FuturesTellTheTruth
  BY <1>1 DEF FuturesTellTheTruth
<1> QED
  BY <1>2, PoolInvariant, PTL

\* The counters of the states of batches, those of calls that have none too.
CountersAreNat == remaining \in [CallIds -> Nat]

LEMMA CountersKept ==
  ASSUME PoolInv, CountersAreNat, [Next]_vars
  PROVE  CountersAreNat'
<1>0. Quiet \/ Engaging
  BY QuietOrEngaging
<1>1. ASSUME remaining' = remaining
      PROVE  CountersAreNat'
  BY <1>1 DEF CountersAreNat
<1>2. CASE BatchesStay
  BY <1>1, <1>2 DEF BatchesStay
<1>3. ASSUME NEW c \in Clients, NEW k \in CallKinds, Call(c, k)
      PROVE  CountersAreNat'
  <2>1. k.size \in Nat
    BY <1>3, CallPoints, PoolAssumption
  <2>2. remaining' = [remaining EXCEPT ![calls + 1] = k.size]
    BY <1>3 DEF Call
  <2> QED
    BY <2>1, <2>2 DEF CountersAreNat
<1>4. ASSUME NEW c \in Clients, BuildThrows(c) \/ DropTask(c)
      PROVE  CountersAreNat'
  BY <1>1, <1>4, BuildThrowsFrame, DropTaskFrame
<1>5. ASSUME NEW w \in Workers, DestroyTask(w)
      PROVE  CountersAreNat'
  BY <1>1, <1>5, DestroyTaskFrame
<1>6. ASSUME NEW w \in Workers, NEW how \in {"returned", "threw"}, RunTask(w, how)
      PROVE  CountersAreNat'
  BY <1>1, <1>6, RunTaskFrame
<1>7. ASSUME NEW w \in Workers, FailBatch(w) \/ KeepError(w) \/ Complete(w)
      PROVE  CountersAreNat'
  BY <1>1, <1>7, FailBatchFrame, KeepErrorFrame, CompleteFrame
<1>8. ASSUME NEW w \in Workers, CountOff(w)
      PROVE  CountersAreNat'
  <2>1. pc[w] = "sub" /\ task[w][1] \in CallIds
    BY <1>8, CountOffFrame, OneInBatch DEF InBatch
  <2>2. remaining[task[w][1]] # 0
    BY <2>1, CountingIsLeft DEF Counting
  <2>3. remaining' = [remaining EXCEPT ![task[w][1]] = @ - 1]
    BY <1>8 DEF CountOff
  <2> QED
    BY <2>1, <2>2, <2>3 DEF CountersAreNat
<1> QED
  BY <1>0, <1>2, <1>3, <1>4, <1>5, <1>6, <1>7, <1>8, MostBatchesStay DEF InBatch, Aside

\* Types, and no counter of tasks, of waiters or of a batch below zero: the
\* fetch_subs of onTasksFinished, waitUntilFinished and finishTask.
THEOREM PoolTypeCorrect == Spec => []TypeOK
<1>1. Init => CountersAreNat
  BY DEF Init, CountersAreNat
<1>2. PoolInv /\ CountersAreNat /\ [Next]_vars => CountersAreNat'
  BY CountersKept
<1>3. ASSUME PoolInv, CountersAreNat
      PROVE  TypeOK
  <2>1. outstanding \in Nat
    BY <1>3, CountedFinite, FS_CardinalityType DEF PoolInv, CountIsExact
  <2>2. idleWaiters \in Nat
    <3>1. IsFiniteSet(Waiters)
      BY PoolAssumption, FS_Subset DEF Waiters
    <3> QED
      BY <1>3, <3>1, FS_CardinalityType DEF PoolInv, WaitersAreCounted
  <2>3. QueueTypes /\ PlaceTypes /\ CallTypes /\ TaskTypes
    BY <1>3 DEF PoolInv
  <2>4. {tickets, laneTickets, tokens, outstanding, idleWaiters} \subseteq Nat
    BY <2>1, <2>2, <2>3 DEF QueueTypes
  <2> QED
    BY <1>3, <2>3, <2>4 DEF TypeOK, QueueTypes, PlaceTypes, CallTypes, TaskTypes, CountersAreNat
<1> QED
  BY <1>1, <1>2, <1>3, PoolInvariant, PTL DEF Spec

-----------------------------------------------------------------------------
(* The wake-ups: the workers never all sleep over work while the semaphore *)
(* is empty.  The invariant counts what is signalled and will be signalled *)
(* against the work that no worker will see before it sleeps.              *)

\* Pieces of work that were pushed and not signalled, in numbers: signalWork
\* is still called for each.  A set, so that they can be counted.
PushedOf(f) == {e \in Clients \X Nat : e[2] \in 1 .. f[e[1]]}
Promised == tokens + Cardinality(PushedOf(todo))

\* What a worker does not look at again before it sleeps: the tickets, the
\* queue and at last the tickets of the lane.
PastTickets == {"pop", "lane", "sleep"}
PastTasks == {"lane", "sleep"}

Front == IF FrontFilled THEN 1 ELSE 0
Lane == IF laneTickets > 0 THEN 1 ELSE 0

\* Where every worker is past some work, as much is promised as there is of
\* the tickets, and one wake-up more for each of the others.
EnoughWakeUps ==
  threads # {} =>
    /\ (\A w \in threads : pc[w] \in PastTickets) => Promised >= tickets
    /\ (\A w \in threads : pc[w] \in PastTasks) => Promised >= tickets + Front
    /\ (\A w \in threads : pc[w] = "sleep") => Promised >= tickets + Front + Lane

\* The workers of the pool that runs are all there are: with orderly starts
\* those of an earlier pool have ended.
ThreadsTell ==
  /\ threads # {} => stopAsked = {}
  /\ \A w \in threads : pc[w] \notin {"off", "ended"}
  /\ \A w \in Workers : w \notin threads \cup stopAsked => pc[w] = "off"
  /\ \A c \in Clients : joining[c] \subseteq stopAsked
  /\ \A c, d \in Clients : c # d => joining[c] \cap joining[d] = {}

SomeInterrupted == \E l \in 1 .. calls : Interrupted(l)

WakeInv ==
  /\ ThreadsTell
  /\ IsFiniteSet(PushedOf(todo))
  /\ SomeInterrupted \/ EnoughWakeUps

-----------------------------------------------------------------------------
(* Counting what was pushed. *)

LEMMA PushedChanges ==
  ASSUME NEW f \in [Clients -> Nat], NEW c \in Clients, NEW n \in Nat,
         IsFiniteSet(PushedOf(f))
  PROVE  /\ IsFiniteSet(PushedOf([f EXCEPT ![c] = n]))
         /\ Cardinality(PushedOf([f EXCEPT ![c] = n])) + f[c] = Cardinality(PushedOf(f)) + n
<1> DEFINE Rest == {e \in PushedOf(f) : e[1] # c}
           g == [f EXCEPT ![c] = n]
<1>1. IsFiniteSet(Rest) /\ Cardinality(Rest) \in Nat
  BY FS_Subset, FS_CardinalityType
<1>2. ASSUME NEW m \in Nat, NEW h, h = [f EXCEPT ![c] = m]
      PROVE  IsFiniteSet(PushedOf(h)) /\ Cardinality(PushedOf(h)) = Cardinality(Rest) + m
  <2> DEFINE Mine == {c} \X (1 .. m)
  <2>1. h[c] = m /\ \A d \in Clients \ {c} : h[d] = f[d]
    BY <1>2
  <2>2. PushedOf(h) = Rest \cup Mine
    BY <2>1 DEF PushedOf
  <2>3. Rest \cap Mine = {}
    OBVIOUS
  <2>4. IsFiniteSet(Mine) /\ Cardinality(Mine) = m
    BY DroppedAreAsMany
  <2> HIDE DEF Rest, Mine
  <2>5. Cardinality(Rest \cap Mine) = 0
    BY <2>3, FS_EmptySet
  <2>6. /\ IsFiniteSet(Rest \cup Mine)
        /\ Cardinality(Rest \cup Mine) = Cardinality(Rest) + Cardinality(Mine) - Cardinality(Rest \cap Mine)
    BY <1>1, <2>4, FS_Union
  <2> QED
    BY <1>1, <2>2, <2>4, <2>5, <2>6
<1>3. f = [f EXCEPT ![c] = f[c]] /\ f[c] \in Nat
  OBVIOUS
<1>4. Cardinality(PushedOf(f)) = Cardinality(Rest) + f[c]
  BY <1>2, <1>3
<1>5. IsFiniteSet(PushedOf(g)) /\ Cardinality(PushedOf(g)) = Cardinality(Rest) + n
  BY <1>2
<1> HIDE DEF Rest
<1> QED
  BY <1>1, <1>3, <1>4, <1>5

\* What somebody has pushed is signalled by a client that still has to.
LEMMA PushedBySomebody ==
  ASSUME PoolInv, Cardinality(PushedOf(todo)) # 0
  PROVE  SignalPending
<1>1. PushedOf(todo) # {}
  BY FS_EmptySet
<1>2. PICK c \in Clients : todo[c] # 0
  BY <1>1 DEF PushedOf
<1>3. pc[c] \in Submitting \cup {"signal"}
  BY <1>2 DEF PoolInv, CallersTell
<1> QED
  BY <1>3 DEF SignalPending, Submitting

-----------------------------------------------------------------------------
(* What the steps do to wake-ups. *)

\* Of a worker: it looks at everything again, or ends, or goes past work it
\* has not found.
WorkerMoves(w) ==
  /\ UNCHANGED <<threads, stopAsked, joining, todo>>
  /\ \A b \in Actors \ {w} : pc'[b] = pc[b]
  /\ pc[w] \notin {"off", "ended"}
  /\ \/ pc'[w] \notin PastTickets \cup {"off", "ended"}
     \/ pc'[w] = "ended" /\ w \in stopAsked
     \/ /\ UNCHANGED <<cells, tickets, laneTickets, tokens>>
        /\ \/ pc[w] = "tickets" /\ pc'[w] = "pop" /\ ~(tickets > 0)
           \/ pc[w] = "pop" /\ pc'[w] = "lane" /\ ~FrontFilled
           \/ pc[w] = "lane" /\ pc'[w] = "sleep" /\ ~(laneTickets > 0)

LEMMA WorkersMove ==
  ASSUME PlaceTypes, NEW w \in Workers, Worker(w) \/ OnTasksFinished(w)
  PROVE  WorkerMoves(w)
<1>0. w \in Actors /\ DOMAIN pc = Actors
  BY DEF Actors, PlaceTypes
<1> USE <1>0 DEF WorkerMoves, Goto, PastTickets, queueVars, waitVars, poolVars, callVars
<1>1. CASE CheckStop(w)
  BY <1>1 DEF CheckStop
<1>2. CASE HelpParallel(w)
  BY <1>2 DEF HelpParallel
<1>3. CASE PopTask(w)
  BY <1>3 DEF PopTask
<1>4. CASE HelpBackground(w)
  BY <1>4 DEF HelpBackground
<1>5. CASE LoopOver(w) \/ frameWaiting(w) \/ PutBack(w)
  BY <1>5 DEF LoopOver, frameWaiting, PutBack
<1>6. CASE Wake(w) \/ Timeout(w) \/ onTaskStarted(w)
  BY <1>6 DEF Wake, Timeout, onTaskStarted
<1>7. ASSUME NEW how \in {"returned", "threw"}, RunTask(w, how) PROVE WorkerMoves(w)
  BY <1>7 DEF RunTask
<1>8. CASE FailBatch(w) \/ KeepError(w) \/ CountOff(w)
  BY <1>8 DEF FailBatch, KeepError, CountOff
<1>9. CASE Complete(w) \/ DestroyTask(w)
  BY <1>9 DEF Complete, DestroyTask
<1>10. CASE Finished(w)
  BY <1>10 DEF Finished, Continue
<1>11. CASE AnyWaiter(w) \/ PassMutex(w) \/ NotifyAll(w)
  BY <1>11 DEF AnyWaiter, PassMutex, NotifyAll, Continue
<1> QED
  BY <1>1, <1>2, <1>3, <1>4, <1>5, <1>6, <1>7, <1>8, <1>9, <1>10, <1>11
  DEF Worker, OnTasksFinished

\* Of a client that neither starts nor stops nor joins workers, nor leaves a
\* call by an exception: work is added where it is counted as pushed, taken
\* with its wake-up if there is one, or signalled.
WorkersRest == \A w \in Workers : pc'[w] = pc[w]
NoOtherWork == UNCHANGED <<tickets, laneTickets>> /\ (FrontFilled' => FrontFilled)

AddsNothing == NoOtherWork /\ todo' = todo /\ \E n \in Nat : tokens' = tokens + n
TakesTicket ==
  /\ UNCHANGED <<laneTickets, todo, cells>>
  /\ tickets > 0 /\ tickets' = tickets - 1
  /\ tokens' = IF tokens = 0 THEN 0 ELSE tokens - 1
Signals(c) == NoOtherWork /\ tokens' = tokens + todo[c] /\ todo' = [todo EXCEPT ![c] = 0]
Pushes(c, n) ==
  /\ todo[c] + n \in Nat /\ todo' = [todo EXCEPT ![c] = todo[c] + n]
  /\ tokens' = tokens
  /\ \/ n >= 1 /\ UNCHANGED <<tickets, laneTickets>>
     \/ n >= 1 /\ laneTickets' = laneTickets + n /\ UNCHANGED <<tickets, cells>>
     \/ tickets' = tickets + n /\ UNCHANGED <<laneTickets, cells>>

ClientMoves(c) ==
  /\ UNCHANGED <<threads, stopAsked, joining>> /\ WorkersRest
  /\ AddsNothing \/ TakesTicket \/ Signals(c) \/ \E n \in Nat : Pushes(c, n)

LEMMA ReserveHidesFront ==
  ASSUME PoolInv, NEW c \in Clients, Reserve(c)
  PROVE  FrontFilled' => FrontFilled
<1>0. /\ cells' \in Seq([task : Tasks, filled : BOOLEAN])
      /\ Len(cells) \in Nat /\ Len(cells') = Len(cells) + 1
      /\ \A i \in 1 .. Len(cells) : cells'[i] = cells[i]
      /\ ~cells'[Len(cells) + 1].filled
  BY ReservedCells
<1>1. cells' # <<>> /\ (cells = <<>> => Len(cells) = 0)
  BY <1>0
<1>2. Head(cells') = cells'[1]
  BY <1>0, <1>1, HeadTailProperties
<1>3. CASE cells = <<>>
  BY <1>0, <1>1, <1>2, <1>3 DEF FrontFilled
<1>4. CASE cells # <<>>
  <2>1. Head(cells) = cells[1] /\ 1 \in 1 .. Len(cells)
    BY <1>4, TakenCells
  <2> QED
    BY <1>0, <1>2, <1>4, <2>1 DEF FrontFilled
<1> QED
  BY <1>3, <1>4

LEMMA ClientsMove ==
  ASSUME PoolInv, NEW c \in Clients,
         Begin(c) \/ Submit(c) \/ Wait(c) \/ Shutdown(c) \/ OnTasksFinished(c)
  PROVE  ClientMoves(c) \/ initPool(c) \/ RequestStop(c) \/ JoinAll(c) \/ BuildThrows(c)
<1>0. /\ c \in Actors /\ c \notin Workers /\ DOMAIN pc = Actors /\ Workers \subseteq Actors
      /\ tokens \in Nat /\ tickets \in Nat /\ laneTickets \in Nat /\ todo \in [Clients -> Nat]
      /\ 0 \in Nat /\ tokens + 0 = tokens
  BY PoolAssumption DEF Actors, PoolInv, PlaceTypes, QueueTypes, CallTypes
<1> USE <1>0 DEF ClientMoves, WorkersRest, NoOtherWork, Goto, queueVars, waitVars, poolVars,
       callVars
<1>1. ASSUME NEW k \in CallKinds, Call(c, k) PROVE ClientMoves(c)
  BY <1>1 DEF Call, AddsNothing, FrontFilled
<1>2. ASSUME NEW n \in 1 .. MaxShares, NEW background \in BOOLEAN, Share(c, n, background)
      PROVE  ClientMoves(c)
  <2>0. /\ todo' = [todo EXCEPT ![c] = n] /\ UNCHANGED <<cells, tokens, threads, stopAsked, joining>>
        /\ pc' = [pc EXCEPT ![c] = "signal"]
        /\ tickets' = IF background THEN tickets ELSE tickets + n
        /\ laneTickets' = IF background THEN laneTickets + n ELSE laneTickets
    BY <1>2 DEF Share
  <2>1. n \in Nat /\ n >= 1
    OBVIOUS
  <2>2. todo[c] = 0
    BY <1>2 DEF Share, PoolInv, CallersTell, Submitting
  <2>3. Pushes(c, n)
    BY <2>0, <2>1, <2>2 DEF Pushes
  <2> QED
    BY <2>0, <2>1, <2>3
<1>3. CASE helpThread(c)
  BY <1>3 DEF helpThread, TakesTicket
<1>4. CASE BuildTask(c) \/ onTaskEnqueued(c)
  BY <1>4 DEF BuildTask, onTaskEnqueued, AddsNothing, FrontFilled
<1>5. CASE Reserve(c)
  <2>1. FrontFilled' => FrontFilled
    BY <1>5, ReserveHidesFront
  <2>2. /\ UNCHANGED <<tickets, laneTickets, tokens, todo, threads, stopAsked, joining>>
        /\ pc' = [pc EXCEPT ![c] = "fill"]
    BY <1>5 DEF Reserve
  <2> QED
    BY <2>1, <2>2 DEF AddsNothing
<1>6. CASE Fill(c)
  <2>1. Pushes(c, 1)
    BY <1>6 DEF Fill, Pushes
  <2> QED
    BY <1>6, <2>1 DEF Fill
<1>7. CASE Signal(c)
  BY <1>7 DEF Signal, Signals, FrontFilled
<1>8. CASE Wait(c) \/ BeginWait(c)
  BY <1>8 DEF Wait, BeginWait, LockCheck, CheckDone, FallAsleep, WakeUp, EndWait, AddsNothing, FrontFilled
<1>9. CASE OnTasksFinished(c)
  BY <1>9 DEF OnTasksFinished, Finished, AnyWaiter, PassMutex, NotifyAll, AddsNothing, FrontFilled
<1>10. CASE AllDropped(c)
  BY <1>10 DEF AllDropped, AddsNothing, FrontFilled
<1>11. CASE DropTask(c)
  BY <1>11 DEF DropTask, AddsNothing
<1>12. CASE SignalStop(c)
  <2>1. Cardinality(joining[c]) \in Nat
    BY PoolAssumption, FS_Subset, FS_CardinalityType DEF PoolInv, PlaceTypes
  <2> QED
    BY <1>12, <2>1 DEF SignalStop, AddsNothing, FrontFilled
<1> QED
  BY <1>1, <1>2, <1>3, <1>4, <1>5, <1>6, <1>7, <1>8, <1>9, <1>10, <1>11, <1>12
  DEF Begin, Submit, Shutdown

LEMMA ClientsKeepEnough ==
  ASSUME PoolInv, NEW c \in Clients, ClientMoves(c), IsFiniteSet(PushedOf(todo))
  PROVE  IsFiniteSet(PushedOf(todo'))
         /\ (EnoughWakeUps => EnoughWakeUps')
<1> DEFINE P == Cardinality(PushedOf(todo))
           Q == Cardinality(PushedOf(todo'))
<1>1. /\ tokens \in Nat /\ tickets \in Nat /\ laneTickets \in Nat
      /\ todo \in [Clients -> Nat] /\ todo[c] \in Nat /\ threads \subseteq Workers
  BY DEF PoolInv, QueueTypes, CallTypes, PlaceTypes
<1>2. P \in Nat
  BY FS_CardinalityType
<1>3. IsFiniteSet(PushedOf(todo')) /\ Q \in Nat
  <2>1. ASSUME NEW n \in Nat, todo' = [todo EXCEPT ![c] = n]
        PROVE  IsFiniteSet(PushedOf(todo'))
    BY <1>1, <2>1, PushedChanges
  <2>2. IsFiniteSet(PushedOf(todo'))
    BY <2>1 DEF ClientMoves, AddsNothing, TakesTicket, Signals, Pushes
  <2> QED
    BY <2>2, FS_CardinalityType
<1>4. \A n \in Nat : todo' = [todo EXCEPT ![c] = n] => Q + todo[c] = P + n
  BY <1>1, PushedChanges
<1>5. \A w \in threads : pc'[w] = pc[w]
  BY <1>1 DEF ClientMoves, WorkersRest
<1>6. threads' = threads
  BY DEF ClientMoves
<1>7. Promised = tokens + P /\ Promised' = tokens' + Q
  BY DEF Promised
<1>8. /\ Front \in {0, 1} /\ Front' \in {0, 1} /\ Lane \in {0, 1} /\ Lane' \in {0, 1}
      /\ (FrontFilled' => FrontFilled) => Front' <= Front
      /\ laneTickets' = laneTickets => Lane' = Lane
      /\ cells' = cells => Front' = Front
  BY DEF Front, Lane, FrontFilled
<1> HIDE DEF P, Q
<1>10. /\ tokens \in Int /\ tickets \in Int /\ laneTickets \in Int /\ P \in Int /\ Q \in Int
       /\ Front \in Int /\ Front' \in Int /\ Lane \in Int /\ Lane' \in Int /\ todo[c] \in Int
       /\ Front >= 0 /\ Front' <= 1 /\ Lane >= 0 /\ Lane' <= 1
  BY <1>1, <1>2, <1>3, <1>8
\* What the step leaves promised, against what it leaves to be done.
<1>9. /\ (Promised >= tickets) => Promised' >= tickets'
      /\ (Promised >= tickets + Front) => Promised' >= tickets' + Front'
      /\ (Promised >= tickets + Front + Lane) => Promised' >= tickets' + Front' + Lane'
  <2>1. CASE AddsNothing
    <3>1. Q = P
      BY <2>1 DEF AddsNothing, P, Q
    <3> QED
      <4>1. PICK n \in Nat : tokens' = tokens + n
        BY <2>1 DEF AddsNothing
      <4>2. Promised' = Promised + n
        BY <1>7, <1>10, <3>1, <4>1
      <4>3. tickets' = tickets /\ Lane' = Lane /\ Front' <= Front
        BY <1>8, <2>1 DEF AddsNothing, NoOtherWork
      <4> QED
        BY <1>7, <1>10, <4>2, <4>3
  <2>2. CASE TakesTicket
    <3>1. Q = P
      BY <2>2 DEF TakesTicket, P, Q
    <3>2. tokens = 0 \/ tokens' = tokens - 1
      BY <2>2 DEF TakesTicket
    <3> QED
      BY <1>1, <1>2, <1>3, <1>7, <1>8, <2>2, <3>1, <3>2 DEF TakesTicket
  <2>3. CASE Signals(c)
    <3>1. Q + todo[c] = P
      <4>1. Q + todo[c] = P + 0
        BY <1>4, <2>3 DEF Signals
      <4> QED
        BY <1>10, <4>1
    <3> QED
      BY <1>1, <1>2, <1>3, <1>7, <1>8, <2>3, <3>1 DEF Signals, NoOtherWork
  <2>4. ASSUME NEW n \in Nat, Pushes(c, n)
        PROVE  /\ (Promised >= tickets) => Promised' >= tickets'
               /\ (Promised >= tickets + Front) => Promised' >= tickets' + Front'
               /\ (Promised >= tickets + Front + Lane) => Promised' >= tickets' + Front' + Lane'
    <3>1. Q = P + n
      <4>1. todo' = [todo EXCEPT ![c] = todo[c] + n] /\ todo[c] + n \in Nat
        BY <2>4 DEF Pushes
      <4>2. Q + todo[c] = P + (todo[c] + n)
        BY <1>4, <4>1
      <4> QED
        BY <1>10, <4>2
    <3>2. tokens' = tokens
      BY <2>4 DEF Pushes
    <3>3. CASE n >= 1 /\ UNCHANGED <<tickets, laneTickets>>
      <4>1. Promised' = Promised + n /\ tickets' = tickets /\ Lane' = Lane /\ Front' <= Front + n
        BY <1>7, <1>8, <1>10, <3>1, <3>2, <3>3
      <4> QED
        BY <1>7, <1>10, <4>1
    <3>4. CASE n >= 1 /\ laneTickets' = laneTickets + n /\ UNCHANGED <<tickets, cells>>
      <4>1. Promised' = Promised + n /\ tickets' = tickets /\ Front' = Front /\ Lane' <= Lane + n
        BY <1>7, <1>8, <1>10, <3>1, <3>2, <3>4
      <4> QED
        BY <1>7, <1>10, <4>1
    <3>5. CASE tickets' = tickets + n /\ UNCHANGED <<laneTickets, cells>>
      BY <1>1, <1>2, <1>7, <1>8, <3>1, <3>2, <3>5
    <3> QED
      BY <2>4, <3>3, <3>4, <3>5 DEF Pushes
  <2> QED
    BY <2>1, <2>2, <2>3, <2>4 DEF ClientMoves
<1> QED
  BY <1>3, <1>5, <1>6, <1>9 DEF EnoughWakeUps

LEMMA WorkersKeepEnough ==
  ASSUME PoolInv, ThreadsTell, NEW w \in Workers, WorkerMoves(w), IsFiniteSet(PushedOf(todo))
  PROVE  IsFiniteSet(PushedOf(todo')) /\ (EnoughWakeUps => EnoughWakeUps')
<1>1. todo' = todo /\ threads' = threads
  BY DEF WorkerMoves
<1>2. IsFiniteSet(PushedOf(todo')) /\ Cardinality(PushedOf(todo)) \in Nat
  BY <1>1, FS_CardinalityType
<1>3. SUFFICES ASSUME EnoughWakeUps, threads # {} PROVE EnoughWakeUps'
  BY <1>1, <1>2 DEF EnoughWakeUps
<1>4. w \in threads /\ w \notin stopAsked
  BY <1>3 DEF ThreadsTell, WorkerMoves
<1>5. threads \subseteq Actors /\ w \in Actors
  BY DEF PoolInv, PlaceTypes, Actors
<1>6. CASE pc'[w] \notin PastTickets \cup {"off", "ended"}
  BY <1>1, <1>4, <1>6 DEF EnoughWakeUps, PastTickets, PastTasks
<1>7. CASE UNCHANGED <<cells, tickets, laneTickets, tokens>>
  <2>1. /\ Promised' = Promised /\ tickets' = tickets /\ Front' = Front /\ Lane' = Lane
        /\ tokens \in Nat /\ tickets \in Nat /\ laneTickets \in Nat /\ Promised \in Nat
    BY <1>1, <1>2, <1>7 DEF Promised, Front, Lane, FrontFilled, PoolInv, QueueTypes
  <2>2. \A v \in threads \ {w} : pc'[v] = pc[v]
    BY <1>5 DEF WorkerMoves
  <2>3. CASE pc[w] = "tickets" /\ pc'[w] = "pop" /\ ~(tickets > 0)
    <3>1. Promised >= tickets
      BY <2>1, <2>3
    <3> QED
      BY <1>1, <1>4, <2>1, <2>3, <3>1 DEF EnoughWakeUps, PastTasks
  <2>4. CASE pc[w] = "pop" /\ pc'[w] = "lane" /\ ~FrontFilled
    <3>1. (\A v \in threads : pc'[v] \in PastTickets) => \A v \in threads : pc[v] \in PastTickets
      BY <2>2, <2>4 DEF PastTickets
    <3>2. (\A v \in threads : pc'[v] \in PastTasks) => \A v \in threads : pc[v] \in PastTickets
      BY <2>2, <2>4 DEF PastTickets, PastTasks
    <3>3. Front = 0
      BY <2>4 DEF Front
    <3> QED
      BY <1>1, <1>3, <1>4, <2>1, <2>4, <3>1, <3>2, <3>3 DEF EnoughWakeUps
  <2>5. CASE pc[w] = "lane" /\ pc'[w] = "sleep" /\ ~(laneTickets > 0)
    <3>1. (\A v \in threads : pc'[v] \in PastTickets) => \A v \in threads : pc[v] \in PastTickets
      BY <2>2, <2>5 DEF PastTickets
    <3>2. (\A v \in threads : pc'[v] \in PastTasks) => \A v \in threads : pc[v] \in PastTasks
      BY <2>2, <2>5 DEF PastTasks
    <3>3. (\A v \in threads : pc'[v] = "sleep") => \A v \in threads : pc[v] \in PastTasks
      BY <2>2, <2>5 DEF PastTasks
    <3>4. Lane = 0 /\ Front \in {0, 1}
      BY <2>5 DEF Lane, Front
    <3> QED
      BY <1>1, <1>3, <1>4, <2>1, <3>1, <3>2, <3>3, <3>4 DEF EnoughWakeUps
  <2>6. CASE pc'[w] = "ended" /\ w \in stopAsked
    BY <1>4, <2>6
  <2> QED
    BY <1>6, <2>3, <2>4, <2>5, <2>6 DEF WorkerMoves
<1> QED
  BY <1>4, <1>6, <1>7 DEF WorkerMoves

-----------------------------------------------------------------------------
(* Calls that were left by an exception. *)

\* What was never built of a call that was left is never built.
LEMMA InterruptedStays ==
  ASSUME PoolInv, PoolInv', [Next]_vars, SomeInterrupted
  PROVE  SomeInterrupted'
<1>1. PICK l \in 1 .. calls : Interrupted(l)
  BY DEF SomeInterrupted
<1>2. PICK i \in 1 .. kind[l].size : Unbuilt(<<l, i>>)
  BY <1>1 DEF Interrupted, Unbuilt
<1> DEFINE t == <<l, i>>
<1>3. /\ l \in CallIds /\ calls \in Nat /\ i \in 1 .. MaxSize /\ t \in Tasks /\ t \notin captured
      /\ outcome[t] = "none" /\ t[1] = l /\ l # None
  BY <1>2, PoolAssumption DEF PoolInv, CallTypes, CallIds, Tasks, Unbuilt
<1>4. \A c \in Clients : call[c] # l
  BY <1>1 DEF Interrupted
<1> HIDE DEF t
<1>5. SUFFICES /\ calls <= calls' /\ kind'[l] = kind[l]
               /\ t \notin captured' /\ outcome'[t] = "none"
               /\ \A c \in Clients : call'[c] # l
  <2>1. calls' \in Nat
    BY DEF PoolInv, CallTypes
  <2> QED
    BY <1>2, <1>3, <2>1 DEF SomeInterrupted, Interrupted, t
<1>6. Same \/ (Still /\ Starting) \/ Moving
  BY QuietOrEngaging, StillOrMoving
<1>7. CASE Same
  <2>1. ASSUME NEW c \in Clients, call'[c] = l PROVE FALSE
    <3>1. pc'[c] \in Submitting
      BY <1>3, <2>1 DEF PoolInv, CallersTell
    <3> QED
      BY <1>4, <1>7, <2>1, <3>1 DEF Same
  <2> QED
    BY <1>3, <1>7, <2>1 DEF Same, Still
<1>8. CASE Still /\ Starting
  <2>1. ASSUME NEW c \in Clients, NEW k \in CallKinds, Call(c, k)
        PROVE  /\ calls <= calls' /\ kind'[l] = kind[l] /\ outcome' = outcome
               /\ \A d \in Clients : call'[d] # l
    BY <1>1, <1>3, <1>4, <2>1, CallFrame
  <2>2. ASSUME NEW w \in Workers, NEW how \in {"returned", "threw"}, RunTask(w, how)
        PROVE  /\ UNCHANGED <<calls, kind, call>> /\ outcome'[t] = outcome[t]
    <3>1. task[w] \in captured
      BY <2>2, RunTaskFrame, RunsTask DEF Running
    <3> QED
      BY <1>3, <2>2, <3>1, RunTaskFrame
  <2> QED
    BY <1>3, <1>4, <1>8, <2>1, <2>2 DEF Starting, Still
<1>9. CASE Moving
  <2>1. ASSUME NEW c \in Clients, BuildTask(c)
        PROVE  t \notin captured' /\ UNCHANGED <<calls, kind, call, outcome>>
    <3>1. t # <<call[c], todo[c] + 1>>
      BY <1>4 DEF t
    <3> QED
      BY <1>3, <2>1, <3>1, BuildTaskFrame
  <2>2. ASSUME NEW c \in Clients, Reserve(c)
        PROVE  UNCHANGED <<calls, kind, call, outcome, captured>>
    BY <2>2, ReserveFrame
  <2>3. ASSUME NEW c \in Clients, Fill(c)
        PROVE  UNCHANGED <<calls, kind, outcome, captured>> /\ \A d \in Clients : call'[d] # l
    BY <1>3, <1>4, <2>3, FillFrame
  <2>4. ASSUME NEW c \in Clients, DropTask(c)
        PROVE  /\ t \notin captured' /\ UNCHANGED <<calls, kind, call>> /\ outcome'[t] = outcome[t]
    <3>1. cells[1].task \in captured
      BY <2>4, DropTaskFrame, TakenCells DEF PoolInv, CapturesInPlaces
    <3>2. captured' \subseteq captured
      BY <2>4 DEF DropTask, Forget
    <3> QED
      BY <1>3, <2>4, <3>1, <3>2, DropTaskFrame
  <2>5. ASSUME NEW w \in Workers, PopTask(w)
        PROVE  UNCHANGED <<calls, kind, call, outcome, captured>>
    BY <2>5, PopTaskFrame
  <2>6. ASSUME NEW w \in Workers, DestroyTask(w)
        PROVE  t \notin captured' /\ UNCHANGED <<calls, kind, call, outcome>>
    BY <1>3, <2>6, DestroyTaskFrame DEF DestroyTask, Forget
  <2> QED
    BY <1>3, <1>4, <1>9, <2>1, <2>2, <2>3, <2>4, <2>5, <2>6 DEF Moving
<1> QED
  BY <1>6, <1>7, <1>8, <1>9

\* Whoever is thrown out of a call leaves one that is interrupted.
LEMMA ThrowInterrupts ==
  ASSUME PoolInv, PoolInv', NEW c \in Clients, BuildThrows(c)
  PROVE  SomeInterrupted'
<1>1. /\ pc[c] = "build" /\ call'[c] = None /\ \A d \in Clients \ {c} : call'[d] = call[d]
      /\ UNCHANGED <<calls, kind, captured, outcome>>
  BY BuildThrowsFrame
<1>2. /\ call[c] \in 1 .. calls /\ todo[c] + 1 \in 1 .. kind[call[c]].size /\ call[c] # None
      /\ \A d \in Clients \ {c} : call[d] # call[c]
      /\ todo[c] \in Nat /\ calls \in Nat
  BY <1>1, PoolAssumption DEF PoolInv, CallersTell, CallTypes, Submitting
<1>3. PICK l : l = call[c]
  OBVIOUS
<1>4. PICK i : i = todo[c] + 1
  OBVIOUS
<1>5. i \in 1 .. MaxSize /\ kind[l].size \in Nat
  BY <1>2, <1>3, <1>4, PoolAssumption DEF PoolInv, CallTypes, CallIds
<1>6. Unbuilt(<<l, i>>)
  <2>1. pc[c] \in Submitting /\ pc[c] \notin Holding /\ i > todo[c]
    BY <1>1, <1>2, <1>4 DEF Submitting, Holding
  <2> QED
    BY <1>3, <1>5, <2>1 DEF PoolInv, OutcomesTell
<1>7. Interrupted(l)'
  BY <1>1, <1>2, <1>3, <1>4, <1>6 DEF Interrupted, Unbuilt
<1> QED
  BY <1>1, <1>2, <1>3, <1>7 DEF SomeInterrupted

-----------------------------------------------------------------------------
(* The invariant. *)

LEMMA WakeInvAtFirst == Init => WakeInv
<1> SUFFICES ASSUME Init PROVE WakeInv
  OBVIOUS
<1>1. ThreadsTell
  BY PoolAssumption DEF Init, ThreadsTell, Actors
<1>2. PushedOf(todo) = {}
  BY DEF Init, PushedOf
<1>3. IsFiniteSet(PushedOf(todo))
  BY <1>2, FS_EmptySet
<1>4. EnoughWakeUps
  BY DEF Init, EnoughWakeUps
<1> QED
  BY <1>1, <1>3, <1>4 DEF WakeInv

LEMMA ThreadsKept ==
  ASSUME PoolInv, ThreadsTell, [Next /\ OrderlyStart]_vars
  PROVE  ThreadsTell'
<1>0. /\ threads \subseteq Workers /\ joining \in [Clients -> SUBSET Workers] /\ DOMAIN pc = Actors
      /\ Workers \subseteq Actors /\ \A c \in Clients : c \in Actors /\ c \notin Workers
  BY PoolAssumption DEF PoolInv, PlaceTypes, Actors
<1>1. CASE UNCHANGED vars
  BY <1>1 DEF vars, poolVars, ThreadsTell
<1>2. ASSUME NEW c \in Clients, ClientMoves(c)
      PROVE  ThreadsTell'
  BY <1>0, <1>2 DEF ClientMoves, WorkersRest, ThreadsTell
<1>3. ASSUME NEW c \in Clients, BuildThrows(c)
      PROVE  ThreadsTell'
  <2>1. UNCHANGED <<threads, stopAsked, joining>> /\ \A w \in Workers : pc'[w] = pc[w]
    BY <1>0, <1>3 DEF BuildThrows, Goto, poolVars
  <2> QED
    BY <1>0, <2>1 DEF ThreadsTell
<1>4. ASSUME NEW c \in Clients, initPool(c), OrderlyStart
      PROVE  ThreadsTell'
  <2>1. PICK ws \in SUBSET {w \in Workers : pc[w] = "off"} :
          /\ Cardinality(ws) = PoolSize
          /\ threads' = ws
          /\ pc' = [a \in Actors |-> IF a \in ws THEN "top" ELSE pc[a]]
    BY <1>4 DEF initPool
  <2>2. ws # {}
    BY <2>1, PoolAssumption, FS_EmptySet
  <2>3. threads = {} /\ stopAsked = {} /\ UNCHANGED <<stopAsked, joining>>
    BY <1>4, <2>1, <2>2 DEF initPool, OrderlyStart
  <2> QED
    BY <1>0, <2>1, <2>3 DEF ThreadsTell
<1>5. ASSUME NEW c \in Clients, RequestStop(c)
      PROVE  ThreadsTell'
  <2>1. /\ stopAsked' = stopAsked \cup threads /\ threads' = {}
        /\ joining' = [joining EXCEPT ![c] = threads] /\ \A w \in Workers : pc'[w] = pc[w]
    BY <1>0, <1>5 DEF RequestStop, Goto
  <2>2. threads # {} => \A d \in Clients : joining[d] = {}
    BY DEF ThreadsTell
  <2> QED
    BY <1>0, <2>1, <2>2 DEF ThreadsTell
<1>6. ASSUME NEW c \in Clients, JoinAll(c)
      PROVE  ThreadsTell'
  <2>1. /\ stopAsked' = stopAsked \ joining[c] /\ threads' = threads
        /\ joining' = [joining EXCEPT ![c] = {}]
        /\ \A w \in Workers : pc'[w] = IF w \in joining[c] THEN "off" ELSE pc[w]
    BY <1>0, <1>6 DEF JoinAll
  <2>2. threads # {} => joining[c] = {}
    BY DEF ThreadsTell
  <2> QED
    BY <1>0, <2>1, <2>2 DEF ThreadsTell
<1>7. ASSUME NEW w \in Workers, WorkerMoves(w)
      PROVE  ThreadsTell'
  <2>1. /\ UNCHANGED <<threads, stopAsked, joining>>
        /\ \A v \in Workers \ {w} : pc'[v] = pc[v]
        /\ pc[w] \notin {"off", "ended"} /\ (pc'[w] \in {"off", "ended"} => w \in stopAsked)
    BY <1>0, <1>7 DEF WorkerMoves, PastTickets
  <2>2. w \in stopAsked => threads = {}
    BY DEF ThreadsTell
  <2> QED
    BY <1>0, <2>1, <2>2 DEF ThreadsTell
<1> QED
  BY <1>1, <1>2, <1>3, <1>4, <1>5, <1>6, <1>7, ClientsMove, WorkersMove DEF Next, PoolInv

LEMMA WakeInvKept ==
  ASSUME PoolInv, PoolInv', WakeInv, [Next /\ OrderlyStart]_vars
  PROVE  WakeInv'
<1>1. ThreadsTell'
  BY ThreadsKept DEF WakeInv
<1>2. SomeInterrupted => SomeInterrupted'
  BY InterruptedStays
<1>3. /\ todo \in [Clients -> Nat] /\ threads \subseteq Workers /\ Workers \subseteq Actors
      /\ DOMAIN pc = Actors
  BY DEF PoolInv, CallTypes, PlaceTypes, Actors
<1>4. CASE UNCHANGED vars
  BY <1>1, <1>2, <1>4
  DEF WakeInv, vars, queueVars, poolVars, callVars, EnoughWakeUps, Promised, Front, Lane, FrontFilled
<1>5. ASSUME NEW c \in Clients, ClientMoves(c)
      PROVE  WakeInv'
  BY <1>1, <1>2, <1>5, ClientsKeepEnough DEF WakeInv
<1>6. ASSUME NEW c \in Clients, BuildThrows(c)
      PROVE  WakeInv'
  <2>1. todo' = [todo EXCEPT ![c] = 0]
    BY <1>6 DEF BuildThrows
  <2>2. IsFiniteSet(PushedOf(todo'))
    BY <1>3, <2>1, PushedChanges DEF WakeInv
  <2> QED
    BY <1>1, <1>6, <2>2, ThrowInterrupts DEF WakeInv
\* The workers of a new pool look at everything, and those that were there
\* and are not asked to stop go on as before.
<1>7. ASSUME NEW c \in Clients, initPool(c) \/ RequestStop(c) \/ JoinAll(c), OrderlyStart
      PROVE  WakeInv'
  <2>1. todo' = todo
    BY <1>7 DEF initPool, RequestStop, JoinAll, callVars
  <2>2. CASE initPool(c)
    <3>1. PICK ws \in SUBSET {w \in Workers : pc[w] = "off"} :
            threads' = ws /\ pc' = [a \in Actors |-> IF a \in ws THEN "top" ELSE pc[a]]
      BY <2>2 DEF initPool
    <3>2. \A w \in threads' : pc'[w] = "top"
      BY <1>3, <3>1
    <3>3. EnoughWakeUps'
      BY <3>2 DEF EnoughWakeUps, PastTickets, PastTasks
    <3> QED
      BY <1>1, <2>1, <3>3 DEF WakeInv
  <2>3. CASE RequestStop(c)
    <3>1. threads' = {}
      BY <2>3 DEF RequestStop
    <3>2. EnoughWakeUps'
      BY <3>1 DEF EnoughWakeUps
    <3> QED
      BY <1>1, <2>1, <3>2 DEF WakeInv
  <2>4. CASE JoinAll(c)
    <3>1. threads' = threads /\ UNCHANGED <<cells, tickets, laneTickets, tokens>>
      BY <2>4 DEF JoinAll, poolVars, queueVars
    <3>2. \A w \in threads : w \notin joining[c] /\ w # c
      BY <1>3, PoolAssumption DEF WakeInv, ThreadsTell
    <3>3. \A w \in threads : pc'[w] = pc[w]
      BY <1>3, <2>4, <3>2 DEF JoinAll
    <3>4. EnoughWakeUps => EnoughWakeUps'
      BY <2>1, <3>1, <3>3 DEF EnoughWakeUps, Promised, Front, Lane, FrontFilled
    <3> QED
      BY <1>1, <1>2, <2>1, <3>4 DEF WakeInv
  <2> QED
    BY <1>7, <2>2, <2>3, <2>4
<1>8. ASSUME NEW w \in Workers, WorkerMoves(w)
      PROVE  WakeInv'
  BY <1>1, <1>2, <1>8, WorkersKeepEnough DEF WakeInv
<1> QED
  BY <1>4, <1>5, <1>6, <1>7, <1>8, ClientsMove, WorkersMove DEF Next, PoolInv

\* The invariant of the wake-ups: what workerThread does not look at again
\* before it sleeps has its wake-ups in the semaphore or still to come.
THEOREM WakeUpsSuffice == OrderlySpec => [](PoolInv /\ WakeInv)
<1>1. Init => PoolInv /\ WakeInv
  BY PoolInvAtFirst, WakeInvAtFirst
<1>2. PoolInv /\ WakeInv /\ [Next /\ OrderlyStart]_vars => (PoolInv /\ WakeInv)'
  BY PoolInvKept, WakeInvKept
<1> QED
  BY <1>1, <1>2, PTL DEF OrderlySpec

\* "Every piece of work comes with one wake-up": as long as nobody starts a
\* pool while another is being shut down, and no call was left by an
\* exception, its workers never all sleep over work with no wake-up in the
\* semaphore and nobody about to signal.  takeWakeUp, helpThread, the lane's
\* tickets that go back and workers that wake for nothing do not lose one
\* that is needed.
THEOREM NoWorkIsOverslept == OrderlySpec => []NoWorkOverslept
<1>1. ASSUME PoolInv, WakeInv
      PROVE  NoWorkOverslept
  <2> SUFFICES ASSUME threads # {}, \A w \in threads : pc[w] = "sleep", WorkWaits,
                      ~(tokens > 0), ~SomeInterrupted
               PROVE  SignalPending
    BY DEF NoWorkOverslept, SomeInterrupted
  <2>1. Promised >= tickets + Front + Lane
    BY <1>1 DEF WakeInv, EnoughWakeUps
  <2>2. tickets \in Nat /\ laneTickets \in Nat /\ tokens = 0
    BY <1>1 DEF PoolInv, QueueTypes
  <2>3. tickets + Front + Lane >= 1
    BY <2>2 DEF WorkWaits, Front, Lane
  <2>4. Cardinality(PushedOf(todo)) \in Nat
    BY <1>1, FS_CardinalityType DEF WakeInv
  <2>5. Cardinality(PushedOf(todo)) # 0
    BY <2>1, <2>2, <2>3, <2>4 DEF Promised, Front, Lane
  <2> QED
    BY <1>1, <2>5, PushedBySomebody
<1> QED
  BY <1>1, WakeUpsSuffice, PTL

=============================================================================
