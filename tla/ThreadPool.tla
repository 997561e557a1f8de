----------------------------- MODULE ThreadPool -----------------------------
(***************************************************************************)
(* The pool of sc::threading: tasks, wake-ups, waitUntilFinished, init and *)
(* shutdown (src/sc/threading/backend.cpp), and the calls that put work on *)
(* it (enqueue.hpp, detach.hpp, the batch states of internal.hpp).         *)
(*                                                                         *)
(* The queue of tasks is what RingQueue was shown to be: a push reserves a *)
(* cell and fills it later, a pop finds nothing while the cell in front is *)
(* not filled.  A loop of parallelFor is no more here than its tickets and *)
(* their wake-ups; ParallelLoop has the rest.                              *)
(*                                                                         *)
(* A call is one of enqueue, detach and their batches, for size tasks:     *)
(*   "each"      every task has the promise of its own result,             *)
(*   "merged"    the same, with the promises in the state of the batch,    *)
(*   "void"      one promise for the batch, BatchState,                    *)
(*   "detach"    no promise,                                               *)
(*   "callback"  DetachBatchState with onFinished.                         *)
(***************************************************************************)
EXTENDS Naturals, Sequences, FiniteSets

CONSTANTS
  Clients,     \* threads that call the pool
  Workers,     \* threads the pool may start
  PoolSize,    \* how many workers initPool starts
  QueueCap,    \* filled cells of the queue
  CallKinds,   \* the calls: [kind, size]
  MaxCalls,    \* bound: calls of enqueue and detach
  MaxSize,     \* bound: tasks of a call
  MaxShares,   \* bound: tickets of loops
  MaxInits,    \* bound: calls of initPool
  MayThrow,    \* whether building a task may throw
  None         \* nobody, nothing

ASSUME PoolAssumption ==
  /\ PoolSize \in Nat \ {0}
  /\ QueueCap \in Nat \ {0}
  /\ {MaxCalls, MaxSize, MaxShares, MaxInits} \subseteq Nat
  /\ CallKinds \subseteq [kind : {"each", "merged", "void", "detach", "callback"}, size : 0 .. MaxSize]
  /\ MayThrow \in BOOLEAN
  /\ Clients \cap Workers = {}
  /\ IsFiniteSet(Clients) /\ IsFiniteSet(Workers)
  /\ None \notin Clients \cup Workers
  /\ None \notin Nat \cup (Nat \X Nat)

VARIABLES
  cells,        \* queue: [task, filled], the front first
  tickets,      \* how many tickets of loops of the frame are out
  laneTickets,  \* the same for loops of the lane
  tokens,       \* poolSemaphore
  outstanding,  \* outstandingTasks
  idleWaiters,  \* idleWaiters
  waitMutex,    \* who holds it, or None
  sleepers,     \* who waits for waitCondition
  threads,      \* the workers in threads
  stopAsked,    \* the workers whose stop was requested
  pc,           \* where a worker or a client is
  task,         \* the task it has
  woken,        \* wokenForWork
  call,         \* the call a client makes
  todo,         \* the pieces of work it has pushed and not signalled
  joining,      \* the workers shutdownPool joins
  dropped,      \* what it has dropped
  calls,        \* how many calls were made
  kind,         \* of a call
  remaining,    \* of BatchState and DetachBatchState
  error,        \* BatchState::failed and BatchState::error
  promise,      \* of a task, or of the batch at 0
  captured,     \* the tasks whose captures exist
  outcome,      \* what became of a task
  callbacks,    \* how often onFinished was called
  shares,       \* bound: tickets so far
  inits         \* bound: initPool so far

queueVars == <<cells, tickets, laneTickets, tokens>>
waitVars == <<outstanding, idleWaiters, waitMutex, sleepers>>
poolVars == <<threads, stopAsked, joining, dropped, inits>>
taskVars == <<remaining, error, promise, captured, outcome, callbacks>>
callVars == <<call, todo, calls, kind, shares>>
vars == <<queueVars, waitVars, poolVars, taskVars, callVars, pc, task, woken>>

CallIds == 1 .. MaxCalls
Tasks == CallIds \X (1 .. MaxSize)
Actors == Clients \cup Workers
NoCall == [kind |-> "detach", size |-> 0]

Goto(a, from, to) ==
  /\ pc[a] = from
  /\ pc' = [pc EXCEPT ![a] = to]

Init ==
  /\ cells = <<>>
  /\ tickets = 0 /\ laneTickets = 0 /\ tokens = 0
  /\ outstanding = 0 /\ idleWaiters = 0 /\ waitMutex = None /\ sleepers = {}
  /\ threads = {} /\ stopAsked = {}
  /\ joining = [c \in Clients |-> {}]
  /\ dropped = [c \in Clients |-> 0]
  /\ inits = 0
  /\ pc = [a \in Actors |-> IF a \in Workers THEN "off" ELSE "idle"]
  /\ task = [a \in Actors |-> None]
  /\ woken = [w \in Workers |-> FALSE]
  /\ call = [c \in Clients |-> None]
  /\ todo = [c \in Clients |-> 0]
  /\ calls = 0
  /\ shares = 0
  /\ kind = [l \in CallIds |-> NoCall]
  /\ remaining = [l \in CallIds |-> 0]
  /\ error = [l \in CallIds |-> [failed |-> FALSE, kept |-> None]]
  /\ promise = [l \in CallIds |-> [i \in 0 .. MaxSize |-> "none"]]
  /\ captured = {}
  /\ outcome = [t \in Tasks |-> "none"]
  /\ callbacks = [l \in CallIds |-> 0]

-----------------------------------------------------------------------------
(* Promises and the states of batches. *)

\* A promise is set once; a second time throws.
Fulfil(l, i, with) ==
  promise' = [promise EXCEPT ![l][i] = IF @ = "pending" THEN with ELSE "twice"]

Break(l, which) ==
  promise' = [promise EXCEPT ![l] =
    [i \in 0 .. MaxSize |-> IF i \in which /\ @[i] = "pending" THEN "broken" ELSE @[i]]]

\* The promises that go with a state nobody has any more: the tasks of the
\* call keep it, and the call itself while it makes them.
SharedPromises(l, tasks, makers) ==
  IF kind[l].kind = "each" \/ (\E u \in tasks : u[1] = l) \/ (\E c \in makers : call[c] = l)
  THEN {} ELSE 0 .. MaxSize

\* A mistake in the dropping of a task: its promise stays as it is.
ForgetCaptures(t) ==
  /\ captured' = captured \ {t}
  /\ UNCHANGED promise

\* The captures of a task go, and with them its promise or its part of the
\* shared state.
Forget(t) ==
  LET l == t[1] IN
  /\ captured' = captured \ {t}
  /\ Break(l, IF kind[l].kind = "each" THEN {t[2]} ELSE SharedPromises(l, captured', Clients))

-----------------------------------------------------------------------------
(* enqueue, enqueueBatch, detach, detachBatch. *)

\* detachBatch of an empty range returns at once; enqueueBatch of one sets the
\* promise of the batch and signals nothing.
Call(c, k) ==
  LET l == calls + 1 IN
  /\ calls < MaxCalls
  /\ Goto(c, "idle", IF k.size = 0 THEN "idle" ELSE "build")
  /\ calls' = l
  /\ kind' = [kind EXCEPT ![l] = k]
  /\ call' = [call EXCEPT ![c] = IF k.size = 0 THEN None ELSE l]
  /\ remaining' = [remaining EXCEPT ![l] = k.size]
  /\ promise' = [promise EXCEPT ![l] = [i \in 0 .. MaxSize |->
       IF k.kind = "void" /\ i = 0 THEN IF k.size = 0 THEN "value" ELSE "pending"
       ELSE IF k.kind \in {"each", "merged"} /\ i \in 1 .. k.size THEN "pending"
       ELSE "none"]]
  /\ UNCHANGED <<queueVars, waitVars, poolVars, error, captured, outcome, callbacks, todo, shares,
                 task, woken>>

\* Queue::submit: the task, which may fail to be built, is counted and pushed.
BuildTask(c) ==
  LET t == <<call[c], todo[c] + 1>> IN
  /\ Goto(c, "build", "count")
  /\ task' = [task EXCEPT ![c] = t]
  /\ captured' = captured \cup {t}
  /\ UNCHANGED <<queueVars, waitVars, poolVars, callVars, remaining, error, promise, outcome,
                 callbacks, woken>>

\* The exception leaves the call: what was pushed stays, and nobody is told.
BuildThrows(c) ==
  LET l == call[c] IN
  /\ MayThrow
  /\ Goto(c, "build", "idle")
  /\ call' = [call EXCEPT ![c] = None]
  /\ todo' = [todo EXCEPT ![c] = 0]
  /\ Break(l, IF kind[l].kind = "each" THEN todo[c] + 1 .. MaxSize
              ELSE SharedPromises(l, captured, Clients \ {c}))
  /\ UNCHANGED <<queueVars, waitVars, poolVars, remaining, error, captured, outcome, callbacks,
                 calls, kind, shares, task, woken>>

onTaskEnqueued(c) ==
  /\ Goto(c, "count", "reserve")
  /\ outstanding' = outstanding + 1
  /\ UNCHANGED <<queueVars, idleWaiters, waitMutex, sleepers, poolVars, taskVars, callVars, task, woken>>

Reserve(c) ==
  /\ Goto(c, "reserve", "fill")
  /\ cells' = Append(cells, [task |-> task[c], filled |-> FALSE])
  /\ UNCHANGED <<tickets, laneTickets, tokens, waitVars, poolVars, taskVars, callVars, task, woken>>

\* The last one: the call lets go of the state of the batch.
Fill(c) ==
  LET l == call[c]
      last == todo[c] + 1 = kind[l].size
  IN
  /\ Goto(c, "fill", IF last THEN "signal" ELSE "build")
  /\ Cardinality({i \in DOMAIN cells : cells[i].filled}) < QueueCap
  /\ \E i \in DOMAIN cells :
       /\ cells[i].task = task[c]
       /\ cells' = [cells EXCEPT ![i] = [task |-> task[c], filled |-> TRUE]]
  /\ todo' = [todo EXCEPT ![c] = @ + 1]
  /\ task' = [task EXCEPT ![c] = None]
  /\ call' = [call EXCEPT ![c] = IF last THEN None ELSE l]
  /\ Break(l, IF last THEN SharedPromises(l, captured, Clients \ {c}) ELSE {})
  /\ UNCHANGED <<tickets, laneTickets, tokens, waitVars, poolVars, remaining, error, captured,
                 outcome, callbacks, calls, kind, shares, woken>>

\* A mistake in signalWork: no wake-up if a worker is awake anyway.
SignalSleeping(c) ==
  /\ Goto(c, "signal", "idle")
  /\ tokens' = IF \A w \in threads : pc[w] = "sleep" THEN tokens + todo[c] ELSE tokens
  /\ todo' = [todo EXCEPT ![c] = 0]
  /\ UNCHANGED <<cells, tickets, laneTickets, waitVars, poolVars, taskVars, call, calls, kind, shares,
                 task, woken>>

\* signalWork, and the call returns.
Signal(c) ==
  /\ Goto(c, "signal", "idle")
  /\ tokens' = tokens + todo[c]
  /\ todo' = [todo EXCEPT ![c] = 0]
  /\ UNCHANGED <<cells, tickets, laneTickets, waitVars, poolVars, taskVars, call, calls, kind, shares,
                 task, woken>>

\* shareParallel: the tickets of a loop, which are signalled as tasks are.
Share(c, n, background) ==
  /\ threads # {}
  /\ shares + n <= MaxShares
  /\ Goto(c, "idle", "signal")
  /\ tickets' = IF background THEN tickets ELSE tickets + n
  /\ laneTickets' = IF background THEN laneTickets + n ELSE laneTickets
  /\ todo' = [todo EXCEPT ![c] = n]
  /\ shares' = shares + n
  /\ UNCHANGED <<cells, tokens, waitVars, poolVars, taskVars, call, calls, kind, task, woken>>

\* helpThread: a client takes a ticket and its wake-up back.
helpThread(c) ==
  /\ pc[c] = "idle"
  /\ tickets > 0
  /\ tickets' = tickets - 1
  /\ tokens' = IF tokens = 0 THEN 0 ELSE tokens - 1
  /\ UNCHANGED <<cells, laneTickets, waitVars, poolVars, taskVars, callVars, pc, task, woken>>

-----------------------------------------------------------------------------
(* workerThread *)

takeWakeUp(w) ==
  /\ woken' = [woken EXCEPT ![w] = FALSE]
  /\ tokens' = IF woken[w] \/ tokens = 0 THEN tokens ELSE tokens - 1

CheckStop(w) ==
  /\ Goto(w, "top", IF w \in stopAsked THEN "ended" ELSE "tickets")
  /\ UNCHANGED <<queueVars, waitVars, poolVars, taskVars, callVars, task, woken>>

\* helpParallel; the loop the ticket leads to is not looked at.
HelpParallel(w) ==
  /\ Goto(w, "tickets", IF tickets > 0 THEN "top" ELSE "pop")
  /\ IF tickets > 0
       THEN tickets' = tickets - 1 /\ takeWakeUp(w)
       ELSE UNCHANGED <<tickets, tokens, woken>>
  /\ UNCHANGED <<cells, laneTickets, waitVars, poolVars, taskVars, callVars, task>>

FrontFilled == cells # <<>> /\ Head(cells).filled

PopTask(w) ==
  /\ Goto(w, "pop", IF FrontFilled THEN "start" ELSE "lane")
  /\ IF FrontFilled
       THEN /\ cells' = Tail(cells)
            /\ task' = [task EXCEPT ![w] = Head(cells).task]
       ELSE UNCHANGED <<cells, task>>
  /\ UNCHANGED <<tickets, laneTickets, tokens, waitVars, poolVars, taskVars, callVars, woken>>

\* helpBackground: the worker is in a loop of the lane ...
HelpBackground(w) ==
  /\ Goto(w, "lane", IF laneTickets > 0 THEN "inLane" ELSE "sleep")
  /\ IF laneTickets > 0
       THEN laneTickets' = laneTickets - 1 /\ takeWakeUp(w)
       ELSE UNCHANGED <<laneTickets, tokens, woken>>
  /\ UNCHANGED <<cells, tickets, waitVars, poolVars, taskVars, callVars, task>>

\* ... until nothing of it is left, or the ticket was void ...
LoopOver(w) ==
  /\ Goto(w, "inLane", "top")
  /\ UNCHANGED <<queueVars, waitVars, poolVars, taskVars, callVars, task, woken>>

\* ... or the frame has work.
frameWaiting(w) ==
  /\ tickets > 0 \/ cells # <<>>
  /\ Goto(w, "inLane", "putBack")
  /\ UNCHANGED <<queueVars, waitVars, poolVars, taskVars, callVars, task, woken>>

\* The ticket of a loop that was left goes back, and no wake-up with it.
PutBack(w) ==
  /\ Goto(w, "putBack", "top")
  /\ laneTickets' = laneTickets + 1
  /\ UNCHANGED <<cells, tickets, tokens, waitVars, poolVars, taskVars, callVars, task, woken>>

\* try_acquire_for got a wake-up.
Wake(w) ==
  /\ tokens > 0
  /\ Goto(w, "sleep", "top")
  /\ tokens' = tokens - 1
  /\ woken' = [woken EXCEPT ![w] = TRUE]
  /\ UNCHANGED <<cells, tickets, laneTickets, waitVars, poolVars, taskVars, callVars, task>>

\* The 10 ms are over.
Timeout(w) ==
  /\ Goto(w, "sleep", "top")
  /\ woken' = [woken EXCEPT ![w] = FALSE]
  /\ UNCHANGED <<queueVars, waitVars, poolVars, taskVars, callVars, task>>

onTaskStarted(w) ==
  /\ Goto(w, "start", "run")
  /\ takeWakeUp(w)
  /\ UNCHANGED <<cells, tickets, laneTickets, waitVars, poolVars, taskVars, callVars, task>>

\* The function of the task, and what its wrapper does with the result.
RunTask(w, how) ==
  LET t == task[w]
      k == kind[t[1]].kind
  IN
  /\ Goto(w, "run", IF k = "void" /\ how = "threw" THEN "fail"
                    ELSE IF k \in {"void", "callback"} THEN "sub"
                    ELSE "destroy")
  /\ outcome' = [outcome EXCEPT ![t] = how]
  /\ IF k \in {"each", "merged"}
       THEN Fulfil(t[1], t[2], IF how = "threw" THEN "exception" ELSE "value")
       ELSE UNCHANGED promise
  /\ UNCHANGED <<queueVars, waitVars, poolVars, callVars, remaining, error, captured, callbacks, task, woken>>

\* finishTask of BatchState: test_and_set of failed ...
FailBatch(w) ==
  LET l == task[w][1] IN
  /\ Goto(w, "fail", IF error[l].failed THEN "sub" ELSE "keep")
  /\ error' = [error EXCEPT ![l].failed = TRUE]
  /\ UNCHANGED <<queueVars, waitVars, poolVars, callVars, remaining, promise, captured, outcome,
                 callbacks, task, woken>>

\* ... the exception is kept ...
KeepError(w) ==
  /\ Goto(w, "keep", "sub")
  /\ error' = [error EXCEPT ![task[w][1]].kept = task[w]]
  /\ UNCHANGED <<queueVars, waitVars, poolVars, callVars, remaining, promise, captured, outcome,
                 callbacks, task, woken>>

\* A mistake in finishTask: it takes the old value of the fetch_sub for the new.
CountOffEarly(w) ==
  LET l == task[w][1] IN
  /\ Goto(w, "sub", IF remaining[l] = 2 THEN "complete" ELSE "destroy")
  /\ remaining' = [remaining EXCEPT ![l] = @ - 1]
  /\ UNCHANGED <<queueVars, waitVars, poolVars, callVars, error, promise, captured, outcome,
                 callbacks, task, woken>>

\* ... and the task is counted off, for DetachBatchState as well.
CountOff(w) ==
  LET l == task[w][1] IN
  /\ Goto(w, "sub", IF remaining[l] = 1 THEN "complete" ELSE "destroy")
  /\ remaining' = [remaining EXCEPT ![l] = @ - 1]
  /\ UNCHANGED <<queueVars, waitVars, poolVars, callVars, error, promise, captured, outcome,
                 callbacks, task, woken>>

\* The last task: the promise of the batch, or onFinished.
Complete(w) ==
  LET l == task[w][1] IN
  /\ Goto(w, "complete", "destroy")
  /\ IF kind[l].kind = "void"
       THEN /\ Fulfil(l, 0, IF error[l].kept # None THEN "exception" ELSE "value")
            /\ UNCHANGED callbacks
       ELSE /\ callbacks' = [callbacks EXCEPT ![l] = @ + 1]
            /\ UNCHANGED promise
  /\ UNCHANGED <<queueVars, waitVars, poolVars, callVars, remaining, error, captured, outcome, task, woken>>

\* A mistake in runTask: the task is destroyed at the end of the scope only.
DestroyTaskNot(w) ==
  /\ Goto(w, "destroy", "finished")
  /\ task' = [task EXCEPT ![w] = None]
  /\ UNCHANGED <<queueVars, waitVars, poolVars, callVars, taskVars, woken>>

\* task = nullptr, before the task counts as finished.
DestroyTask(w) ==
  /\ Goto(w, "destroy", "finished")
  /\ Forget(task[w])
  /\ task' = [task EXCEPT ![w] = None]
  /\ UNCHANGED <<queueVars, waitVars, poolVars, callVars, remaining, error, outcome, callbacks, woken>>

-----------------------------------------------------------------------------
(* onTasksFinished, of a worker and of shutdownPool. *)

Continue(a) == IF a \in Workers THEN "top" ELSE "idle"

\* One task, or all that were dropped.
Finished(a) ==
  LET count == IF a \in Workers THEN 1 ELSE dropped[a] IN
  /\ Goto(a, "finished", IF outstanding = count THEN "anyWaiter" ELSE Continue(a))
  /\ outstanding' = outstanding - count
  /\ dropped' = [c \in Clients |-> IF c = a THEN 0 ELSE dropped[c]]
  /\ UNCHANGED <<queueVars, idleWaiters, waitMutex, sleepers, threads, stopAsked, joining, inits,
                 taskVars, callVars, task, woken>>

AnyWaiter(a) ==
  /\ Goto(a, "anyWaiter", IF idleWaiters # 0 THEN "lockWait" ELSE Continue(a))
  /\ UNCHANGED <<queueVars, waitVars, poolVars, taskVars, callVars, task, woken>>

\* A mistake in onTasksFinished: the mutex is left out.
PassMutexNot(a) ==
  /\ Goto(a, "lockWait", "notify")
  /\ UNCHANGED <<queueVars, waitVars, poolVars, taskVars, callVars, task, woken>>

\* The mutex is taken and given back at once.
PassMutex(a) ==
  /\ waitMutex = None
  /\ Goto(a, "lockWait", "notify")
  /\ UNCHANGED <<queueVars, waitVars, poolVars, taskVars, callVars, task, woken>>

NotifyAll(a) ==
  /\ Goto(a, "notify", Continue(a))
  /\ sleepers' = {}
  /\ UNCHANGED <<queueVars, outstanding, idleWaiters, waitMutex, poolVars, taskVars, callVars, task, woken>>

-----------------------------------------------------------------------------
(* waitUntilFinished *)

BeginWait(c) ==
  /\ Goto(c, "idle", "lockCheck")
  /\ idleWaiters' = idleWaiters + 1
  /\ UNCHANGED <<queueVars, outstanding, waitMutex, sleepers, poolVars, taskVars, callVars, task, woken>>

LockCheck(c) ==
  /\ waitMutex = None
  /\ Goto(c, "lockCheck", "check")
  /\ waitMutex' = c
  /\ UNCHANGED <<queueVars, outstanding, idleWaiters, sleepers, poolVars, taskVars, callVars, task, woken>>

CheckDone(c) ==
  /\ Goto(c, "check", IF outstanding = 0 THEN "endWait" ELSE "fallAsleep")
  /\ waitMutex' = IF outstanding = 0 THEN None ELSE waitMutex
  /\ UNCHANGED <<queueVars, outstanding, idleWaiters, sleepers, poolVars, taskVars, callVars, task, woken>>

\* The condition variable gives the mutex back and sleeps in one step.
FallAsleep(c) ==
  /\ Goto(c, "fallAsleep", "asleep")
  /\ waitMutex' = None
  /\ sleepers' = sleepers \cup {c}
  /\ UNCHANGED <<queueVars, outstanding, idleWaiters, poolVars, taskVars, callVars, task, woken>>

\* Only after a notification.  A waiter that wakes without one would only
\* check once more.
WakeUp(c) ==
  /\ c \notin sleepers
  /\ Goto(c, "asleep", "lockCheck")
  /\ UNCHANGED <<queueVars, waitVars, poolVars, taskVars, callVars, task, woken>>

EndWait(c) ==
  /\ Goto(c, "endWait", "idle")
  /\ idleWaiters' = idleWaiters - 1
  /\ UNCHANGED <<queueVars, outstanding, waitMutex, sleepers, poolVars, taskVars, callVars, task, woken>>

-----------------------------------------------------------------------------
(* initPool and shutdownPool, each of them under threadMutex. *)

initPool(c) ==
  /\ inits < MaxInits
  /\ pc[c] = "idle"
  /\ threads = {}
  /\ \E ws \in SUBSET {w \in Workers : pc[w] = "off"} :
       /\ Cardinality(ws) = PoolSize
       /\ threads' = ws
       /\ pc' = [a \in Actors |-> IF a \in ws THEN "top" ELSE pc[a]]
       /\ woken' = [w \in Workers |-> IF w \in ws THEN FALSE ELSE woken[w]]
  /\ inits' = inits + 1
  /\ UNCHANGED <<queueVars, waitVars, stopAsked, joining, dropped, taskVars, callVars, task>>

RequestStop(c) ==
  /\ Goto(c, "idle", "signalStop")
  /\ stopAsked' = stopAsked \cup threads
  /\ joining' = [joining EXCEPT ![c] = threads]
  /\ threads' = {}
  /\ UNCHANGED <<queueVars, waitVars, dropped, inits, taskVars, callVars, task, woken>>

SignalStop(c) ==
  /\ Goto(c, "signalStop", "join")
  /\ tokens' = tokens + Cardinality(joining[c])
  /\ UNCHANGED <<cells, tickets, laneTickets, waitVars, poolVars, taskVars, callVars, task, woken>>

\* A worker that has ended may be started again, as another thread.
JoinAll(c) ==
  /\ pc[c] = "join"
  /\ \A w \in joining[c] : pc[w] = "ended"
  /\ pc' = [a \in Actors |-> IF a = c THEN "drop" ELSE IF a \in joining[c] THEN "off" ELSE pc[a]]
  /\ stopAsked' = stopAsked \ joining[c]
  /\ joining' = [joining EXCEPT ![c] = {}]
  /\ UNCHANGED <<queueVars, waitVars, threads, dropped, inits, taskVars, callVars, task, woken>>

\* What nobody runs any more is dropped.
DropTask(c) ==
  /\ FrontFilled
  /\ Goto(c, "drop", "drop")
  /\ cells' = Tail(cells)
  /\ outcome' = [outcome EXCEPT ![Head(cells).task] = "dropped"]
  /\ Forget(Head(cells).task)
  /\ dropped' = [dropped EXCEPT ![c] = @ + 1]
  /\ UNCHANGED <<tickets, laneTickets, tokens, waitVars, threads, stopAsked, joining, inits,
                 remaining, error, callbacks, callVars, task, woken>>

AllDropped(c) ==
  /\ ~FrontFilled
  /\ Goto(c, "drop", IF dropped[c] # 0 THEN "finished" ELSE "idle")
  /\ UNCHANGED <<queueVars, waitVars, poolVars, taskVars, callVars, task, woken>>

-----------------------------------------------------------------------------

Submit(c) ==
  BuildTask(c) \/ BuildThrows(c) \/ onTaskEnqueued(c) \/ Reserve(c) \/ Fill(c) \/ Signal(c)

Worker(w) ==
  \/ CheckStop(w) \/ HelpParallel(w) \/ PopTask(w) \/ HelpBackground(w)
  \/ LoopOver(w) \/ frameWaiting(w) \/ PutBack(w) \/ Wake(w) \/ Timeout(w)
  \/ onTaskStarted(w) \/ (\E how \in {"returned", "threw"} : RunTask(w, how))
  \/ FailBatch(w) \/ KeepError(w) \/ CountOff(w) \/ Complete(w) \/ DestroyTask(w)

OnTasksFinished(a) == Finished(a) \/ AnyWaiter(a) \/ PassMutex(a) \/ NotifyAll(a)

Wait(c) == LockCheck(c) \/ CheckDone(c) \/ FallAsleep(c) \/ WakeUp(c) \/ EndWait(c)

Shutdown(c) == SignalStop(c) \/ JoinAll(c) \/ DropTask(c) \/ AllDropped(c)

Begin(c) ==
  \/ \E k \in CallKinds : Call(c, k)
  \/ \E n \in 1 .. MaxShares, background \in BOOLEAN : Share(c, n, background)
  \/ helpThread(c) \/ BeginWait(c) \/ initPool(c) \/ RequestStop(c)

Next ==
  \/ \E c \in Clients : Begin(c) \/ Submit(c) \/ Wait(c) \/ Shutdown(c) \/ OnTasksFinished(c)
  \/ \E w \in Workers : Worker(w) \/ OnTasksFinished(w)

Spec == Init /\ [][Next]_vars

\* Nobody starts a pool while the threads of the one before are still being
\* joined, which initPool does not forbid.
OrderlyStart == threads = {} /\ threads' # {} => stopAsked = {}
OrderlySpec == Init /\ [][Next /\ OrderlyStart]_vars

\* Whoever has begun something goes on, a function ends, the 10 ms pass, and
\* a mutex that is free again and again is got.  No call has to be made.
FairSpec ==
  /\ Spec
  /\ \A c \in Clients : /\ WF_vars(Submit(c) \/ Wait(c) \/ Shutdown(c) \/ OnTasksFinished(c))
                        /\ SF_vars(LockCheck(c) \/ PassMutex(c))
  /\ \A w \in Workers : WF_vars(Worker(w) \/ OnTasksFinished(w)) /\ SF_vars(PassMutex(w))

-----------------------------------------------------------------------------

(* Type correctness of the pool: in particular the counters of tasks, of   *)
(* waiters and of a batch never go below zero.                             *)
TypeOK ==
  /\ cells \in Seq([task : Tasks, filled : BOOLEAN])
  /\ {tickets, laneTickets, tokens, outstanding, idleWaiters} \subseteq Nat
  /\ waitMutex \in Clients \cup {None}
  /\ sleepers \subseteq Clients
  /\ threads \subseteq Workers
  /\ stopAsked \subseteq Workers
  /\ joining \in [Clients -> SUBSET Workers]
  /\ dropped \in [Clients -> Nat]
  /\ task \in [Actors -> Tasks \cup {None}]
  /\ woken \in [Workers -> BOOLEAN]
  /\ call \in [Clients -> CallIds \cup {None}]
  /\ todo \in [Clients -> Nat]
  /\ remaining \in [CallIds -> Nat]
  /\ promise \in [CallIds -> [0 .. MaxSize -> {"none", "pending", "value", "exception", "broken"}]]
  /\ captured \subseteq Tasks
  /\ outcome \in [Tasks -> {"none", "returned", "threw", "dropped"}]
  /\ callbacks \in [CallIds -> Nat]

\* A task that exists but was not counted yet.
NotCounted(t) == \E c \in Clients : pc[c] = "count" /\ task[c] = t

(* waitUntilFinished returns only when every task is over and everything   *)
(* it captured is gone: no task is ever missing from outstandingTasks, in  *)
(* no order of pushing, running, dropping and counting.                    *)
NothingLeftBehind ==
  Cardinality({t \in captured : ~NotCounted(t)}) <= outstanding

(* What a future says is what became of its task, or of all tasks of its   *)
(* batch: a value or an exception only once they have run, a broken        *)
(* promise only if one of them was never run.  onFinished is called once,  *)
(* after the last of them.                                                 *)
FuturesTellTheTruth ==
  \A l \in 1 .. calls :
    LET ended(how) == {i \in 1 .. kind[l].size : outcome[<<l, i>>] \in how}
        all == 1 .. kind[l].size
    IN
    /\ \A i \in all :
         /\ promise[l][i] = "value" => i \in ended({"returned"})
         /\ promise[l][i] = "exception" => i \in ended({"threw"})
         /\ promise[l][i] = "broken" => i \in ended({"dropped", "none"})
    /\ promise[l][0] = "value" => all = ended({"returned"})
    /\ promise[l][0] = "exception" => all = ended({"returned", "threw"}) /\ ended({"threw"}) # {}
    /\ promise[l][0] = "broken" => ended({"dropped", "none"}) # {}
    /\ callbacks[l] <= 1
    /\ callbacks[l] = 1 => all = ended({"returned", "threw"})

(* Nobody waits for a future that nobody can make ready any more: with the *)
(* last task of a call its promises are set or broken.                     *)
NoOrphanedFuture ==
  \A l \in 1 .. calls :
    (\A t \in captured : t[1] # l) /\ (\A c \in Clients : call[c] # l) =>
      \A i \in 0 .. MaxSize : promise[l][i] # "pending"

\* Work that a worker would find.
WorkWaits == tickets > 0 \/ laneTickets > 0 \/ FrontFilled

\* Somebody will still call signalWork for what it has pushed.
SignalPending == \E c \in Clients : pc[c] \in {"build", "count", "reserve", "fill", "signal"}

\* An exception left the call before it had built all of its tasks.
Interrupted(l) ==
  /\ \A c \in Clients : call[c] # l
  /\ \E i \in 1 .. kind[l].size : <<l, i>> \notin captured /\ outcome[<<l, i>>] = "none"

(* "Every piece of work comes with one wake-up": the workers never all     *)
(* sleep over work while the semaphore is empty, although wake-ups are     *)
(* taken back by threads that were awake anyway and lost to threads that   *)
(* woke for nothing.  The timeout of 10 ms is not what gets work done.     *)
(* Except for a batch that could not be built to its end: it is left       *)
(* without having called signalWork for the tasks it has pushed.           *)
(* A pool that is started while the one before is still being shut down is *)
(* not promised this: a thread that has to stop may use a wake-up of the   *)
(* new pool up, so the property is one of OrderlySpec.                     *)
NoWorkOverslept ==
  threads # {} /\ (\A w \in threads : pc[w] = "sleep") /\ WorkWaits =>
    tokens > 0 \/ SignalPending \/ \E l \in 1 .. calls : Interrupted(l)

\* The pool was shut down and something was put on it afterwards.
Abandoned == threads = {} /\ cells # <<>>

(* waitUntilFinished returns: the notification is not lost between the     *)
(* check of the counter and going to sleep.  Only work on a pool that is   *)
(* not running holds it up.                                                *)
WaitReturns ==
  \A c \in Clients : pc[c] = "lockCheck" ~> (pc[c] = "idle" \/ Abandoned)

(* Every future becomes ready, whatever is shut down meanwhile.            *)
FuturesBecomeReady ==
  \A l \in CallIds, i \in 0 .. MaxSize : promise[l][i] = "pending" ~> (promise[l][i] # "pending" \/ Abandoned)

=============================================================================
