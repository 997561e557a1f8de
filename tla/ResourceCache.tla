---------------------------- MODULE ResourceCache ----------------------------
(***************************************************************************)
(* Resources shared by key, each loaded once on the background lane: the   *)
(* ResourceEntry, the handles and class ResourceCache of                   *)
(* src/sc/ecs/resource.hpp.                                                *)
(*                                                                         *)
(* todo[t] is what thread t still has to do, the next step first: a step   *)
(* is a tuple of its name, the entry or key it is for, and more if it      *)
(* needs more.  A step that calls something puts the steps of that in      *)
(* front.  A step "release", "keep", "startTask", "push", "throwOrKeep" or *)
(* "reload" has one count of its entry with it.                            *)
(*                                                                         *)
(* Outside of this module: the lane (a queue whose jobs are run, or        *)
(* dropped by shutdownBackground; see BackgroundLane), the FileReader      *)
(* (disk, the reads it has; it gives each to its done once, on a thread    *)
(* that polls; see FileReader) and what the lane still reads of an old     *)
(* resource (OldValueIsUnread of BackgroundLane).                          *)
(***************************************************************************)
EXTENDS Integers, FiniteSets, SequencesExt

CONSTANTS
  Users,       \* threads with a threadId below READERS
  LaneThreads, \* threads of the lane
  Keys, Owners,
  OwnerOf,     \* the owner bind is given for a key
  Files,       \* the keys that are bound with a file
  MaxLoads,    \* maxLoads
  MaxEntries,  \* bound: entries made
  MaxCalls,    \* bound: calls of the users
  KeyCalls,    \* the members with a key the users call, and for which: <<op, key>>
  None         \* nobody, nothing

Threads == Users \cup LaneThreads
Entries == 1 .. MaxEntries

ASSUME CacheAssumption ==
  /\ IsFiniteSet(Users) /\ IsFiniteSet(LaneThreads) /\ Users \cap LaneThreads = {}
  /\ OwnerOf \in [Keys -> Owners]
  /\ Files \subseteq Keys
  /\ {MaxLoads, MaxEntries, MaxCalls} \subseteq Nat
  /\ KeyCalls \subseteq {"bind", "find", "load", "forceLoad"} \X Keys
  /\ None \notin Threads \cup Entries

VARIABLES
  entry,      \* the ResourceEntry of each number; life tells whether it is there
  published,  \* m_published, as its entries: an entry knows its key
  fresh,      \* the maps of the shards
  freshCount, \* m_freshCount
  unused,     \* m_unused of all owners: an entry knows its owner
  incoming,   \* m_incoming, newest first
  queued,     \* m_queuedHead to m_queuedTail
  requests,   \* m_dispatchRequests
  running,    \* m_running
  tasks,      \* m_tasks
  reads,      \* m_reads
  replaced,   \* m_replaced, oldest first, as the entries of the old resources
  allLocks,   \* who has every lock
  held,       \* the entries each user has a handle of
  todo,       \* what each thread has still to do
  laneQueue,  \* external: the tasks in the queue of the lane
  lane,       \* external: "on", "stopping" in shutdownBackground, or "off"
  disk,       \* external: the reads the FileReader has
  gone,       \* whether the cache was destroyed
  calls       \* bound: calls so far

mapVars == <<published, fresh, freshCount, allLocks>>
waitVars == <<incoming, queued, requests>>
countVars == <<running, tasks, reads>>
laneVars == <<laneQueue, lane>>
userVars == <<held, calls, gone>>
vars == <<entry, mapVars, unused, waitVars, countVars, replaced, todo, laneVars, disk, userVars>>

NoEntry == [life |-> "none", key |-> None, count |-> 0, queued |-> FALSE, parked |-> FALSE,
            claimed |-> FALSE, state |-> "Loading", reading |-> FALSE, pending |-> FALSE]

Init ==
  /\ entry = [e \in Entries |-> NoEntry]
  /\ published = {} /\ fresh = {} /\ freshCount = 0 /\ allLocks = None
  /\ unused = {}
  /\ incoming = <<>> /\ queued = <<>> /\ requests = 0
  /\ running = 0 /\ tasks = 0 /\ reads = 0
  /\ replaced = <<>>
  /\ held = [u \in Users |-> {}]
  /\ todo = [t \in Threads |-> <<>>]
  /\ laneQueue = <<>> /\ lane \in {"on", "off"}
  /\ disk = {}
  /\ gone = FALSE
  /\ calls = 0

-----------------------------------------------------------------------------
(* Steps. *)

At(t, step) == todo[t] # <<>> /\ todo[t][1][1] = step
Arg(t) == todo[t][1][2]
More(t) == todo[t][1][3]
Me(t) == entry[Arg(t)]

\* The step is done, and these come next.
Then(t, steps) == todo' = [todo EXCEPT ![t] = steps \o Tail(@)]

\* The steps that change nothing else, or only their entry.
OnlyEntries == UNCHANGED <<mapVars, unused, waitVars, countVars, replaced, laneVars, disk, userVars>>
Pass(t, steps) == Then(t, steps) /\ UNCHANGED entry /\ OnlyEntries
Change(t, new, steps) == entry' = [entry EXCEPT ![Arg(t)] = new] /\ Then(t, steps) /\ OnlyEntries

Steps(t) == {todo[t][n] : n \in DOMAIN todo[t]}

\* acquireFound is under the lock of the thread or of the shard.
Locked == {t \in Threads : At(t, "takeParked")}

-----------------------------------------------------------------------------
(* The counts of an entry: acquire, release and the unused list. *)

\* The last handle sets QUEUED, once, in the same word as the count.
Release(t) ==
  LET last == Me(t).count = 1 IN
  /\ At(t, "release")
  /\ Change(t, [Me(t) EXCEPT !.count = @ - 1, !.queued = @ \/ last],
               IF last /\ ~Me(t).queued THEN <<<<"enqueue", Arg(t)>>>> ELSE <<>>)

\* and puts the entry on the unused list of its owner.
Enqueue(t) ==
  /\ At(t, "enqueue")
  /\ unused' = unused \cup {Arg(t)}
  /\ Then(t, <<>>)
  /\ UNCHANGED <<entry, mapVars, waitVars, countVars, replaced, laneVars, disk, userVars>>

\* The handle a member returns; a user with one already drops it.
Keep(t) ==
  /\ At(t, "keep")
  /\ held' = [held EXCEPT ![t] = @ \cup {Arg(t)}]
  /\ Then(t, IF Arg(t) \in held[t] THEN <<<<"release", Arg(t)>>>> ELSE <<>>)
  /\ UNCHANGED <<entry, mapVars, unused, waitVars, countVars, replaced, laneVars, disk, calls, gone>>

\* The handle of a member that throws what the loader threw, if it failed.
ThrowOrKeep(t) ==
  /\ At(t, "throwOrKeep")
  /\ Pass(t, <<<<IF Me(t).state = "Failed" THEN "release" ELSE "keep", Arg(t)>>>>)

-----------------------------------------------------------------------------
(* bind, find, load and forceLoad. *)

\* What a member does with the entry it found, and with a parked load it took.
Found(op, e) ==
  CASE op \in {"bind", "find"} -> <<<<"keep", e>>>>
    [] op = "load" -> <<<<"wait", e>>, <<"throwOrKeep", e>>>>
    [] op = "forceLoad" -> <<<<"wait", e>>, <<"reload", e>>>>

Restart(op, e) ==
  CASE op \in {"bind", "find"} -> <<<<"startParked", e>>>> \o Found(op, e)
    [] op = "load" -> <<<<"unpark", e>>>> \o Found(op, e)
    [] op = "forceLoad" -> <<<<"unpark", e>>, <<"claimFree", e>>>>

\* The load is called for with a count of its own, for the handle of fill.
LoadAndRelease(e) == <<<<"load", e>>, <<"release", e>>>>
LoadAndThrow(e) == LoadAndRelease(e) \o <<<<"throwOrKeep", e>>>>

\* The entry after a claim: the first one takes the load.
ClaimedBy(t) ==
  IF Me(t).claimed THEN Me(t) ELSE [Me(t) EXCEPT !.claimed = TRUE, !.pending = FALSE, !.count = @ + 1]

\* acquireFound: counts itself in, and takes PARKED if it was there.
AcquireFound(t, op, e) ==
  /\ entry' = [entry EXCEPT ![e].count = @ + 1]
  /\ Then(t, IF entry[e].parked THEN <<<<"takeParked", e, op>>>> ELSE Found(op, e))

TakeParked(t) ==
  LET e == Arg(t) IN
  /\ At(t, "takeParked")
  /\ Change(t, [Me(t) EXCEPT !.parked = FALSE],
               IF Me(t).parked THEN Restart(More(t), e) ELSE Found(More(t), e))

\* bindPublished, and the first part of find.
BindPublished(t) ==
  LET here == {e \in published : entry[e].key = Arg(t)} IN
  /\ At(t, "bindPublished")
  /\ allLocks = None
  /\ IF here = {} THEN Then(t, <<<<"lookup", Arg(t), More(t)>>>>) /\ UNCHANGED entry
     ELSE \E e \in here : AcquireFound(t, More(t), e)
  /\ OnlyEntries

\* The entry of the key in either map, under the lock of the shard, or under
\* all for forceLoad.
Lookup(t) ==
  /\ At(t, "lookup")
  /\ allLocks = None
  /\ More(t) = "forceLoad" => Locked = {}
  /\ \E e \in published \cup fresh : entry[e].key = Arg(t) /\ AcquireFound(t, More(t), e)
  /\ OnlyEntries

NotThere(t) ==
  /\ At(t, "lookup")
  /\ allLocks = None
  /\ \A e \in published \cup fresh : entry[e].key # Arg(t)

FindsNothing(t) ==
  /\ NotThere(t)
  /\ More(t) = "find"
  /\ Pass(t, <<>>)

\* A new entry: bind leaves the load in it, with a count for the task; load and
\* forceLoad call the loader themselves; for a file nobody may claim the load
\* before the bytes are there.
Make(t) ==
  LET e == 1 + Cardinality({d \in Entries : entry[d].life # "none"})
      op == More(t)
      bound == op = "bind"
      file == bound /\ Arg(t) \in Files
  IN
  /\ NotThere(t)
  /\ op # "find" /\ e \in Entries
  /\ op = "forceLoad" => Locked = {}
  /\ entry' = [entry EXCEPT ![e] = [NoEntry EXCEPT
       !.life = "live", !.key = Arg(t), !.count = IF bound THEN 2 ELSE 1,
       !.claimed = file \/ ~bound, !.reading = file, !.pending = bound /\ ~file]]
  /\ IF op = "forceLoad" THEN published' = published \cup {e} /\ UNCHANGED <<fresh, freshCount>>
     ELSE fresh' = fresh \cup {e} /\ freshCount' = freshCount + 1 /\ UNCHANGED published
  /\ Then(t, IF bound THEN <<<<IF file THEN "startRead" ELSE "startTask", e>>>> \o Found(op, e)
                      ELSE <<<<"load", e>>, <<"throwOrKeep", e>>>>)
  /\ UNCHANGED <<allLocks, unused, waitVars, countVars, replaced, laneVars, disk, userVars>>

\* forceLoad took a parked load: it would only be replaced.
ClaimFree(t) ==
  /\ At(t, "claimFree")
  /\ Change(t, ClaimedBy(t), IF Me(t).claimed THEN Found("forceLoad", Arg(t)) ELSE LoadAndThrow(Arg(t)))

\* The load of before is over: replace, whose loader may throw, for one that is
\* Ready, else the entry loads once more.
Replace(t, ok) ==
  LET e == Arg(t) IN
  /\ At(t, "reload") /\ Me(t).state = "Ready"
  /\ entry' = [entry EXCEPT ![e].count = IF ok THEN @ + 1 ELSE @]
  /\ replaced' = IF ok THEN Append(replaced, e) ELSE replaced
  /\ Then(t, IF ok THEN <<<<"freeReplaced", None>>, <<"keep", e>>>> ELSE <<<<"release", e>>>>)
  /\ UNCHANGED <<mapVars, unused, waitVars, countVars, laneVars, disk, userVars>>

LoadAnew(t) ==
  /\ At(t, "reload") /\ Me(t).state # "Ready"
  /\ Change(t, [Me(t) EXCEPT !.state = "Loading", !.count = @ + 1], LoadAndThrow(Arg(t)))

-----------------------------------------------------------------------------
(* Loading: fill and fail, claim, claimOrPark and wait. *)

\* fill calls the loader; fail without bytes, or for a task that was dropped.
Load(t, ok) ==
  /\ At(t, "load")
  /\ Change(t, [Me(t) EXCEPT !.state = IF ok THEN "Ready" ELSE "Failed"], <<>>)

\* claim(Fail) of a task that was dropped.
ClaimFail(t) ==
  LET took == ~Me(t).claimed IN
  /\ At(t, "claimFail")
  /\ Change(t, [Me(t) EXCEPT !.claimed = TRUE, !.pending = @ /\ ~took, !.state = IF took THEN "Failed" ELSE @], <<>>)

\* A mistake in claimOrPark: the task does not ask whether the load was claimed.
ClaimOrParkAnyway(t) ==
  /\ At(t, "claimOrPark")
  /\ Change(t, [Me(t) EXCEPT !.claimed = TRUE], <<<<"parkOrLoad", Arg(t)>>>>)

ClaimOrPark(t) ==
  /\ At(t, "claimOrPark")
  /\ Change(t, [Me(t) EXCEPT !.claimed = TRUE], IF Me(t).claimed THEN <<>> ELSE <<<<"parkOrLoad", Arg(t)>>>>)

\* Nobody but the task has the entry: the load stays in it.
ParkOrLoad(t) ==
  LET alone == Me(t).count = 1 IN
  /\ At(t, "parkOrLoad")
  /\ Change(t, [Me(t) EXCEPT !.parked = alone, !.pending = alone, !.count = IF alone THEN @ ELSE @ + 1],
               IF alone THEN <<>> ELSE LoadAndRelease(Arg(t)))

Unpark(t) ==
  /\ At(t, "unpark")
  /\ Change(t, [Me(t) EXCEPT !.claimed = FALSE], <<>>)

\* A turn of wait: claims the load if it can, and calls the loader.
Wait(t) ==
  /\ At(t, "wait")
  /\ Change(t, ClaimedBy(t),
               (IF Me(t).claimed THEN <<>> ELSE LoadAndRelease(Arg(t))) \o <<<<"waitState", Arg(t)>>>>)

WaitState(t) ==
  /\ At(t, "waitState")
  /\ Pass(t, IF Me(t).state = "Loading" THEN <<<<"waitReading", Arg(t)>>>> ELSE <<>>)

\* The file is being read: waits in the reader and runs the done of some read.
\* Turns around while another thread is in the done of this one.
WaitInReader(t, ok) ==
  /\ At(t, "waitReading")
  /\ Me(t).reading
  /\ \E r \in disk :
       /\ disk' = disk \ {r}
       /\ Then(t, <<<<IF ok THEN "bytesRead" ELSE "readOver", r>>, <<"wait", Arg(t)>>>>)
  /\ UNCHANGED <<entry, mapVars, unused, waitVars, countVars, replaced, laneVars, userVars>>

WaitAsleep(t) ==
  /\ At(t, "waitReading")
  /\ ~Me(t).reading
  /\ Pass(t, <<<<"asleep", Arg(t)>>>>)

WakeUp(t) ==
  /\ At(t, "asleep")
  /\ Me(t).state # "Loading"
  /\ Pass(t, <<<<"wait", Arg(t)>>>>)

-----------------------------------------------------------------------------
(* Tasks: their start, the places on the lane, their end. *)

\* A mistake in startParked: the task gets no count of its own.
StartParkedUncounted(t) ==
  /\ At(t, "startParked")
  /\ Change(t, [Me(t) EXCEPT !.claimed = FALSE], <<<<"startTask", Arg(t)>>>>)

StartParked(t) ==
  /\ At(t, "startParked")
  /\ Change(t, [Me(t) EXCEPT !.count = @ + 1, !.claimed = FALSE], <<<<"startTask", Arg(t)>>>>)

\* What a task does with the count it has.
TaskRuns(e, onLane) == <<<<"claimOrPark", e>>, <<"release", e>>, <<"taskDone", onLane>>>>
TaskDropped(e) == <<<<"claimFail", e>>, <<"release", e>>, <<"taskDone", TRUE>>>>

\* Without threads in the lane it runs here.
StartTask(t) ==
  /\ At(t, "startTask")
  /\ tasks' = tasks + 1
  /\ Then(t, IF lane = "on" THEN <<<<"push", Arg(t)>>>> ELSE TaskRuns(Arg(t), FALSE))
  /\ UNCHANGED <<entry, mapVars, unused, waitVars, running, reads, replaced, laneVars, disk, userVars>>

PushIncoming(t) ==
  /\ At(t, "push")
  /\ incoming' = <<Arg(t)>> \o incoming
  /\ Then(t, <<<<"dispatch", None>>>>)
  /\ UNCHANGED <<entry, mapVars, unused, queued, requests, countVars, replaced, laneVars, disk, userVars>>

\* One thread dispatches, the others leave a request.
Dispatch(t) ==
  /\ At(t, "dispatch")
  /\ requests' = requests + 1
  /\ Then(t, IF requests = 0 THEN <<<<"dispatchOnce", 1>>>> ELSE <<>>)
  /\ UNCHANGED <<entry, mapVars, unused, incoming, queued, countVars, replaced, laneVars, disk, userVars>>

DispatchOnce(t) ==
  /\ At(t, "dispatchOnce")
  /\ queued' = queued \o Reverse(incoming)
  /\ incoming' = <<>>
  /\ Then(t, <<<<"start", Arg(t)>>>>)
  /\ UNCHANGED <<entry, mapVars, unused, requests, countVars, replaced, laneVars, disk, userVars>>

loadLimit ==
  IF MaxLoads # 0 THEN MaxLoads
  ELSE LET half == IF lane = "on" THEN Cardinality(LaneThreads) \div 2 ELSE 0 IN
       IF half = 0 THEN 1 ELSE half

\* The oldest gets a place on the lane, while there is one.
Submit(t) ==
  /\ At(t, "start")
  /\ queued # <<>> /\ running < loadLimit
  /\ queued' = Tail(queued)
  /\ running' = running + 1
  /\ laneQueue' = Append(laneQueue, Head(queued))
  /\ UNCHANGED <<entry, mapVars, unused, incoming, requests, tasks, reads, replaced, todo, lane, disk, userVars>>

NoPlace(t) ==
  /\ At(t, "start")
  /\ queued = <<>> \/ running >= loadLimit
  /\ Pass(t, <<<<"handled", Arg(t)>>>>)

\* A mistake in dispatch: the requests left meanwhile are taken as handled.
HandledForgets(t) ==
  /\ At(t, "handled")
  /\ requests' = 0
  /\ Then(t, <<>>)
  /\ UNCHANGED <<entry, mapVars, unused, incoming, queued, countVars, replaced, laneVars, disk, userVars>>

\* Once more for the requests left meanwhile.
Handled(t) ==
  LET left == requests - Arg(t) IN
  /\ At(t, "handled")
  /\ requests' = left
  /\ Then(t, IF left = 0 THEN <<>> ELSE <<<<"dispatchOnce", left>>>>)
  /\ UNCHANGED <<entry, mapVars, unused, incoming, queued, countVars, replaced, laneVars, disk, userVars>>

\* The task hands its place to the next load, and then is not counted any more.
TaskDone(t) ==
  /\ At(t, "taskDone")
  /\ running' = IF Arg(t) THEN running - 1 ELSE running
  /\ Then(t, (IF Arg(t) THEN <<<<"dispatch", None>>>> ELSE <<>>) \o <<<<"taskGone", None>>>>)
  /\ UNCHANGED <<entry, mapVars, unused, waitVars, tasks, reads, replaced, laneVars, disk, userVars>>

TaskGone(t) ==
  /\ At(t, "taskGone")
  /\ tasks' = tasks - 1
  /\ Then(t, <<>>)
  /\ UNCHANGED <<entry, mapVars, unused, waitVars, running, reads, replaced, laneVars, disk, userVars>>

-----------------------------------------------------------------------------
(* Reads of files. *)

\* startRead: a read that cannot start fails the entry.
StartRead(t, ok) ==
  /\ At(t, "startRead")
  /\ tasks' = tasks + 1
  /\ reads' = reads + 1
  /\ disk' = IF ok THEN disk \cup {Arg(t)} ELSE disk
  /\ Then(t, IF ok THEN <<>> ELSE <<<<"readOver", Arg(t)>>>>)
  /\ UNCHANGED <<entry, mapVars, unused, waitVars, running, replaced, laneVars, userVars>>

\* The load can be claimed before reading is null; a task takes over the count
\* of the read.
BytesRead(t) ==
  LET e == Arg(t) IN
  /\ At(t, "bytesRead")
  /\ Change(t, [Me(t) EXCEPT !.pending = TRUE, !.claimed = FALSE], <<<<"readingOver", e>>, <<"startTask", e>>, <<"readDone", None>>>>)

ReadOver(t) ==
  LET e == Arg(t) IN
  /\ At(t, "readOver")
  /\ Change(t, [Me(t) EXCEPT !.state = "Failed"], <<<<"readingOver", e>>, <<"release", e>>, <<"readDone", None>>>>)

ReadingOver(t) ==
  /\ At(t, "readingOver")
  /\ Change(t, [Me(t) EXCEPT !.reading = FALSE], <<>>)

ReadDone(t) ==
  /\ At(t, "readDone")
  /\ reads' = reads - 1
  /\ Then(t, <<<<"taskGone", None>>>>)
  /\ UNCHANGED <<entry, mapVars, unused, waitVars, running, tasks, replaced, laneVars, disk, userVars>>

-----------------------------------------------------------------------------
(* apply and collect. *)

\* pollFiles: the poll runs the done of the reads that are over.
PollDelivers(t, ok) ==
  /\ At(t, "poll")
  /\ reads # 0
  /\ \E r \in disk :
       /\ disk' = disk \ {r}
       /\ Then(t, <<<<IF ok THEN "bytesRead" ELSE "readOver", r>>, <<"poll", None>>>>)
  /\ UNCHANGED <<entry, mapVars, unused, waitVars, countVars, replaced, laneVars, userVars>>

Polled(t) ==
  /\ At(t, "poll")
  /\ Pass(t, <<>>)

\* The oldest n, which the lane has passed.
FreeReplaced(t, n) ==
  /\ At(t, "freeReplaced")
  /\ n <= Len(replaced)
  /\ replaced' = SubSeq(replaced, n + 1, Len(replaced))
  /\ Then(t, [i \in 1 .. n |-> <<"release", replaced[i]>>])
  /\ UNCHANGED <<entry, mapVars, unused, waitVars, countVars, laneVars, disk, userVars>>

\* Under every lock, the fresh keys move.
Publish(t) ==
  /\ At(t, "publish")
  /\ freshCount # 0 => allLocks = None /\ Locked = {}
  /\ published' = IF freshCount = 0 THEN published ELSE published \cup fresh
  /\ fresh' = IF freshCount = 0 THEN fresh ELSE {}
  /\ freshCount' = 0
  /\ Then(t, <<>>)
  /\ UNCHANGED <<entry, allLocks, unused, waitVars, countVars, replaced, laneVars, disk, userVars>>

TakeUnused(t) ==
  LET list == {e \in unused : OwnerOf[entry[e].key] = Arg(t)} IN
  /\ At(t, "takeUnused")
  /\ unused' = unused \ list
  /\ Then(t, IF list = {} THEN <<>> ELSE <<<<"lockAll", list>>>>)
  /\ UNCHANGED <<entry, mapVars, waitVars, countVars, replaced, laneVars, disk, userVars>>

LockAll(t) ==
  /\ At(t, "lockAll")
  /\ allLocks = None /\ Locked = {}
  /\ allLocks' = t
  /\ Then(t, <<<<"sort", Arg(t), {}>>>>)
  /\ UNCHANGED <<entry, published, fresh, freshCount, unused, waitVars, countVars, replaced, laneVars, disk, userVars>>

\* A mistake in unusedNow: it takes every entry of the list for unused.
SortBlindly(t) ==
  /\ At(t, "sort")
  /\ \E e \in Arg(t) :
       /\ published' = published \ {e}
       /\ fresh' = fresh \ {e}
       /\ Then(t, <<<<"sort", Arg(t) \ {e}, More(t) \cup {e}>>>>)
  /\ UNCHANGED <<entry, freshCount, allLocks, unused, waitVars, countVars, replaced, laneVars, disk, userVars>>

\* unusedNow: nobody has it and it goes, or its last handle queues it anew.
Sort(t) ==
  /\ At(t, "sort")
  /\ \E e \in Arg(t) :
       LET goes == entry[e].count = 0 IN
       /\ entry' = [entry EXCEPT ![e].queued = goes]
       /\ published' = IF goes THEN published \ {e} ELSE published
       /\ fresh' = IF goes THEN fresh \ {e} ELSE fresh
       /\ Then(t, <<<<"sort", Arg(t) \ {e}, IF goes THEN More(t) \cup {e} ELSE More(t)>>>>)
  /\ UNCHANGED <<freshCount, allLocks, unused, waitVars, countVars, replaced, laneVars, disk, userVars>>

Sorted(t) ==
  /\ At(t, "sort")
  /\ Arg(t) = {}
  /\ allLocks' = None
  /\ Then(t, <<<<"destroy", More(t)>>>>)
  /\ UNCHANGED <<entry, published, fresh, freshCount, unused, waitVars, countVars, replaced, laneVars, disk, userVars>>

\* destroy ends the resource, frees a parked load and the entry.
Freed(e) == [entry[e] EXCEPT !.life = "freed", !.pending = @ /\ ~entry[e].parked]

DestroyDead(t) ==
  /\ At(t, "destroy")
  /\ entry' = [e \in Entries |-> IF e \in Arg(t) THEN Freed(e) ELSE entry[e]]
  /\ Then(t, <<>>)
  /\ OnlyEntries

-----------------------------------------------------------------------------
(* The users. *)

Exclusive == {"forceLoad", "apply", "collect"}

\* The last step of a member; find, forceLoad, apply and collect are told apart.
Ends(op) == IF op \in Exclusive \cup {"find"} THEN <<<<"end", op>>>> ELSE <<>>
Inside(op) == {u \in Users : <<"end", op>> \in Steps(u)}

\* forceLoad, apply and collect run next to none of find and each other.
MayCall(op) ==
  /\ op \in Exclusive => \A other \in Exclusive \cup {"find"} : Inside(other) = {}
  /\ op = "find" => \A other \in Exclusive : Inside(other) = {}

Enter(u, op, steps) ==
  /\ todo[u] = <<>>
  /\ ~gone /\ calls < MaxCalls
  /\ MayCall(op)
  /\ calls' = calls + 1
  /\ todo' = [todo EXCEPT ![u] = steps \o Ends(op)]
  /\ UNCHANGED <<entry, mapVars, unused, waitVars, countVars, replaced, laneVars, disk, gone>>

\* load and forceLoad do not look with bindPublished.
CallMember(u, op, k) ==
  /\ Enter(u, op, <<<<IF op \in {"bind", "find"} THEN "bindPublished" ELSE "lookup", k, op>>>>)
  /\ UNCHANGED held

CallApply(u) ==
  /\ Enter(u, "apply", <<<<"poll", None>>, <<"freeReplaced", None>>, <<"publish", None>>>>)
  /\ UNCHANGED held

CallCollect(u, o) ==
  /\ Enter(u, "collect", <<<<"freeReplaced", None>>, <<"takeUnused", o>>>>)
  /\ UNCHANGED held

CallWait(u, e) ==
  /\ e \in held[u]
  /\ Enter(u, "wait", <<<<"wait", e>>>>)
  /\ UNCHANGED held

\* A handle is copied to another user.
CallCopy(u, v, e) ==
  /\ e \in held[u] \ held[v]
  /\ todo[u] = <<>> /\ todo[v] = <<>>
  /\ ~gone /\ calls < MaxCalls
  /\ calls' = calls + 1
  /\ held' = [held EXCEPT ![v] = @ \cup {e}]
  /\ entry' = [entry EXCEPT ![e].count = @ + 1]
  /\ UNCHANGED <<mapVars, unused, waitVars, countVars, replaced, todo, laneVars, disk, gone>>

\* reset, or the end of a handle.
Drop(u, e) ==
  /\ e \in held[u]
  /\ todo[u] = <<>>
  /\ held' = [held EXCEPT ![u] = @ \ {e}]
  /\ todo' = [todo EXCEPT ![u] = <<<<"release", e>>>>]
  /\ UNCHANGED <<entry, mapVars, unused, waitVars, countVars, replaced, laneVars, disk, calls, gone>>

EndCall(t) ==
  /\ At(t, "end")
  /\ Pass(t, <<>>)

\* The destructor, once no handle is left and no member runs.
Destructor(u) ==
  /\ ~gone
  /\ \A v \in Users : todo[v] = <<>> /\ held[v] = {}
  /\ todo' = [todo EXCEPT ![u] = <<<<"lastReads", None>>>>]
  /\ gone' = TRUE
  /\ UNCHANGED <<entry, mapVars, unused, waitVars, countVars, replaced, laneVars, disk, held, calls>>

\* Polls for the reads, which nobody else does any more.
LastRead(t, ok) ==
  /\ At(t, "lastReads")
  /\ \E r \in disk :
       /\ disk' = disk \ {r}
       /\ Then(t, <<<<IF ok THEN "bytesRead" ELSE "readOver", r>>, <<"lastReads", None>>>>)
  /\ UNCHANGED <<entry, mapVars, unused, waitVars, countVars, replaced, laneVars, userVars>>

LastTask(t) ==
  /\ At(t, "lastReads")
  /\ reads = 0
  /\ Pass(t, <<<<"lastTasks", None>>>>)

\* A mistake in ~ResourceCache: it does not wait for the tasks.
LastReplacedAtOnce(t) ==
  /\ At(t, "lastTasks")
  /\ replaced' = <<>>
  /\ Then(t, [i \in DOMAIN replaced |-> <<"release", replaced[i]>>] \o <<<<"destroyAll", None>>>>)
  /\ UNCHANGED <<entry, mapVars, unused, waitVars, countVars, laneVars, disk, userVars>>

LastReplaced(t) ==
  /\ At(t, "lastTasks")
  /\ tasks = 0
  /\ replaced' = <<>>
  /\ Then(t, [i \in DOMAIN replaced |-> <<"release", replaced[i]>>] \o <<<<"destroyAll", None>>>>)
  /\ UNCHANGED <<entry, mapVars, unused, waitVars, countVars, laneVars, disk, userVars>>

DestroyAll(t) ==
  /\ At(t, "destroyAll")
  /\ Then(t, <<<<"destroy", published \cup fresh>>>>)
  /\ published' = {} /\ fresh' = {} /\ unused' = {}
  /\ UNCHANGED <<entry, freshCount, allLocks, waitVars, countVars, replaced, laneVars, disk, userVars>>

-----------------------------------------------------------------------------
(* External: the lane. *)

LaneRuns(t) ==
  /\ lane = "on" /\ todo[t] = <<>> /\ laneQueue # <<>>
  /\ laneQueue' = Tail(laneQueue)
  /\ todo' = [todo EXCEPT ![t] = TaskRuns(Head(laneQueue), TRUE)]
  /\ UNCHANGED <<entry, mapVars, unused, waitVars, countVars, replaced, lane, disk, userVars>>

\* shutdownBackground, here while no user is about to start a task: the threads
\* end, one of them with a job it just took, and the queue is emptied until
\* nothing comes.
Shutdown(u) ==
  /\ lane = "on" /\ ~gone
  /\ \A v \in Users : todo[v] = <<>>
  /\ lane' = "stopping"
  /\ todo' = [todo EXCEPT ![u] = <<<<"join", None>>>>]
  /\ UNCHANGED <<entry, mapVars, unused, waitVars, countVars, replaced, laneQueue, disk, userVars>>

LaneDrops(t) ==
  /\ lane = "stopping" /\ todo[t] = <<>> /\ laneQueue # <<>>
  /\ laneQueue' = Tail(laneQueue)
  /\ todo' = [todo EXCEPT ![t] = TaskDropped(Head(laneQueue))]
  /\ UNCHANGED <<entry, mapVars, unused, waitVars, countVars, replaced, lane, disk, userVars>>

Joined(u) ==
  /\ At(u, "join")
  /\ \A t \in LaneThreads : todo[t] = <<>>
  /\ Then(u, <<<<"drain", None>>>>)
  /\ lane' = "off"
  /\ UNCHANGED <<entry, mapVars, unused, waitVars, countVars, replaced, laneQueue, disk, userVars>>

Drain(u) ==
  /\ At(u, "drain")
  /\ laneQueue' = IF laneQueue = <<>> THEN <<>> ELSE Tail(laneQueue)
  /\ Then(u, IF laneQueue = <<>> THEN <<>> ELSE TaskDropped(Head(laneQueue)) \o <<<<"drain", None>>>>)
  /\ UNCHANGED <<entry, mapVars, unused, waitVars, countVars, replaced, lane, disk, userVars>>

-----------------------------------------------------------------------------
Step(t) ==
  \/ Release(t) \/ Enqueue(t) \/ Keep(t) \/ ThrowOrKeep(t)
  \/ TakeParked(t) \/ BindPublished(t) \/ Lookup(t) \/ FindsNothing(t) \/ Make(t)
  \/ ClaimFree(t) \/ LoadAnew(t)
  \/ ClaimFail(t) \/ ClaimOrPark(t) \/ ParkOrLoad(t) \/ Unpark(t)
  \/ Wait(t) \/ WaitState(t) \/ WaitAsleep(t) \/ WakeUp(t)
  \/ \E ok \in BOOLEAN :
       \/ Replace(t, ok) \/ Load(t, ok)
       \/ WaitInReader(t, ok) \/ StartRead(t, ok) \/ PollDelivers(t, ok) \/ LastRead(t, ok)
  \/ StartParked(t) \/ StartTask(t) \/ PushIncoming(t)
  \/ Dispatch(t) \/ DispatchOnce(t) \/ Submit(t) \/ NoPlace(t) \/ Handled(t)
  \/ TaskDone(t) \/ TaskGone(t)
  \/ BytesRead(t) \/ ReadOver(t) \/ ReadingOver(t) \/ ReadDone(t) \/ Polled(t)
  \/ \E n \in 0 .. MaxCalls : FreeReplaced(t, n)
  \/ Publish(t) \/ TakeUnused(t) \/ LockAll(t) \/ Sort(t) \/ Sorted(t) \/ DestroyDead(t)
  \/ EndCall(t) \/ LastTask(t) \/ LastReplaced(t) \/ DestroyAll(t)
  \/ Joined(t) \/ Drain(t)

User(u) ==
  \/ \E call \in KeyCalls : CallMember(u, call[1], call[2])
  \/ CallApply(u)
  \/ \E o \in Owners : CallCollect(u, o)
  \/ \E e \in Entries : CallWait(u, e) \/ Drop(u, e) \/ \E v \in Users : CallCopy(u, v, e)
  \/ Destructor(u) \/ Shutdown(u)

\* The cache is gone, and nobody has anything to do.
Over == gone /\ (\A t \in Threads : todo[t] = <<>>) /\ UNCHANGED vars

Next ==
  \/ \E t \in Threads : Step(t)
  \/ \E u \in Users : User(u)
  \/ \E t \in LaneThreads : LaneRuns(t) \/ LaneDrops(t)
  \/ Over

Spec == Init /\ [][Next]_vars

-----------------------------------------------------------------------------
(* Properties. *)

TypeOK ==
  /\ entry \in [Entries -> [life : {"none", "live", "freed"}, key : Keys \cup {None}, count : Nat,
                            queued : BOOLEAN, parked : BOOLEAN, claimed : BOOLEAN,
                            state : {"Loading", "Ready", "Failed"}, reading : BOOLEAN, pending : BOOLEAN]]
  /\ published \cup fresh \cup unused \cup disk \subseteq Entries
  /\ allLocks \in Threads \cup {None}
  /\ {freshCount, requests, running, tasks, reads} \subseteq Nat
  /\ \A q \in {incoming, queued, laneQueue, replaced} : q \in Seq(Entries)
  /\ lane \in {"on", "stopping", "off"}
  /\ held \in [Users -> SUBSET Entries]

Live == {e \in Entries : entry[e].life = "live"}
Places(seq, e) == Cardinality({i \in DOMAIN seq : seq[i] = e})
Waiting == incoming \o queued \o laneQueue

\* How many steps of these kinds there are for the entry, over all threads.
StepsFor(kinds, e) ==
  Cardinality(UNION {{<<t, i>> : i \in {j \in DOMAIN todo[t] : todo[t][j][1] \in kinds /\ todo[t][j][2] = e}}
                     : t \in Threads})

Counting == {"release", "keep", "throwOrKeep", "reload", "takeParked", "claimFree", "startTask", "push",
             "startRead", "bytesRead", "readOver"}

\* The count of an entry is the number of those who have it: handles, tasks
\* that wait or run, reads, old resources and calls under way (acquire and
\* release, over every way a load can be handed on).  So an entry goes neither
\* too early nor never.
CountIsRight ==
  \A e \in Live :
    entry[e].count = Cardinality({u \in Users : e \in held[u]}) + Places(Waiting, e) + Places(replaced, e)
                     + StepsFor(Counting, e)
                     + Cardinality(disk \cap {e})

\* Whoever may still touch an entry: those with a count, the maps, the lists,
\* and the steps for it.
Touched == published \cup fresh \cup unused \cup disk
           \cup (UNION {held[u] : u \in Users})
           \cup {Waiting[i] : i \in DOMAIN Waiting}
           \cup {e \in Entries : \E t \in Threads : \E i \in DOMAIN todo[t] :
                   \/ todo[t][i][1] \notin {"lookup", "bindPublished", "taskDone", "dispatchOnce", "start", "handled",
                                            "sort", "lockAll", "destroy", "takeUnused", "end"} /\ todo[t][i][2] = e
                   \/ todo[t][i][1] \in {"sort", "lockAll", "destroy"} /\ e \in todo[t][i][2]}

\* collect and the destructor free only what nobody can reach any more
\* (destroy); with them goes a load that was parked and no other.  And an entry
\* that nobody has is where collect finds it (QUEUED and the unused list).
OnlyTheUnusedGoes ==
  /\ Touched \cap {e \in Entries : entry[e].life # "live"} = {}
  /\ \A e \in Entries : entry[e].life = "freed" => ~entry[e].pending
  /\ \A e \in Live :
       LET places == Cardinality(unused \cap {e}) + StepsFor({"enqueue"}, e)
                     + Cardinality({t \in Threads : \E s \in Steps(t) :
                         \/ s[1] \in {"lockAll", "sort", "destroy"} /\ e \in s[2]
                         \/ s[1] = "sort" /\ e \in s[3]})
       IN ~gone => /\ entry[e].queued => places = 1
                   /\ ~entry[e].queued => places = 0 /\ entry[e].count # 0

\* The load of a resource is always with exactly one: while it is claimed, with
\* a thread in the loader or about to decide, with the read of its file, or
\* parked in the entry; and while it is not, its task or a thread that waits is
\* still to come for it.  So it is done once and never lost, however the task,
\* the waiting threads, the finders and the reads meet (claim, claimOrPark,
\* acquireFound, startParked, bytesRead).
LoadedOnce ==
  \A e \in Live :
    LET holders == StepsFor({"load", "parkOrLoad", "startParked", "unpark",
                             "startRead", "bytesRead", "readOver"}, e)
                   + Cardinality({x \in {"parked"} : entry[e].parked}) + Cardinality(disk \cap {e})
        toCome == Places(Waiting, e)
                  + StepsFor({"startTask", "push", "claimOrPark", "claimFail", "claimFree", "wait"}, e)
    IN /\ holders = IF entry[e].state = "Loading" /\ entry[e].claimed THEN 1 ELSE 0
       /\ ~entry[e].claimed => entry[e].pending /\ toCome # 0

\* At most the limit of loads are on the lane, each load waits in one list
\* only, which one link per entry allows (nextWaiting), and a place that is free
\* is never left empty: once no thread dispatches or is about to, either nothing waits or all
\* places are taken (dispatch, taskDone).
NoPlaceIsWasted ==
  /\ MaxLoads # 0 => running <= MaxLoads
  /\ \A e \in Entries : Places(Waiting, e) <= 1
  /\ running = Len(laneQueue)
               + Cardinality({t \in Threads : \E i \in DOMAIN todo[t] : todo[t][i] = <<"taskDone", TRUE>>})
  /\ requests = 0 /\ StepsFor({"dispatch"}, None) = 0 => incoming = <<>> /\ (queued = <<>> \/ running >= loadLimit)

\* The destructor ends resources nobody has, whose load is over or parked, and
\* when it is done no task is under way (~ResourceCache and its assertions).
NothingOutlivesTheCache ==
  \A t \in Threads : At(t, "destroyAll") =>
    /\ tasks = 0 /\ reads = 0 /\ Waiting = <<>> /\ disk = {}
    /\ \A e \in Live : entry[e].count = 0 /\ (entry[e].state # "Loading" \/ entry[e].parked)
    /\ \A u \in Threads \ {t} : todo[u] = <<>>
=============================================================================
