----------------------------- MODULE CacheProofs -----------------------------
(***************************************************************************)
(* The resource cache for every number of users, lane threads, keys and    *)
(* entries: each step preserves the invariant of CacheSteps, and what      *)
(* follows from it.                                                        *)
(***************************************************************************)
EXTENDS CacheSteps

-----------------------------------------------------------------------------
(* Parked loads, handles, tasks and reads. *)

LEMMA UnparkStep ==
  ASSUME CacheInv, NEW t \in Threads, Unpark(t)
  PROVE  CacheInv'
<1>1. PICK e : e = Arg(t) /\ "unpark" \in EntryKinds /\ At(t, "unpark")
  BY DEF Unpark, EntryKinds, Counting, Passing, Waits
<1> DEFINE h == todo[t][1]
           new == [Me(t) EXCEPT !.claimed = FALSE]
           p == <<>>
<1>2. /\ Typed /\ todo[t] # <<>> /\ h \in AllSteps /\ h[1] = "unpark" /\ h[2] = e /\ h[3] = More(t)
      /\ e \in Live /\ e \in Entries
      /\ Me(t) = entry[e] /\ Me(t) \in EntryType /\ Me(t).life = "live"
      /\ CountOk(e) /\ LoadOk(e) /\ QueueOk(e)
      /\ \A K : "unpark" \in K => StepsIn(For(K, e)) # 0
      /\ \A x \in Entries \ {e} : h \notin Naming(x)
  BY <1>1, EntryHead DEF More
<1>3. StepsIn(For(Comers, e)) # 0 /\ entry[e].pending
  <2>1. UnparkClaims(todo[t]) /\ todo[t] \in Seq(AllSteps) /\ 1 \in 1 .. Len(todo[t])
    BY <1>2, EmptySeq, LenProperties DEF CacheInv, Shape, Typed
  <2>2. 1 < Len(todo[t]) /\ todo[t][2][1] \in Comers /\ todo[t][2][2] = e
    BY <1>2, <2>1 DEF UnparkClaims, Comers
  <2>3. 2 \in 1 .. Len(todo[t]) /\ todo[t][2] \in For(Comers, e)
    BY <2>1, <2>2, LenProperties DEF For
  <2>4. StepsIn(For(Comers, e)) # 0
    BY <1>2, <2>3, Someone DEF Typed
  <2>5. StepsIn(For({"unpark", "startParked"}, e)) # 0
    BY <1>2
  <2> QED
    BY <1>2, <2>4, <2>5 DEF LoadOk
<1>4. entry[e].count # 0
  BY <1>1, HeadUsed DEF EntryKinds, Counting, Passing, Waits
<1>5. Then(t, p) /\ entry' = [entry EXCEPT ![e] = new] /\ OnlyEntries
  BY <1>1, <1>2 DEF Unpark, Change, Pass
<1>6. Shifts(e, 0, -1, 0, 0, -1, -1, 0)
  <2>1. /\ Of(h, Counting, e) = 0 /\ Of(h, Loaders, e) = 1 /\ Of(h, Comers, e) = 0 /\ Of(h, Tasking, e) = 0 /\ Of(h, Unparkers, e) = 1 /\ Of(h, PendingKinds, e) = 1 /\ Of(h, {"enqueue"}, e) = 0
    BY <1>2 DEF Of, One, Counting, Loaders, Comers, Tasking, Unparkers, PendingKinds
  <2>2. {h[1]} \cap ForSets = {}
    BY <1>2 DEF ForSets
  <2> HIDE DEF h
  <2>3. h = todo[t][1] /\ Then(t, <<>>)
    BY <1>5 DEF h
  <2> QED
    BY <1>2, <2>1, <2>2, <2>3, ShiftNone
<1>7. Follows(h, p, Mine(t)) /\ Calm(p) /\ p \in Seq(AllSteps)
  BY FollowsNone
<1>8. /\ \A G : StepsIn(G) \in Nat
      /\ entry[e].count \in Nat /\ entry[e].state \in {"Loading", "Ready", "Failed"}
      /\ Cardinality(Holders(e)) \in Nat /\ Count(Waiting, {e}) \in Nat /\ Count(replaced, {e}) \in Nat
  BY <1>2, Amounts
<1>9. /\ StepsIn(For(Loaders, e)) = StepsIn(For(Unparkers, e)) + StepsIn(For(OtherLoaders, e))
      /\ StepsIn(For(PendingKinds, e)) = StepsIn(For(Unparkers, e)) + StepsIn(For({"parkOrLoad"}, e))
      /\ StepsIn(For(Loaders, e)) # 0
      /\ StepsIn(For(Unparkers, e)) # 0
      /\ StepsIn(For(PendingKinds, e)) # 0
  BY <1>2, LoadersAre DEF Counting, Loaders, Comers, Tasking, Unparkers, PendingKinds, OtherLoaders
<1>10. /\ new \in EntryType /\ new.life = "live"
      /\ new.count = entry[e].count
      /\ new.queued = entry[e].queued
      /\ new.parked = entry[e].parked
      /\ new.claimed = FALSE
      /\ new.state = entry[e].state
      /\ new.pending = entry[e].pending
  <2>1. /\ new.life = "live"
        /\ new.count = entry[e].count
        /\ new.queued = entry[e].queued
        /\ new.parked = entry[e].parked
        /\ new.claimed = FALSE
        /\ new.state = entry[e].state
        /\ new.pending = entry[e].pending
    BY <1>2 DEF EntryType
  <2>2. new \in EntryType
    BY <1>2, <1>8, <1>4 DEF EntryType
  <2> QED
    BY <2>1, <2>2
<1> HIDE DEF new, p, h
<1>11. Settles(e, new, 0, -1, 0, 0, -1, -1, 0)
  <2>1. Queue(e) \in Nat /\ (~gone => Queue(e) = One(entry[e].queued) /\ (~entry[e].queued => entry[e].count # 0))
    BY <1>2, <1>8 DEF Queue, QueueOk, One
  <2>2. entry[e].state = "Loading" /\ entry[e].claimed /\ ~entry[e].parked /\ StepsIn(For(Loaders, e)) = 1 /\ Loads(e) = 1
    <3>1. StepsIn(For(Loaders, e)) \in Nat \ {0} /\ Loads(e) = One(entry[e].state = "Loading" /\ entry[e].claimed)
      BY <1>2, <1>8, <1>9 DEF LoadOk
    <3> QED
      BY <3>1 DEF Loads, One
  <2>3. Having(e) + 0 = new.count
    BY <1>2, <1>8, <1>9, <1>10, <1>4, <1>3 DEF One, CountOk, Having
  <2>4. Loads(e) - 1 + One(new.parked) - One(entry[e].parked) = One(new.state = "Loading" /\ new.claimed)
    BY <1>10, <2>2, <1>3 DEF One
  <2>5. ~new.claimed => new.pending /\ new.state = "Loading" /\ Coming(e) + 0 # 0
    BY <1>2, <1>8, <1>9, <1>10, <1>4, <1>3, <2>2 DEF One, LoadOk, Coming
  <2>6. TasksOf(e) + 0 + One(new.parked) - One(entry[e].parked) <= 1
    <3>1. TasksOf(e) \in Int /\ TasksOf(e) <= 1
      BY <1>2, <1>8 DEF LoadOk, TasksOf, One
    <3> QED
      BY <1>2, <1>10, <3>1, <1>3, <2>2 DEF One
  <2>7. new.parked \/ StepsIn(For(Unparkers, e)) - 1 # 0 => new.pending
    BY <1>2, <1>8, <1>9, <1>10, <1>4, <1>3, <2>2 DEF One, LoadOk, Loads, Unparkers
  <2>8. new.pending => ~new.claimed \/ new.parked \/ StepsIn(For(PendingKinds, e)) - 1 # 0
    BY <1>2, <1>8, <1>9, <1>10, <1>4, <1>3, <2>2 DEF One, LoadOk, Loads, PendingKinds
  <2>9. ~gone => Queue(e) + 0 = One(new.queued) /\ (~new.queued => new.count # 0)
    BY <1>2, <1>8, <1>10, <2>1, <1>4, <1>3 DEF One
  <2> QED
    BY <2>3, <2>4, <2>5, <2>6, <2>7, <2>8, <2>9 DEF Settles
<1>12. NamesOnly(h, p, e) /\ Balanced
  <2>1. Mere(p, e) /\ h[1] \notin TaskSteps
    BY <1>2 DEF Mere, p, TaskSteps, EntryKinds, Counting, Passing, Waits
  <2> QED
    BY <1>2, <1>5, <1>7, <2>1, MereSteps DEF h
<1>13. /\ {-1, 0} \subseteq Int
       /\ h[1] \notin Dispatcher \cup {"dispatch", "destroyAll"}
       /\ new.count # 0 => entry[e].count # 0 \/ e \in published \cup fresh
       /\ h[1] \notin Waits
       /\ new.state = "Loading" => entry[e].state = "Loading"
  BY <1>2, <1>8, <1>10, <1>4 DEF Dispatcher, Waits
<1> QED
  BY <1>2, <1>5, <1>6, <1>7, <1>10, <1>11, <1>12, <1>13, EntryMoves DEF h

LEMMA EnqueueStep ==
  ASSUME CacheInv, NEW t \in Threads, Enqueue(t)
  PROVE  CacheInv'
<1>1. PICK e : e = Arg(t) /\ "enqueue" \in EntryKinds /\ At(t, "enqueue")
  BY DEF Enqueue, EntryKinds, Counting, Passing, Waits
<1> DEFINE h == todo[t][1]
           p == <<>>
<1>2. /\ Typed /\ todo[t] # <<>> /\ h \in AllSteps /\ h[1] = "enqueue" /\ h[2] = e
      /\ e \in Live /\ e \in Entries
      /\ CountOk(e) /\ LoadOk(e) /\ QueueOk(e)
      /\ \A K : "enqueue" \in K => StepsIn(For(K, e)) # 0
      /\ \A x \in Entries \ {e} : h \notin Naming(x)
  BY <1>1, EntryHead
<1>3. /\ Then(t, p) /\ entry' = entry
      /\ unused' = unused \cup {e}
      /\ UNCHANGED <<published, fresh, freshCount, allLocks, incoming, queued, requests, running, tasks, reads, replaced, laneQueue, lane, disk, held, calls, gone>>
  BY <1>1, <1>2 DEF Enqueue, Pass, OnlyEntries, mapVars, waitVars, countVars, laneVars, userVars
<1>4. Shifts(e, 0, 0, 0, 0, 0, 0, -1)
  <2>1. /\ Of(h, Counting, e) = 0 /\ Of(h, Loaders, e) = 0 /\ Of(h, Comers, e) = 0 /\ Of(h, Tasking, e) = 0 /\ Of(h, Unparkers, e) = 0 /\ Of(h, PendingKinds, e) = 0 /\ Of(h, {"enqueue"}, e) = 1
    BY <1>2 DEF Of, One, Counting, Loaders, Comers, Tasking, Unparkers, PendingKinds
  <2>2. {h[1]} \cap ForSets = {}
    BY <1>2 DEF ForSets
  <2> HIDE DEF h
  <2>3. h = todo[t][1] /\ Then(t, <<>>)
    BY <1>3 DEF h
  <2> QED
    BY <1>2, <2>1, <2>2, <2>3, ShiftNone
<1>5. Follows(h, p, Mine(t)') /\ Calm(p) /\ p \in Seq(AllSteps)
  BY FollowsNone
<1>6. Typed'
  <2>1. todo' \in [Threads -> Seq(AllSteps)]
    BY <1>2, <1>3, <1>5, Moved DEF Typed
  <2> QED
    BY <1>2, <1>3, <2>1 DEF Typed, TypeOK
<1>7. ASSUME NEW x \in Entries \ {e} PROVE Unnamed(x) /\ Spared(x)
  <2>1. h \notin Naming(x) /\ \A i \in 1 .. Len(p) : p[i] \notin Naming(x)
    BY <1>2, <1>7 DEF Naming, Takes, ForSets, Counting, Passing, Waits
  <2>2. Unnamed(x)
    BY <1>2, <1>3, <1>5, <2>1, NotNamed
  <2>3. Spared(x)
    BY <1>3, <1>7 DEF Spared, Holders, Waiting
  <2> QED
    BY <2>2, <2>3
<1>8. Keeps(e)
  <2>1. /\ \A G : StepsIn(G) \in Nat
        /\ Cardinality(Holders(e)) \in Nat /\ Count(Waiting, {e}) \in Nat /\ Count(replaced, {e}) \in Nat
    BY <1>2, Amounts
  <2>2. Cardinality(Holders(e))' = Cardinality(Holders(e)) + 0
    BY <1>2, <1>3, Zeros DEF Holders
  <2>3. Count(Waiting, {e})' = Count(Waiting, {e}) + 0
    BY <1>2, <1>3, Zeros DEF Waiting
  <2>4. Count(replaced, {e})' = Count(replaced, {e}) + 0
    BY <1>2, <1>3, Zeros
  <2>5. One(e \in disk') = One(e \in disk) + 0
    BY <1>2, <1>3, Zeros DEF One
  <2>6. One(e \in unused') = One(e \in unused) + One(e \in unused') - One(e \in unused)
    BY DEF One
  <2>7. ~gone' => ~gone /\ -1 + (One(e \in unused') - One(e \in unused)) = 0
    <3>1. StepsIn(Unusing(e)) # 0
      <4>1. h \in Unusing(e) /\ 1 \in 1 .. Len(todo[t]) /\ todo[t] \in Seq(AllSteps)
        BY <1>2, EmptySeq, LenProperties DEF Unusing, Typed
      <4> QED
        BY <1>2, <4>1, Someone DEF Typed
    <3>2. ~gone => Queue(e) <= 1
      BY <1>2 DEF QueueOk, One
    <3>3. ~gone => e \notin unused
      BY <2>1, <3>1, <3>2 DEF Queue, One
    <3> QED
      BY <1>3, <3>3 DEF One
  <2>8. {-1, 0, One(e \in unused') - One(e \in unused)} \subseteq Int
    BY DEF One
  <2> HIDE DEF h, p
  <2> QED
    BY <1>2, <1>3, <1>4, <1>6, <2>2, <2>3, <2>4, <2>5, <2>6, <2>7, <2>8, Handing
<1>9. Accounts' /\ Unknown'
  BY <1>2, <1>7, <1>8, OneKept DEF CacheInv
<1>10. Counters'
  <2>1. Balanced
    <3>1. h[1] \notin TaskSteps /\ \A i \in 1 .. Len(p) : p[i][1] \notin TaskSteps
      BY <1>2 DEF TaskSteps
    <3> QED
      BY <1>2, <1>3, <1>5, <3>1, NoTask
  <2> QED
    BY <1>3, <2>1, CountersKept DEF CacheInv
<1>11. Numbered' /\ Shape' /\ Doom' /\ Dispatching' /\ Ending'
  <2>1. /\ h[1] \notin Dispatcher \cup {"dispatch", "destroyAll"} /\ h[1] \notin Waits
        /\ tasks' = tasks /\ replaced' = replaced
    BY <1>2, <1>3 DEF Dispatcher, Waits
  <2>2. /\ \A u \in Users : held[u] \subseteq held'[u]
        /\ gone => held' = held
    BY <1>3
  <2> HIDE DEF h, p
  <2>3. h = todo[t][1] /\ published' \cup fresh' \subseteq published \cup fresh
    BY <1>3 DEF h
  <2> QED
    BY <1>2, <1>3, <1>5, <1>6, <2>1, <2>2, <2>3, HandOn
<1> QED
  BY <1>6, <1>9, <1>10, <1>11 DEF CacheInv

LEMMA KeepAgain ==
  ASSUME CacheInv, NEW t \in Threads, Keep(t), Arg(t) \in held[t]
  PROVE  CacheInv'
<1>1. PICK e : e = Arg(t) /\ "keep" \in EntryKinds /\ At(t, "keep")
  BY DEF Keep, EntryKinds, Counting, Passing, Waits
<1> DEFINE h == todo[t][1]
           a == <<"release", e>>
           p == <<a>>
<1>2. /\ Typed /\ todo[t] # <<>> /\ h \in AllSteps /\ h[1] = "keep" /\ h[2] = e
      /\ e \in Live /\ e \in Entries
      /\ CountOk(e) /\ LoadOk(e) /\ QueueOk(e)
      /\ \A K : "keep" \in K => StepsIn(For(K, e)) # 0
      /\ \A x \in Entries \ {e} : h \notin Naming(x)
  BY <1>1, EntryHead
<1>3. /\ a \in AllSteps /\ a[1] = "release" /\ a[2] = e
  BY <1>2, StepsAre DEF EntryKinds, Counting, Passing, Waits, ForNobody
<1>4. /\ Then(t, p) /\ entry' = entry
      /\ held' = [held EXCEPT ![t] = @ \cup {e}]
      /\ UNCHANGED <<published, fresh, freshCount, allLocks, unused, incoming, queued, requests, running, tasks, reads, replaced, laneQueue, lane, disk, calls, gone>>
  BY <1>1, <1>2 DEF Keep, Pass, OnlyEntries, mapVars, waitVars, countVars, laneVars, userVars
<1>5. Shifts(e, 0, 0, 0, 0, 0, 0, 0)
  <2>1. /\ Of(h, Counting, e) = 1 /\ Of(h, Loaders, e) = 0 /\ Of(h, Comers, e) = 0 /\ Of(h, Tasking, e) = 0 /\ Of(h, Unparkers, e) = 0 /\ Of(h, PendingKinds, e) = 0 /\ Of(h, {"enqueue"}, e) = 0
        /\ Of(a, Counting, e) = 1 /\ Of(a, Loaders, e) = 0 /\ Of(a, Comers, e) = 0 /\ Of(a, Tasking, e) = 0 /\ Of(a, Unparkers, e) = 0 /\ Of(a, PendingKinds, e) = 0 /\ Of(a, {"enqueue"}, e) = 0
    BY <1>2, <1>3 DEF Of, One, Counting, Loaders, Comers, Tasking, Unparkers, PendingKinds
  <2>2. {h[1], a[1]} \cap ForSets = {}
    BY <1>2, <1>3 DEF ForSets
  <2> HIDE DEF h, a
  <2>3. h = todo[t][1] /\ Then(t, <<a>>)
    BY <1>4 DEF h
  <2> QED
    BY <1>2, <1>3, <2>1, <2>2, <2>3, ShiftOne
<1>6. Follows(h, p, Mine(t)') /\ Calm(p) /\ p \in Seq(AllSteps)
  <2>1. Apt(h, a)
    BY <1>2, <1>3 DEF Apt, Suits, Lasts, TaskDoneOnLane, Forces, EndOfForce, LaneSteps, Dispatcher, LateSteps
  <2>2. /\ Covered(h, a, Mine(t)')
    BY <1>2, <1>3 DEF Covered, Backs, Passing, Waits, Counting
  <2>3. /\ a[1] \notin {"reload", "unpark"}
        /\ h[1] \in Waits => a[1] \in Waits /\ a[2] = h[2]
        /\ h[1] \in TaskEnds => a[1] \in TaskEnds
        /\ a[1] \notin Dispatcher \cup ForSets \cup {"destroyAll"}
    BY <1>2, <1>3 DEF Waits, TaskEnds, Lasts, Firsts, Dispatcher, ForSets, TaskDoneOnLane
  <2> HIDE DEF h, a
  <2>4. Follows(h, <<a>>, Mine(t)') /\ Calm(<<a>>) /\ <<a>> \in Seq(AllSteps)
    BY <1>3, <2>1, <2>2, <2>3, FollowsOne
  <2> QED
    BY <2>4
<1>7. t \in Users /\ held' = held
  <2>1. t \in Users
    BY <1>1, UsersDo DEF LaneSteps, Dispatcher
  <2>2. held \in [Users -> SUBSET Entries] /\ held[t] \cup {e} = held[t]
    BY <1>1, <1>2, <2>1 DEF Typed, TypeOK
  <2> QED
    BY <1>4, <2>1, <2>2
<1>8. Typed'
  <2>1. todo' \in [Threads -> Seq(AllSteps)]
    BY <1>2, <1>4, <1>6, Moved DEF Typed
  <2> QED
    BY <1>2, <1>4, <2>1 DEF Typed, TypeOK
<1>9. ASSUME NEW x \in Entries \ {e} PROVE Unnamed(x) /\ Spared(x)
  <2>1. h \notin Naming(x) /\ \A i \in 1 .. Len(p) : p[i] \notin Naming(x)
    BY <1>2, <1>3, <1>9 DEF Naming, Takes, ForSets, Counting, Passing, Waits
  <2>2. Unnamed(x)
    BY <1>2, <1>4, <1>6, <2>1, NotNamed
  <2>3. Spared(x)
    BY <1>4, <1>9, <1>7 DEF Spared, Holders, Waiting
  <2> QED
    BY <2>2, <2>3
<1>10. Keeps(e)
  <2>1. /\ \A G : StepsIn(G) \in Nat
        /\ Cardinality(Holders(e)) \in Nat /\ Count(Waiting, {e}) \in Nat /\ Count(replaced, {e}) \in Nat
    BY <1>2, Amounts
  <2>2. Cardinality(Holders(e))' = Cardinality(Holders(e)) + 0
    BY <1>2, <1>7, Zeros DEF Holders
  <2>3. Count(Waiting, {e})' = Count(Waiting, {e}) + 0
    BY <1>2, <1>4, Zeros DEF Waiting
  <2>4. Count(replaced, {e})' = Count(replaced, {e}) + 0
    BY <1>2, <1>4, Zeros
  <2>5. One(e \in disk') = One(e \in disk) + 0
    BY <1>2, <1>4, Zeros DEF One
  <2>6. One(e \in unused') = One(e \in unused) + 0
    BY <1>2, <1>4, Zeros DEF One
  <2>7. ~gone' => ~gone /\ 0 + 0 = 0
    BY <1>4
  <2>8. {0} \subseteq Int
    OBVIOUS
  <2> HIDE DEF h, p
  <2> QED
    BY <1>2, <1>4, <1>5, <1>8, <2>2, <2>3, <2>4, <2>5, <2>6, <2>7, <2>8, Handing
<1>11. Accounts' /\ Unknown'
  BY <1>2, <1>9, <1>10, OneKept DEF CacheInv
<1>12. Counters'
  <2>1. Balanced
    <3>1. h[1] \notin TaskSteps /\ \A i \in 1 .. Len(p) : p[i][1] \notin TaskSteps
      BY <1>2, <1>3 DEF TaskSteps
    <3> QED
      BY <1>2, <1>4, <1>6, <3>1, NoTask
  <2> QED
    BY <1>4, <2>1, CountersKept DEF CacheInv
<1>13. Numbered' /\ Shape' /\ Doom' /\ Dispatching' /\ Ending'
  <2>1. /\ h[1] \notin Dispatcher \cup {"dispatch", "destroyAll"} /\ h[1] \notin Waits
        /\ h[1] \notin {"release", "enqueue"}
    BY <1>2, <1>4 DEF Dispatcher, Waits
  <2>2. /\ \A u \in Users : held[u] \subseteq held'[u]
        /\ gone => held' = held
    BY <1>7
  <2> HIDE DEF h, p
  <2>3. h = todo[t][1] /\ published' \cup fresh' \subseteq published \cup fresh
    BY <1>4 DEF h
  <2> QED
    BY <1>2, <1>4, <1>6, <1>8, <2>1, <2>2, <2>3, HandOn
<1> QED
  BY <1>8, <1>11, <1>12, <1>13 DEF CacheInv

LEMMA KeepFirst ==
  ASSUME CacheInv, NEW t \in Threads, Keep(t), Arg(t) \notin held[t]
  PROVE  CacheInv'
<1>1. PICK e : e = Arg(t) /\ "keep" \in EntryKinds /\ At(t, "keep")
  BY DEF Keep, EntryKinds, Counting, Passing, Waits
<1> DEFINE h == todo[t][1]
           p == <<>>
<1>2. /\ Typed /\ todo[t] # <<>> /\ h \in AllSteps /\ h[1] = "keep" /\ h[2] = e
      /\ e \in Live /\ e \in Entries
      /\ CountOk(e) /\ LoadOk(e) /\ QueueOk(e)
      /\ \A K : "keep" \in K => StepsIn(For(K, e)) # 0
      /\ \A x \in Entries \ {e} : h \notin Naming(x)
  BY <1>1, EntryHead
<1>3. /\ Then(t, p) /\ entry' = entry
      /\ held' = [held EXCEPT ![t] = @ \cup {e}]
      /\ UNCHANGED <<published, fresh, freshCount, allLocks, unused, incoming, queued, requests, running, tasks, reads, replaced, laneQueue, lane, disk, calls, gone>>
  BY <1>1, <1>2 DEF Keep, Pass, OnlyEntries, mapVars, waitVars, countVars, laneVars, userVars
<1>4. Shifts(e, -1, 0, 0, 0, 0, 0, 0)
  <2>1. /\ Of(h, Counting, e) = 1 /\ Of(h, Loaders, e) = 0 /\ Of(h, Comers, e) = 0 /\ Of(h, Tasking, e) = 0 /\ Of(h, Unparkers, e) = 0 /\ Of(h, PendingKinds, e) = 0 /\ Of(h, {"enqueue"}, e) = 0
    BY <1>2 DEF Of, One, Counting, Loaders, Comers, Tasking, Unparkers, PendingKinds
  <2>2. {h[1]} \cap ForSets = {}
    BY <1>2 DEF ForSets
  <2> HIDE DEF h
  <2>3. h = todo[t][1] /\ Then(t, <<>>)
    BY <1>3 DEF h
  <2> QED
    BY <1>2, <2>1, <2>2, <2>3, ShiftNone
<1>5. Follows(h, p, Mine(t)') /\ Calm(p) /\ p \in Seq(AllSteps)
  BY FollowsNone
<1>6. t \in Users /\ held \in [Users -> SUBSET Entries] /\ e \notin held[t]
  <2>1. t \in Users
    BY <1>1, UsersDo DEF LaneSteps, Dispatcher
  <2> QED
    BY <1>1, <1>2, <2>1 DEF Typed, TypeOK
<1>7. /\ held' \in [Users -> SUBSET Entries] /\ held'[t] = held[t] \cup {e}
      /\ \A u \in Users \ {t} : held'[u] = held[u]
  BY <1>2, <1>3, <1>6
<1>8. ~gone
  BY <1>1, NotGone DEF LateSteps, LaneSteps, Dispatcher
<1>9. Typed'
  <2>1. todo' \in [Threads -> Seq(AllSteps)]
    BY <1>2, <1>3, <1>5, Moved DEF Typed
  <2> QED
    BY <1>2, <1>3, <2>1, <1>7 DEF Typed, TypeOK
<1>10. ASSUME NEW x \in Entries \ {e} PROVE Unnamed(x) /\ Spared(x)
  <2>1. h \notin Naming(x) /\ \A i \in 1 .. Len(p) : p[i] \notin Naming(x)
    BY <1>2, <1>10 DEF Naming, Takes, ForSets, Counting, Passing, Waits
  <2>2. Unnamed(x)
    BY <1>2, <1>3, <1>5, <2>1, NotNamed
  <2>3. Spared(x)
    <3>1. Holders(x)' = Holders(x)
      BY <1>6, <1>7, <1>10 DEF Holders
    <3> QED
      BY <1>3, <1>10, <3>1 DEF Spared, Waiting
  <2> QED
    BY <2>2, <2>3
<1>11. Keeps(e)
  <2>1. /\ \A G : StepsIn(G) \in Nat
        /\ Cardinality(Holders(e)) \in Nat /\ Count(Waiting, {e}) \in Nat /\ Count(replaced, {e}) \in Nat
    BY <1>2, Amounts
  <2>2. Cardinality(Holders(e))' = Cardinality(Holders(e)) + 1
    <3>1. Holders(e)' = Holders(e) \cup {t} /\ t \notin Holders(e)
      BY <1>6, <1>7 DEF Holders
    <3>2. IsFiniteSet(Holders(e))
      BY <1>2, Amounts
    <3>3. Cardinality(Holders(e) \cup {t}) = Cardinality(Holders(e)) + 1
      BY <3>1, <3>2, FS_AddElement
    <3> QED
      BY <3>1, <3>3
  <2>3. Count(Waiting, {e})' = Count(Waiting, {e}) + 0
    BY <1>2, <1>3, Zeros DEF Waiting
  <2>4. Count(replaced, {e})' = Count(replaced, {e}) + 0
    BY <1>2, <1>3, Zeros
  <2>5. One(e \in disk') = One(e \in disk) + 0
    BY <1>2, <1>3, Zeros DEF One
  <2>6. One(e \in unused') = One(e \in unused) + 0
    BY <1>2, <1>3, Zeros DEF One
  <2>7. ~gone' => ~gone /\ 0 + 0 = 0
    BY <1>3
  <2>8. {-1, 0, 1} \subseteq Int
    OBVIOUS
  <2> HIDE DEF h, p
  <2> QED
    BY <1>2, <1>3, <1>4, <1>9, <2>2, <2>3, <2>4, <2>5, <2>6, <2>7, <2>8, Handing
<1>12. Accounts' /\ Unknown'
  BY <1>2, <1>10, <1>11, OneKept DEF CacheInv
<1>13. Counters'
  <2>1. Balanced
    <3>1. h[1] \notin TaskSteps /\ \A i \in 1 .. Len(p) : p[i][1] \notin TaskSteps
      BY <1>2 DEF TaskSteps
    <3> QED
      BY <1>2, <1>3, <1>5, <3>1, NoTask
  <2> QED
    BY <1>3, <2>1, CountersKept DEF CacheInv
<1>14. Numbered' /\ Shape' /\ Doom' /\ Dispatching' /\ Ending'
  <2>1. /\ h[1] \notin Dispatcher \cup {"dispatch", "destroyAll"} /\ h[1] \notin Waits
        /\ h[1] \notin {"release", "enqueue"}
    BY <1>2, <1>3 DEF Dispatcher, Waits
  <2>2. /\ \A u \in Users : held[u] \subseteq held'[u]
        /\ gone => held' = held
    BY <1>6, <1>7, <1>8
  <2> HIDE DEF h, p
  <2>3. h = todo[t][1] /\ published' \cup fresh' \subseteq published \cup fresh
    BY <1>3 DEF h
  <2> QED
    BY <1>2, <1>3, <1>5, <1>9, <2>1, <2>2, <2>3, HandOn
<1> QED
  BY <1>9, <1>12, <1>13, <1>14 DEF CacheInv

LEMMA StartTaskOn ==
  ASSUME CacheInv, NEW t \in Threads, StartTask(t), lane = "on"
  PROVE  CacheInv'
<1>1. PICK e : e = Arg(t) /\ "startTask" \in EntryKinds /\ At(t, "startTask")
  BY DEF StartTask, EntryKinds, Counting, Passing, Waits
<1> DEFINE h == todo[t][1]
           a == <<"push", e>>
           p == <<a>>
<1>2. /\ Typed /\ todo[t] # <<>> /\ h \in AllSteps /\ h[1] = "startTask" /\ h[2] = e
      /\ e \in Live /\ e \in Entries
      /\ CountOk(e) /\ LoadOk(e) /\ QueueOk(e)
      /\ \A K : "startTask" \in K => StepsIn(For(K, e)) # 0
      /\ \A x \in Entries \ {e} : h \notin Naming(x)
  BY <1>1, EntryHead
<1>3. /\ a \in AllSteps /\ a[1] = "push" /\ a[2] = e
  BY <1>2, StepsAre DEF EntryKinds, Counting, Passing, Waits, ForNobody
<1>4. /\ Then(t, p) /\ entry' = entry
      /\ tasks' = tasks + 1
      /\ UNCHANGED <<published, fresh, freshCount, allLocks, unused, incoming, queued, requests, running, reads, replaced, laneQueue, lane, disk, held, calls, gone>>
  BY <1>1, <1>2 DEF StartTask, Pass, OnlyEntries, mapVars, waitVars, countVars, laneVars, userVars
<1>5. Shifts(e, 0, 0, 0, 0, 0, 0, 0)
  <2>1. /\ Of(h, Counting, e) = 1 /\ Of(h, Loaders, e) = 0 /\ Of(h, Comers, e) = 1 /\ Of(h, Tasking, e) = 1 /\ Of(h, Unparkers, e) = 0 /\ Of(h, PendingKinds, e) = 0 /\ Of(h, {"enqueue"}, e) = 0
        /\ Of(a, Counting, e) = 1 /\ Of(a, Loaders, e) = 0 /\ Of(a, Comers, e) = 1 /\ Of(a, Tasking, e) = 1 /\ Of(a, Unparkers, e) = 0 /\ Of(a, PendingKinds, e) = 0 /\ Of(a, {"enqueue"}, e) = 0
    BY <1>2, <1>3 DEF Of, One, Counting, Loaders, Comers, Tasking, Unparkers, PendingKinds
  <2>2. {h[1], a[1]} \cap ForSets = {}
    BY <1>2, <1>3 DEF ForSets
  <2> HIDE DEF h, a
  <2>3. h = todo[t][1] /\ Then(t, <<a>>)
    BY <1>4 DEF h
  <2> QED
    BY <1>2, <1>3, <2>1, <2>2, <2>3, ShiftOne
<1>6. Follows(h, p, Mine(t)') /\ Calm(p) /\ p \in Seq(AllSteps)
  <2>1. Apt(h, a)
    BY <1>2, <1>3 DEF Apt, Suits, Lasts, TaskDoneOnLane, Forces, EndOfForce, LaneSteps, Dispatcher, LateSteps
  <2>2. /\ Covered(h, a, Mine(t)')
    BY <1>2, <1>3 DEF Covered, Backs, Passing, Waits, Counting
  <2>3. /\ a[1] \notin {"reload", "unpark"}
        /\ h[1] \in Waits => a[1] \in Waits /\ a[2] = h[2]
        /\ h[1] \in TaskEnds => a[1] \in TaskEnds
        /\ a[1] \notin Dispatcher \cup ForSets \cup {"destroyAll"}
    BY <1>2, <1>3 DEF Waits, TaskEnds, Lasts, Firsts, Dispatcher, ForSets, TaskDoneOnLane
  <2> HIDE DEF h, a
  <2>4. Follows(h, <<a>>, Mine(t)') /\ Calm(<<a>>) /\ <<a>> \in Seq(AllSteps)
    BY <1>3, <2>1, <2>2, <2>3, FollowsOne
  <2> QED
    BY <2>4
<1>7. Typed'
  <2>1. todo' \in [Threads -> Seq(AllSteps)]
    BY <1>2, <1>4, <1>6, Moved DEF Typed
  <2>2. {freshCount', requests', running', tasks', reads'} \subseteq Nat
    <3>1. {freshCount, requests, running, tasks, reads} \subseteq Nat
      BY <1>2 DEF Typed, TypeOK
    <3> QED
      BY <1>4, <3>1
  <2> QED
    BY <1>2, <1>4, <2>1, <2>2 DEF Typed, TypeOK
<1>8. ASSUME NEW x \in Entries \ {e} PROVE Unnamed(x) /\ Spared(x)
  <2>1. h \notin Naming(x) /\ \A i \in 1 .. Len(p) : p[i] \notin Naming(x)
    BY <1>2, <1>3, <1>8 DEF Naming, Takes, ForSets, Counting, Passing, Waits
  <2>2. Unnamed(x)
    BY <1>2, <1>4, <1>6, <2>1, NotNamed
  <2>3. Spared(x)
    BY <1>4, <1>8 DEF Spared, Holders, Waiting
  <2> QED
    BY <2>2, <2>3
<1>9. Keeps(e)
  <2>1. /\ \A G : StepsIn(G) \in Nat
        /\ Cardinality(Holders(e)) \in Nat /\ Count(Waiting, {e}) \in Nat /\ Count(replaced, {e}) \in Nat
    BY <1>2, Amounts
  <2>2. Cardinality(Holders(e))' = Cardinality(Holders(e)) + 0
    BY <1>2, <1>4, Zeros DEF Holders
  <2>3. Count(Waiting, {e})' = Count(Waiting, {e}) + 0
    BY <1>2, <1>4, Zeros DEF Waiting
  <2>4. Count(replaced, {e})' = Count(replaced, {e}) + 0
    BY <1>2, <1>4, Zeros
  <2>5. One(e \in disk') = One(e \in disk) + 0
    BY <1>2, <1>4, Zeros DEF One
  <2>6. One(e \in unused') = One(e \in unused) + 0
    BY <1>2, <1>4, Zeros DEF One
  <2>7. ~gone' => ~gone /\ 0 + 0 = 0
    BY <1>4
  <2>8. {0} \subseteq Int
    OBVIOUS
  <2> HIDE DEF h, p
  <2> QED
    BY <1>2, <1>4, <1>5, <1>7, <2>2, <2>3, <2>4, <2>5, <2>6, <2>7, <2>8, Handing
<1>10. Accounts' /\ Unknown'
  BY <1>2, <1>8, <1>9, OneKept DEF CacheInv
<1>11. Counters'
  <2>1. /\ h \notin Named(TaskSteps) /\ h \notin Named(ReadSteps)
        /\ a \in Named(TaskSteps) /\ a \notin Named(ReadSteps)
    BY <1>2, <1>3 DEF Named, TaskSteps, ReadSteps
  <2>2. TaskDoneOnLane[1] = "taskDone" /\ TaskDoneOnLane[2] = TRUE
    BY DEF TaskDoneOnLane
  <2>3. h \notin {TaskDoneOnLane} /\ a \notin {TaskDoneOnLane}
    BY <1>2, <1>3, <2>2
  <2>4. /\ One(h \in Named(TaskSteps)) = 0 /\ One(h \in Named(ReadSteps)) = 0 /\ One(h \in {TaskDoneOnLane}) = 0
        /\ One(a \in Named(TaskSteps)) = 1 /\ One(a \in Named(ReadSteps)) = 0 /\ One(a \in {TaskDoneOnLane}) = 0
    BY <2>1, <2>3 DEF One
  <2> HIDE DEF h, a
  <2>5. \A G : StepsIn(G)' = StepsIn(G) - One(h \in G) + One(a \in G)
    BY <1>2, <1>3, <1>4, ThenFew DEF h, p
  <2>6. \A G : StepsIn(G) \in Nat
    BY <1>2, Amounts
  <2>7. /\ StepsIn(Named(TaskSteps))' = StepsIn(Named(TaskSteps)) + 1
        /\ StepsIn(Named(ReadSteps))' = StepsIn(Named(ReadSteps)) + 0
        /\ StepsIn({TaskDoneOnLane})' = StepsIn({TaskDoneOnLane})
    BY <2>4, <2>5, <2>6
  <2>8. Waiting' = Waiting
    BY <1>4 DEF Waiting
  <2>9. Len(Waiting) \in Nat /\ Len(laneQueue) \in Nat /\ Cardinality(disk) \in Nat
    BY <1>2, Amounts, DiskFinite, LenProperties DEF Typed, TypeOK
  <2>10. /\ running = Len(laneQueue) + StepsIn({TaskDoneOnLane}) /\ (MaxLoads # 0 => running <= MaxLoads)
        /\ tasks = Len(Waiting) + StepsIn(Named(TaskSteps)) + Cardinality(disk)
        /\ reads = StepsIn(Named(ReadSteps)) + Cardinality(disk)
    BY DEF CacheInv, Counters, ReadSteps
  <2>11. /\ tasks' = Len(Waiting)' + StepsIn(Named(TaskSteps))' + Cardinality(disk)'
        /\ reads' = StepsIn(Named(ReadSteps))' + Cardinality(disk)'
        /\ running' = Len(laneQueue)' + StepsIn({TaskDoneOnLane})'
    BY <1>4, <2>6, <2>7, <2>9, <2>10, <2>8, SMTT(60)
  <2> QED
    BY <1>4, <2>10, <2>11 DEF Counters, ReadSteps
<1>12. Numbered' /\ Shape' /\ Doom' /\ Dispatching' /\ Ending'
  <2>1. /\ h[1] \notin Dispatcher \cup {"dispatch", "destroyAll"} /\ h[1] \notin Waits
        /\ h[1] \notin {"release", "enqueue"}
    BY <1>2, <1>4 DEF Dispatcher, Waits
  <2>2. /\ \A u \in Users : held[u] \subseteq held'[u]
        /\ gone => held' = held
    BY <1>4
  <2> HIDE DEF h, p
  <2>3. h = todo[t][1] /\ published' \cup fresh' \subseteq published \cup fresh
    BY <1>4 DEF h
  <2> QED
    BY <1>2, <1>4, <1>6, <1>7, <2>1, <2>2, <2>3, HandOn
<1> QED
  BY <1>7, <1>10, <1>11, <1>12 DEF CacheInv

LEMMA StartTaskOff ==
  ASSUME CacheInv, NEW t \in Threads, StartTask(t), lane # "on"
  PROVE  CacheInv'
<1>1. PICK e : e = Arg(t) /\ "startTask" \in EntryKinds /\ At(t, "startTask")
  BY DEF StartTask, EntryKinds, Counting, Passing, Waits
<1> DEFINE h == todo[t][1]
           a == <<"claimOrPark", e>>
           b == <<"release", e>>
           c == <<"taskDone", FALSE>>
           p == <<a, b, c>>
<1>2. /\ Typed /\ todo[t] # <<>> /\ h \in AllSteps /\ h[1] = "startTask" /\ h[2] = e
      /\ e \in Live /\ e \in Entries
      /\ CountOk(e) /\ LoadOk(e) /\ QueueOk(e)
      /\ \A K : "startTask" \in K => StepsIn(For(K, e)) # 0
      /\ \A x \in Entries \ {e} : h \notin Naming(x)
  BY <1>1, EntryHead
<1>3. /\ a \in AllSteps /\ a[1] = "claimOrPark" /\ a[2] = e
      /\ b \in AllSteps /\ b[1] = "release" /\ b[2] = e
      /\ c \in AllSteps /\ c[1] = "taskDone" /\ c[2] = FALSE
  BY <1>2, StepsAre DEF EntryKinds, Counting, Passing, Waits, ForNobody
<1>4. /\ Then(t, p) /\ entry' = entry
      /\ tasks' = tasks + 1
      /\ UNCHANGED <<published, fresh, freshCount, allLocks, unused, incoming, queued, requests, running, reads, replaced, laneQueue, lane, disk, held, calls, gone>>
  BY <1>1, <1>2 DEF StartTask, TaskRuns, Pass, OnlyEntries, mapVars, waitVars, countVars, laneVars, userVars
<1>5. Shifts(e, 0, 0, 0, 0, 0, 0, 0)
  <2>1. /\ Of(h, Counting, e) = 1 /\ Of(h, Loaders, e) = 0 /\ Of(h, Comers, e) = 1 /\ Of(h, Tasking, e) = 1 /\ Of(h, Unparkers, e) = 0 /\ Of(h, PendingKinds, e) = 0 /\ Of(h, {"enqueue"}, e) = 0
        /\ Of(a, Counting, e) = 0 /\ Of(a, Loaders, e) = 0 /\ Of(a, Comers, e) = 1 /\ Of(a, Tasking, e) = 1 /\ Of(a, Unparkers, e) = 0 /\ Of(a, PendingKinds, e) = 0 /\ Of(a, {"enqueue"}, e) = 0
        /\ Of(b, Counting, e) = 1 /\ Of(b, Loaders, e) = 0 /\ Of(b, Comers, e) = 0 /\ Of(b, Tasking, e) = 0 /\ Of(b, Unparkers, e) = 0 /\ Of(b, PendingKinds, e) = 0 /\ Of(b, {"enqueue"}, e) = 0
        /\ Of(c, Counting, e) = 0 /\ Of(c, Loaders, e) = 0 /\ Of(c, Comers, e) = 0 /\ Of(c, Tasking, e) = 0 /\ Of(c, Unparkers, e) = 0 /\ Of(c, PendingKinds, e) = 0 /\ Of(c, {"enqueue"}, e) = 0
    BY <1>2, <1>3 DEF Of, One, Counting, Loaders, Comers, Tasking, Unparkers, PendingKinds
  <2>2. {h[1], a[1], b[1], c[1]} \cap ForSets = {}
    BY <1>2, <1>3 DEF ForSets
  <2> HIDE DEF h, a, b, c
  <2>3. h = todo[t][1] /\ Then(t, <<a, b, c>>)
    BY <1>4 DEF h
  <2> QED
    BY <1>2, <1>3, <2>1, <2>2, <2>3, ShiftThree
<1>6. Follows(h, p, Mine(t)') /\ Calm(p) /\ p \in Seq(AllSteps)
  <2>1. Apt(h, a) /\ Apt(h, b) /\ Apt(h, c)
    BY <1>2, <1>3 DEF Apt, Suits, Lasts, TaskDoneOnLane, Forces, EndOfForce, LaneSteps, Dispatcher, LateSteps
  <2>2. /\ (Covered(h, a, Mine(t)') \/ Backs(a, b) \/ Backs(a, c))
        /\ (Covered(h, b, Mine(t)') \/ Backs(b, c))
        /\ Covered(h, c, Mine(t)')
    BY <1>2, <1>3 DEF Covered, Backs, Passing, Waits, Counting
  <2>3. /\ a[1] \notin {"reload"} \cup Lasts
        /\ b[1] \notin {"reload", "unpark"} \cup Firsts \cup Lasts
        /\ c[1] \notin {"reload", "unpark"} \cup Firsts
        /\ (a[1] = "unpark" => b[1] \in {"wait", "claimFree"} /\ b[2] = a[2])
        /\ a # TaskDoneOnLane
        /\ b # TaskDoneOnLane
        /\ (h[1] \in Waits => c[1] \in Waits /\ c[2] = h[2])
        /\ h[1] \notin TaskEnds
        /\ {a[1], b[1], c[1]} \cap (Dispatcher \cup ForSets \cup {"destroyAll"}) = {}
    BY <1>2, <1>3 DEF Waits, TaskEnds, Lasts, Firsts, Dispatcher, ForSets, TaskDoneOnLane
  <2> HIDE DEF h, a, b, c
  <2>4. Follows(h, <<a, b, c>>, Mine(t)') /\ Calm(<<a, b, c>>) /\ <<a, b, c>> \in Seq(AllSteps)
    BY <1>3, <2>1, <2>2, <2>3, FollowsThree
  <2> QED
    BY <2>4
<1>7. Typed'
  <2>1. todo' \in [Threads -> Seq(AllSteps)]
    BY <1>2, <1>4, <1>6, Moved DEF Typed
  <2>2. {freshCount', requests', running', tasks', reads'} \subseteq Nat
    <3>1. {freshCount, requests, running, tasks, reads} \subseteq Nat
      BY <1>2 DEF Typed, TypeOK
    <3> QED
      BY <1>4, <3>1
  <2> QED
    BY <1>2, <1>4, <2>1, <2>2 DEF Typed, TypeOK
<1>8. ASSUME NEW x \in Entries \ {e} PROVE Unnamed(x) /\ Spared(x)
  <2>1. h \notin Naming(x) /\ \A i \in 1 .. Len(p) : p[i] \notin Naming(x)
    BY <1>2, <1>3, <1>8 DEF Naming, Takes, ForSets, Counting, Passing, Waits
  <2>2. Unnamed(x)
    BY <1>2, <1>4, <1>6, <2>1, NotNamed
  <2>3. Spared(x)
    BY <1>4, <1>8 DEF Spared, Holders, Waiting
  <2> QED
    BY <2>2, <2>3
<1>9. Keeps(e)
  <2>1. /\ \A G : StepsIn(G) \in Nat
        /\ Cardinality(Holders(e)) \in Nat /\ Count(Waiting, {e}) \in Nat /\ Count(replaced, {e}) \in Nat
    BY <1>2, Amounts
  <2>2. Cardinality(Holders(e))' = Cardinality(Holders(e)) + 0
    BY <1>2, <1>4, Zeros DEF Holders
  <2>3. Count(Waiting, {e})' = Count(Waiting, {e}) + 0
    BY <1>2, <1>4, Zeros DEF Waiting
  <2>4. Count(replaced, {e})' = Count(replaced, {e}) + 0
    BY <1>2, <1>4, Zeros
  <2>5. One(e \in disk') = One(e \in disk) + 0
    BY <1>2, <1>4, Zeros DEF One
  <2>6. One(e \in unused') = One(e \in unused) + 0
    BY <1>2, <1>4, Zeros DEF One
  <2>7. ~gone' => ~gone /\ 0 + 0 = 0
    BY <1>4
  <2>8. {0} \subseteq Int
    OBVIOUS
  <2> HIDE DEF h, p
  <2> QED
    BY <1>2, <1>4, <1>5, <1>7, <2>2, <2>3, <2>4, <2>5, <2>6, <2>7, <2>8, Handing
<1>10. Accounts' /\ Unknown'
  BY <1>2, <1>8, <1>9, OneKept DEF CacheInv
<1>11. Counters'
  <2>1. /\ h \notin Named(TaskSteps) /\ h \notin Named(ReadSteps)
        /\ a \notin Named(TaskSteps) /\ a \notin Named(ReadSteps)
        /\ b \notin Named(TaskSteps) /\ b \notin Named(ReadSteps)
        /\ c \in Named(TaskSteps) /\ c \notin Named(ReadSteps)
    BY <1>2, <1>3 DEF Named, TaskSteps, ReadSteps
  <2>2. TaskDoneOnLane[1] = "taskDone" /\ TaskDoneOnLane[2] = TRUE
    BY DEF TaskDoneOnLane
  <2>3. h \notin {TaskDoneOnLane} /\ a \notin {TaskDoneOnLane} /\ b \notin {TaskDoneOnLane} /\ c \notin {TaskDoneOnLane}
    BY <1>2, <1>3, <2>2
  <2>4. /\ One(h \in Named(TaskSteps)) = 0 /\ One(h \in Named(ReadSteps)) = 0 /\ One(h \in {TaskDoneOnLane}) = 0
        /\ One(a \in Named(TaskSteps)) = 0 /\ One(a \in Named(ReadSteps)) = 0 /\ One(a \in {TaskDoneOnLane}) = 0
        /\ One(b \in Named(TaskSteps)) = 0 /\ One(b \in Named(ReadSteps)) = 0 /\ One(b \in {TaskDoneOnLane}) = 0
        /\ One(c \in Named(TaskSteps)) = 1 /\ One(c \in Named(ReadSteps)) = 0 /\ One(c \in {TaskDoneOnLane}) = 0
    BY <2>1, <2>3 DEF One
  <2> HIDE DEF h, a, b, c
  <2>5. \A G : StepsIn(G)' = StepsIn(G) - One(h \in G) + One(a \in G) + One(b \in G) + One(c \in G)
    BY <1>2, <1>3, <1>4, ThenFew DEF h, p
  <2>6. \A G : StepsIn(G) \in Nat
    BY <1>2, Amounts
  <2>7. /\ StepsIn(Named(TaskSteps))' = StepsIn(Named(TaskSteps)) + 1
        /\ StepsIn(Named(ReadSteps))' = StepsIn(Named(ReadSteps)) + 0
        /\ StepsIn({TaskDoneOnLane})' = StepsIn({TaskDoneOnLane})
    BY <2>4, <2>5, <2>6
  <2>8. Waiting' = Waiting
    BY <1>4 DEF Waiting
  <2>9. Len(Waiting) \in Nat /\ Len(laneQueue) \in Nat /\ Cardinality(disk) \in Nat
    BY <1>2, Amounts, DiskFinite, LenProperties DEF Typed, TypeOK
  <2>10. /\ running = Len(laneQueue) + StepsIn({TaskDoneOnLane}) /\ (MaxLoads # 0 => running <= MaxLoads)
        /\ tasks = Len(Waiting) + StepsIn(Named(TaskSteps)) + Cardinality(disk)
        /\ reads = StepsIn(Named(ReadSteps)) + Cardinality(disk)
    BY DEF CacheInv, Counters, ReadSteps
  <2>11. /\ tasks' = Len(Waiting)' + StepsIn(Named(TaskSteps))' + Cardinality(disk)'
        /\ reads' = StepsIn(Named(ReadSteps))' + Cardinality(disk)'
        /\ running' = Len(laneQueue)' + StepsIn({TaskDoneOnLane})'
    BY <1>4, <2>6, <2>7, <2>9, <2>10, <2>8, SMTT(60)
  <2> QED
    BY <1>4, <2>10, <2>11 DEF Counters, ReadSteps
<1>12. Numbered' /\ Shape' /\ Doom' /\ Dispatching' /\ Ending'
  <2>1. /\ h[1] \notin Dispatcher \cup {"dispatch", "destroyAll"} /\ h[1] \notin Waits
        /\ h[1] \notin {"release", "enqueue"}
    BY <1>2, <1>4 DEF Dispatcher, Waits
  <2>2. /\ \A u \in Users : held[u] \subseteq held'[u]
        /\ gone => held' = held
    BY <1>4
  <2> HIDE DEF h, p
  <2>3. h = todo[t][1] /\ published' \cup fresh' \subseteq published \cup fresh
    BY <1>4 DEF h
  <2> QED
    BY <1>2, <1>4, <1>6, <1>7, <2>1, <2>2, <2>3, HandOn
<1> QED
  BY <1>7, <1>10, <1>11, <1>12 DEF CacheInv

LEMMA PushStep ==
  ASSUME CacheInv, NEW t \in Threads, PushIncoming(t)
  PROVE  CacheInv'
<1>1. PICK e : e = Arg(t) /\ "push" \in EntryKinds /\ At(t, "push")
  BY DEF PushIncoming, EntryKinds, Counting, Passing, Waits
<1> DEFINE h == todo[t][1]
           a == <<"dispatch", None>>
           p == <<a>>
<1>2. /\ Typed /\ todo[t] # <<>> /\ h \in AllSteps /\ h[1] = "push" /\ h[2] = e
      /\ e \in Live /\ e \in Entries
      /\ CountOk(e) /\ LoadOk(e) /\ QueueOk(e)
      /\ \A K : "push" \in K => StepsIn(For(K, e)) # 0
      /\ \A x \in Entries \ {e} : h \notin Naming(x)
  BY <1>1, EntryHead
<1>3. /\ a \in AllSteps /\ a[1] = "dispatch" /\ a[2] = None
  BY <1>2, StepsAre DEF EntryKinds, Counting, Passing, Waits, ForNobody
<1>4. /\ Then(t, p) /\ entry' = entry
      /\ incoming' = <<e>> \o incoming
      /\ UNCHANGED <<published, fresh, freshCount, allLocks, unused, queued, requests, running, tasks, reads, replaced, laneQueue, lane, disk, held, calls, gone>>
  BY <1>1, <1>2 DEF PushIncoming, Pass, OnlyEntries, mapVars, waitVars, countVars, laneVars, userVars
<1>5. Shifts(e, -1, 0, -1, -1, 0, 0, 0)
  <2>1. /\ Of(h, Counting, e) = 1 /\ Of(h, Loaders, e) = 0 /\ Of(h, Comers, e) = 1 /\ Of(h, Tasking, e) = 1 /\ Of(h, Unparkers, e) = 0 /\ Of(h, PendingKinds, e) = 0 /\ Of(h, {"enqueue"}, e) = 0
        /\ Of(a, Counting, e) = 0 /\ Of(a, Loaders, e) = 0 /\ Of(a, Comers, e) = 0 /\ Of(a, Tasking, e) = 0 /\ Of(a, Unparkers, e) = 0 /\ Of(a, PendingKinds, e) = 0 /\ Of(a, {"enqueue"}, e) = 0
    BY <1>2, <1>3 DEF Of, One, Counting, Loaders, Comers, Tasking, Unparkers, PendingKinds
  <2>2. {h[1], a[1]} \cap ForSets = {}
    BY <1>2, <1>3 DEF ForSets
  <2> HIDE DEF h, a
  <2>3. h = todo[t][1] /\ Then(t, <<a>>)
    BY <1>4 DEF h
  <2> QED
    BY <1>2, <1>3, <2>1, <2>2, <2>3, ShiftOne
<1>6. Follows(h, p, Mine(t)') /\ Calm(p) /\ p \in Seq(AllSteps)
  <2>1. Apt(h, a)
    BY <1>2, <1>3 DEF Apt, Suits, Lasts, TaskDoneOnLane, Forces, EndOfForce, LaneSteps, Dispatcher, LateSteps
  <2>2. /\ Covered(h, a, Mine(t)')
    BY <1>2, <1>3 DEF Covered, Backs, Passing, Waits, Counting
  <2>3. /\ a[1] \notin {"reload", "unpark"}
        /\ h[1] \in Waits => a[1] \in Waits /\ a[2] = h[2]
        /\ h[1] \in TaskEnds => a[1] \in TaskEnds
        /\ a[1] \notin Dispatcher \cup ForSets \cup {"destroyAll"}
    BY <1>2, <1>3 DEF Waits, TaskEnds, Lasts, Firsts, Dispatcher, ForSets, TaskDoneOnLane
  <2> HIDE DEF h, a
  <2>4. Follows(h, <<a>>, Mine(t)') /\ Calm(<<a>>) /\ <<a>> \in Seq(AllSteps)
    BY <1>3, <2>1, <2>2, <2>3, FollowsOne
  <2> QED
    BY <2>4
<1>7. /\ incoming \in Seq(Entries) /\ queued \in Seq(Entries) /\ laneQueue \in Seq(Entries)
      /\ incoming' \in Seq(Entries)
  BY <1>2, <1>4, CountEnds DEF Typed, TypeOK
<1>8. /\ Len(Waiting) = Len(incoming) + Len(queued) + Len(laneQueue)
      /\ Len(Waiting)' = Len(incoming') + Len(queued) + Len(laneQueue)
      /\ \A G : /\ Count(Waiting, G) = Count(incoming, G) + Count(queued, G) + Count(laneQueue, G)
                /\ Count(Waiting, G)' = Count(incoming', G) + Count(queued, G) + Count(laneQueue, G)
  <2>1. Waiting = incoming \o queued \o laneQueue /\ Waiting' = incoming' \o queued \o laneQueue
    BY <1>4 DEF Waiting
  <2>2. /\ Len(incoming' \o queued \o laneQueue) = Len(incoming') + Len(queued) + Len(laneQueue)
        /\ \A G : Count(incoming' \o queued \o laneQueue, G) = Count(incoming', G) + Count(queued, G) + Count(laneQueue, G)
    BY <1>7, ThreeLists
  <2>3. /\ Len(incoming \o queued \o laneQueue) = Len(incoming) + Len(queued) + Len(laneQueue)
        /\ \A G : Count(incoming \o queued \o laneQueue, G) = Count(incoming, G) + Count(queued, G) + Count(laneQueue, G)
    BY <1>7, ThreeLists
  <2>4. ASSUME NEW G PROVE Count(Waiting, G)' = Count(incoming', G) + Count(queued, G) + Count(laneQueue, G)
    <3>1. Count(Waiting, G)' = Count(Waiting', G)
      BY DEF Count
    <3> QED
      BY <2>1, <2>2, <3>1
  <2> QED
    BY <2>1, <2>2, <2>3, <2>4
<1>9. /\ Len(incoming') = Len(incoming) + 1 /\ Len(incoming) \in Nat /\ Len(queued) \in Nat /\ Len(laneQueue) \in Nat
      /\ \A G : Count(incoming', G) = Count(incoming, G) + One(e \in G)
  BY <1>2, <1>4, <1>7, CountEnds, LenProperties
<1>10. \A G : Count(incoming, G) \in Nat /\ Count(queued, G) \in Nat /\ Count(laneQueue, G) \in Nat
  BY <1>7, CountType
<1>11. Typed'
  <2>1. todo' \in [Threads -> Seq(AllSteps)]
    BY <1>2, <1>4, <1>6, Moved DEF Typed
  <2> QED
    BY <1>2, <1>4, <2>1, <1>7 DEF Typed, TypeOK
<1>12. ASSUME NEW x \in Entries \ {e} PROVE Unnamed(x) /\ Spared(x)
  <2>1. h \notin Naming(x) /\ \A i \in 1 .. Len(p) : p[i] \notin Naming(x)
    BY <1>2, <1>3, <1>12 DEF Naming, Takes, ForSets, Counting, Passing, Waits
  <2>2. Unnamed(x)
    BY <1>2, <1>4, <1>6, <2>1, NotNamed
  <2>3. Spared(x)
    <3>1. One(e \in {x}) = 0
      BY <1>12 DEF One
    <3>2. Count(Waiting, {x})' = Count(Waiting, {x})
      BY <1>8, <1>9, <1>10, <3>1
    <3> QED
      BY <1>4, <1>12, <3>2 DEF Spared, Holders
  <2> QED
    BY <2>2, <2>3
<1>13. Keeps(e)
  <2>1. /\ \A G : StepsIn(G) \in Nat
        /\ Cardinality(Holders(e)) \in Nat /\ Count(Waiting, {e}) \in Nat /\ Count(replaced, {e}) \in Nat
    BY <1>2, Amounts
  <2>2. Cardinality(Holders(e))' = Cardinality(Holders(e)) + 0
    BY <1>2, <1>4, Zeros DEF Holders
  <2>3. Count(Waiting, {e})' = Count(Waiting, {e}) + 1
    <3>1. One(e \in {e}) = 1
      BY DEF One
    <3> QED
      BY <1>8, <1>9, <1>10, <3>1
  <2>4. Count(replaced, {e})' = Count(replaced, {e}) + 0
    BY <1>2, <1>4, Zeros
  <2>5. One(e \in disk') = One(e \in disk) + 0
    BY <1>2, <1>4, Zeros DEF One
  <2>6. One(e \in unused') = One(e \in unused) + 0
    BY <1>2, <1>4, Zeros DEF One
  <2>7. ~gone' => ~gone /\ 0 + 0 = 0
    BY <1>4
  <2>8. {-1, 0, 1} \subseteq Int
    OBVIOUS
  <2> HIDE DEF h, p
  <2> QED
    BY <1>2, <1>4, <1>5, <1>11, <2>2, <2>3, <2>4, <2>5, <2>6, <2>7, <2>8, Handing
<1>14. Accounts' /\ Unknown'
  BY <1>2, <1>12, <1>13, OneKept DEF CacheInv
<1>15. Counters'
  <2>1. /\ h \in Named(TaskSteps) /\ h \notin Named(ReadSteps)
        /\ a \notin Named(TaskSteps) /\ a \notin Named(ReadSteps)
    BY <1>2, <1>3 DEF Named, TaskSteps, ReadSteps
  <2>2. TaskDoneOnLane[1] = "taskDone" /\ TaskDoneOnLane[2] = TRUE
    BY DEF TaskDoneOnLane
  <2>3. h \notin {TaskDoneOnLane} /\ a \notin {TaskDoneOnLane}
    BY <1>2, <1>3, <2>2
  <2>4. /\ One(h \in Named(TaskSteps)) = 1 /\ One(h \in Named(ReadSteps)) = 0 /\ One(h \in {TaskDoneOnLane}) = 0
        /\ One(a \in Named(TaskSteps)) = 0 /\ One(a \in Named(ReadSteps)) = 0 /\ One(a \in {TaskDoneOnLane}) = 0
    BY <2>1, <2>3 DEF One
  <2> HIDE DEF h, a
  <2>5. \A G : StepsIn(G)' = StepsIn(G) - One(h \in G) + One(a \in G)
    BY <1>2, <1>3, <1>4, ThenFew DEF h, p
  <2>6. \A G : StepsIn(G) \in Nat
    BY <1>2, Someone DEF Typed
  <2>7. /\ StepsIn(Named(TaskSteps))' = StepsIn(Named(TaskSteps)) + -1
        /\ StepsIn(Named(ReadSteps))' = StepsIn(Named(ReadSteps)) + 0
        /\ StepsIn({TaskDoneOnLane})' = StepsIn({TaskDoneOnLane})
    BY <2>4, <2>5, <2>6
  <2>8. Len(Waiting)' = Len(Waiting) + 1
    BY <1>8, <1>9
  <2>9. Len(Waiting) \in Nat /\ Len(laneQueue) \in Nat /\ Cardinality(disk) \in Nat
    BY <1>2, ThreeLists, DiskFinite, LenProperties DEF Typed, TypeOK, Waiting
  <2>10. /\ running = Len(laneQueue) + StepsIn({TaskDoneOnLane}) /\ (MaxLoads # 0 => running <= MaxLoads)
        /\ tasks = Len(Waiting) + StepsIn(Named(TaskSteps)) + Cardinality(disk)
        /\ reads = StepsIn(Named(ReadSteps)) + Cardinality(disk)
    BY DEF CacheInv, Counters, ReadSteps
  <2>11. /\ tasks' = Len(Waiting)' + StepsIn(Named(TaskSteps))' + Cardinality(disk)'
        /\ reads' = StepsIn(Named(ReadSteps))' + Cardinality(disk)'
        /\ running' = Len(laneQueue)' + StepsIn({TaskDoneOnLane})'
    BY <1>4, <2>6, <2>7, <2>9, <2>10, <2>8, SMTT(60)
  <2> QED
    BY <1>4, <2>6, <2>7, <2>9, <2>10, <2>11 DEF Counters, ReadSteps
<1>16. Numbered' /\ Shape' /\ Doom' /\ Dispatching' /\ Ending'
  <2>1. Typed /\ Shape /\ Dispatching
    BY DEF CacheInv
  <2>2. h[1] \notin Dispatcher \cup Waits \cup {"destroyAll", "release", "enqueue"} /\ Still(p)
    BY <1>2, <1>6 DEF Dispatcher, Waits, Calm, Still
  <2>3. a \in For({"dispatch"}, None)
    BY <1>3 DEF For
  <2> HIDE DEF h, a
  <2>4. \A u \in Threads : Dispatches(u) \/ Dispatches(u)' => todo[u] # <<>> /\ todo'[u] # <<>> /\ todo'[u][1] = todo[u][1]
    BY <1>2, <1>4, <1>6, <2>1, <2>2, CalmStep DEF h
  <2>5. Numbered' /\ Shape' /\ Doom' /\ Ending'
    BY <1>2, <1>4, <1>6, <2>2, RestKept DEF h
  <2>6. StepsIn(For({"dispatch"}, None))' # 0
    <3>1. StepsIn(For({"dispatch"}, None))' = StepsIn(For({"dispatch"}, None)) - One(h \in For({"dispatch"}, None)) + One(a \in For({"dispatch"}, None))
      BY <1>2, <1>3, <1>4, ThenFew DEF h, p
    <3>2. h \notin For({"dispatch"}, None) /\ StepsIn(For({"dispatch"}, None)) \in Nat
      BY <1>2, Amounts DEF For
    <3> QED
      BY <2>3, <3>1, <3>2 DEF One
  <2>7. \A u \in Threads : Dispatches(u)' <=> Dispatches(u)
    BY <2>4 DEF Dispatches
  <2>8. Dispatching'
    BY <1>4, <2>1, <2>4, <2>6, <2>7 DEF Dispatching
  <2> QED
    BY <2>5, <2>8
<1> QED
  BY <1>11, <1>14, <1>15, <1>16 DEF CacheInv

LEMMA StartReadOk ==
  ASSUME CacheInv, NEW t \in Threads, StartRead(t, TRUE)
  PROVE  CacheInv'
<1>1. PICK e : e = Arg(t) /\ "startRead" \in EntryKinds /\ At(t, "startRead")
  BY DEF StartRead, EntryKinds, Counting, Passing, Waits
<1> DEFINE h == todo[t][1]
           p == <<>>
<1>2. /\ Typed /\ todo[t] # <<>> /\ h \in AllSteps /\ h[1] = "startRead" /\ h[2] = e
      /\ e \in Live /\ e \in Entries
      /\ CountOk(e) /\ LoadOk(e) /\ QueueOk(e)
      /\ \A K : "startRead" \in K => StepsIn(For(K, e)) # 0
      /\ \A x \in Entries \ {e} : h \notin Naming(x)
  BY <1>1, EntryHead
<1>3. /\ Then(t, p) /\ entry' = entry
      /\ tasks' = tasks + 1
      /\ reads' = reads + 1
      /\ disk' = disk \cup {e}
      /\ UNCHANGED <<published, fresh, freshCount, allLocks, unused, incoming, queued, requests, running, replaced, laneQueue, lane, held, calls, gone>>
  BY <1>1, <1>2 DEF StartRead, Pass, OnlyEntries, mapVars, waitVars, countVars, laneVars, userVars
<1>4. Shifts(e, -1, -1, 0, -1, 0, 0, 0)
  <2>1. /\ Of(h, Counting, e) = 1 /\ Of(h, Loaders, e) = 1 /\ Of(h, Comers, e) = 0 /\ Of(h, Tasking, e) = 1 /\ Of(h, Unparkers, e) = 0 /\ Of(h, PendingKinds, e) = 0 /\ Of(h, {"enqueue"}, e) = 0
    BY <1>2 DEF Of, One, Counting, Loaders, Comers, Tasking, Unparkers, PendingKinds
  <2>2. {h[1]} \cap ForSets = {}
    BY <1>2 DEF ForSets
  <2> HIDE DEF h
  <2>3. h = todo[t][1] /\ Then(t, <<>>)
    BY <1>3 DEF h
  <2> QED
    BY <1>2, <2>1, <2>2, <2>3, ShiftNone
<1>5. Follows(h, p, Mine(t)') /\ Calm(p) /\ p \in Seq(AllSteps)
  BY FollowsNone
<1>6. e \notin disk
  <2>1. StepsIn(For(Tasking, e)) \in Nat \ {0} /\ Count(Waiting, {e}) \in Nat /\ One(entry[e].parked) \in Nat
    BY <1>2, Amounts DEF Tasking, One
  <2> QED
    BY <1>2, <2>1 DEF LoadOk, TasksOf, One
<1>7. disk' \subseteq Entries /\ Cardinality(disk') = Cardinality(disk) + 1
  BY <1>2, <1>3, <1>6, DiskFinite DEF Typed, TypeOK
<1>8. Typed'
  <2>1. todo' \in [Threads -> Seq(AllSteps)]
    BY <1>2, <1>3, <1>5, Moved DEF Typed
  <2>2. {freshCount', requests', running', tasks', reads'} \subseteq Nat
    <3>1. {freshCount, requests, running, tasks, reads} \subseteq Nat
      BY <1>2 DEF Typed, TypeOK
    <3> QED
      BY <1>3, <3>1
  <2> QED
    BY <1>2, <1>3, <2>1, <2>2, <1>7 DEF Typed, TypeOK
<1>9. ASSUME NEW x \in Entries \ {e} PROVE Unnamed(x) /\ Spared(x)
  <2>1. h \notin Naming(x) /\ \A i \in 1 .. Len(p) : p[i] \notin Naming(x)
    BY <1>2, <1>9 DEF Naming, Takes, ForSets, Counting, Passing, Waits
  <2>2. Unnamed(x)
    BY <1>2, <1>3, <1>5, <2>1, NotNamed
  <2>3. Spared(x)
    BY <1>3, <1>9 DEF Spared, Holders, Waiting
  <2> QED
    BY <2>2, <2>3
<1>10. Keeps(e)
  <2>1. /\ \A G : StepsIn(G) \in Nat
        /\ Cardinality(Holders(e)) \in Nat /\ Count(Waiting, {e}) \in Nat /\ Count(replaced, {e}) \in Nat
    BY <1>2, Amounts
  <2>2. Cardinality(Holders(e))' = Cardinality(Holders(e)) + 0
    BY <1>2, <1>3, Zeros DEF Holders
  <2>3. Count(Waiting, {e})' = Count(Waiting, {e}) + 0
    BY <1>2, <1>3, Zeros DEF Waiting
  <2>4. Count(replaced, {e})' = Count(replaced, {e}) + 0
    BY <1>2, <1>3, Zeros
  <2>5. One(e \in disk') = One(e \in disk) + 1
    BY <1>3, <1>6 DEF One
  <2>6. One(e \in unused') = One(e \in unused) + 0
    BY <1>2, <1>3, Zeros DEF One
  <2>7. ~gone' => ~gone /\ 0 + 0 = 0
    BY <1>3
  <2>8. {-1, 0, 1} \subseteq Int
    OBVIOUS
  <2> HIDE DEF h, p
  <2> QED
    BY <1>2, <1>3, <1>4, <1>8, <2>2, <2>3, <2>4, <2>5, <2>6, <2>7, <2>8, Handing
<1>11. Accounts' /\ Unknown'
  BY <1>2, <1>9, <1>10, OneKept DEF CacheInv
<1>12. Counters'
  <2>1. /\ h \notin Named(TaskSteps) /\ h \notin Named(ReadSteps)
    BY <1>2 DEF Named, TaskSteps, ReadSteps
  <2>2. TaskDoneOnLane[1] = "taskDone" /\ TaskDoneOnLane[2] = TRUE
    BY DEF TaskDoneOnLane
  <2>3. h \notin {TaskDoneOnLane}
    BY <1>2, <2>2
  <2>4. /\ One(h \in Named(TaskSteps)) = 0 /\ One(h \in Named(ReadSteps)) = 0 /\ One(h \in {TaskDoneOnLane}) = 0
    BY <2>1, <2>3 DEF One
  <2> HIDE DEF h
  <2>5. \A G : StepsIn(G)' = StepsIn(G) - One(h \in G)
    BY <1>2, <1>3, ThenFew DEF h, p
  <2>6. \A G : StepsIn(G) \in Nat
    BY <1>2, Amounts
  <2>7. /\ StepsIn(Named(TaskSteps))' = StepsIn(Named(TaskSteps)) + 0
        /\ StepsIn(Named(ReadSteps))' = StepsIn(Named(ReadSteps)) + 0
        /\ StepsIn({TaskDoneOnLane})' = StepsIn({TaskDoneOnLane})
    BY <2>4, <2>5, <2>6
  <2>8. Waiting' = Waiting
    BY <1>3 DEF Waiting
  <2>9. Len(Waiting) \in Nat /\ Len(laneQueue) \in Nat /\ Cardinality(disk) \in Nat
    BY <1>2, Amounts, DiskFinite, LenProperties DEF Typed, TypeOK
  <2>10. /\ running = Len(laneQueue) + StepsIn({TaskDoneOnLane}) /\ (MaxLoads # 0 => running <= MaxLoads)
        /\ tasks = Len(Waiting) + StepsIn(Named(TaskSteps)) + Cardinality(disk)
        /\ reads = StepsIn(Named(ReadSteps)) + Cardinality(disk)
    BY DEF CacheInv, Counters, ReadSteps
  <2>11. /\ tasks' = Len(Waiting)' + StepsIn(Named(TaskSteps))' + Cardinality(disk)'
        /\ reads' = StepsIn(Named(ReadSteps))' + Cardinality(disk)'
        /\ running' = Len(laneQueue)' + StepsIn({TaskDoneOnLane})'
    BY <1>3, <2>6, <2>7, <2>9, <2>10, <1>7, <2>8, SMTT(60)
  <2> QED
    BY <1>3, <2>10, <2>11 DEF Counters, ReadSteps
<1>13. Numbered' /\ Shape' /\ Doom' /\ Dispatching' /\ Ending'
  <2>1. /\ h[1] \notin Dispatcher \cup {"dispatch", "destroyAll"} /\ h[1] \notin Waits
        /\ h[1] \notin {"release", "enqueue"}
    BY <1>2, <1>3 DEF Dispatcher, Waits
  <2>2. /\ \A u \in Users : held[u] \subseteq held'[u]
        /\ gone => held' = held
    BY <1>3
  <2> HIDE DEF h, p
  <2>3. h = todo[t][1] /\ published' \cup fresh' \subseteq published \cup fresh
    BY <1>3 DEF h
  <2> QED
    BY <1>2, <1>3, <1>5, <1>8, <2>1, <2>2, <2>3, HandOn
<1> QED
  BY <1>8, <1>11, <1>12, <1>13 DEF CacheInv

LEMMA StartReadNot ==
  ASSUME CacheInv, NEW t \in Threads, StartRead(t, FALSE)
  PROVE  CacheInv'
<1>1. PICK e : e = Arg(t) /\ "startRead" \in EntryKinds /\ At(t, "startRead")
  BY DEF StartRead, EntryKinds, Counting, Passing, Waits
<1> DEFINE h == todo[t][1]
           a == <<"readOver", e>>
           p == <<a>>
<1>2. /\ Typed /\ todo[t] # <<>> /\ h \in AllSteps /\ h[1] = "startRead" /\ h[2] = e
      /\ e \in Live /\ e \in Entries
      /\ CountOk(e) /\ LoadOk(e) /\ QueueOk(e)
      /\ \A K : "startRead" \in K => StepsIn(For(K, e)) # 0
      /\ \A x \in Entries \ {e} : h \notin Naming(x)
  BY <1>1, EntryHead
<1>3. /\ a \in AllSteps /\ a[1] = "readOver" /\ a[2] = e
  BY <1>2, StepsAre DEF EntryKinds, Counting, Passing, Waits, ForNobody
<1>4. /\ Then(t, p) /\ entry' = entry
      /\ tasks' = tasks + 1
      /\ reads' = reads + 1
      /\ UNCHANGED <<published, fresh, freshCount, allLocks, unused, incoming, queued, requests, running, replaced, laneQueue, lane, disk, held, calls, gone>>
  BY <1>1, <1>2 DEF StartRead, Pass, OnlyEntries, mapVars, waitVars, countVars, laneVars, userVars
<1>5. Shifts(e, 0, 0, 0, 0, 0, 0, 0)
  <2>1. /\ Of(h, Counting, e) = 1 /\ Of(h, Loaders, e) = 1 /\ Of(h, Comers, e) = 0 /\ Of(h, Tasking, e) = 1 /\ Of(h, Unparkers, e) = 0 /\ Of(h, PendingKinds, e) = 0 /\ Of(h, {"enqueue"}, e) = 0
        /\ Of(a, Counting, e) = 1 /\ Of(a, Loaders, e) = 1 /\ Of(a, Comers, e) = 0 /\ Of(a, Tasking, e) = 1 /\ Of(a, Unparkers, e) = 0 /\ Of(a, PendingKinds, e) = 0 /\ Of(a, {"enqueue"}, e) = 0
    BY <1>2, <1>3 DEF Of, One, Counting, Loaders, Comers, Tasking, Unparkers, PendingKinds
  <2>2. {h[1], a[1]} \cap ForSets = {}
    BY <1>2, <1>3 DEF ForSets
  <2> HIDE DEF h, a
  <2>3. h = todo[t][1] /\ Then(t, <<a>>)
    BY <1>4 DEF h
  <2> QED
    BY <1>2, <1>3, <2>1, <2>2, <2>3, ShiftOne
<1>6. Follows(h, p, Mine(t)') /\ Calm(p) /\ p \in Seq(AllSteps)
  <2>1. Apt(h, a)
    BY <1>2, <1>3 DEF Apt, Suits, Lasts, TaskDoneOnLane, Forces, EndOfForce, LaneSteps, Dispatcher, LateSteps
  <2>2. /\ Covered(h, a, Mine(t)')
    BY <1>2, <1>3 DEF Covered, Backs, Passing, Waits, Counting
  <2>3. /\ a[1] \notin {"reload", "unpark"}
        /\ h[1] \in Waits => a[1] \in Waits /\ a[2] = h[2]
        /\ h[1] \in TaskEnds => a[1] \in TaskEnds
        /\ a[1] \notin Dispatcher \cup ForSets \cup {"destroyAll"}
    BY <1>2, <1>3 DEF Waits, TaskEnds, Lasts, Firsts, Dispatcher, ForSets, TaskDoneOnLane
  <2> HIDE DEF h, a
  <2>4. Follows(h, <<a>>, Mine(t)') /\ Calm(<<a>>) /\ <<a>> \in Seq(AllSteps)
    BY <1>3, <2>1, <2>2, <2>3, FollowsOne
  <2> QED
    BY <2>4
<1>7. Typed'
  <2>1. todo' \in [Threads -> Seq(AllSteps)]
    BY <1>2, <1>4, <1>6, Moved DEF Typed
  <2>2. {freshCount', requests', running', tasks', reads'} \subseteq Nat
    <3>1. {freshCount, requests, running, tasks, reads} \subseteq Nat
      BY <1>2 DEF Typed, TypeOK
    <3> QED
      BY <1>4, <3>1
  <2> QED
    BY <1>2, <1>4, <2>1, <2>2 DEF Typed, TypeOK
<1>8. ASSUME NEW x \in Entries \ {e} PROVE Unnamed(x) /\ Spared(x)
  <2>1. h \notin Naming(x) /\ \A i \in 1 .. Len(p) : p[i] \notin Naming(x)
    BY <1>2, <1>3, <1>8 DEF Naming, Takes, ForSets, Counting, Passing, Waits
  <2>2. Unnamed(x)
    BY <1>2, <1>4, <1>6, <2>1, NotNamed
  <2>3. Spared(x)
    BY <1>4, <1>8 DEF Spared, Holders, Waiting
  <2> QED
    BY <2>2, <2>3
<1>9. Keeps(e)
  <2>1. /\ \A G : StepsIn(G) \in Nat
        /\ Cardinality(Holders(e)) \in Nat /\ Count(Waiting, {e}) \in Nat /\ Count(replaced, {e}) \in Nat
    BY <1>2, Amounts
  <2>2. Cardinality(Holders(e))' = Cardinality(Holders(e)) + 0
    BY <1>2, <1>4, Zeros DEF Holders
  <2>3. Count(Waiting, {e})' = Count(Waiting, {e}) + 0
    BY <1>2, <1>4, Zeros DEF Waiting
  <2>4. Count(replaced, {e})' = Count(replaced, {e}) + 0
    BY <1>2, <1>4, Zeros
  <2>5. One(e \in disk') = One(e \in disk) + 0
    BY <1>2, <1>4, Zeros DEF One
  <2>6. One(e \in unused') = One(e \in unused) + 0
    BY <1>2, <1>4, Zeros DEF One
  <2>7. ~gone' => ~gone /\ 0 + 0 = 0
    BY <1>4
  <2>8. {0} \subseteq Int
    OBVIOUS
  <2> HIDE DEF h, p
  <2> QED
    BY <1>2, <1>4, <1>5, <1>7, <2>2, <2>3, <2>4, <2>5, <2>6, <2>7, <2>8, Handing
<1>10. Accounts' /\ Unknown'
  BY <1>2, <1>8, <1>9, OneKept DEF CacheInv
<1>11. Counters'
  <2>1. /\ h \notin Named(TaskSteps) /\ h \notin Named(ReadSteps)
        /\ a \in Named(TaskSteps) /\ a \in Named(ReadSteps)
    BY <1>2, <1>3 DEF Named, TaskSteps, ReadSteps
  <2>2. TaskDoneOnLane[1] = "taskDone" /\ TaskDoneOnLane[2] = TRUE
    BY DEF TaskDoneOnLane
  <2>3. h \notin {TaskDoneOnLane} /\ a \notin {TaskDoneOnLane}
    BY <1>2, <1>3, <2>2
  <2>4. /\ One(h \in Named(TaskSteps)) = 0 /\ One(h \in Named(ReadSteps)) = 0 /\ One(h \in {TaskDoneOnLane}) = 0
        /\ One(a \in Named(TaskSteps)) = 1 /\ One(a \in Named(ReadSteps)) = 1 /\ One(a \in {TaskDoneOnLane}) = 0
    BY <2>1, <2>3 DEF One
  <2> HIDE DEF h, a
  <2>5. \A G : StepsIn(G)' = StepsIn(G) - One(h \in G) + One(a \in G)
    BY <1>2, <1>3, <1>4, ThenFew DEF h, p
  <2>6. \A G : StepsIn(G) \in Nat
    BY <1>2, Amounts
  <2>7. /\ StepsIn(Named(TaskSteps))' = StepsIn(Named(TaskSteps)) + 1
        /\ StepsIn(Named(ReadSteps))' = StepsIn(Named(ReadSteps)) + 1
        /\ StepsIn({TaskDoneOnLane})' = StepsIn({TaskDoneOnLane})
    BY <2>4, <2>5, <2>6
  <2>8. Waiting' = Waiting
    BY <1>4 DEF Waiting
  <2>9. Len(Waiting) \in Nat /\ Len(laneQueue) \in Nat /\ Cardinality(disk) \in Nat
    BY <1>2, Amounts, DiskFinite, LenProperties DEF Typed, TypeOK
  <2>10. /\ running = Len(laneQueue) + StepsIn({TaskDoneOnLane}) /\ (MaxLoads # 0 => running <= MaxLoads)
        /\ tasks = Len(Waiting) + StepsIn(Named(TaskSteps)) + Cardinality(disk)
        /\ reads = StepsIn(Named(ReadSteps)) + Cardinality(disk)
    BY DEF CacheInv, Counters, ReadSteps
  <2>11. /\ tasks' = Len(Waiting)' + StepsIn(Named(TaskSteps))' + Cardinality(disk)'
        /\ reads' = StepsIn(Named(ReadSteps))' + Cardinality(disk)'
        /\ running' = Len(laneQueue)' + StepsIn({TaskDoneOnLane})'
    BY <1>4, <2>6, <2>7, <2>9, <2>10, <2>8, SMTT(60)
  <2> QED
    BY <1>4, <2>10, <2>11 DEF Counters, ReadSteps
<1>12. Numbered' /\ Shape' /\ Doom' /\ Dispatching' /\ Ending'
  <2>1. /\ h[1] \notin Dispatcher \cup {"dispatch", "destroyAll"} /\ h[1] \notin Waits
        /\ h[1] \notin {"release", "enqueue"}
    BY <1>2, <1>4 DEF Dispatcher, Waits
  <2>2. /\ \A u \in Users : held[u] \subseteq held'[u]
        /\ gone => held' = held
    BY <1>4
  <2> HIDE DEF h, p
  <2>3. h = todo[t][1] /\ published' \cup fresh' \subseteq published \cup fresh
    BY <1>4 DEF h
  <2> QED
    BY <1>2, <1>4, <1>6, <1>7, <2>1, <2>2, <2>3, HandOn
<1> QED
  BY <1>7, <1>10, <1>11, <1>12 DEF CacheInv

-----------------------------------------------------------------------------
(* The dispatcher, the end of tasks and what is for no entry. *)

LEMMA DispatcherAlone ==
  ASSUME Typed, Shape, Dispatching, NEW t \in Threads, Dispatches(t), NEW p \in Seq(AllSteps), Then(t, p)
  PROVE  /\ \A u \in Threads : Dispatches(u) <=> u = t
         /\ todo[t][1][2] \in 1 .. requests /\ requests \in Nat
         /\ p = <<>> => \A u \in Threads : ~Dispatches(u)'
         /\ p # <<>> /\ p[1][1] \in Dispatcher => \A u \in Threads : Dispatches(u)' <=> u = t
<1>1. \A u \in Threads : Dispatches(u) <=> u = t
  BY DEF Dispatching
<1>2. todo[t][1][2] \in 1 .. requests /\ requests \in Nat
  BY DEF Dispatching, Typed, TypeOK
<1>3. todo[t] # <<>>
  BY DEF Dispatches
<1>4. /\ \A u \in Threads \ {t} : todo'[u] = todo[u]
      /\ p # <<>> => todo'[t] # <<>> /\ todo'[t][1] = p[1]
      /\ p = <<>> => todo'[t] = <<>> \/ todo'[t][1][1] \notin Firsts
  BY <1>3, NextStep
<1>5. \A u \in Threads \ {t} : ~Dispatches(u)'
  BY <1>1, <1>4 DEF Dispatches
<1>6. Dispatcher \subseteq Firsts
  BY DEF Firsts
<1>7. p = <<>> => ~Dispatches(t)'
  BY <1>4, <1>6 DEF Dispatches
<1>8. p # <<>> /\ p[1][1] \in Dispatcher => Dispatches(t)'
  BY <1>4 DEF Dispatches
<1> QED
  BY <1>1, <1>2, <1>5, <1>7, <1>8

LEMMA OneDispatches ==
  ASSUME NEW t \in Threads, \A u \in Threads : Dispatches(u)' <=> u = t,
         todo'[t][1][2] \in 1 .. requests', requests' \in Nat,
         StepsIn(For({"dispatch"}, None))' = 0 =>
           /\ At(t, "start")' /\ Arg(t)' = requests' => incoming' = <<>>
           /\ At(t, "handled")' /\ Arg(t)' = requests' => incoming' = <<>> /\ Full'
  PROVE  Dispatching'
<1>1. requests' # 0
  OBVIOUS
<1>2. \A u \in Threads : At(u, "start")' \/ At(u, "handled")' => u = t
  BY DEF At, Dispatches, Dispatcher
<1>3. \A u, v \in Threads : Dispatches(u)' /\ Dispatches(v)' => u = v
  OBVIOUS
<1>4. \A u \in Threads : Dispatches(u)' => todo'[u][1][2] \in 1 .. requests'
  OBVIOUS
<1>5. requests' # 0 => \E u \in Threads : Dispatches(u)'
  OBVIOUS
<1>6. StepsIn(For({"dispatch"}, None))' = 0 =>
       /\ requests' = 0 => incoming' = <<>> /\ Full'
       /\ \A u \in Threads : /\ At(u, "start")' /\ Arg(u)' = requests' => incoming' = <<>>
                             /\ At(u, "handled")' /\ Arg(u)' = requests' => incoming' = <<>> /\ Full'
  BY <1>1, <1>2
<1> QED
  BY <1>3, <1>4, <1>5, <1>6 DEF Dispatching

LEMMA LookupNext ==
  ASSUME CacheInv, NEW t \in Threads, BindPublished(t), {e \in published : entry[e].key = Arg(t)} = {}
  PROVE  CacheInv'
<1> DEFINE h == todo[t][1]
           a == <<"lookup", Arg(t), More(t)>>
           p == <<a>>
<1>1. At(t, "bindPublished")
  BY DEF BindPublished
<1>2. /\ Typed /\ todo[t] # <<>> /\ h \in AllSteps /\ h[1] = "bindPublished" /\ h[2] = Arg(t) /\ h[3] = More(t)
      /\ \A x \in Entries : h \notin Naming(x)
      /\ h[2] \in Keys /\ h[3] \in {"bind", "find"}
  <2>1. /\ Typed /\ todo[t] # <<>> /\ h \in AllSteps /\ h[1] = "bindPublished" /\ h[2] = Arg(t) /\ h[3] = More(t)
        /\ \A x \in Entries : h \notin Naming(x)
    BY <1>1, IdleHead DEF EntryKinds, Counting, Passing, Waits, ForSets
  <2> HIDE DEF h
  <2> QED
    BY <2>1, StepTypes DEF ForNobody, Dispatcher
<1>3. /\ a \in AllSteps /\ a[1] = "lookup" /\ a[2] = Arg(t) /\ a[3] = More(t)
  BY <1>2, StepsAre DEF Ops
<1>4. /\ Then(t, p) /\ entry' = entry
      /\ UNCHANGED <<published, fresh, freshCount, allLocks, unused, incoming, queued, requests, running, tasks, reads, replaced, laneQueue, lane, disk, held, calls, gone>>
  BY <1>1, <1>2 DEF BindPublished, Pass, OnlyEntries, mapVars, waitVars, countVars, laneVars, userVars
<1>5. Follows(h, p, Mine(t)') /\ Calm(p) /\ p \in Seq(AllSteps)
  <2>1. Apt(h, a)
    BY <1>2, <1>3 DEF Apt, Suits, Lasts, TaskDoneOnLane, Forces, EndOfForce, LaneSteps, Dispatcher, LateSteps
  <2>2. /\ Covered(h, a, Mine(t)')
    BY <1>2, <1>3 DEF Covered, Backs, Passing, Waits, Counting
  <2>3. /\ a[1] \notin {"reload", "unpark"}
        /\ h[1] \in Waits => a[1] \in Waits /\ a[2] = h[2]
        /\ h[1] \in TaskEnds => a[1] \in TaskEnds
        /\ a[1] \notin Dispatcher \cup ForSets \cup {"destroyAll"}
    BY <1>2, <1>3 DEF Waits, TaskEnds, Lasts, Firsts, Dispatcher, ForSets, TaskDoneOnLane
  <2> HIDE DEF h, a
  <2>4. Follows(h, <<a>>, Mine(t)') /\ Calm(<<a>>) /\ <<a>> \in Seq(AllSteps)
    BY <1>3, <2>1, <2>2, <2>3, FollowsOne
  <2> QED
    BY <2>4
<1>6. Typed'
  <2>1. todo' \in [Threads -> Seq(AllSteps)]
    BY <1>2, <1>4, <1>5, Moved DEF Typed
  <2> QED
    BY <1>2, <1>4, <2>1 DEF Typed, TypeOK
<1>7. Accounts' /\ Unknown'
  <2>1. \A x \in Entries : \A i \in 1 .. Len(p) : p[i] \notin Naming(x)
    BY <1>3 DEF Naming, Takes, ForSets, Counting, Passing, Waits
  <2>2. \A x \in Entries : Count(Waiting, {x})' = Count(Waiting, {x})
    BY <1>4 DEF Waiting, Count
  <2>3. published' \cup fresh' \subseteq published \cup fresh
    BY <1>4
  <2> HIDE DEF p
  <2>4. \A x \in Entries : todo[t][1] \notin Naming(x)
    BY <1>2
  <2> HIDE DEF h
  <2> QED
    BY <1>2, <1>4, <1>5, <2>1, <2>2, <2>3, <2>4, IdleStep
<1>8. Counters'
  <2>1. Balanced
    <3>1. h[1] \notin TaskSteps /\ \A i \in 1 .. Len(p) : p[i][1] \notin TaskSteps
      BY <1>2, <1>3 DEF TaskSteps
    <3> HIDE DEF p
    <3> QED
      BY <1>2, <1>4, <1>5, <3>1, NoTask
  <2> QED
    BY <1>4, <2>1, CountersKept DEF CacheInv
<1>9. Numbered' /\ Shape' /\ Doom' /\ Dispatching' /\ Ending'
  <2>1. /\ h[1] \notin Dispatcher \cup {"dispatch", "destroyAll"} /\ h[1] \notin Waits /\ h[1] \notin {"release", "enqueue"}
    BY <1>2, <1>4 DEF Dispatcher, Waits
  <2> HIDE DEF h, p
  <2>2. h = todo[t][1] /\ published' \cup fresh' \subseteq published \cup fresh
    BY <1>4 DEF h
  <2> QED
    BY <1>2, <1>4, <1>5, <1>6, <2>1, <2>2, HandOn
<1> QED
  BY <1>6, <1>7, <1>8, <1>9 DEF CacheInv

LEMMA FindsNothingStep ==
  ASSUME CacheInv, NEW t \in Threads, FindsNothing(t)
  PROVE  CacheInv'
<1> DEFINE h == todo[t][1]
           p == <<>>
<1>1. At(t, "lookup")
  BY DEF FindsNothing, NotThere
<1>2. /\ Typed /\ todo[t] # <<>> /\ h \in AllSteps /\ h[1] = "lookup" /\ h[2] = Arg(t) /\ h[3] = More(t)
      /\ \A x \in Entries : h \notin Naming(x)
  BY <1>1, IdleHead DEF EntryKinds, Counting, Passing, Waits, ForSets
<1>3. /\ Then(t, p) /\ entry' = entry
      /\ UNCHANGED <<published, fresh, freshCount, allLocks, unused, incoming, queued, requests, running, tasks, reads, replaced, laneQueue, lane, disk, held, calls, gone>>
  BY <1>1, <1>2 DEF FindsNothing, Pass, OnlyEntries, mapVars, waitVars, countVars, laneVars, userVars
<1>4. Follows(h, p, Mine(t)') /\ Calm(p) /\ p \in Seq(AllSteps)
  BY FollowsNone
<1>5. Typed'
  <2>1. todo' \in [Threads -> Seq(AllSteps)]
    BY <1>2, <1>3, <1>4, Moved DEF Typed
  <2> QED
    BY <1>2, <1>3, <2>1 DEF Typed, TypeOK
<1>6. Accounts' /\ Unknown'
  <2>1. \A x \in Entries : \A i \in 1 .. Len(p) : p[i] \notin Naming(x)
    OBVIOUS
  <2>2. \A x \in Entries : Count(Waiting, {x})' = Count(Waiting, {x})
    BY <1>3 DEF Waiting, Count
  <2>3. published' \cup fresh' \subseteq published \cup fresh
    BY <1>3
  <2> HIDE DEF p
  <2>4. \A x \in Entries : todo[t][1] \notin Naming(x)
    BY <1>2
  <2> HIDE DEF h
  <2> QED
    BY <1>2, <1>3, <1>4, <2>1, <2>2, <2>3, <2>4, IdleStep
<1>7. Counters'
  <2>1. Balanced
    <3>1. h[1] \notin TaskSteps /\ \A i \in 1 .. Len(p) : p[i][1] \notin TaskSteps
      BY <1>2 DEF TaskSteps
    <3> HIDE DEF p
    <3> QED
      BY <1>2, <1>3, <1>4, <3>1, NoTask
  <2> QED
    BY <1>3, <2>1, CountersKept DEF CacheInv
<1>8. Numbered' /\ Shape' /\ Doom' /\ Dispatching' /\ Ending'
  <2>1. /\ h[1] \notin Dispatcher \cup {"dispatch", "destroyAll"} /\ h[1] \notin Waits /\ h[1] \notin {"release", "enqueue"}
    BY <1>2, <1>3 DEF Dispatcher, Waits
  <2> HIDE DEF h, p
  <2>2. h = todo[t][1] /\ published' \cup fresh' \subseteq published \cup fresh
    BY <1>3 DEF h
  <2> QED
    BY <1>2, <1>3, <1>4, <1>5, <2>1, <2>2, HandOn
<1> QED
  BY <1>5, <1>6, <1>7, <1>8 DEF CacheInv

LEMMA PolledStep ==
  ASSUME CacheInv, NEW t \in Threads, Polled(t)
  PROVE  CacheInv'
<1> DEFINE h == todo[t][1]
           p == <<>>
<1>1. At(t, "poll")
  BY DEF Polled
<1>2. /\ Typed /\ todo[t] # <<>> /\ h \in AllSteps /\ h[1] = "poll" /\ h[2] = Arg(t) /\ h[3] = More(t)
      /\ \A x \in Entries : h \notin Naming(x)
  BY <1>1, IdleHead DEF EntryKinds, Counting, Passing, Waits, ForSets
<1>3. /\ Then(t, p) /\ entry' = entry
      /\ UNCHANGED <<published, fresh, freshCount, allLocks, unused, incoming, queued, requests, running, tasks, reads, replaced, laneQueue, lane, disk, held, calls, gone>>
  BY <1>1, <1>2 DEF Polled, Pass, OnlyEntries, mapVars, waitVars, countVars, laneVars, userVars
<1>4. Follows(h, p, Mine(t)') /\ Calm(p) /\ p \in Seq(AllSteps)
  BY FollowsNone
<1>5. Typed'
  <2>1. todo' \in [Threads -> Seq(AllSteps)]
    BY <1>2, <1>3, <1>4, Moved DEF Typed
  <2> QED
    BY <1>2, <1>3, <2>1 DEF Typed, TypeOK
<1>6. Accounts' /\ Unknown'
  <2>1. \A x \in Entries : \A i \in 1 .. Len(p) : p[i] \notin Naming(x)
    OBVIOUS
  <2>2. \A x \in Entries : Count(Waiting, {x})' = Count(Waiting, {x})
    BY <1>3 DEF Waiting, Count
  <2>3. published' \cup fresh' \subseteq published \cup fresh
    BY <1>3
  <2> HIDE DEF p
  <2>4. \A x \in Entries : todo[t][1] \notin Naming(x)
    BY <1>2
  <2> HIDE DEF h
  <2> QED
    BY <1>2, <1>3, <1>4, <2>1, <2>2, <2>3, <2>4, IdleStep
<1>7. Counters'
  <2>1. Balanced
    <3>1. h[1] \notin TaskSteps /\ \A i \in 1 .. Len(p) : p[i][1] \notin TaskSteps
      BY <1>2 DEF TaskSteps
    <3> HIDE DEF p
    <3> QED
      BY <1>2, <1>3, <1>4, <3>1, NoTask
  <2> QED
    BY <1>3, <2>1, CountersKept DEF CacheInv
<1>8. Numbered' /\ Shape' /\ Doom' /\ Dispatching' /\ Ending'
  <2>1. /\ h[1] \notin Dispatcher \cup {"dispatch", "destroyAll"} /\ h[1] \notin Waits /\ h[1] \notin {"release", "enqueue"}
    BY <1>2, <1>3 DEF Dispatcher, Waits
  <2> HIDE DEF h, p
  <2>2. h = todo[t][1] /\ published' \cup fresh' \subseteq published \cup fresh
    BY <1>3 DEF h
  <2> QED
    BY <1>2, <1>3, <1>4, <1>5, <2>1, <2>2, HandOn
<1> QED
  BY <1>5, <1>6, <1>7, <1>8 DEF CacheInv

LEMMA EndCallStep ==
  ASSUME CacheInv, NEW t \in Threads, EndCall(t)
  PROVE  CacheInv'
<1> DEFINE h == todo[t][1]
           p == <<>>
<1>1. At(t, "end")
  BY DEF EndCall
<1>2. /\ Typed /\ todo[t] # <<>> /\ h \in AllSteps /\ h[1] = "end" /\ h[2] = Arg(t) /\ h[3] = More(t)
      /\ \A x \in Entries : h \notin Naming(x)
  BY <1>1, IdleHead DEF EntryKinds, Counting, Passing, Waits, ForSets
<1>3. /\ Then(t, p) /\ entry' = entry
      /\ UNCHANGED <<published, fresh, freshCount, allLocks, unused, incoming, queued, requests, running, tasks, reads, replaced, laneQueue, lane, disk, held, calls, gone>>
  BY <1>1, <1>2 DEF EndCall, Pass, OnlyEntries, mapVars, waitVars, countVars, laneVars, userVars
<1>4. Follows(h, p, Mine(t)') /\ Calm(p) /\ p \in Seq(AllSteps)
  BY FollowsNone
<1>5. Typed'
  <2>1. todo' \in [Threads -> Seq(AllSteps)]
    BY <1>2, <1>3, <1>4, Moved DEF Typed
  <2> QED
    BY <1>2, <1>3, <2>1 DEF Typed, TypeOK
<1>6. Accounts' /\ Unknown'
  <2>1. \A x \in Entries : \A i \in 1 .. Len(p) : p[i] \notin Naming(x)
    OBVIOUS
  <2>2. \A x \in Entries : Count(Waiting, {x})' = Count(Waiting, {x})
    BY <1>3 DEF Waiting, Count
  <2>3. published' \cup fresh' \subseteq published \cup fresh
    BY <1>3
  <2> HIDE DEF p
  <2>4. \A x \in Entries : todo[t][1] \notin Naming(x)
    BY <1>2
  <2> HIDE DEF h
  <2> QED
    BY <1>2, <1>3, <1>4, <2>1, <2>2, <2>3, <2>4, IdleStep
<1>7. Counters'
  <2>1. Balanced
    <3>1. h[1] \notin TaskSteps /\ \A i \in 1 .. Len(p) : p[i][1] \notin TaskSteps
      BY <1>2 DEF TaskSteps
    <3> HIDE DEF p
    <3> QED
      BY <1>2, <1>3, <1>4, <3>1, NoTask
  <2> QED
    BY <1>3, <2>1, CountersKept DEF CacheInv
<1>8. Numbered' /\ Shape' /\ Doom' /\ Dispatching' /\ Ending'
  <2>1. /\ h[1] \notin Dispatcher \cup {"dispatch", "destroyAll"} /\ h[1] \notin Waits /\ h[1] \notin {"release", "enqueue"}
    BY <1>2, <1>3 DEF Dispatcher, Waits
  <2> HIDE DEF h, p
  <2>2. h = todo[t][1] /\ published' \cup fresh' \subseteq published \cup fresh
    BY <1>3 DEF h
  <2> QED
    BY <1>2, <1>3, <1>4, <1>5, <2>1, <2>2, HandOn
<1> QED
  BY <1>5, <1>6, <1>7, <1>8 DEF CacheInv

LEMMA LastTaskStep ==
  ASSUME CacheInv, NEW t \in Threads, LastTask(t)
  PROVE  CacheInv'
<1> DEFINE h == todo[t][1]
           a == <<"lastTasks", None>>
           p == <<a>>
<1>1. At(t, "lastReads")
  BY DEF LastTask
<1>2. /\ Typed /\ todo[t] # <<>> /\ h \in AllSteps /\ h[1] = "lastReads" /\ h[2] = Arg(t) /\ h[3] = More(t)
      /\ \A x \in Entries : h \notin Naming(x)
  BY <1>1, IdleHead DEF EntryKinds, Counting, Passing, Waits, ForSets
<1>3. /\ a \in AllSteps /\ a[1] = "lastTasks" /\ a[2] = None
  BY <1>2, StepsAre DEF EntryKinds, Counting, Passing, Waits, ForNobody, Dispatcher
<1>4. /\ Then(t, p) /\ entry' = entry
      /\ UNCHANGED <<published, fresh, freshCount, allLocks, unused, incoming, queued, requests, running, tasks, reads, replaced, laneQueue, lane, disk, held, calls, gone>>
  BY <1>1, <1>2 DEF LastTask, Pass, OnlyEntries, mapVars, waitVars, countVars, laneVars, userVars
<1>5. Follows(h, p, Mine(t)') /\ Calm(p) /\ p \in Seq(AllSteps)
  <2>1. Apt(h, a)
    BY <1>2, <1>3 DEF Apt, Suits, Lasts, TaskDoneOnLane, Forces, EndOfForce, LaneSteps, Dispatcher, LateSteps
  <2>2. /\ Covered(h, a, Mine(t)')
    BY <1>2, <1>3 DEF Covered, Backs, Passing, Waits, Counting
  <2>3. /\ a[1] \notin {"reload", "unpark"}
        /\ h[1] \in Waits => a[1] \in Waits /\ a[2] = h[2]
        /\ h[1] \in TaskEnds => a[1] \in TaskEnds
        /\ a[1] \notin Dispatcher \cup ForSets \cup {"destroyAll"}
    BY <1>2, <1>3 DEF Waits, TaskEnds, Lasts, Firsts, Dispatcher, ForSets, TaskDoneOnLane
  <2> HIDE DEF h, a
  <2>4. Follows(h, <<a>>, Mine(t)') /\ Calm(<<a>>) /\ <<a>> \in Seq(AllSteps)
    BY <1>3, <2>1, <2>2, <2>3, FollowsOne
  <2> QED
    BY <2>4
<1>6. Typed'
  <2>1. todo' \in [Threads -> Seq(AllSteps)]
    BY <1>2, <1>4, <1>5, Moved DEF Typed
  <2> QED
    BY <1>2, <1>4, <2>1 DEF Typed, TypeOK
<1>7. Accounts' /\ Unknown'
  <2>1. \A x \in Entries : \A i \in 1 .. Len(p) : p[i] \notin Naming(x)
    BY <1>3 DEF Naming, Takes, ForSets, Counting, Passing, Waits
  <2>2. \A x \in Entries : Count(Waiting, {x})' = Count(Waiting, {x})
    BY <1>4 DEF Waiting, Count
  <2>3. published' \cup fresh' \subseteq published \cup fresh
    BY <1>4
  <2> HIDE DEF p
  <2>4. \A x \in Entries : todo[t][1] \notin Naming(x)
    BY <1>2
  <2> HIDE DEF h
  <2> QED
    BY <1>2, <1>4, <1>5, <2>1, <2>2, <2>3, <2>4, IdleStep
<1>8. Counters'
  <2>1. Balanced
    <3>1. h[1] \notin TaskSteps /\ \A i \in 1 .. Len(p) : p[i][1] \notin TaskSteps
      BY <1>2, <1>3 DEF TaskSteps
    <3> HIDE DEF p
    <3> QED
      BY <1>2, <1>4, <1>5, <3>1, NoTask
  <2> QED
    BY <1>4, <2>1, CountersKept DEF CacheInv
<1>9. Numbered' /\ Shape' /\ Doom' /\ Dispatching' /\ Ending'
  <2>1. /\ h[1] \notin Dispatcher \cup {"dispatch", "destroyAll"} /\ h[1] \notin Waits /\ h[1] \notin {"release", "enqueue"}
    BY <1>2, <1>4 DEF Dispatcher, Waits
  <2> HIDE DEF h, p
  <2>2. h = todo[t][1] /\ published' \cup fresh' \subseteq published \cup fresh
    BY <1>4 DEF h
  <2> QED
    BY <1>2, <1>4, <1>5, <1>6, <2>1, <2>2, HandOn
<1> QED
  BY <1>6, <1>7, <1>8, <1>9 DEF CacheInv

LEMMA TaskGoneStep ==
  ASSUME CacheInv, NEW t \in Threads, TaskGone(t)
  PROVE  CacheInv'
<1> DEFINE h == todo[t][1]
           p == <<>>
<1>1. At(t, "taskGone")
  BY DEF TaskGone
<1>2. /\ Typed /\ todo[t] # <<>> /\ h \in AllSteps /\ h[1] = "taskGone" /\ h[2] = Arg(t) /\ h[3] = More(t)
      /\ \A x \in Entries : h \notin Naming(x)
  BY <1>1, IdleHead DEF EntryKinds, Counting, Passing, Waits, ForSets
<1>3. /\ Then(t, p) /\ entry' = entry
      /\ tasks' = tasks - 1
      /\ UNCHANGED <<published, fresh, freshCount, allLocks, unused, incoming, queued, requests, running, reads, replaced, laneQueue, lane, disk, held, calls, gone>>
  BY <1>1, <1>2 DEF TaskGone, Pass, OnlyEntries, mapVars, waitVars, countVars, laneVars, userVars
<1>4. Follows(h, p, Mine(t)') /\ Calm(p) /\ p \in Seq(AllSteps)
  BY FollowsNone
<1>5. tasks # 0
  <2>1. StepsIn(Named(TaskSteps)) # 0
    <3>1. h \in Named(TaskSteps) /\ 1 \in 1 .. Len(todo[t]) /\ todo[t] \in Seq(AllSteps)
      BY <1>2, EmptySeq, LenProperties DEF Named, TaskSteps, ReadSteps, TaskDoneOnLane, Typed
    <3> QED
      BY <1>2, <3>1, Someone DEF Typed
  <2>2. /\ Len(Waiting) \in Nat /\ Len(laneQueue) \in Nat /\ Cardinality(disk) \in Nat
        /\ \A G : StepsIn(G) \in Nat
    BY <1>2, Amounts, DiskFinite, Someone, ThreeLists, LenProperties DEF Typed, TypeOK, Waiting
  <2> QED
    BY <2>1, <2>2 DEF CacheInv, Counters, ReadSteps
<1>6. Typed'
  <2>1. todo' \in [Threads -> Seq(AllSteps)]
    BY <1>2, <1>3, <1>4, Moved DEF Typed
  <2>2. {freshCount', requests', running', tasks', reads'} \subseteq Nat
    <3>1. {freshCount, requests, running, tasks, reads} \subseteq Nat
      BY <1>2 DEF Typed, TypeOK
    <3> QED
      BY <1>3, <3>1, <1>5
  <2> QED
    BY <1>2, <1>3, <2>1, <2>2 DEF Typed, TypeOK
<1>7. Accounts' /\ Unknown'
  <2>1. \A x \in Entries : \A i \in 1 .. Len(p) : p[i] \notin Naming(x)
    OBVIOUS
  <2>2. \A x \in Entries : Count(Waiting, {x})' = Count(Waiting, {x})
    BY <1>3 DEF Waiting, Count
  <2>3. published' \cup fresh' \subseteq published \cup fresh
    BY <1>3
  <2> HIDE DEF p
  <2>4. \A x \in Entries : todo[t][1] \notin Naming(x)
    BY <1>2
  <2> HIDE DEF h
  <2> QED
    BY <1>2, <1>3, <1>4, <2>1, <2>2, <2>3, <2>4, IdleStep
<1>8. Counters'
  <2>1. /\ h \in Named(TaskSteps) /\ h \notin Named(ReadSteps)
    BY <1>2 DEF Named, TaskSteps, ReadSteps
  <2>2. TaskDoneOnLane[1] = "taskDone" /\ TaskDoneOnLane[2] = TRUE
    BY DEF TaskDoneOnLane
  <2>3. h \notin {TaskDoneOnLane}
    BY <1>2, <2>2
  <2>4. /\ One(h \in Named(TaskSteps)) = 1 /\ One(h \in Named(ReadSteps)) = 0 /\ One(h \in {TaskDoneOnLane}) = 0
    BY <2>1, <2>3 DEF One
  <2> HIDE DEF h
  <2>5. \A G : StepsIn(G)' = StepsIn(G) - One(h \in G)
    BY <1>2, <1>3, ThenFew DEF h, p
  <2>6. \A G : StepsIn(G) \in Nat
    BY <1>2, Someone DEF Typed
  <2>7. /\ StepsIn(Named(TaskSteps))' = StepsIn(Named(TaskSteps)) + -1
        /\ StepsIn(Named(ReadSteps))' = StepsIn(Named(ReadSteps)) + 0
        /\ StepsIn({TaskDoneOnLane})' = StepsIn({TaskDoneOnLane})
    BY <2>4, <2>5, <2>6
  <2>8. Waiting' = Waiting
    BY <1>3 DEF Waiting
  <2>9. Len(Waiting) \in Nat /\ Len(laneQueue) \in Nat /\ Cardinality(disk) \in Nat
    BY <1>2, ThreeLists, DiskFinite, LenProperties DEF Typed, TypeOK, Waiting
  <2>10. /\ running = Len(laneQueue) + StepsIn({TaskDoneOnLane}) /\ (MaxLoads # 0 => running <= MaxLoads)
        /\ tasks = Len(Waiting) + StepsIn(Named(TaskSteps)) + Cardinality(disk)
        /\ reads = StepsIn(Named(ReadSteps)) + Cardinality(disk)
    BY DEF CacheInv, Counters, ReadSteps
  <2>11. /\ tasks' = Len(Waiting)' + StepsIn(Named(TaskSteps))' + Cardinality(disk)'
        /\ reads' = StepsIn(Named(ReadSteps))' + Cardinality(disk)'
        /\ running' = Len(laneQueue)' + StepsIn({TaskDoneOnLane})'
    BY <1>3, <2>6, <2>7, <2>9, <2>10, <2>8, SMTT(60)
  <2> QED
    BY <1>3, <2>6, <2>7, <2>9, <2>10, <2>11 DEF Counters, ReadSteps
<1>9. Numbered' /\ Shape' /\ Doom' /\ Dispatching' /\ Ending'
  <2>1. /\ h[1] \notin Dispatcher \cup {"dispatch", "destroyAll"} /\ h[1] \notin Waits /\ h[1] \notin {"release", "enqueue"}
    BY <1>2, <1>3 DEF Dispatcher, Waits
  <2> HIDE DEF h, p
  <2>2. h = todo[t][1] /\ published' \cup fresh' \subseteq published \cup fresh
    BY <1>3 DEF h
  <2> QED
    BY <1>2, <1>3, <1>4, <1>6, <2>1, <2>2, HandOn
<1> QED
  BY <1>6, <1>7, <1>8, <1>9 DEF CacheInv

LEMMA ReadDoneStep ==
  ASSUME CacheInv, NEW t \in Threads, ReadDone(t)
  PROVE  CacheInv'
<1> DEFINE h == todo[t][1]
           a == <<"taskGone", None>>
           p == <<a>>
<1>1. At(t, "readDone")
  BY DEF ReadDone
<1>2. /\ Typed /\ todo[t] # <<>> /\ h \in AllSteps /\ h[1] = "readDone" /\ h[2] = Arg(t) /\ h[3] = More(t)
      /\ \A x \in Entries : h \notin Naming(x)
  BY <1>1, IdleHead DEF EntryKinds, Counting, Passing, Waits, ForSets
<1>3. /\ a \in AllSteps /\ a[1] = "taskGone" /\ a[2] = None
  BY <1>2, StepsAre DEF EntryKinds, Counting, Passing, Waits, ForNobody, Dispatcher
<1>4. /\ Then(t, p) /\ entry' = entry
      /\ reads' = reads - 1
      /\ UNCHANGED <<published, fresh, freshCount, allLocks, unused, incoming, queued, requests, running, tasks, replaced, laneQueue, lane, disk, held, calls, gone>>
  BY <1>1, <1>2 DEF ReadDone, Pass, OnlyEntries, mapVars, waitVars, countVars, laneVars, userVars
<1>5. Follows(h, p, Mine(t)') /\ Calm(p) /\ p \in Seq(AllSteps)
  <2>1. Apt(h, a)
    BY <1>2, <1>3 DEF Apt, Suits, Lasts, TaskDoneOnLane, Forces, EndOfForce, LaneSteps, Dispatcher, LateSteps
  <2>2. /\ Covered(h, a, Mine(t)')
    BY <1>2, <1>3 DEF Covered, Backs, Passing, Waits, Counting
  <2>3. /\ a[1] \notin {"reload", "unpark"}
        /\ h[1] \in Waits => a[1] \in Waits /\ a[2] = h[2]
        /\ h[1] \in TaskEnds => a[1] \in TaskEnds
        /\ a[1] \notin Dispatcher \cup ForSets \cup {"destroyAll"}
    BY <1>2, <1>3 DEF Waits, TaskEnds, Lasts, Firsts, Dispatcher, ForSets, TaskDoneOnLane
  <2> HIDE DEF h, a
  <2>4. Follows(h, <<a>>, Mine(t)') /\ Calm(<<a>>) /\ <<a>> \in Seq(AllSteps)
    BY <1>3, <2>1, <2>2, <2>3, FollowsOne
  <2> QED
    BY <2>4
<1>6. tasks # 0 /\ reads # 0
  <2>1. StepsIn(Named(TaskSteps)) # 0 /\ StepsIn(Named(ReadSteps)) # 0
    <3>1. h \in Named(TaskSteps) /\ h \in Named(ReadSteps) /\ 1 \in 1 .. Len(todo[t]) /\ todo[t] \in Seq(AllSteps)
      BY <1>2, EmptySeq, LenProperties DEF Named, TaskSteps, ReadSteps, TaskDoneOnLane, Typed
    <3> QED
      BY <1>2, <3>1, Someone DEF Typed
  <2>2. /\ Len(Waiting) \in Nat /\ Len(laneQueue) \in Nat /\ Cardinality(disk) \in Nat
        /\ \A G : StepsIn(G) \in Nat
    BY <1>2, Amounts, DiskFinite, Someone, ThreeLists, LenProperties DEF Typed, TypeOK, Waiting
  <2> QED
    BY <2>1, <2>2 DEF CacheInv, Counters, ReadSteps
<1>7. Typed'
  <2>1. todo' \in [Threads -> Seq(AllSteps)]
    BY <1>2, <1>4, <1>5, Moved DEF Typed
  <2>2. {freshCount', requests', running', tasks', reads'} \subseteq Nat
    <3>1. {freshCount, requests, running, tasks, reads} \subseteq Nat
      BY <1>2 DEF Typed, TypeOK
    <3> QED
      BY <1>4, <3>1, <1>6
  <2> QED
    BY <1>2, <1>4, <2>1, <2>2 DEF Typed, TypeOK
<1>8. Accounts' /\ Unknown'
  <2>1. \A x \in Entries : \A i \in 1 .. Len(p) : p[i] \notin Naming(x)
    BY <1>3 DEF Naming, Takes, ForSets, Counting, Passing, Waits
  <2>2. \A x \in Entries : Count(Waiting, {x})' = Count(Waiting, {x})
    BY <1>4 DEF Waiting, Count
  <2>3. published' \cup fresh' \subseteq published \cup fresh
    BY <1>4
  <2> HIDE DEF p
  <2>4. \A x \in Entries : todo[t][1] \notin Naming(x)
    BY <1>2
  <2> HIDE DEF h
  <2> QED
    BY <1>2, <1>4, <1>5, <2>1, <2>2, <2>3, <2>4, IdleStep
<1>9. Counters'
  <2>1. /\ h \in Named(TaskSteps) /\ h \in Named(ReadSteps)
        /\ a \in Named(TaskSteps) /\ a \notin Named(ReadSteps)
    BY <1>2, <1>3 DEF Named, TaskSteps, ReadSteps
  <2>2. TaskDoneOnLane[1] = "taskDone" /\ TaskDoneOnLane[2] = TRUE
    BY DEF TaskDoneOnLane
  <2>3. h \notin {TaskDoneOnLane} /\ a \notin {TaskDoneOnLane}
    BY <1>2, <1>3, <2>2
  <2>4. /\ One(h \in Named(TaskSteps)) = 1 /\ One(h \in Named(ReadSteps)) = 1 /\ One(h \in {TaskDoneOnLane}) = 0
        /\ One(a \in Named(TaskSteps)) = 1 /\ One(a \in Named(ReadSteps)) = 0 /\ One(a \in {TaskDoneOnLane}) = 0
    BY <2>1, <2>3 DEF One
  <2> HIDE DEF h, a
  <2>5. \A G : StepsIn(G)' = StepsIn(G) - One(h \in G) + One(a \in G)
    BY <1>2, <1>3, <1>4, ThenFew DEF h, p
  <2>6. \A G : StepsIn(G) \in Nat
    BY <1>2, Someone DEF Typed
  <2>7. /\ StepsIn(Named(TaskSteps))' = StepsIn(Named(TaskSteps)) + 0
        /\ StepsIn(Named(ReadSteps))' = StepsIn(Named(ReadSteps)) + -1
        /\ StepsIn({TaskDoneOnLane})' = StepsIn({TaskDoneOnLane})
    BY <2>4, <2>5, <2>6
  <2>8. Waiting' = Waiting
    BY <1>4 DEF Waiting
  <2>9. Len(Waiting) \in Nat /\ Len(laneQueue) \in Nat /\ Cardinality(disk) \in Nat
    BY <1>2, ThreeLists, DiskFinite, LenProperties DEF Typed, TypeOK, Waiting
  <2>10. /\ running = Len(laneQueue) + StepsIn({TaskDoneOnLane}) /\ (MaxLoads # 0 => running <= MaxLoads)
        /\ tasks = Len(Waiting) + StepsIn(Named(TaskSteps)) + Cardinality(disk)
        /\ reads = StepsIn(Named(ReadSteps)) + Cardinality(disk)
    BY DEF CacheInv, Counters, ReadSteps
  <2>11. /\ tasks' = Len(Waiting)' + StepsIn(Named(TaskSteps))' + Cardinality(disk)'
        /\ reads' = StepsIn(Named(ReadSteps))' + Cardinality(disk)'
        /\ running' = Len(laneQueue)' + StepsIn({TaskDoneOnLane})'
    BY <1>4, <2>6, <2>7, <2>9, <2>10, <2>8, SMTT(60)
  <2> QED
    BY <1>4, <2>6, <2>7, <2>9, <2>10, <2>11 DEF Counters, ReadSteps
<1>10. Numbered' /\ Shape' /\ Doom' /\ Dispatching' /\ Ending'
  <2>1. /\ h[1] \notin Dispatcher \cup {"dispatch", "destroyAll"} /\ h[1] \notin Waits /\ h[1] \notin {"release", "enqueue"}
    BY <1>2, <1>4 DEF Dispatcher, Waits
  <2> HIDE DEF h, p
  <2>2. h = todo[t][1] /\ published' \cup fresh' \subseteq published \cup fresh
    BY <1>4 DEF h
  <2> QED
    BY <1>2, <1>4, <1>5, <1>7, <2>1, <2>2, HandOn
<1> QED
  BY <1>7, <1>8, <1>9, <1>10 DEF CacheInv

LEMMA PublishStep ==
  ASSUME CacheInv, NEW t \in Threads, Publish(t)
  PROVE  CacheInv'
<1> DEFINE h == todo[t][1]
           p == <<>>
<1>1. At(t, "publish")
  BY DEF Publish
<1>2. /\ Typed /\ todo[t] # <<>> /\ h \in AllSteps /\ h[1] = "publish" /\ h[2] = Arg(t) /\ h[3] = More(t)
      /\ \A x \in Entries : h \notin Naming(x)
  BY <1>1, IdleHead DEF EntryKinds, Counting, Passing, Waits, ForSets
<1>3. /\ Then(t, p) /\ entry' = entry
      /\ published' = IF freshCount = 0 THEN published ELSE published \cup fresh
      /\ fresh' = IF freshCount = 0 THEN fresh ELSE {}
      /\ freshCount' = 0
      /\ UNCHANGED <<allLocks, unused, incoming, queued, requests, running, tasks, reads, replaced, laneQueue, lane, disk, held, calls, gone>>
  BY <1>1, <1>2 DEF Publish, Pass, OnlyEntries, mapVars, waitVars, countVars, laneVars, userVars
<1>4. Follows(h, p, Mine(t)') /\ Calm(p) /\ p \in Seq(AllSteps)
  BY FollowsNone
<1>5. Typed'
  <2>1. todo' \in [Threads -> Seq(AllSteps)]
    BY <1>2, <1>3, <1>4, Moved DEF Typed
  <2>2. {freshCount', requests', running', tasks', reads'} \subseteq Nat
    <3>1. {freshCount, requests, running, tasks, reads} \subseteq Nat
      BY <1>2 DEF Typed, TypeOK
    <3> QED
      BY <1>3, <3>1
  <2> QED
    BY <1>2, <1>3, <2>1, <2>2 DEF Typed, TypeOK
<1>6. Accounts' /\ Unknown'
  <2>1. \A x \in Entries : \A i \in 1 .. Len(p) : p[i] \notin Naming(x)
    OBVIOUS
  <2>2. \A x \in Entries : Count(Waiting, {x})' = Count(Waiting, {x})
    BY <1>3 DEF Waiting, Count
  <2>3. published' \cup fresh' \subseteq published \cup fresh
    BY <1>3
  <2> HIDE DEF p
  <2>4. \A x \in Entries : todo[t][1] \notin Naming(x)
    BY <1>2
  <2> HIDE DEF h
  <2> QED
    BY <1>2, <1>3, <1>4, <2>1, <2>2, <2>3, <2>4, IdleStep
<1>7. Counters'
  <2>1. Balanced
    <3>1. h[1] \notin TaskSteps /\ \A i \in 1 .. Len(p) : p[i][1] \notin TaskSteps
      BY <1>2 DEF TaskSteps
    <3> HIDE DEF p
    <3> QED
      BY <1>2, <1>3, <1>4, <3>1, NoTask
  <2> QED
    BY <1>3, <2>1, CountersKept DEF CacheInv
<1>8. Numbered' /\ Shape' /\ Doom' /\ Dispatching' /\ Ending'
  <2>1. /\ h[1] \notin Dispatcher \cup {"dispatch", "destroyAll"} /\ h[1] \notin Waits /\ h[1] \notin {"release", "enqueue"}
    BY <1>2, <1>3 DEF Dispatcher, Waits
  <2> HIDE DEF h, p
  <2>2. h = todo[t][1] /\ published' \cup fresh' \subseteq published \cup fresh
    BY <1>3 DEF h
  <2> QED
    BY <1>2, <1>3, <1>4, <1>5, <2>1, <2>2, HandOn
<1> QED
  BY <1>5, <1>6, <1>7, <1>8 DEF CacheInv

LEMMA TaskDoneHere ==
  ASSUME CacheInv, NEW t \in Threads, TaskDone(t), Arg(t) = FALSE
  PROVE  CacheInv'
<1> DEFINE h == todo[t][1]
           a == <<"taskGone", None>>
           p == <<a>>
<1>1. At(t, "taskDone")
  BY DEF TaskDone
<1>2. /\ Typed /\ todo[t] # <<>> /\ h \in AllSteps /\ h[1] = "taskDone" /\ h[2] = Arg(t) /\ h[3] = More(t)
      /\ \A x \in Entries : h \notin Naming(x)
      /\ h[2] = FALSE
  <2>1. /\ Typed /\ todo[t] # <<>> /\ h \in AllSteps /\ h[1] = "taskDone" /\ h[2] = Arg(t) /\ h[3] = More(t)
        /\ \A x \in Entries : h \notin Naming(x)
    BY <1>1, IdleHead DEF EntryKinds, Counting, Passing, Waits, ForSets
  <2> HIDE DEF h
  <2> QED
    BY <2>1, StepTypes DEF ForNobody, Dispatcher
<1>3. /\ a \in AllSteps /\ a[1] = "taskGone" /\ a[2] = None
  BY <1>2, StepsAre DEF EntryKinds, Counting, Passing, Waits, ForNobody, Dispatcher
<1>4. /\ Then(t, p) /\ entry' = entry
      /\ UNCHANGED <<published, fresh, freshCount, allLocks, unused, incoming, queued, requests, running, tasks, reads, replaced, laneQueue, lane, disk, held, calls, gone>>
  <2>1. running' = running /\ Then(t, <<>> \o <<a>>)
    BY <1>1, <1>2 DEF TaskDone
  <2>2. <<>> \o <<a>> = <<a>>
    BY <1>3, Joins
  <2> QED
    BY <1>1, <2>1, <2>2 DEF TaskDone, mapVars, waitVars, laneVars, userVars
<1>5. Follows(h, p, Mine(t)') /\ Calm(p) /\ p \in Seq(AllSteps)
  <2>1. Apt(h, a)
    BY <1>2, <1>3 DEF Apt, Suits, Lasts, TaskDoneOnLane, Forces, EndOfForce, LaneSteps, Dispatcher, LateSteps
  <2>2. /\ Covered(h, a, Mine(t)')
    BY <1>2, <1>3 DEF Covered, Backs, Passing, Waits, Counting
  <2>3. /\ a[1] \notin {"reload", "unpark"}
        /\ h[1] \in Waits => a[1] \in Waits /\ a[2] = h[2]
        /\ h[1] \in TaskEnds => a[1] \in TaskEnds
        /\ a[1] \notin Dispatcher \cup ForSets \cup {"destroyAll"}
    BY <1>2, <1>3 DEF Waits, TaskEnds, Lasts, Firsts, Dispatcher, ForSets, TaskDoneOnLane
  <2> HIDE DEF h, a
  <2>4. Follows(h, <<a>>, Mine(t)') /\ Calm(<<a>>) /\ <<a>> \in Seq(AllSteps)
    BY <1>3, <2>1, <2>2, <2>3, FollowsOne
  <2> QED
    BY <2>4
<1>6. Typed'
  <2>1. todo' \in [Threads -> Seq(AllSteps)]
    BY <1>2, <1>4, <1>5, Moved DEF Typed
  <2> QED
    BY <1>2, <1>4, <2>1 DEF Typed, TypeOK
<1>7. Accounts' /\ Unknown'
  <2>1. \A x \in Entries : \A i \in 1 .. Len(p) : p[i] \notin Naming(x)
    BY <1>3 DEF Naming, Takes, ForSets, Counting, Passing, Waits
  <2>2. \A x \in Entries : Count(Waiting, {x})' = Count(Waiting, {x})
    BY <1>4 DEF Waiting, Count
  <2>3. published' \cup fresh' \subseteq published \cup fresh
    BY <1>4
  <2> HIDE DEF p
  <2>4. \A x \in Entries : todo[t][1] \notin Naming(x)
    BY <1>2
  <2> HIDE DEF h
  <2> QED
    BY <1>2, <1>4, <1>5, <2>1, <2>2, <2>3, <2>4, IdleStep
<1>8. Counters'
  <2>1. /\ h \in Named(TaskSteps) /\ h \notin Named(ReadSteps)
        /\ a \in Named(TaskSteps) /\ a \notin Named(ReadSteps)
    BY <1>2, <1>3 DEF Named, TaskSteps, ReadSteps
  <2>2. TaskDoneOnLane[1] = "taskDone" /\ TaskDoneOnLane[2] = TRUE
    BY DEF TaskDoneOnLane
  <2>3. h \notin {TaskDoneOnLane} /\ a \notin {TaskDoneOnLane}
    BY <1>2, <1>3, <2>2
  <2>4. /\ One(h \in Named(TaskSteps)) = 1 /\ One(h \in Named(ReadSteps)) = 0 /\ One(h \in {TaskDoneOnLane}) = 0
        /\ One(a \in Named(TaskSteps)) = 1 /\ One(a \in Named(ReadSteps)) = 0 /\ One(a \in {TaskDoneOnLane}) = 0
    BY <2>1, <2>3 DEF One
  <2> HIDE DEF h, a
  <2>5. \A G : StepsIn(G)' = StepsIn(G) - One(h \in G) + One(a \in G)
    BY <1>2, <1>3, <1>4, ThenFew DEF h, p
  <2>6. \A G : StepsIn(G) \in Nat
    BY <1>2, Someone DEF Typed
  <2>7. /\ StepsIn(Named(TaskSteps))' = StepsIn(Named(TaskSteps)) + 0
        /\ StepsIn(Named(ReadSteps))' = StepsIn(Named(ReadSteps)) + 0
        /\ StepsIn({TaskDoneOnLane})' = StepsIn({TaskDoneOnLane})
    BY <2>4, <2>5, <2>6
  <2>8. Waiting' = Waiting
    BY <1>4 DEF Waiting
  <2>9. Len(Waiting) \in Nat /\ Len(laneQueue) \in Nat /\ Cardinality(disk) \in Nat
    BY <1>2, ThreeLists, DiskFinite, LenProperties DEF Typed, TypeOK, Waiting
  <2>10. /\ running = Len(laneQueue) + StepsIn({TaskDoneOnLane}) /\ (MaxLoads # 0 => running <= MaxLoads)
        /\ tasks = Len(Waiting) + StepsIn(Named(TaskSteps)) + Cardinality(disk)
        /\ reads = StepsIn(Named(ReadSteps)) + Cardinality(disk)
    BY DEF CacheInv, Counters, ReadSteps
  <2>11. /\ tasks' = Len(Waiting)' + StepsIn(Named(TaskSteps))' + Cardinality(disk)'
        /\ reads' = StepsIn(Named(ReadSteps))' + Cardinality(disk)'
        /\ running' = Len(laneQueue)' + StepsIn({TaskDoneOnLane})'
    BY <1>4, <2>6, <2>7, <2>9, <2>10, <2>8
  <2> QED
    BY <1>4, <2>6, <2>7, <2>9, <2>10, <2>11 DEF Counters, ReadSteps
<1>9. Numbered' /\ Shape' /\ Doom' /\ Dispatching' /\ Ending'
  <2>1. /\ h[1] \notin Dispatcher \cup {"dispatch", "destroyAll"} /\ h[1] \notin Waits /\ h[1] \notin {"release", "enqueue"}
    BY <1>2, <1>4 DEF Dispatcher, Waits
  <2> HIDE DEF h, p
  <2>2. h = todo[t][1] /\ published' \cup fresh' \subseteq published \cup fresh
    BY <1>4 DEF h
  <2> QED
    BY <1>2, <1>4, <1>5, <1>6, <2>1, <2>2, HandOn
<1> QED
  BY <1>6, <1>7, <1>8, <1>9 DEF CacheInv

LEMMA TaskDoneOnTheLane ==
  ASSUME CacheInv, NEW t \in Threads, TaskDone(t), Arg(t) = TRUE
  PROVE  CacheInv'
<1> DEFINE h == todo[t][1]
           a == <<"dispatch", None>>
           b == <<"taskGone", None>>
           p == <<a, b>>
<1>1. At(t, "taskDone")
  BY DEF TaskDone
<1>2. /\ Typed /\ todo[t] # <<>> /\ h \in AllSteps /\ h[1] = "taskDone" /\ h[2] = Arg(t) /\ h[3] = More(t)
      /\ \A x \in Entries : h \notin Naming(x)
      /\ h = TaskDoneOnLane
  <2>1. /\ Typed /\ todo[t] # <<>> /\ h \in AllSteps /\ h[1] = "taskDone" /\ h[2] = Arg(t) /\ h[3] = More(t)
        /\ \A x \in Entries : h \notin Naming(x)
    <3>1. "taskDone" \notin EntryKinds \cup ForSets
      BY DEF EntryKinds, Counting, Passing, Waits, ForSets
    <3> QED
      BY <1>1, <3>1, IdleHead, Zenon
  <2> HIDE DEF h
  <2>2. h = <<"taskDone", h[2]>>
    BY <2>1, StepTypes, Zenon
  <2> QED
    BY <2>1, <2>2, Zenon DEF TaskDoneOnLane
<1>3. /\ a \in AllSteps /\ a[1] = "dispatch" /\ a[2] = None
      /\ b \in AllSteps /\ b[1] = "taskGone" /\ b[2] = None
  BY <1>2, StepsAre DEF EntryKinds, Counting, Passing, Waits, ForNobody, Dispatcher
<1>4. /\ Then(t, p) /\ entry' = entry
      /\ running' = running - 1
      /\ UNCHANGED <<published, fresh, freshCount, allLocks, unused, incoming, queued, requests, tasks, reads, replaced, laneQueue, lane, disk, held, calls, gone>>
  <2>1. running' = running - 1 /\ Then(t, <<a>> \o <<b>>)
    BY <1>1, <1>2 DEF TaskDone
  <2>2. <<a>> \o <<b>> = <<a, b>>
    BY <1>3, Joins
  <2> QED
    BY <1>1, <2>1, <2>2 DEF TaskDone, mapVars, waitVars, laneVars, userVars
<1>5. Follows(h, p, Mine(t)') /\ Calm(p) /\ p \in Seq(AllSteps)
  <2>1. Apt(h, a) /\ Apt(h, b)
    BY <1>2, <1>3 DEF Apt, Suits, Lasts, TaskDoneOnLane, Forces, EndOfForce, LaneSteps, Dispatcher, LateSteps
  <2>2. /\ (Covered(h, a, Mine(t)') \/ Backs(a, b))
        /\ Covered(h, b, Mine(t)')
    BY <1>2, <1>3 DEF Covered, Backs, Passing, Waits, Counting
  <2>3. /\ a[1] \notin {"reload"} \cup Lasts
        /\ (a[1] = "unpark" => b[1] \in {"wait", "claimFree"} /\ b[2] = a[2])
        /\ b[1] \notin {"unpark"} \cup Firsts
        /\ (b[1] = "reload" => a[1] \in Waits /\ a[2] = b[2])
        /\ ~(a = TaskDoneOnLane /\ b = TaskDoneOnLane)
        /\ (h[1] \in Waits => b[1] \in Waits /\ b[2] = h[2])
        /\ (h[1] \in TaskEnds => b[1] \in TaskEnds)
        /\ {a[1], b[1]} \cap (Dispatcher \cup ForSets \cup {"destroyAll"}) = {}
    BY <1>2, <1>3 DEF Waits, TaskEnds, Lasts, Firsts, Dispatcher, ForSets, TaskDoneOnLane
  <2> HIDE DEF h, a, b
  <2>4. Follows(h, <<a, b>>, Mine(t)') /\ Calm(<<a, b>>) /\ <<a, b>> \in Seq(AllSteps)
    BY <1>3, <2>1, <2>2, <2>3, FollowsTwo
  <2> QED
    BY <2>4
<1>6. running # 0
  <2>1. StepsIn({TaskDoneOnLane}) # 0
    <3>1. h \in {TaskDoneOnLane} /\ 1 \in 1 .. Len(todo[t]) /\ todo[t] \in Seq(AllSteps)
      BY <1>2, EmptySeq, LenProperties DEF Named, TaskSteps, ReadSteps, TaskDoneOnLane, Typed
    <3> QED
      BY <1>2, <3>1, Someone DEF Typed
  <2>2. /\ Len(Waiting) \in Nat /\ Len(laneQueue) \in Nat /\ Cardinality(disk) \in Nat
        /\ \A G : StepsIn(G) \in Nat
    BY <1>2, Amounts, DiskFinite, Someone, ThreeLists, LenProperties DEF Typed, TypeOK, Waiting
  <2> QED
    BY <2>1, <2>2 DEF CacheInv, Counters, ReadSteps
<1>7. Typed'
  <2>1. todo' \in [Threads -> Seq(AllSteps)]
    BY <1>2, <1>4, <1>5, Moved DEF Typed
  <2>2. {freshCount', requests', running', tasks', reads'} \subseteq Nat
    <3>1. {freshCount, requests, running, tasks, reads} \subseteq Nat
      BY <1>2 DEF Typed, TypeOK
    <3> QED
      BY <1>4, <3>1, <1>6
  <2> QED
    BY <1>2, <1>4, <2>1, <2>2 DEF Typed, TypeOK
<1>8. Accounts' /\ Unknown'
  <2>1. \A x \in Entries : \A i \in 1 .. Len(p) : p[i] \notin Naming(x)
    BY <1>3 DEF Naming, Takes, ForSets, Counting, Passing, Waits
  <2>2. \A x \in Entries : Count(Waiting, {x})' = Count(Waiting, {x})
    BY <1>4 DEF Waiting, Count
  <2>3. published' \cup fresh' \subseteq published \cup fresh
    BY <1>4
  <2> HIDE DEF p
  <2>4. \A x \in Entries : todo[t][1] \notin Naming(x)
    BY <1>2
  <2> HIDE DEF h
  <2> QED
    BY <1>2, <1>4, <1>5, <2>1, <2>2, <2>3, <2>4, IdleStep
<1>9. Counters'
  <2>1. /\ h \in Named(TaskSteps) /\ h \notin Named(ReadSteps)
        /\ a \notin Named(TaskSteps) /\ a \notin Named(ReadSteps)
        /\ b \in Named(TaskSteps) /\ b \notin Named(ReadSteps)
    BY <1>2, <1>3 DEF Named, TaskSteps, ReadSteps
  <2>2. TaskDoneOnLane[1] = "taskDone" /\ TaskDoneOnLane[2] = TRUE
    BY DEF TaskDoneOnLane
  <2>3. h \in {TaskDoneOnLane} /\ a \notin {TaskDoneOnLane} /\ b \notin {TaskDoneOnLane}
    BY <1>2, <1>3, <2>2
  <2>4. /\ One(h \in Named(TaskSteps)) = 1 /\ One(h \in Named(ReadSteps)) = 0 /\ One(h \in {TaskDoneOnLane}) = 1
        /\ One(a \in Named(TaskSteps)) = 0 /\ One(a \in Named(ReadSteps)) = 0 /\ One(a \in {TaskDoneOnLane}) = 0
        /\ One(b \in Named(TaskSteps)) = 1 /\ One(b \in Named(ReadSteps)) = 0 /\ One(b \in {TaskDoneOnLane}) = 0
    BY <2>1, <2>3 DEF One
  <2> HIDE DEF h, a, b
  <2>5. \A G : StepsIn(G)' = StepsIn(G) - One(h \in G) + One(a \in G) + One(b \in G)
    BY <1>2, <1>3, <1>4, ThenFew DEF h, p
  <2>6. \A G : StepsIn(G) \in Nat
    BY <1>2, Someone DEF Typed
  <2>7. /\ StepsIn(Named(TaskSteps))' = StepsIn(Named(TaskSteps)) + 0
        /\ StepsIn(Named(ReadSteps))' = StepsIn(Named(ReadSteps)) + 0
        /\ StepsIn({TaskDoneOnLane})' = StepsIn({TaskDoneOnLane}) - 1
    BY <2>4, <2>5, <2>6
  <2>8. Waiting' = Waiting
    BY <1>4 DEF Waiting
  <2>9. Len(Waiting) \in Nat /\ Len(laneQueue) \in Nat /\ Cardinality(disk) \in Nat
    BY <1>2, ThreeLists, DiskFinite, LenProperties DEF Typed, TypeOK, Waiting
  <2>10. /\ running = Len(laneQueue) + StepsIn({TaskDoneOnLane}) /\ (MaxLoads # 0 => running <= MaxLoads)
        /\ tasks = Len(Waiting) + StepsIn(Named(TaskSteps)) + Cardinality(disk)
        /\ reads = StepsIn(Named(ReadSteps)) + Cardinality(disk)
    BY DEF CacheInv, Counters, ReadSteps
  <2>11. /\ tasks' = Len(Waiting)' + StepsIn(Named(TaskSteps))' + Cardinality(disk)'
        /\ reads' = StepsIn(Named(ReadSteps))' + Cardinality(disk)'
        /\ running' = Len(laneQueue)' + StepsIn({TaskDoneOnLane})'
    BY <1>4, <2>6, <2>7, <2>9, <2>10, <2>8, SMTT(60)
  <2>12. MaxLoads # 0 => running' <= MaxLoads
    <3>1. MaxLoads \in Nat /\ running \in Nat /\ running' = running - 1
      BY <1>4, <2>6, <2>9, <2>10, CacheAssumption, SMTT(60)
    <3> QED
      BY <2>10, <3>1
  <2> QED
    BY <2>11, <2>12 DEF Counters, ReadSteps
<1>10. Numbered' /\ Shape' /\ Doom' /\ Dispatching' /\ Ending'
  <2>1. Typed /\ Shape /\ Dispatching
    BY DEF CacheInv
  <2>2. h[1] \notin Dispatcher \cup Waits \cup {"destroyAll", "release", "enqueue"} /\ Still(p)
    BY <1>2, <1>5 DEF Dispatcher, Waits, Calm, Still
  <2>3. a \in For({"dispatch"}, None)
    BY <1>3 DEF For
  <2> HIDE DEF h, a, b
  <2>4. \A u \in Threads : Dispatches(u) \/ Dispatches(u)' => todo[u] # <<>> /\ todo'[u] # <<>> /\ todo'[u][1] = todo[u][1]
    BY <1>2, <1>4, <1>5, <2>1, <2>2, CalmStep DEF h
  <2>5. Numbered' /\ Shape' /\ Doom' /\ Ending'
    BY <1>2, <1>4, <1>5, <2>2, RestKept DEF h
  <2>6. StepsIn(For({"dispatch"}, None))' # 0
    <3>1. StepsIn(For({"dispatch"}, None))' = StepsIn(For({"dispatch"}, None)) - One(h \in For({"dispatch"}, None)) + One(a \in For({"dispatch"}, None)) + One(b \in For({"dispatch"}, None))
      BY <1>2, <1>3, <1>4, ThenFew DEF h, p
    <3>2. h \notin For({"dispatch"}, None) /\ StepsIn(For({"dispatch"}, None)) \in Nat
      BY <1>2, Amounts, Someone DEF For, Typed
    <3> QED
      BY <2>3, <3>1, <3>2 DEF One
  <2>7. \A u \in Threads : Dispatches(u)' <=> Dispatches(u)
    BY <2>4 DEF Dispatches
  <2>8. Dispatching'
    BY <1>4, <2>1, <2>4, <2>6, <2>7 DEF Dispatching
  <2> QED
    BY <2>5, <2>8
<1> QED
  BY <1>7, <1>8, <1>9, <1>10 DEF CacheInv

LEMMA DispatchFirst ==
  ASSUME CacheInv, NEW t \in Threads, Dispatch(t), requests = 0
  PROVE  CacheInv'
<1> DEFINE h == todo[t][1]
           a == <<"dispatchOnce", 1>>
           p == <<a>>
<1>1. At(t, "dispatch")
  BY DEF Dispatch
<1>2. /\ Typed /\ todo[t] # <<>> /\ h \in AllSteps /\ h[1] = "dispatch" /\ h[2] = Arg(t) /\ h[3] = More(t)
      /\ \A x \in Entries : h \notin Naming(x)
  BY <1>1, IdleHead DEF EntryKinds, Counting, Passing, Waits, ForSets
<1>3. /\ a \in AllSteps /\ a[1] = "dispatchOnce" /\ a[2] = 1
  BY <1>2, StepsAre DEF EntryKinds, Counting, Passing, Waits, ForNobody, Dispatcher
<1>4. /\ Then(t, p) /\ entry' = entry
      /\ requests' = 1
      /\ UNCHANGED <<published, fresh, freshCount, allLocks, unused, incoming, queued, running, tasks, reads, replaced, laneQueue, lane, disk, held, calls, gone>>
  BY <1>1, <1>2 DEF Dispatch, Pass, OnlyEntries, mapVars, waitVars, countVars, laneVars, userVars
<1>5. Follows(h, p, Mine(t)') /\ Still(p) /\ p \in Seq(AllSteps)
  <2>1. Apt(h, a)
    BY <1>2, <1>3 DEF Apt, Suits, Lasts, TaskDoneOnLane, Forces, EndOfForce, LaneSteps, Dispatcher, LateSteps
  <2>2. /\ Covered(h, a, Mine(t)')
    BY <1>2, <1>3 DEF Covered, Backs, Passing, Waits, Counting
  <2>3. /\ a[1] \notin {"reload", "unpark"}
        /\ h[1] \in Waits => a[1] \in Waits /\ a[2] = h[2]
        /\ h[1] \in TaskEnds => a[1] \in TaskEnds
        /\ a[1] \notin ForSets \cup {"destroyAll"}
    BY <1>2, <1>3 DEF Waits, TaskEnds, Lasts, Firsts, Dispatcher, ForSets, TaskDoneOnLane
  <2> HIDE DEF h, a
  <2>4. Follows(h, <<a>>, Mine(t)') /\ <<a>> \in Seq(AllSteps)
    BY <1>3, <2>1, <2>2, <2>3, FollowsOne
  <2>5. Still(<<a>>)
    BY <2>3 DEF Still
  <2> QED
    BY <2>4, <2>5
<1>6. Typed'
  <2>1. todo' \in [Threads -> Seq(AllSteps)]
    BY <1>2, <1>4, <1>5, Moved DEF Typed
  <2>2. {freshCount', requests', running', tasks', reads'} \subseteq Nat
    <3>1. {freshCount, requests, running, tasks, reads} \subseteq Nat
      BY <1>2 DEF Typed, TypeOK
    <3> QED
      BY <1>4, <3>1
  <2> QED
    BY <1>2, <1>4, <2>1, <2>2 DEF Typed, TypeOK
<1>7. Accounts' /\ Unknown'
  <2>1. \A x \in Entries : \A i \in 1 .. Len(p) : p[i] \notin Naming(x)
    BY <1>3 DEF Naming, Takes, ForSets, Counting, Passing, Waits
  <2>2. \A x \in Entries : Count(Waiting, {x})' = Count(Waiting, {x})
    BY <1>4 DEF Waiting, Count
  <2>3. published' \cup fresh' \subseteq published \cup fresh
    BY <1>4
  <2> HIDE DEF p
  <2>4. \A x \in Entries : todo[t][1] \notin Naming(x)
    BY <1>2
  <2> HIDE DEF h
  <2> QED
    BY <1>2, <1>4, <1>5, <2>1, <2>2, <2>3, <2>4, IdleStep
<1>8. Counters'
  <2>1. Balanced
    <3>1. h[1] \notin TaskSteps /\ \A i \in 1 .. Len(p) : p[i][1] \notin TaskSteps
      BY <1>2, <1>3 DEF TaskSteps
    <3> HIDE DEF p
    <3> QED
      BY <1>2, <1>4, <1>5, <3>1, NoTask
  <2> QED
    BY <1>4, <2>1, CountersKept DEF CacheInv
<1>9. Numbered' /\ Shape' /\ Doom' /\ Dispatching' /\ Ending'
  <2>1. Typed /\ Shape /\ Dispatching
    BY DEF CacheInv
  <2>2. h[1] \notin Waits \cup {"destroyAll", "release", "enqueue"}
    BY <1>2 DEF Waits
  <2>3. StepsIn(For({"dispatch"}, None)) \in Nat
    BY <1>2, Someone DEF Typed
  <2>4. a[1] \in Dispatcher
    BY <1>2, <1>3 DEF Dispatcher, Dispatches
  <2> HIDE DEF h, a
  <2>5. Numbered' /\ Shape' /\ Doom' /\ Ending'
    BY <1>2, <1>4, <1>5, <2>2, RestKept DEF h
  <2>6. StepsIn(For({"dispatch"}, None))' = StepsIn(For({"dispatch"}, None)) - One(h \in For({"dispatch"}, None)) + One(a \in For({"dispatch"}, None))
    BY <1>2, <1>3, <1>4, ThenFew DEF h, p
  <2>7. /\ \A u \in Threads \ {t} : todo'[u] = todo[u]
        /\ todo'[t] # <<>> /\ todo'[t][1] = a
    BY <1>2, <1>3, <1>4, <1>5, <2>1, NextStep DEF p
  <2>8. \A u \in Threads : Dispatches(u)' <=> u = t
    <3>1. \A u \in Threads : ~Dispatches(u)
      BY <2>1 DEF Dispatching
    <3> QED
      BY <2>4, <2>7, <3>1 DEF Dispatches
  <2>9. todo'[t][1][2] \in 1 .. requests' /\ requests' \in Nat /\ ~At(t, "start")' /\ ~At(t, "handled")'
    BY <1>3, <1>4, <2>7 DEF At
  <2>10. Dispatching'
    BY <2>8, <2>9, OneDispatches
  <2> QED
    BY <2>5, <2>10
<1> QED
  BY <1>6, <1>7, <1>8, <1>9 DEF CacheInv

LEMMA DispatchLater ==
  ASSUME CacheInv, NEW t \in Threads, Dispatch(t), requests # 0
  PROVE  CacheInv'
<1> DEFINE h == todo[t][1]
           p == <<>>
<1>1. At(t, "dispatch")
  BY DEF Dispatch
<1>2. /\ Typed /\ todo[t] # <<>> /\ h \in AllSteps /\ h[1] = "dispatch" /\ h[2] = Arg(t) /\ h[3] = More(t)
      /\ \A x \in Entries : h \notin Naming(x)
  BY <1>1, IdleHead DEF EntryKinds, Counting, Passing, Waits, ForSets
<1>3. /\ Then(t, p) /\ entry' = entry
      /\ requests' = requests + 1
      /\ UNCHANGED <<published, fresh, freshCount, allLocks, unused, incoming, queued, running, tasks, reads, replaced, laneQueue, lane, disk, held, calls, gone>>
  BY <1>1, <1>2 DEF Dispatch, Pass, OnlyEntries, mapVars, waitVars, countVars, laneVars, userVars
<1>4. Follows(h, p, Mine(t)') /\ Still(p) /\ p \in Seq(AllSteps)
  BY FollowsNone DEF Calm, Still
<1>5. Typed'
  <2>1. todo' \in [Threads -> Seq(AllSteps)]
    BY <1>2, <1>3, <1>4, Moved DEF Typed
  <2>2. {freshCount', requests', running', tasks', reads'} \subseteq Nat
    <3>1. {freshCount, requests, running, tasks, reads} \subseteq Nat
      BY <1>2 DEF Typed, TypeOK
    <3> QED
      BY <1>3, <3>1
  <2> QED
    BY <1>2, <1>3, <2>1, <2>2 DEF Typed, TypeOK
<1>6. Accounts' /\ Unknown'
  <2>1. \A x \in Entries : \A i \in 1 .. Len(p) : p[i] \notin Naming(x)
    OBVIOUS
  <2>2. \A x \in Entries : Count(Waiting, {x})' = Count(Waiting, {x})
    BY <1>3 DEF Waiting, Count
  <2>3. published' \cup fresh' \subseteq published \cup fresh
    BY <1>3
  <2> HIDE DEF p
  <2>4. \A x \in Entries : todo[t][1] \notin Naming(x)
    BY <1>2
  <2> HIDE DEF h
  <2> QED
    BY <1>2, <1>3, <1>4, <2>1, <2>2, <2>3, <2>4, IdleStep
<1>7. Counters'
  <2>1. Balanced
    <3>1. h[1] \notin TaskSteps /\ \A i \in 1 .. Len(p) : p[i][1] \notin TaskSteps
      BY <1>2 DEF TaskSteps
    <3> HIDE DEF p
    <3> QED
      BY <1>2, <1>3, <1>4, <3>1, NoTask
  <2> QED
    BY <1>3, <2>1, CountersKept DEF CacheInv
<1>8. Numbered' /\ Shape' /\ Doom' /\ Dispatching' /\ Ending'
  <2>1. Typed /\ Shape /\ Dispatching
    BY DEF CacheInv
  <2>2. h[1] \notin Waits \cup {"destroyAll", "release", "enqueue"}
    BY <1>2 DEF Waits
  <2>3. StepsIn(For({"dispatch"}, None)) \in Nat
    BY <1>2, Someone DEF Typed
  <2>4. ~Dispatches(t)
    BY <1>2 DEF Dispatcher, Dispatches
  <2> HIDE DEF h
  <2>5. Numbered' /\ Shape' /\ Doom' /\ Ending'
    BY <1>2, <1>3, <1>4, <2>2, RestKept DEF h
  <2>6. StepsIn(For({"dispatch"}, None))' = StepsIn(For({"dispatch"}, None)) - One(h \in For({"dispatch"}, None))
    BY <1>2, <1>3, ThenFew DEF h, p
  <2>7. /\ \A u \in Threads \ {t} : todo'[u] = todo[u]
        /\ todo'[t] = <<>> \/ todo'[t][1][1] \notin Firsts
    BY <1>2, <1>3, <1>4, <2>1, NextStep DEF p
  <2>8. \A u \in Threads \ {t} : Dispatches(u)' <=> Dispatches(u)
    BY <2>7 DEF Dispatches
  <2>9. ~Dispatches(t)'
    BY <2>7 DEF Dispatches, Firsts
  <2>10. PICK s \in Threads : Dispatches(s)
    BY <2>1 DEF Dispatching
  <2>11. s # t /\ todo'[s] = todo[s] /\ \A u \in Threads : Dispatches(u)' <=> u = s
    BY <2>1, <2>4, <2>7, <2>8, <2>9, <2>10 DEF Dispatching
  <2>12. todo[s][1][2] \in 1 .. requests /\ requests \in Nat
    BY <2>1, <2>10 DEF Dispatching, Typed, TypeOK
  <2>13. todo'[s][1][2] \in 1 .. requests' /\ requests' \in Nat /\ Arg(s)' # requests'
    BY <1>3, <2>11, <2>12 DEF Arg
  <2>14. Dispatching'
    BY <2>10, <2>11, <2>13, OneDispatches
  <2> QED
    BY <2>5, <2>14
<1> QED
  BY <1>5, <1>6, <1>7, <1>8 DEF CacheInv

LEMMA DispatchOnceStep ==
  ASSUME CacheInv, NEW t \in Threads, DispatchOnce(t)
  PROVE  CacheInv'
<1> DEFINE h == todo[t][1]
           a == <<"start", Arg(t)>>
           p == <<a>>
<1>1. At(t, "dispatchOnce")
  BY DEF DispatchOnce
<1>2. /\ Typed /\ todo[t] # <<>> /\ h \in AllSteps /\ h[1] = "dispatchOnce" /\ h[2] = Arg(t) /\ h[3] = More(t)
      /\ \A x \in Entries : h \notin Naming(x)
      /\ h[2] \in Nat
  <2>1. /\ Typed /\ todo[t] # <<>> /\ h \in AllSteps /\ h[1] = "dispatchOnce" /\ h[2] = Arg(t) /\ h[3] = More(t)
        /\ \A x \in Entries : h \notin Naming(x)
    BY <1>1, IdleHead DEF EntryKinds, Counting, Passing, Waits, ForSets
  <2> HIDE DEF h
  <2> QED
    BY <2>1, StepTypes DEF ForNobody, Dispatcher
<1>3. /\ a \in AllSteps /\ a[1] = "start" /\ a[2] = Arg(t)
  BY <1>2, StepsAre DEF Dispatcher
<1>4. /\ Then(t, p) /\ entry' = entry
      /\ incoming' = <<>>
      /\ queued' = queued \o Reverse(incoming)
      /\ UNCHANGED <<published, fresh, freshCount, allLocks, unused, requests, running, tasks, reads, replaced, laneQueue, lane, disk, held, calls, gone>>
  BY <1>1, <1>2 DEF DispatchOnce, Pass, OnlyEntries, mapVars, waitVars, countVars, laneVars, userVars
<1>5. Follows(h, p, Mine(t)') /\ Still(p) /\ p \in Seq(AllSteps)
  <2>1. Apt(h, a)
    BY <1>2, <1>3 DEF Apt, Suits, Lasts, TaskDoneOnLane, Forces, EndOfForce, LaneSteps, Dispatcher, LateSteps
  <2>2. /\ Covered(h, a, Mine(t)')
    BY <1>2, <1>3 DEF Covered, Backs, Passing, Waits, Counting
  <2>3. /\ a[1] \notin {"reload", "unpark"}
        /\ h[1] \in Waits => a[1] \in Waits /\ a[2] = h[2]
        /\ h[1] \in TaskEnds => a[1] \in TaskEnds
        /\ a[1] \notin ForSets \cup {"destroyAll"}
    BY <1>2, <1>3 DEF Waits, TaskEnds, Lasts, Firsts, Dispatcher, ForSets, TaskDoneOnLane
  <2> HIDE DEF h, a
  <2>4. Follows(h, <<a>>, Mine(t)') /\ <<a>> \in Seq(AllSteps)
    BY <1>3, <2>1, <2>2, <2>3, FollowsOne
  <2>5. Still(<<a>>)
    BY <2>3 DEF Still
  <2> QED
    BY <2>4, <2>5
<1>6. incoming \in Seq(Entries) /\ queued \in Seq(Entries) /\ laneQueue \in Seq(Entries)
  BY <1>2 DEF Typed, TypeOK
<1>7. /\ Reverse(incoming) \in Seq(Entries) /\ Len(Reverse(incoming)) = Len(incoming)
      /\ Len(incoming) \in Nat /\ Len(queued) \in Nat /\ Len(laneQueue) \in Nat
      /\ \A G : Count(Reverse(incoming), G) = Count(incoming, G)
  BY <1>6, CountReverse, LenProperties
<1>8. /\ queued \o Reverse(incoming) \in Seq(Entries) /\ Len(queued \o Reverse(incoming)) = Len(queued) + Len(incoming)
      /\ \A G : Count(queued \o Reverse(incoming), G) = Count(queued, G) + Count(incoming, G)
  <2>1. /\ queued \o Reverse(incoming) \in Seq(Entries)
        /\ Len(queued \o Reverse(incoming)) = Len(queued) + Len(Reverse(incoming))
    BY <1>6, <1>7, ConcatProperties
  <2>2. ASSUME NEW G PROVE Count(queued \o Reverse(incoming), G) = Count(queued, G) + Count(Reverse(incoming), G)
    BY <1>6, <1>7, CountConcat
  <2> QED
    BY <1>7, <2>1, <2>2
<1>9. /\ Len(Waiting) = Len(incoming) + Len(queued) + Len(laneQueue)
      /\ \A G : Count(Waiting, G) = Count(incoming, G) + Count(queued, G) + Count(laneQueue, G)
  BY <1>6, ThreeLists DEF Waiting
<1>10. /\ Len(Waiting)' = 0 + Len(queued') + Len(laneQueue)
      /\ \A G : Count(Waiting, G)' = 0 + Count(queued', G) + Count(laneQueue, G)
  <2>1. Waiting' = <<>> \o queued' \o laneQueue /\ <<>> \in Seq(Entries) /\ queued' \in Seq(Entries)
    BY <1>4, <1>8 DEF Waiting
  <2>2. /\ Len(<<>> \o queued' \o laneQueue) = Len(<<>>) + Len(queued') + Len(laneQueue)
        /\ \A G : Count(<<>> \o queued' \o laneQueue, G) = Count(<<>>, G) + Count(queued', G) + Count(laneQueue, G)
    BY <1>6, <2>1, ThreeLists, ZenonT(60)
  <2>3. ASSUME NEW G PROVE Count(Waiting, G)' = 0 + Count(queued', G) + Count(laneQueue, G)
    <3>1. Count(Waiting, G)' = Count(Waiting', G)
      BY DEF Count
    <3> QED
      BY <2>1, <2>2, <3>1, CountShort
  <2> QED
    BY <2>1, <2>2, <2>3
<1>11. \A G : Count(incoming, G) \in Nat /\ Count(queued, G) \in Nat /\ Count(laneQueue, G) \in Nat
  BY <1>6, CountType
<1>12. Len(Waiting)' = Len(Waiting) /\ \A G : Count(Waiting, G)' = Count(Waiting, G)
  <2>1. Len(queued') = Len(queued) + Len(incoming) /\ \A G : Count(queued', G) = Count(queued, G) + Count(incoming, G)
    BY <1>4, <1>8
  <2>2. Len(Waiting)' = Len(Waiting)
    BY <1>7, <1>9, <1>10, <2>1
  <2>3. ASSUME NEW G PROVE Count(Waiting, G)' = Count(Waiting, G)
    BY <1>9, <1>10, <1>11, <2>1
  <2> QED
    BY <2>2, <2>3
<1>13. queued' \in Seq(Entries) /\ incoming' \in Seq(Entries)
  BY <1>4, <1>8
<1>14. Typed'
  <2>1. todo' \in [Threads -> Seq(AllSteps)]
    BY <1>2, <1>4, <1>5, Moved DEF Typed
  <2> QED
    BY <1>2, <1>4, <2>1, <1>13 DEF Typed, TypeOK
<1>15. Accounts' /\ Unknown'
  <2>1. \A x \in Entries : \A i \in 1 .. Len(p) : p[i] \notin Naming(x)
    BY <1>3 DEF Naming, Takes, ForSets, Counting, Passing, Waits
  <2>2. \A x \in Entries : Count(Waiting, {x})' = Count(Waiting, {x})
    BY <1>12
  <2>3. published' \cup fresh' \subseteq published \cup fresh
    BY <1>4
  <2> HIDE DEF p
  <2>4. \A x \in Entries : todo[t][1] \notin Naming(x)
    BY <1>2
  <2> HIDE DEF h
  <2> QED
    BY <1>2, <1>4, <1>5, <2>1, <2>2, <2>3, <2>4, IdleStep
<1>16. Counters'
  <2>1. /\ h \notin Named(TaskSteps) /\ h \notin Named(ReadSteps)
        /\ a \notin Named(TaskSteps) /\ a \notin Named(ReadSteps)
    BY <1>2, <1>3 DEF Named, TaskSteps, ReadSteps
  <2>2. TaskDoneOnLane[1] = "taskDone" /\ TaskDoneOnLane[2] = TRUE
    BY DEF TaskDoneOnLane
  <2>3. h \notin {TaskDoneOnLane} /\ a \notin {TaskDoneOnLane}
    BY <1>2, <1>3, <2>2
  <2>4. /\ One(h \in Named(TaskSteps)) = 0 /\ One(h \in Named(ReadSteps)) = 0 /\ One(h \in {TaskDoneOnLane}) = 0
        /\ One(a \in Named(TaskSteps)) = 0 /\ One(a \in Named(ReadSteps)) = 0 /\ One(a \in {TaskDoneOnLane}) = 0
    BY <2>1, <2>3 DEF One
  <2> HIDE DEF h, a
  <2>5. \A G : StepsIn(G)' = StepsIn(G) - One(h \in G) + One(a \in G)
    BY <1>2, <1>3, <1>4, ThenFew DEF h, p
  <2>6. \A G : StepsIn(G) \in Nat
    BY <1>2, Someone DEF Typed
  <2>7. /\ StepsIn(Named(TaskSteps))' = StepsIn(Named(TaskSteps)) + 0
        /\ StepsIn(Named(ReadSteps))' = StepsIn(Named(ReadSteps)) + 0
        /\ StepsIn({TaskDoneOnLane})' = StepsIn({TaskDoneOnLane})
    BY <2>4, <2>5, <2>6
  <2>8. Len(Waiting)' = Len(Waiting)
    BY <1>12
  <2>9. Len(Waiting) \in Nat /\ Len(laneQueue) \in Nat /\ Cardinality(disk) \in Nat
    BY <1>2, ThreeLists, DiskFinite, LenProperties DEF Typed, TypeOK, Waiting
  <2>10. /\ running = Len(laneQueue) + StepsIn({TaskDoneOnLane}) /\ (MaxLoads # 0 => running <= MaxLoads)
        /\ tasks = Len(Waiting) + StepsIn(Named(TaskSteps)) + Cardinality(disk)
        /\ reads = StepsIn(Named(ReadSteps)) + Cardinality(disk)
    BY DEF CacheInv, Counters, ReadSteps
  <2>11. /\ tasks' = Len(Waiting)' + StepsIn(Named(TaskSteps))' + Cardinality(disk)'
        /\ reads' = StepsIn(Named(ReadSteps))' + Cardinality(disk)'
        /\ running' = Len(laneQueue)' + StepsIn({TaskDoneOnLane})'
    BY <1>4, <2>6, <2>7, <2>9, <2>10, <2>8
  <2> QED
    BY <1>4, <2>6, <2>7, <2>9, <2>10, <2>11 DEF Counters, ReadSteps
<1>17. Numbered' /\ Shape' /\ Doom' /\ Dispatching' /\ Ending'
  <2>1. Typed /\ Shape /\ Dispatching
    BY DEF CacheInv
  <2>2. h[1] \notin Waits \cup {"destroyAll", "release", "enqueue"}
    BY <1>2 DEF Waits
  <2>3. StepsIn(For({"dispatch"}, None)) \in Nat
    BY <1>2, Someone DEF Typed
  <2>4. a[1] \in Dispatcher /\ Dispatches(t)
    BY <1>2, <1>3 DEF Dispatcher, Dispatches
  <2> HIDE DEF h, a
  <2>5. Numbered' /\ Shape' /\ Doom' /\ Ending'
    BY <1>2, <1>4, <1>5, <2>2, RestKept DEF h
  <2>6. StepsIn(For({"dispatch"}, None))' = StepsIn(For({"dispatch"}, None)) - One(h \in For({"dispatch"}, None)) + One(a \in For({"dispatch"}, None))
    BY <1>2, <1>3, <1>4, ThenFew DEF h, p
  <2>7. /\ \A u \in Threads \ {t} : todo'[u] = todo[u]
        /\ todo'[t] # <<>> /\ todo'[t][1] = a
    BY <1>2, <1>3, <1>4, <1>5, <2>1, NextStep DEF p
  <2>8. /\ \A u \in Threads : Dispatches(u)' <=> u = t
        /\ todo[t][1][2] \in 1 .. requests /\ requests \in Nat
    BY <1>3, <1>4, <1>5, <2>1, <2>4, DispatcherAlone DEF p
  <2>9. todo'[t][1][2] \in 1 .. requests' /\ requests' \in Nat /\ ~At(t, "handled")' /\ incoming' = <<>>
    BY <1>2, <1>3, <1>4, <2>7, <2>8 DEF At, h
  <2>10. Dispatching'
    BY <2>8, <2>9, OneDispatches
  <2> QED
    BY <2>5, <2>10
<1> QED
  BY <1>14, <1>15, <1>16, <1>17 DEF CacheInv

LEMMA NoPlaceStep ==
  ASSUME CacheInv, NEW t \in Threads, NoPlace(t)
  PROVE  CacheInv'
<1> DEFINE h == todo[t][1]
           a == <<"handled", Arg(t)>>
           p == <<a>>
<1>1. At(t, "start")
  BY DEF NoPlace
<1>2. /\ Typed /\ todo[t] # <<>> /\ h \in AllSteps /\ h[1] = "start" /\ h[2] = Arg(t) /\ h[3] = More(t)
      /\ \A x \in Entries : h \notin Naming(x)
      /\ h[2] \in Nat
  <2>1. /\ Typed /\ todo[t] # <<>> /\ h \in AllSteps /\ h[1] = "start" /\ h[2] = Arg(t) /\ h[3] = More(t)
        /\ \A x \in Entries : h \notin Naming(x)
    BY <1>1, IdleHead DEF EntryKinds, Counting, Passing, Waits, ForSets
  <2> HIDE DEF h
  <2> QED
    BY <2>1, StepTypes DEF ForNobody, Dispatcher
<1>3. /\ a \in AllSteps /\ a[1] = "handled" /\ a[2] = Arg(t)
  BY <1>2, StepsAre DEF Dispatcher
<1>4. /\ Then(t, p) /\ entry' = entry
      /\ UNCHANGED <<published, fresh, freshCount, allLocks, unused, incoming, queued, requests, running, tasks, reads, replaced, laneQueue, lane, disk, held, calls, gone>>
  BY <1>1, <1>2 DEF NoPlace, Pass, OnlyEntries, mapVars, waitVars, countVars, laneVars, userVars
<1>5. Follows(h, p, Mine(t)') /\ Still(p) /\ p \in Seq(AllSteps)
  <2>1. Apt(h, a)
    BY <1>2, <1>3 DEF Apt, Suits, Lasts, TaskDoneOnLane, Forces, EndOfForce, LaneSteps, Dispatcher, LateSteps
  <2>2. /\ Covered(h, a, Mine(t)')
    BY <1>2, <1>3 DEF Covered, Backs, Passing, Waits, Counting
  <2>3. /\ a[1] \notin {"reload", "unpark"}
        /\ h[1] \in Waits => a[1] \in Waits /\ a[2] = h[2]
        /\ h[1] \in TaskEnds => a[1] \in TaskEnds
        /\ a[1] \notin ForSets \cup {"destroyAll"}
    BY <1>2, <1>3 DEF Waits, TaskEnds, Lasts, Firsts, Dispatcher, ForSets, TaskDoneOnLane
  <2> HIDE DEF h, a
  <2>4. Follows(h, <<a>>, Mine(t)') /\ <<a>> \in Seq(AllSteps)
    BY <1>3, <2>1, <2>2, <2>3, FollowsOne
  <2>5. Still(<<a>>)
    BY <2>3 DEF Still
  <2> QED
    BY <2>4, <2>5
<1>6. Typed'
  <2>1. todo' \in [Threads -> Seq(AllSteps)]
    BY <1>2, <1>4, <1>5, Moved DEF Typed
  <2> QED
    BY <1>2, <1>4, <2>1 DEF Typed, TypeOK
<1>7. Accounts' /\ Unknown'
  <2>1. \A x \in Entries : \A i \in 1 .. Len(p) : p[i] \notin Naming(x)
    BY <1>3 DEF Naming, Takes, ForSets, Counting, Passing, Waits
  <2>2. \A x \in Entries : Count(Waiting, {x})' = Count(Waiting, {x})
    BY <1>4 DEF Waiting, Count
  <2>3. published' \cup fresh' \subseteq published \cup fresh
    BY <1>4
  <2> HIDE DEF p
  <2>4. \A x \in Entries : todo[t][1] \notin Naming(x)
    BY <1>2
  <2> HIDE DEF h
  <2> QED
    BY <1>2, <1>4, <1>5, <2>1, <2>2, <2>3, <2>4, IdleStep
<1>8. Counters'
  <2>1. Balanced
    <3>1. h[1] \notin TaskSteps /\ \A i \in 1 .. Len(p) : p[i][1] \notin TaskSteps
      BY <1>2, <1>3 DEF TaskSteps
    <3> HIDE DEF p
    <3> QED
      BY <1>2, <1>4, <1>5, <3>1, NoTask
  <2> QED
    BY <1>4, <2>1, CountersKept DEF CacheInv
<1>9. Numbered' /\ Shape' /\ Doom' /\ Dispatching' /\ Ending'
  <2>1. Typed /\ Shape /\ Dispatching
    BY DEF CacheInv
  <2>2. h[1] \notin Waits \cup {"destroyAll", "release", "enqueue"}
    BY <1>2 DEF Waits
  <2>3. StepsIn(For({"dispatch"}, None)) \in Nat
    BY <1>2, Someone DEF Typed
  <2>4. a[1] \in Dispatcher /\ Dispatches(t)
    BY <1>2, <1>3 DEF Dispatcher, Dispatches
  <2> HIDE DEF h, a
  <2>5. Numbered' /\ Shape' /\ Doom' /\ Ending'
    BY <1>2, <1>4, <1>5, <2>2, RestKept DEF h
  <2>6. StepsIn(For({"dispatch"}, None))' = StepsIn(For({"dispatch"}, None)) - One(h \in For({"dispatch"}, None)) + One(a \in For({"dispatch"}, None))
    BY <1>2, <1>3, <1>4, ThenFew DEF h, p
  <2>7. /\ \A u \in Threads \ {t} : todo'[u] = todo[u]
        /\ todo'[t] # <<>> /\ todo'[t][1] = a
    BY <1>2, <1>3, <1>4, <1>5, <2>1, NextStep DEF p
  <2>8. /\ \A u \in Threads : Dispatches(u)' <=> u = t
        /\ todo[t][1][2] \in 1 .. requests /\ requests \in Nat
    BY <1>3, <1>4, <1>5, <2>1, <2>4, DispatcherAlone DEF p
  <2>9. todo'[t][1][2] \in 1 .. requests' /\ requests' \in Nat /\ ~At(t, "start")' /\ Arg(t)' = Arg(t)
    BY <1>2, <1>3, <1>4, <2>7, <2>8 DEF At, Arg, h
  <2>10. Full'
    BY <1>4 DEF NoPlace, Full, loadLimit
  <2>11. StepsIn(For({"dispatch"}, None))' = StepsIn(For({"dispatch"}, None))
    BY <1>2, <1>3, <2>3, <2>6 DEF For, One
  <2>12. StepsIn(For({"dispatch"}, None))' = 0 /\ Arg(t)' = requests' => incoming' = <<>>
    BY <1>1, <1>4, <2>1, <2>9, <2>11 DEF Dispatching
  <2>13. Dispatching'
    BY <2>8, <2>9, <2>10, <2>12, OneDispatches
  <2> QED
    BY <2>5, <2>13
<1> QED
  BY <1>6, <1>7, <1>8, <1>9 DEF CacheInv

LEMMA HandledLast ==
  ASSUME CacheInv, NEW t \in Threads, Handled(t), requests = Arg(t)
  PROVE  CacheInv'
<1> DEFINE h == todo[t][1]
           p == <<>>
<1>1. At(t, "handled")
  BY DEF Handled
<1>2. /\ Typed /\ todo[t] # <<>> /\ h \in AllSteps /\ h[1] = "handled" /\ h[2] = Arg(t) /\ h[3] = More(t)
      /\ \A x \in Entries : h \notin Naming(x)
      /\ h[2] \in Nat
  <2>1. /\ Typed /\ todo[t] # <<>> /\ h \in AllSteps /\ h[1] = "handled" /\ h[2] = Arg(t) /\ h[3] = More(t)
        /\ \A x \in Entries : h \notin Naming(x)
    BY <1>1, IdleHead DEF EntryKinds, Counting, Passing, Waits, ForSets
  <2> HIDE DEF h
  <2> QED
    BY <2>1, StepTypes DEF ForNobody, Dispatcher
<1>3. Arg(t) \in 1 .. requests /\ requests \in Nat
  BY <1>1, <1>2 DEF CacheInv, Dispatching, Typed, TypeOK, Dispatches, Dispatcher, Arg
<1>4. /\ Then(t, p) /\ entry' = entry
      /\ requests' = 0
      /\ UNCHANGED <<published, fresh, freshCount, allLocks, unused, incoming, queued, running, tasks, reads, replaced, laneQueue, lane, disk, held, calls, gone>>
  BY <1>1, <1>2, <1>3 DEF Handled, mapVars, waitVars, countVars, laneVars, userVars
<1>5. Follows(h, p, Mine(t)') /\ Still(p) /\ p \in Seq(AllSteps)
  BY FollowsNone DEF Calm, Still
<1>6. Typed'
  <2>1. todo' \in [Threads -> Seq(AllSteps)]
    BY <1>2, <1>4, <1>5, Moved DEF Typed
  <2>2. {freshCount', requests', running', tasks', reads'} \subseteq Nat
    <3>1. {freshCount, requests, running, tasks, reads} \subseteq Nat
      BY <1>2 DEF Typed, TypeOK
    <3> QED
      BY <1>4, <3>1
  <2> QED
    BY <1>2, <1>4, <2>1, <2>2 DEF Typed, TypeOK
<1>7. Accounts' /\ Unknown'
  <2>1. \A x \in Entries : \A i \in 1 .. Len(p) : p[i] \notin Naming(x)
    OBVIOUS
  <2>2. \A x \in Entries : Count(Waiting, {x})' = Count(Waiting, {x})
    BY <1>4 DEF Waiting, Count
  <2>3. published' \cup fresh' \subseteq published \cup fresh
    BY <1>4
  <2> HIDE DEF p
  <2>4. \A x \in Entries : todo[t][1] \notin Naming(x)
    BY <1>2
  <2> HIDE DEF h
  <2> QED
    BY <1>2, <1>4, <1>5, <2>1, <2>2, <2>3, <2>4, IdleStep
<1>8. Counters'
  <2>1. Balanced
    <3>1. h[1] \notin TaskSteps /\ \A i \in 1 .. Len(p) : p[i][1] \notin TaskSteps
      BY <1>2 DEF TaskSteps
    <3> HIDE DEF p
    <3> QED
      BY <1>2, <1>4, <1>5, <3>1, NoTask
  <2> QED
    BY <1>4, <2>1, CountersKept DEF CacheInv
<1>9. Numbered' /\ Shape' /\ Doom' /\ Dispatching' /\ Ending'
  <2>1. Typed /\ Shape /\ Dispatching
    BY DEF CacheInv
  <2>2. h[1] \notin Waits \cup {"destroyAll", "release", "enqueue"}
    BY <1>2 DEF Waits
  <2>3. StepsIn(For({"dispatch"}, None)) \in Nat
    BY <1>2, Someone DEF Typed
  <2>4. Dispatches(t)
    BY <1>2 DEF Dispatcher, Dispatches
  <2> HIDE DEF h
  <2>5. Numbered' /\ Shape' /\ Doom' /\ Ending'
    BY <1>2, <1>4, <1>5, <2>2, RestKept DEF h
  <2>6. StepsIn(For({"dispatch"}, None))' = StepsIn(For({"dispatch"}, None)) - One(h \in For({"dispatch"}, None))
    BY <1>2, <1>4, ThenFew DEF h, p
  <2>7. /\ \A u \in Threads \ {t} : todo'[u] = todo[u]
        /\ todo'[t] = <<>> \/ todo'[t][1][1] \notin Firsts
    BY <1>2, <1>4, <1>5, <2>1, NextStep DEF p
  <2>8. \A u \in Threads : ~Dispatches(u)'
    BY <1>4, <1>5, <2>1, <2>4, DispatcherAlone DEF p
  <2>9. \A u \in Threads : ~At(u, "start")' /\ ~At(u, "handled")'
    BY <2>8 DEF At, Dispatches, Dispatcher
  <2>10. StepsIn(For({"dispatch"}, None))' = StepsIn(For({"dispatch"}, None))
    BY <1>2, <2>3, <2>6 DEF For, One
  <2>11. StepsIn(For({"dispatch"}, None))' = 0 => incoming = <<>> /\ Full
    BY <1>1, <2>1, <2>10 DEF Dispatching
  <2>12. Full' <=> Full
    BY <1>4 DEF Full, loadLimit
  <2>13. Dispatching'
    BY <1>4, <2>8, <2>9, <2>11, <2>12 DEF Dispatching
  <2> QED
    BY <2>5, <2>13
<1> QED
  BY <1>6, <1>7, <1>8, <1>9 DEF CacheInv

LEMMA HandledMore ==
  ASSUME CacheInv, NEW t \in Threads, Handled(t), requests # Arg(t)
  PROVE  CacheInv'
<1> DEFINE h == todo[t][1]
           a == <<"dispatchOnce", requests - Arg(t)>>
           p == <<a>>
<1>1. At(t, "handled")
  BY DEF Handled
<1>2. /\ Typed /\ todo[t] # <<>> /\ h \in AllSteps /\ h[1] = "handled" /\ h[2] = Arg(t) /\ h[3] = More(t)
      /\ \A x \in Entries : h \notin Naming(x)
      /\ h[2] \in Nat
  <2>1. /\ Typed /\ todo[t] # <<>> /\ h \in AllSteps /\ h[1] = "handled" /\ h[2] = Arg(t) /\ h[3] = More(t)
        /\ \A x \in Entries : h \notin Naming(x)
    BY <1>1, IdleHead DEF EntryKinds, Counting, Passing, Waits, ForSets
  <2> HIDE DEF h
  <2> QED
    BY <2>1, StepTypes DEF ForNobody, Dispatcher
<1>3. Arg(t) \in 1 .. requests /\ requests \in Nat
  BY <1>1, <1>2 DEF CacheInv, Dispatching, Typed, TypeOK, Dispatches, Dispatcher, Arg
<1>4. /\ a \in AllSteps /\ a[1] = "dispatchOnce" /\ a[2] = requests - Arg(t)
  BY <1>2, <1>3, StepsAre DEF Dispatcher
<1>5. /\ Then(t, p) /\ entry' = entry
      /\ requests' = requests - Arg(t)
      /\ UNCHANGED <<published, fresh, freshCount, allLocks, unused, incoming, queued, running, tasks, reads, replaced, laneQueue, lane, disk, held, calls, gone>>
  BY <1>1, <1>2, <1>3 DEF Handled, mapVars, waitVars, countVars, laneVars, userVars
<1>6. Follows(h, p, Mine(t)') /\ Still(p) /\ p \in Seq(AllSteps)
  <2>1. Apt(h, a)
    BY <1>2, <1>4 DEF Apt, Suits, Lasts, TaskDoneOnLane, Forces, EndOfForce, LaneSteps, Dispatcher, LateSteps
  <2>2. /\ Covered(h, a, Mine(t)')
    BY <1>2, <1>4 DEF Covered, Backs, Passing, Waits, Counting
  <2>3. /\ a[1] \notin {"reload", "unpark"}
        /\ h[1] \in Waits => a[1] \in Waits /\ a[2] = h[2]
        /\ h[1] \in TaskEnds => a[1] \in TaskEnds
        /\ a[1] \notin ForSets \cup {"destroyAll"}
    BY <1>2, <1>4 DEF Waits, TaskEnds, Lasts, Firsts, Dispatcher, ForSets, TaskDoneOnLane
  <2> HIDE DEF h, a
  <2>4. Follows(h, <<a>>, Mine(t)') /\ <<a>> \in Seq(AllSteps)
    BY <1>4, <2>1, <2>2, <2>3, FollowsOne
  <2>5. Still(<<a>>)
    BY <2>3 DEF Still
  <2> QED
    BY <2>4, <2>5
<1>7. Typed'
  <2>1. todo' \in [Threads -> Seq(AllSteps)]
    BY <1>2, <1>5, <1>6, Moved DEF Typed
  <2>2. {freshCount', requests', running', tasks', reads'} \subseteq Nat
    <3>1. {freshCount, requests, running, tasks, reads} \subseteq Nat
      BY <1>2 DEF Typed, TypeOK
    <3> QED
      BY <1>5, <3>1, <1>3
  <2> QED
    BY <1>2, <1>5, <2>1, <2>2 DEF Typed, TypeOK
<1>8. Accounts' /\ Unknown'
  <2>1. \A x \in Entries : \A i \in 1 .. Len(p) : p[i] \notin Naming(x)
    BY <1>4 DEF Naming, Takes, ForSets, Counting, Passing, Waits
  <2>2. \A x \in Entries : Count(Waiting, {x})' = Count(Waiting, {x})
    BY <1>5 DEF Waiting, Count
  <2>3. published' \cup fresh' \subseteq published \cup fresh
    BY <1>5
  <2> HIDE DEF p
  <2>4. \A x \in Entries : todo[t][1] \notin Naming(x)
    BY <1>2
  <2> HIDE DEF h
  <2> QED
    BY <1>2, <1>5, <1>6, <2>1, <2>2, <2>3, <2>4, IdleStep
<1>9. Counters'
  <2>1. Balanced
    <3>1. h[1] \notin TaskSteps /\ \A i \in 1 .. Len(p) : p[i][1] \notin TaskSteps
      BY <1>2, <1>4 DEF TaskSteps
    <3> HIDE DEF p
    <3> QED
      BY <1>2, <1>5, <1>6, <3>1, NoTask
  <2> QED
    BY <1>5, <2>1, CountersKept DEF CacheInv
<1>10. Numbered' /\ Shape' /\ Doom' /\ Dispatching' /\ Ending'
  <2>1. Typed /\ Shape /\ Dispatching
    BY DEF CacheInv
  <2>2. h[1] \notin Waits \cup {"destroyAll", "release", "enqueue"}
    BY <1>2 DEF Waits
  <2>3. StepsIn(For({"dispatch"}, None)) \in Nat
    BY <1>2, Someone DEF Typed
  <2>4. a[1] \in Dispatcher /\ Dispatches(t)
    BY <1>2, <1>4 DEF Dispatcher, Dispatches
  <2> HIDE DEF h, a
  <2>5. Numbered' /\ Shape' /\ Doom' /\ Ending'
    BY <1>2, <1>5, <1>6, <2>2, RestKept DEF h
  <2>6. StepsIn(For({"dispatch"}, None))' = StepsIn(For({"dispatch"}, None)) - One(h \in For({"dispatch"}, None)) + One(a \in For({"dispatch"}, None))
    BY <1>2, <1>4, <1>5, ThenFew DEF h, p
  <2>7. /\ \A u \in Threads \ {t} : todo'[u] = todo[u]
        /\ todo'[t] # <<>> /\ todo'[t][1] = a
    BY <1>2, <1>4, <1>5, <1>6, <2>1, NextStep DEF p
  <2>8. /\ \A u \in Threads : Dispatches(u)' <=> u = t
        /\ todo[t][1][2] \in 1 .. requests /\ requests \in Nat
    BY <1>4, <1>5, <1>6, <2>1, <2>4, DispatcherAlone DEF p
  <2>9. todo'[t][1][2] \in 1 .. requests' /\ requests' \in Nat /\ ~At(t, "start")' /\ ~At(t, "handled")'
    BY <1>4, <1>5, <1>3, <2>7 DEF At
  <2>10. Dispatching'
    BY <2>8, <2>9, OneDispatches
  <2> QED
    BY <2>5, <2>10
<1> QED
  BY <1>7, <1>8, <1>9, <1>10 DEF CacheInv

LEMMA ReplaceNot ==
  ASSUME CacheInv, NEW t \in Threads, Replace(t, FALSE)
  PROVE  CacheInv'
<1>1. PICK e : e = Arg(t) /\ "reload" \in EntryKinds /\ At(t, "reload")
  BY DEF Replace, EntryKinds, Counting, Passing, Waits
<1> DEFINE h == todo[t][1]
           new == entry[e]
           a == <<"release", e>>
           p == <<a>>
<1>2. /\ Typed /\ todo[t] # <<>> /\ h \in AllSteps /\ h[1] = "reload" /\ h[2] = e /\ h[3] = More(t)
      /\ e \in Live /\ e \in Entries
      /\ Me(t) = entry[e] /\ Me(t) \in EntryType /\ Me(t).life = "live"
      /\ CountOk(e) /\ LoadOk(e) /\ QueueOk(e)
      /\ \A K : "reload" \in K => StepsIn(For(K, e)) # 0
      /\ \A x \in Entries \ {e} : h \notin Naming(x)
  BY <1>1, EntryHead DEF More
<1>3. entry[e].count # 0
  BY <1>1, HeadUsed DEF EntryKinds, Counting, Passing, Waits
<1>4. /\ a \in AllSteps /\ a[1] = "release" /\ a[2] = e
  BY <1>2, StepsAre DEF EntryKinds, Counting, Passing, Waits, Ops
<1>5. Then(t, p) /\ entry' = [entry EXCEPT ![e] = new] /\ OnlyEntries
  <2>1. Then(t, p) /\ entry' = [entry EXCEPT ![e].count = @]
        /\ replaced' = replaced /\ UNCHANGED <<mapVars, unused, waitVars, countVars, laneVars, disk, userVars>>
    BY <1>1 DEF Replace
  <2>2. entry' = entry
    BY <1>2, <2>1 DEF Typed, TypeOK
  <2>3. OnlyEntries
    BY <2>1 DEF OnlyEntries
  <2> QED
    BY <1>2, <2>1, <2>2, <2>3 DEF Typed, TypeOK
<1>6. Shifts(e, 0, 0, 0, 0, 0, 0, 0)
  <2>1. /\ Of(h, Counting, e) = 1 /\ Of(h, Loaders, e) = 0 /\ Of(h, Comers, e) = 0 /\ Of(h, Tasking, e) = 0 /\ Of(h, Unparkers, e) = 0 /\ Of(h, PendingKinds, e) = 0 /\ Of(h, {"enqueue"}, e) = 0
        /\ Of(a, Counting, e) = 1 /\ Of(a, Loaders, e) = 0 /\ Of(a, Comers, e) = 0 /\ Of(a, Tasking, e) = 0 /\ Of(a, Unparkers, e) = 0 /\ Of(a, PendingKinds, e) = 0 /\ Of(a, {"enqueue"}, e) = 0
    BY <1>2, <1>4 DEF Of, One, Counting, Loaders, Comers, Tasking, Unparkers, PendingKinds
  <2>2. {h[1], a[1]} \cap ForSets = {}
    BY <1>2, <1>4 DEF ForSets
  <2> HIDE DEF h, a
  <2>3. h = todo[t][1] /\ Then(t, <<a>>)
    BY <1>5 DEF h
  <2> QED
    BY <1>2, <1>4, <2>1, <2>2, <2>3, ShiftOne
<1>7. Follows(h, p, Mine(t)) /\ Calm(p) /\ p \in Seq(AllSteps)
  <2>1. Apt(h, a)
    BY <1>2, <1>4 DEF Apt, Suits, Lasts, TaskDoneOnLane, Forces, EndOfForce, LaneSteps, Dispatcher, LateSteps
  <2>2. /\ Covered(h, a, Mine(t))
    BY <1>2, <1>4 DEF Covered, Backs, Passing, Waits, Counting
  <2>3. /\ a[1] \notin {"reload", "unpark"}
        /\ h[1] \in Waits => a[1] \in Waits /\ a[2] = h[2]
        /\ h[1] \in TaskEnds => a[1] \in TaskEnds
        /\ a[1] \notin Dispatcher \cup ForSets \cup {"destroyAll"}
    BY <1>2, <1>4 DEF Waits, TaskEnds, Lasts, Firsts, Dispatcher, ForSets, TaskDoneOnLane
  <2> HIDE DEF h, a
  <2>4. Follows(h, <<a>>, Mine(t)) /\ Calm(<<a>>) /\ <<a>> \in Seq(AllSteps)
    BY <1>4, <2>1, <2>2, <2>3, FollowsOne
  <2> QED
    BY <2>4
<1>8. /\ \A G : StepsIn(G) \in Nat
      /\ entry[e].count \in Nat /\ entry[e].state \in {"Loading", "Ready", "Failed"}
      /\ Cardinality(Holders(e)) \in Nat /\ Count(Waiting, {e}) \in Nat /\ Count(replaced, {e}) \in Nat
  BY <1>2, Amounts
<1>9. /\ StepsIn(For(Loaders, e)) = StepsIn(For(Unparkers, e)) + StepsIn(For(OtherLoaders, e))
      /\ StepsIn(For(PendingKinds, e)) = StepsIn(For(Unparkers, e)) + StepsIn(For({"parkOrLoad"}, e))
      /\ StepsIn(For(Counting, e)) # 0
  BY <1>2, LoadersAre DEF Counting, Loaders, Comers, Tasking, Unparkers, PendingKinds, OtherLoaders
<1>10. /\ new \in EntryType /\ new.life = "live"
      /\ new.count = entry[e].count
      /\ new.queued = entry[e].queued
      /\ new.parked = entry[e].parked
      /\ new.claimed = entry[e].claimed
      /\ new.state = entry[e].state
      /\ new.pending = entry[e].pending
  BY <1>2
<1> HIDE DEF new, p, h, a
<1>11. Settles(e, new, 0, 0, 0, 0, 0, 0, 0)
  <2>1. Queue(e) \in Nat /\ (~gone => Queue(e) = One(entry[e].queued) /\ (~entry[e].queued => entry[e].count # 0))
    BY <1>2, <1>8 DEF Queue, QueueOk, One
  <2>2. Having(e) + 0 = new.count
    BY <1>2, <1>8, <1>9, <1>10, <1>3 DEF One, CountOk, Having
  <2>3. Loads(e) + 0 + One(new.parked) - One(entry[e].parked) = One(new.state = "Loading" /\ new.claimed)
    BY <1>2, <1>8, <1>9, <1>10, <1>3, SMTT(60) DEF One, LoadOk, Loads
  <2>4. ~new.claimed => new.pending /\ new.state = "Loading" /\ Coming(e) + 0 # 0
    BY <1>2, <1>8, <1>9, <1>10, <1>3 DEF One, LoadOk, Coming
  <2>5. TasksOf(e) + 0 + One(new.parked) - One(entry[e].parked) <= 1
    <3>1. TasksOf(e) \in Int /\ TasksOf(e) <= 1
      BY <1>2, <1>8 DEF LoadOk, TasksOf, One
    <3> QED
      BY <1>2, <1>10, <3>1 DEF One
  <2>6. new.parked \/ StepsIn(For(Unparkers, e)) + 0 # 0 => new.pending
    BY <1>2, <1>8, <1>9, <1>10, <1>3 DEF One, LoadOk, Loads, Unparkers
  <2>7. new.pending => ~new.claimed \/ new.parked \/ StepsIn(For(PendingKinds, e)) + 0 # 0
    BY <1>2, <1>8, <1>9, <1>10, <1>3 DEF One, LoadOk, Loads, PendingKinds
  <2>8. ~gone => Queue(e) + 0 = One(new.queued) /\ (~new.queued => new.count # 0)
    BY <1>2, <1>8, <1>10, <2>1, <1>3 DEF One
  <2> QED
    BY <2>2, <2>3, <2>4, <2>5, <2>6, <2>7, <2>8 DEF Settles
<1>12. NamesOnly(h, p, e) /\ Balanced
  <2>1. Mere(p, e) /\ h[1] \notin TaskSteps
    BY <1>2, <1>4 DEF Mere, p, TaskSteps, EntryKinds, Counting, Passing, Waits
  <2> QED
    BY <1>2, <1>5, <1>7, <2>1, MereSteps DEF h
<1>13. /\ {0} \subseteq Int
       /\ h[1] \notin Dispatcher \cup {"dispatch", "destroyAll"}
       /\ new.count # 0 => entry[e].count # 0 \/ e \in published \cup fresh
       /\ h[1] \notin Waits
       /\ new.state = "Loading" => entry[e].state = "Loading"
  BY <1>2, <1>8, <1>10, <1>3 DEF Dispatcher, Waits
<1> QED
  BY <1>2, <1>5, <1>6, <1>7, <1>10, <1>11, <1>12, <1>13, EntryMoves DEF h

LEMMA SubmitStep ==
  ASSUME CacheInv, NEW t \in Threads, Submit(t)
  PROVE  CacheInv'
<1>1. /\ At(t, "start") /\ queued # <<>> /\ running < loadLimit
      /\ queued' = Tail(queued) /\ running' = running + 1 /\ laneQueue' = Append(laneQueue, Head(queued))
      /\ UNCHANGED <<entry, published, fresh, freshCount, allLocks, unused, incoming, requests, tasks, reads, replaced,
                     todo, lane, disk, held, calls, gone>>
  BY DEF Submit, mapVars, userVars
<1>2. /\ Typed /\ Numbered /\ Shape /\ Accounts /\ Unknown /\ Doom /\ Counters /\ Dispatching /\ Ending
  BY DEF CacheInv
<1>3. ASSUME NEW G PROVE StepsIn(G)' = StepsIn(G) /\ StepsIn(G) \in Nat
  <2>1. StepsIn(G)' = StepsIn(G)
    BY <1>1 DEF StepsIn
  <2>2. StepsIn(G) \in Nat
    BY <1>2, Someone DEF Typed
  <2> QED
    BY <2>1, <2>2
<1>4. /\ incoming \in Seq(Entries) /\ queued \in Seq(Entries) /\ laneQueue \in Seq(Entries)
      /\ Head(queued) = queued[1] /\ queued[1] \in Entries
      /\ Tail(queued) \in Seq(Entries) /\ Len(Tail(queued)) = Len(queued) - 1
      /\ Len(incoming) \in Nat /\ Len(queued) \in Nat /\ Len(laneQueue) \in Nat
  <2>1. /\ incoming \in Seq(Entries) /\ queued \in Seq(Entries) /\ laneQueue \in Seq(Entries)
    BY <1>2 DEF Typed, TypeOK
  <2> QED
    BY <1>1, <2>1, CountTail, LenProperties
<1>5. /\ laneQueue' \in Seq(Entries) /\ Len(laneQueue') = Len(laneQueue) + 1
      /\ queued' \in Seq(Entries) /\ Len(queued') = Len(queued) - 1 /\ incoming' = incoming
      /\ \A G : /\ Count(laneQueue', G) = Count(laneQueue, G) + One(queued[1] \in G)
                /\ Count(queued', G) = Count(queued, G) - One(queued[1] \in G)
                /\ Count(laneQueue, G) \in Nat /\ Count(queued, G) \in Nat /\ Count(incoming, G) \in Nat
                /\ One(queued[1] \in G) \in Nat
  <2>1. laneQueue' = Append(laneQueue, queued[1])
    BY <1>1, <1>4
  <2>2. /\ laneQueue' \in Seq(Entries) /\ Len(laneQueue') = Len(laneQueue) + 1
        /\ \A G : Count(laneQueue', G) = Count(laneQueue, G) + One(queued[1] \in G)
    BY <1>4, <2>1, CountEnds
  <2>3. \A G : Count(queued', G) = Count(queued, G) - One(queued[1] \in G)
    BY <1>1, <1>4, CountTail
  <2> QED
    BY <1>1, <1>4, <2>2, <2>3, CountType DEF One
<1>6. /\ Len(Waiting)' = Len(Waiting) /\ Len(Waiting) \in Nat
      /\ \A G : Count(Waiting, G)' = Count(Waiting, G)
  <2>1. Waiting = incoming \o queued \o laneQueue /\ Waiting' = incoming \o queued' \o laneQueue'
    BY <1>1 DEF Waiting
  <2>2. /\ Len(incoming \o queued \o laneQueue) = Len(incoming) + Len(queued) + Len(laneQueue)
        /\ \A G : Count(incoming \o queued \o laneQueue, G) = Count(incoming, G) + Count(queued, G) + Count(laneQueue, G)
    BY <1>4, ThreeLists
  <2>3. /\ Len(incoming \o queued' \o laneQueue') = Len(incoming) + Len(queued') + Len(laneQueue')
        /\ \A G : Count(incoming \o queued' \o laneQueue', G) = Count(incoming, G) + Count(queued', G) + Count(laneQueue', G)
    BY <1>4, <1>5, ThreeLists, ZenonT(60)
  <2>4. Len(Waiting)' = Len(Waiting) /\ Len(Waiting) \in Nat
    BY <1>4, <1>5, <2>1, <2>2, <2>3
  <2>5. ASSUME NEW G PROVE Count(Waiting, G)' = Count(Waiting, G)
    <3>1. Count(Waiting, G)' = Count(Waiting', G)
      BY DEF Count
    <3>2. Count(Waiting', G) = Count(incoming, G) + Count(queued', G) + Count(laneQueue', G)
      BY <2>1, <2>3
    <3>3. Count(Waiting, G) = Count(incoming, G) + Count(queued, G) + Count(laneQueue, G)
      BY <2>1, <2>2
    <3> QED
      BY <1>5, <3>1, <3>2, <3>3
  <2> QED
    BY <2>4, <2>5
<1>7. Typed'
  <2>1. running \in Nat
    BY <1>2 DEF Typed, TypeOK
  <2>2. {freshCount', requests', running', tasks', reads'} \subseteq Nat
    BY <1>1, <1>2, <2>1 DEF Typed, TypeOK
  <2> QED
    BY <1>1, <1>2, <1>5, <2>2 DEF Typed, TypeOK
<1>8. Numbered' /\ Shape' /\ Doom'
  <2>1. Numbered' /\ Doom'
    BY <1>1, <1>2 DEF Numbered, Doom
  <2>2. \A u \in Threads : todo'[u] = todo[u] /\ Mine(u)' = Mine(u)
    BY <1>1 DEF Mine
  <2>3. Inside("forceLoad")' = Inside("forceLoad")
    BY <1>1 DEF Inside, Steps
  <2>4. \A u \in Threads : At(u, "reload")' => (Me(u).state # "Loading")'
    BY <1>1, <1>2 DEF Shape, At, Me, Arg
  <2>5. ASSUME NEW u \in Threads PROVE Backed(todo'[u], Mine(u)')
    BY <1>2, <2>2 DEF Shape
  <2> QED
    BY <1>2, <2>1, <2>2, <2>3, <2>4, <2>5 DEF Shape, Threads
<1>9. Accounts' /\ Unknown'
  <2>1. ASSUME NEW x \in Entries PROVE Unnamed(x) /\ Spared(x)
    BY <1>1, <1>3, <1>6 DEF Unnamed, Spared, Holders
  <2> QED
    BY <1>2, <2>1, NoneNamed
<1>10. Counters'
  <2>1. /\ running = Len(laneQueue) + StepsIn({TaskDoneOnLane}) /\ (MaxLoads # 0 => running <= MaxLoads)
        /\ tasks = Len(Waiting) + StepsIn(Named(TaskSteps)) + Cardinality(disk)
        /\ reads = StepsIn(Named(ReadSteps)) + Cardinality(disk)
    BY <1>2 DEF Counters, ReadSteps
  <2>2. running \in Nat
    BY <1>2 DEF Typed, TypeOK
  <2>3. MaxLoads # 0 => running' <= MaxLoads
    BY <1>1, <2>2, CacheAssumption DEF loadLimit
  <2>4. running' = Len(laneQueue') + StepsIn({TaskDoneOnLane})'
    BY <1>1, <1>3, <1>4, <1>5, <2>1, <2>2, SMTT(60)
  <2>5. /\ tasks' = Len(Waiting)' + StepsIn(Named(TaskSteps))' + Cardinality(disk)'
        /\ reads' = StepsIn(Named(ReadSteps))' + Cardinality(disk)'
    BY <1>1, <1>3, <1>6, <2>1
  <2> QED
    BY <2>3, <2>4, <2>5 DEF Counters, ReadSteps
<1>11. Dispatching'
  <2>1. Dispatches(t)
    BY <1>1 DEF Dispatches, At, Dispatcher
  <2>2. \A u \in Threads : Dispatches(u)' <=> u = t
    BY <1>1, <1>2, <2>1 DEF Dispatches, Dispatching
  <2>3. todo'[t][1][2] \in 1 .. requests' /\ requests' \in Nat
    BY <1>1, <1>2, <2>1 DEF Dispatching, Typed, TypeOK
  <2>4. ~At(t, "handled")'
    BY <1>1 DEF At
  <2>5. StepsIn(For({"dispatch"}, None))' = 0 => (At(t, "start")' /\ Arg(t)' = requests' => incoming' = <<>>)
    BY <1>1, <1>2, <1>3 DEF Dispatching, At, Arg
  <2> QED
    BY <2>2, <2>3, <2>4, <2>5, OneDispatches
<1>12. Ending'
  BY <1>1, <1>2 DEF Ending
<1> QED
  BY <1>7, <1>8, <1>9, <1>10, <1>11, <1>12 DEF CacheInv

-----------------------------------------------------------------------------
(* collect: the lists of the unused.                                       *)

LEMMA ListStep ==
  ASSUME CacheInv, NEW t \in Threads, todo[t] # <<>>, NEW h, h = todo[t][1], h[1] \in {"takeUnused", "lockAll", "sort"},
         NEW p \in Seq(AllSteps), Then(t, p), Len(p) <= 1, \A i \in 1 .. Len(p) : p[i][1] \in ForSets,
         UNCHANGED <<incoming, queued, requests, running, tasks, reads, laneQueue, lane, disk, held, gone>>,
         \A x \in Entries : entry'[x].state = entry[x].state
  PROVE  /\ Shape' /\ Counters' /\ Dispatching' /\ Ending' /\ ~gone
         /\ todo' \in [Threads -> Seq(AllSteps)]
         /\ \A x \in Entries : Shifts(x, 0, 0, 0, 0, 0, 0, Count(p, Unusing(x)) - One(h \in Unusing(x)))
<1>1. /\ Typed /\ Shape /\ Counters /\ Dispatching /\ Ending
      /\ h \in AllSteps /\ Len(p) \in Nat
  <2>1. Typed /\ Shape /\ Counters /\ Dispatching /\ Ending
    BY DEF CacheInv
  <2> QED
    BY <2>1, EmptySeq DEF Typed
<1>2. ~gone
  <2>1. h[1] \notin LateSteps
    BY DEF LateSteps, LaneSteps, Dispatcher
  <2> QED
    BY <2>1, NotGone DEF At
<1>3. /\ todo' \in [Threads -> Seq(AllSteps)]
      /\ todo'[t] = p \o Tail(todo[t])
      /\ \A u \in Threads \ {t} : todo'[u] = todo[u]
      /\ \A G : StepsIn(G)' = StepsIn(G) - One(h \in G) + Count(p, G)
  BY <1>1, Moved DEF Typed
<1>4. ASSUME NEW i \in 1 .. Len(p)
      PROVE  /\ i = 1 /\ i = Len(p) /\ p[i] \in AllSteps
             /\ p[i][1] \in ForSets /\ p[i][1] \notin Passing \cup Dispatcher \cup {"reload", "unpark", "dispatch"} \cup Lasts
             /\ p[i] # TaskDoneOnLane /\ ~Forces(p[i]) /\ Suits(h, p[i])
  <2>1. i = 1 /\ i = Len(p) /\ p[i] \in AllSteps /\ p[i][1] \in ForSets
    BY <1>1
  <2>2. p[i][1] \in {"lockAll", "sort", "destroy"} /\ TaskDoneOnLane[1] = "taskDone" /\ EndOfForce[1] = "end"
    BY <2>1 DEF ForSets, TaskDoneOnLane, EndOfForce
  <2>3. p[i][1] \notin Passing \cup Dispatcher \cup {"reload", "unpark", "dispatch"} \cup Lasts
    BY <2>2 DEF Passing, Waits, Dispatcher, Lasts
  <2>4. p[i] # TaskDoneOnLane /\ ~Forces(p[i])
    BY <2>2 DEF Forces
  <2>5. Suits(h, p[i])
    BY <2>2 DEF Suits, LaneSteps, LateSteps, Dispatcher
  <2> QED
    BY <2>1, <2>3, <2>4, <2>5
<1>5. Follows(h, p, Mine(t)')
  <2>1. /\ \A i \in 1 .. Len(p) :
            /\ p[i][1] \notin Passing \cup {"reload", "unpark"} \cup Lasts /\ p[i] # TaskDoneOnLane
            /\ ~Forces(p[i]) /\ i = 1
        /\ h[1] \notin Waits \cup TaskEnds
    BY <1>4 DEF Waits, TaskEnds
  <2>2. Fits(h, p, Mine(t)')
    BY <2>1 DEF Fits
  <2> QED
    BY <1>4, <2>1, <2>2 DEF Follows
<1>6. Shape'
  <2>1. /\ held' \in [Users -> SUBSET Entries] /\ \A u \in Users : held[u] \subseteq held'[u]
    BY <1>1 DEF Typed, TypeOK
  <2>2. ASSUME NEW u \in Threads \ {t}, At(u, "reload") PROVE entry'[Arg(u)].state # "Loading"
    <3>1. Arg(u) \in Entries /\ entry[Arg(u)].state # "Loading"
      BY <1>1, <2>2, EntryHead DEF Shape, Me, EntryKinds, Counting
    <3> QED
      BY <3>1
  <2>3. h[1] \notin Waits
    BY DEF Waits
  <2> QED
    BY <1>1, <1>5, <2>1, <2>2, <2>3, ShapeKept
<1>7. ASSUME NEW K, {"takeUnused", "lockAll", "sort", "destroy"} \cap K = {}
      PROVE  StepsIn(Named(K))' = StepsIn(Named(K)) /\ \A x : StepsIn(For(K, x))' = StepsIn(For(K, x))
  <2>1. /\ h \notin Named(K) /\ \A x : h \notin For(K, x)
        /\ \A i \in 1 .. Len(p) : p[i] \notin Named(K) /\ \A x : p[i] \notin For(K, x)
    BY <1>4, <1>7 DEF Named, For, ForSets
  <2>2. Count(p, Named(K)) = 0 /\ \A x : Count(p, For(K, x)) = 0
    BY <2>1, CountType
  <2>3. \A G : StepsIn(G) \in Nat
    BY <1>1, Someone DEF Typed
  <2> QED
    BY <1>3, <2>1, <2>2, <2>3 DEF One
<1>8. Counters'
  <2>1. /\ {"takeUnused", "lockAll", "sort", "destroy"} \cap TaskSteps = {}
        /\ {"takeUnused", "lockAll", "sort", "destroy"} \cap ReadSteps = {}
    BY DEF TaskSteps, ReadSteps
  <2>2. StepsIn({TaskDoneOnLane})' = StepsIn({TaskDoneOnLane})
    <3>1. TaskDoneOnLane[1] = "taskDone"
      BY DEF TaskDoneOnLane
    <3>2. h \notin {TaskDoneOnLane} /\ \A i \in 1 .. Len(p) : p[i] \notin {TaskDoneOnLane}
      BY <1>4, <3>1
    <3>3. Count(p, {TaskDoneOnLane}) = 0
      BY <3>2, CountType
    <3>4. StepsIn({TaskDoneOnLane}) \in Nat
      BY <1>1, Someone DEF Typed
    <3> QED
      BY <1>3, <3>2, <3>3, <3>4 DEF One
  <2>3. Balanced
    BY <1>7, <2>1, <2>2 DEF Balanced
  <2> QED
    BY <1>1, <2>3, CountersKept
<1>9. Dispatching'
  <2>1. StepsIn(For({"dispatch"}, None))' = StepsIn(For({"dispatch"}, None))
    BY <1>7
  <2>2. ~Dispatches(t)
    BY DEF Dispatches, Dispatcher
  <2>3. ~Dispatches(t)'
    <3>1. p # <<>> => todo'[t] # <<>> /\ todo'[t][1] = p[1] /\ 1 \in 1 .. Len(p)
      BY <1>1, NextStep, EmptySeq
    <3>2. p = <<>> => todo'[t] = <<>> \/ todo'[t][1][1] \notin Firsts
      BY <1>1, NextStep
    <3> QED
      BY <1>4, <3>1, <3>2 DEF Dispatches, Firsts
  <2>4. \A u \in Threads : Dispatches(u) \/ Dispatches(u)' => todo[u] # <<>> /\ todo'[u] # <<>> /\ todo'[u][1] = todo[u][1]
    BY <1>3, <2>2, <2>3 DEF Dispatches
  <2>5. Full => Full'
    BY <1>1 DEF Full, loadLimit
  <2> QED
    BY <1>1, <2>1, <2>4, <2>5, DispatchingKept
<1>10. Ending'
  <2>1. \A u \in Threads : \A i \in 1 .. Len(todo[u]) : todo[u][i][1] \notin {"lastReads", "lastTasks", "destroyAll"}
    BY <1>1, <1>2 DEF Ending, Typed
  <2>2. \A i \in 1 .. Len(p) : p[i][1] \notin {"lastReads", "lastTasks", "destroyAll"}
    BY <1>4 DEF Lasts
  <2>3. \A i \in DOMAIN todo'[t] : todo'[t][i][1] \notin {"lastReads", "lastTasks", "destroyAll"}
    <3> SUFFICES ASSUME NEW i \in DOMAIN todo'[t] PROVE todo'[t][i][1] \notin {"lastReads", "lastTasks", "destroyAll"}
      OBVIOUS
    <3>1. todo[t] \in Seq(AllSteps) /\ FirstAndLast(todo[t]) /\ i \in 1 .. Len(p \o Tail(todo[t]))
      BY <1>1, <1>3 DEF Typed, Shape
    <3>2. \/ i \in 1 .. Len(p) /\ (p \o Tail(todo[t]))[i] = p[i]
          \/ \E j \in 2 .. Len(todo[t]) : (p \o Tail(todo[t]))[i] = todo[t][j]
      BY <3>1, Origin, SMTT(60)
    <3>3. todo'[t][i] = (p \o Tail(todo[t]))[i] /\ Len(todo[t]) \in Nat
      BY <1>3, <3>1, LenProperties
    <3>4. CASE i \in 1 .. Len(p) /\ (p \o Tail(todo[t]))[i] = p[i]
      BY <2>2, <3>3, <3>4
    <3>5. CASE \E j \in 2 .. Len(todo[t]) : (p \o Tail(todo[t]))[i] = todo[t][j]
      <4>1. PICK j \in 2 .. Len(todo[t]) : (p \o Tail(todo[t]))[i] = todo[t][j]
        BY <3>5
      <4>2. j \in 1 .. Len(todo[t])
        BY <3>3
      <4> QED
        BY <2>1, <3>3, <4>1, <4>2
    <3> QED
      BY <3>2, <3>4, <3>5
  <2>4. \A u \in Threads : \A i \in DOMAIN todo'[u] : todo'[u][i][1] \notin {"lastReads", "lastTasks", "destroyAll"}
    <3>1. ASSUME NEW u \in Threads \ {t}, NEW i \in DOMAIN todo'[u]
          PROVE  todo'[u][i][1] \notin {"lastReads", "lastTasks", "destroyAll"}
      <4>1. todo'[u] = todo[u] /\ todo[u] \in Seq(AllSteps) /\ i \in 1 .. Len(todo[u])
        BY <1>1, <1>3 DEF Typed
      <4> QED
        BY <2>1, <4>1
    <3> QED
      BY <2>3, <3>1
  <2> QED
    BY <1>2, <2>4 DEF Ending
<1>11. ASSUME NEW x \in Entries PROVE Shifts(x, 0, 0, 0, 0, 0, 0, Count(p, Unusing(x)) - One(h \in Unusing(x)))
  <2> DEFINE S == {"takeUnused", "lockAll", "sort", "destroy"}
  <2>1. S \cap Counting = {} /\ S \cap Loaders = {} /\ S \cap Comers = {} /\ S \cap Tasking = {}
    BY DEF Counting, Loaders, Comers, Tasking
  <2>2. S \cap Unparkers = {} /\ S \cap PendingKinds = {}
    BY DEF Unparkers, PendingKinds
  <2>3. \A G : StepsIn(G) \in Nat
    BY <1>1, Someone DEF Typed
  <2>4. /\ StepsIn(For(Counting, x))' = StepsIn(For(Counting, x)) /\ StepsIn(For(Loaders, x))' = StepsIn(For(Loaders, x))
        /\ StepsIn(For(Comers, x))' = StepsIn(For(Comers, x)) /\ StepsIn(For(Tasking, x))' = StepsIn(For(Tasking, x))
        /\ StepsIn(For(Unparkers, x))' = StepsIn(For(Unparkers, x))
        /\ StepsIn(For(PendingKinds, x))' = StepsIn(For(PendingKinds, x))
    BY <1>7, <2>1, <2>2
  <2>5. StepsIn(Unusing(x))' = StepsIn(Unusing(x)) + (Count(p, Unusing(x)) - One(h \in Unusing(x)))
    <3>1. Count(p, Unusing(x)) \in Nat /\ One(h \in Unusing(x)) \in Nat /\ StepsIn(Unusing(x)) \in Nat
      BY <2>3, CountType DEF One
    <3>2. StepsIn(Unusing(x))' = StepsIn(Unusing(x)) - One(h \in Unusing(x)) + Count(p, Unusing(x))
      BY <1>3
    <3> QED
      BY <3>1, <3>2
  <2> QED
    BY <2>3, <2>4, <2>5 DEF Shifts
<1> QED
  BY <1>2, <1>3, <1>6, <1>8, <1>9, <1>10, <1>11

LEMMA DoomMoved ==
  ASSUME Typed, Shape, Unknown, Doom, NEW t \in Threads, todo[t] # <<>>, NEW p \in Seq(AllSteps), Then(t, p),
         \A i \in 1 .. Len(p) : \A x \in Entries : Dooms(p[i], x) => entry'[x].count = 0 /\ x \notin published' \cup fresh',
         \A x \in Live : entry[x].count = 0 /\ x \notin published \cup fresh
                           => entry'[x].count = 0 /\ x \notin published' \cup fresh'
  PROVE  Doom'
<1>1. /\ todo[t] \in Seq(AllSteps) /\ FirstAndLast(todo[t]) /\ Len(todo[t]) \in Nat
      /\ todo' \in [Threads -> Seq(AllSteps)]
      /\ todo'[t] = p \o Tail(todo[t])
      /\ \A u \in Threads \ {t} : todo'[u] = todo[u]
  BY Moved, LenProperties DEF Typed, Shape
<1>2. ASSUME NEW u \in Threads, NEW i \in DOMAIN todo[u], NEW x \in Entries, Dooms(todo[u][i], x)
      PROVE  entry'[x].count = 0 /\ x \notin published' \cup fresh'
  <2>1. todo[u][i] \in AllSteps
    BY DEF Typed
  <2>2. todo[u][i] \in Naming(x)
    BY <1>2, <2>1 DEF Dooms, Naming, Takes, ForSets
  <2>3. x \in Live
    BY <2>2, Named1
  <2>4. entry[x].count = 0 /\ x \notin published \cup fresh
    BY <1>2 DEF Doom
  <2> QED
    BY <2>3, <2>4
<1>3. ASSUME NEW u \in Threads, NEW i \in DOMAIN todo'[u], NEW x \in Entries, Dooms(todo'[u][i], x)
      PROVE  entry'[x].count = 0 /\ x \notin published' \cup fresh'
  <2>1. CASE u # t
    BY <1>1, <1>2, <1>3, <2>1
  <2>2. CASE u = t
    <3>1. i \in 1 .. Len(p \o Tail(todo[t])) /\ todo'[t][i] = (p \o Tail(todo[t]))[i]
      BY <1>1, <2>2
    <3>2. \/ i \in 1 .. Len(p) /\ (p \o Tail(todo[t]))[i] = p[i]
          \/ \E j \in 2 .. Len(todo[t]) : (p \o Tail(todo[t]))[i] = todo[t][j]
      <4>1. todo[t] \in Seq(AllSteps) /\ FirstAndLast(todo[t]) /\ i \in 1 .. Len(p \o Tail(todo[t]))
        BY <1>1, <3>1
      <4>2. \/ i \in 1 .. Len(p) /\ (p \o Tail(todo[t]))[i] = p[i]
            \/ \E j \in 2 .. Len(todo[t]) : /\ i = j + Len(p) - 1 /\ (p \o Tail(todo[t]))[i] = todo[t][j]
                                            /\ todo[t][j][1] \notin Firsts
                                            /\ todo[t][1][1] \notin Lasts
        BY <4>1, Origin, Zenon
      <4> QED
        BY <4>2, Zenon
    <3>3. CASE i \in 1 .. Len(p) /\ (p \o Tail(todo[t]))[i] = p[i]
      BY <1>3, <2>2, <3>1, <3>3
    <3>4. CASE \E j \in 2 .. Len(todo[t]) : (p \o Tail(todo[t]))[i] = todo[t][j]
      <4>1. PICK j \in 2 .. Len(todo[t]) : (p \o Tail(todo[t]))[i] = todo[t][j]
        BY <3>4
      <4>2. j \in DOMAIN todo[t] /\ Dooms(todo[t][j], x)
        BY <1>1, <1>3, <2>2, <3>1, <4>1, SMTT(60)
      <4> QED
        BY <1>2, <4>2
    <3> QED
      BY <3>2, <3>3, <3>4
  <2> QED
    BY <2>1, <2>2
<1> QED
  BY <1>3 DEF Doom

\* An entry that is not there.
LEMMA OutsideKept ==
  ASSUME CacheInv, NEW t \in Threads, todo[t] # <<>>, NEW p \in Seq(AllSteps), Then(t, p),
         NEW x \in Entries, x \notin Live, \A i \in 1 .. Len(p) : p[i] \notin Naming(x), entry'[x] = entry[x],
         Holders(x)' = Holders(x), Count(Waiting, {x})' = Count(Waiting, {x}), Count(replaced, {x})' = Count(replaced, {x}),
         gone => gone', x \notin published' \cup fresh' \cup unused' \cup disk'
  PROVE  Unnamed(x) /\ Spared(x)
<1>1. Typed /\ Unknown
  BY DEF CacheInv
<1>2. todo[t] \in Seq(AllSteps) /\ 1 \in DOMAIN todo[t]
  BY <1>1, EmptySeq, LenProperties DEF Typed
<1>3. todo[t][1] \notin Naming(x)
  BY <1>1, <1>2, Named1
<1>4. Unnamed(x)
  BY <1>1, <1>3, NotNamed
<1> QED
  BY <1>1, <1>4 DEF Spared, Unknown

LEMMA ListKeeps ==
  ASSUME Typed, Typed', NEW x \in Entries, entry'[x] = entry[x], NEW q \in Int, Shifts(x, 0, 0, 0, 0, 0, 0, q),
         UNCHANGED <<incoming, queued, laneQueue, replaced, disk, held, gone>>,
         NEW f \in Int, One(x \in unused') = One(x \in unused) + f, ~gone => q + f = 0
  PROVE  Keeps(x)
<1>1. /\ Cardinality(Holders(x)) = Cardinality(Holders(x)) + 0
      /\ Count(Waiting, {x}) = Count(Waiting, {x}) + 0 /\ Count(replaced, {x}) = Count(replaced, {x}) + 0
      /\ One(x \in disk) = One(x \in disk) + 0
  BY Zeros
<1>2. Holders(x)' = Holders(x) /\ Waiting' = Waiting
  BY DEF Holders, Waiting
<1>3. /\ Cardinality(Holders(x))' = Cardinality(Holders(x)) + 0
      /\ Count(Waiting, {x})' = Count(Waiting, {x}) + 0 /\ Count(replaced, {x})' = Count(replaced, {x}) + 0
      /\ One(x \in disk') = One(x \in disk) + 0
  BY <1>1, <1>2
<1>4. {0} \subseteq Int /\ (~gone' => ~gone /\ q + f = 0)
  OBVIOUS
<1> QED
  BY <1>3, <1>4, Handing

LEMMA TakeUnusedStep ==
  ASSUME CacheInv, NEW t \in Threads, TakeUnused(t)
  PROVE  CacheInv'
<1> DEFINE h == todo[t][1]
           list == {e \in unused : OwnerOf[entry[e].key] = Arg(t)}
           a == <<"lockAll", list>>
           p == IF list = {} THEN <<>> ELSE <<a>>
<1>1. /\ At(t, "takeUnused") /\ Then(t, p) /\ unused' = unused \ list
      /\ UNCHANGED <<entry, published, fresh, freshCount, allLocks, incoming, queued, requests, running, tasks, reads,
                     replaced, laneQueue, lane, disk, held, calls, gone>>
  BY DEF TakeUnused, mapVars, waitVars, countVars, laneVars, userVars
<1>2. /\ Typed /\ todo[t] # <<>> /\ h \in AllSteps /\ h[1] = "takeUnused"
      /\ \A x \in Entries : h \notin Naming(x)
  BY <1>1, IdleHead DEF EntryKinds, Counting, Passing, Waits, ForSets
<1>3. list \subseteq unused /\ list \in SUBSET Entries
  BY <1>2 DEF Typed, TypeOK
<1> HIDE DEF list
<1>4. a \in AllSteps /\ a[1] = "lockAll" /\ a[2] = list
  BY <1>3, StepsAre
<1>5. /\ p \in Seq(AllSteps) /\ Len(p) <= 1
      /\ \A i \in 1 .. Len(p) : p[i] = a
      /\ \A x \in Entries : Count(p, Unusing(x)) = One(x \in list)
  <2>1. CASE list = {}
    <3>1. p = <<>> /\ \A x \in Entries : Count(<<>>, Unusing(x)) = 0
      BY <2>1, CountShort
    <3> QED
      BY <2>1, <3>1 DEF One
  <2>2. CASE list # {}
    <3>1. p = <<a>>
      BY <2>2
    <3>2. ASSUME NEW x \in Entries PROVE One(a \in Unusing(x)) = One(x \in list)
      BY <1>4 DEF Unusing, Takes, ForSets
    <3> HIDE DEF a
    <3>3. \A x \in Entries : Count(<<a>>, Unusing(x)) = One(x \in list)
      BY <3>2, CountShort
    <3> HIDE DEF p
    <3> QED
      BY <1>4, <3>1, <3>3
  <2> QED
    BY <2>1, <2>2
<1> HIDE DEF a, p
<1>6. /\ Shape' /\ Counters' /\ Dispatching' /\ Ending' /\ ~gone
      /\ todo' \in [Threads -> Seq(AllSteps)]
      /\ \A x \in Entries : Shifts(x, 0, 0, 0, 0, 0, 0, Count(p, Unusing(x)) - One(h \in Unusing(x)))
  <2>1. /\ h[1] \in {"takeUnused", "lockAll", "sort"}
        /\ \A i \in 1 .. Len(p) : p[i][1] \in ForSets
    BY <1>2, <1>4, <1>5 DEF ForSets
  <2> QED
    BY <1>1, <1>2, <1>5, <2>1, ListStep
<1>7. Typed'
  BY <1>1, <1>2, <1>6 DEF Typed, TypeOK
<1>8. Accounts' /\ Unknown'
  <2>1. ASSUME NEW x \in Live PROVE Keeps(x)
    <3>1. x \in Entries /\ One(x \in list) \in Int /\ 0 - One(x \in list) \in Int
      BY DEF Live, One
    <3>2. h \notin Unusing(x)
      BY <1>2 DEF Unusing, Takes, ForSets
    <3>3. Shifts(x, 0, 0, 0, 0, 0, 0, One(x \in list))
      <4>1. Count(p, Unusing(x)) - One(h \in Unusing(x)) = One(x \in list)
        BY <1>5, <3>1, <3>2 DEF One
      <4>2. Shifts(x, 0, 0, 0, 0, 0, 0, Count(p, Unusing(x)) - One(h \in Unusing(x)))
        BY <1>6, <3>1
      <4> QED
        BY <4>1, <4>2
    <3>4. One(x \in unused') = One(x \in unused) + (0 - One(x \in list))
      BY <1>1, <1>3 DEF One
    <3>5. ~gone => One(x \in list) + (0 - One(x \in list)) = 0
      BY <3>1
    <3> QED
      BY <1>1, <1>2, <1>7, <3>1, <3>3, <3>4, <3>5, ListKeeps
  <2>2. ASSUME NEW x \in Entries \ Live PROVE Unnamed(x) /\ Spared(x)
    <3>1. x \notin published \cup fresh \cup unused \cup disk
      BY DEF CacheInv, Unknown
    <3>2. a \notin Naming(x)
      BY <1>3, <1>4, <3>1 DEF Naming, Takes, Counting, Passing, Waits
    <3>3. \A i \in 1 .. Len(p) : p[i] \notin Naming(x)
      BY <1>5, <3>2
    <3>4. Holders(x)' = Holders(x) /\ Count(Waiting, {x})' = Count(Waiting, {x}) /\ Count(replaced, {x})' = Count(replaced, {x})
      BY <1>1 DEF Holders, Waiting
    <3> QED
      BY <1>1, <1>2, <1>5, <3>1, <3>3, <3>4, OutsideKept
  <2> QED
    BY <2>1, <2>2, AllKept DEF CacheInv
<1>9. Numbered' /\ Doom'
  <2>1. Numbered'
    BY <1>1 DEF CacheInv, Numbered
  <2>2. \A i \in 1 .. Len(p) : \A x \in Entries : ~Dooms(p[i], x)
    BY <1>4, <1>5 DEF Dooms
  <2>3. Doom'
    BY <1>1, <1>2, <1>5, <2>2, DoomMoved DEF CacheInv
  <2> QED
    BY <2>1, <2>3
<1> QED
  BY <1>6, <1>7, <1>8, <1>9 DEF CacheInv

LEMMA LockAllStep ==
  ASSUME CacheInv, NEW t \in Threads, LockAll(t)
  PROVE  CacheInv'
<1> DEFINE h == todo[t][1]
           a == <<"sort", Arg(t), {}>>
           p == <<a>>
<1>1. /\ At(t, "lockAll") /\ Then(t, p) /\ allLocks' = t
      /\ UNCHANGED <<entry, published, fresh, freshCount, unused, incoming, queued, requests, running, tasks, reads,
                     replaced, laneQueue, lane, disk, held, calls, gone>>
  BY DEF LockAll, mapVars, waitVars, countVars, laneVars, userVars
<1>2. /\ Typed /\ todo[t] # <<>> /\ h \in AllSteps /\ h[1] = "lockAll" /\ h[2] = Arg(t) /\ h[3] = More(t)
      /\ 1 \in DOMAIN todo[t]
  BY <1>1, IdleHead, LenProperties, EmptySeq
<1>3. Arg(t) \in SUBSET Entries
  BY <1>2, StepTypes
<1>4. a \in AllSteps /\ a[1] = "sort" /\ a[2] = Arg(t) /\ a[3] = {}
  BY <1>3, StepsAre
<1>5. /\ p \in Seq(AllSteps) /\ Len(p) <= 1 /\ Len(p) = 1 /\ p[1] = a /\ \A i \in 1 .. Len(p) : p[i] = a
  BY <1>4
<1>6. \A x \in Entries : /\ a \in Unusing(x) <=> h \in Unusing(x)
                         /\ a \in Naming(x) <=> h \in Naming(x)
  BY <1>1, <1>2, <1>4 DEF Unusing, Naming, Takes, ForSets, Counting, Passing, Waits
<1>7. \A G : Count(p, G) = One(a \in G)
  BY CountShort
<1> HIDE DEF h, a, p
<1>8. /\ Shape' /\ Counters' /\ Dispatching' /\ Ending' /\ ~gone
      /\ todo' \in [Threads -> Seq(AllSteps)]
      /\ \A x \in Entries : Shifts(x, 0, 0, 0, 0, 0, 0, Count(p, Unusing(x)) - One(h \in Unusing(x)))
  <2>1. /\ h[1] \in {"takeUnused", "lockAll", "sort"}
        /\ \A i \in 1 .. Len(p) : p[i][1] \in ForSets
    BY <1>2, <1>4, <1>5 DEF ForSets
  <2>2. h = todo[t][1]
    BY DEF h
  <2> QED
    BY <1>1, <1>2, <1>5, <2>1, <2>2, ListStep
<1>9. Typed'
  BY <1>1, <1>2, <1>8 DEF Typed, TypeOK
<1>10. Accounts' /\ Unknown'
  <2>1. ASSUME NEW x \in Live PROVE Keeps(x)
    <3>1. x \in Entries /\ One(x \in unused) = One(x \in unused) + 0
      BY DEF Live, One
    <3>2. Shifts(x, 0, 0, 0, 0, 0, 0, 0)
      <4>1. Count(p, Unusing(x)) - One(h \in Unusing(x)) = 0
        BY <1>6, <1>7, <3>1 DEF One
      <4>2. Shifts(x, 0, 0, 0, 0, 0, 0, Count(p, Unusing(x)) - One(h \in Unusing(x)))
        BY <1>8, <3>1
      <4> QED
        BY <4>1, <4>2
    <3>3. One(x \in unused') = One(x \in unused) + 0 /\ 0 \in Int /\ (~gone => 0 + 0 = 0)
      BY <1>1, <3>1
    <3> QED
      BY <1>1, <1>2, <1>9, <3>1, <3>2, <3>3, ListKeeps
  <2>2. ASSUME NEW x \in Entries \ Live PROVE Unnamed(x) /\ Spared(x)
    <3>1. x \notin published \cup fresh \cup unused \cup disk
      BY DEF CacheInv, Unknown
    <3>2. h \notin Naming(x)
      BY <1>2, Named1 DEF CacheInv, h
    <3>3. \A i \in 1 .. Len(p) : p[i] \notin Naming(x)
      BY <1>5, <1>6, <3>2
    <3>4. Holders(x)' = Holders(x) /\ Count(Waiting, {x})' = Count(Waiting, {x}) /\ Count(replaced, {x})' = Count(replaced, {x})
      BY <1>1 DEF Holders, Waiting
    <3> QED
      BY <1>1, <1>2, <1>5, <3>1, <3>3, <3>4, OutsideKept
  <2> QED
    BY <2>1, <2>2, AllKept DEF CacheInv
<1>11. Numbered' /\ Doom'
  <2>1. Numbered'
    BY <1>1 DEF CacheInv, Numbered
  <2>2. ASSUME NEW i \in 1 .. Len(p), NEW x \in Entries, Dooms(p[i], x) PROVE entry'[x].count = 0 /\ x \notin published' \cup fresh'
    BY <1>4, <1>5, <2>2 DEF Dooms
  <2>3. Doom'
    BY <1>1, <1>2, <1>5, <2>2, DoomMoved DEF CacheInv
  <2> QED
    BY <2>1, <2>3
<1> QED
  BY <1>8, <1>9, <1>10, <1>11 DEF CacheInv

LEMMA SortedStep ==
  ASSUME CacheInv, NEW t \in Threads, Sorted(t)
  PROVE  CacheInv'
<1> DEFINE h == todo[t][1]
           a == <<"destroy", More(t)>>
           p == <<a>>
<1>1. /\ At(t, "sort") /\ Then(t, p) /\ allLocks' = None /\ Arg(t) = {}
      /\ UNCHANGED <<entry, published, fresh, freshCount, unused, incoming, queued, requests, running, tasks, reads,
                     replaced, laneQueue, lane, disk, held, calls, gone>>
  BY DEF Sorted, mapVars, waitVars, countVars, laneVars, userVars
<1>2. /\ Typed /\ todo[t] # <<>> /\ h \in AllSteps /\ h[1] = "sort" /\ h[2] = Arg(t) /\ h[3] = More(t)
      /\ 1 \in DOMAIN todo[t]
  BY <1>1, IdleHead, LenProperties, EmptySeq
<1>3. More(t) \in SUBSET Entries
  BY <1>2, StepTypes
<1>4. a \in AllSteps /\ a[1] = "destroy" /\ a[2] = More(t)
  BY <1>3, StepsAre
<1>5. /\ p \in Seq(AllSteps) /\ Len(p) <= 1 /\ Len(p) = 1 /\ p[1] = a /\ \A i \in 1 .. Len(p) : p[i] = a
  BY <1>4
<1>6. \A x \in Entries : /\ a \in Unusing(x) <=> h \in Unusing(x)
                         /\ a \in Naming(x) <=> h \in Naming(x)
  BY <1>1, <1>2, <1>4 DEF Unusing, Naming, Takes, ForSets, Counting, Passing, Waits
<1>7. \A G : Count(p, G) = One(a \in G)
  BY CountShort
<1> HIDE DEF h, a, p
<1>8. /\ Shape' /\ Counters' /\ Dispatching' /\ Ending' /\ ~gone
      /\ todo' \in [Threads -> Seq(AllSteps)]
      /\ \A x \in Entries : Shifts(x, 0, 0, 0, 0, 0, 0, Count(p, Unusing(x)) - One(h \in Unusing(x)))
  <2>1. /\ h[1] \in {"takeUnused", "lockAll", "sort"}
        /\ \A i \in 1 .. Len(p) : p[i][1] \in ForSets
    BY <1>2, <1>4, <1>5 DEF ForSets
  <2>2. h = todo[t][1]
    BY DEF h
  <2> QED
    BY <1>1, <1>2, <1>5, <2>1, <2>2, ListStep
<1>9. Typed'
  BY <1>1, <1>2, <1>8 DEF Typed, TypeOK
<1>10. Accounts' /\ Unknown'
  <2>1. ASSUME NEW x \in Live PROVE Keeps(x)
    <3>1. x \in Entries /\ One(x \in unused) = One(x \in unused) + 0
      BY DEF Live, One
    <3>2. Shifts(x, 0, 0, 0, 0, 0, 0, 0)
      <4>1. Count(p, Unusing(x)) - One(h \in Unusing(x)) = 0
        BY <1>6, <1>7, <3>1 DEF One
      <4>2. Shifts(x, 0, 0, 0, 0, 0, 0, Count(p, Unusing(x)) - One(h \in Unusing(x)))
        BY <1>8, <3>1
      <4> QED
        BY <4>1, <4>2
    <3>3. One(x \in unused') = One(x \in unused) + 0 /\ 0 \in Int /\ (~gone => 0 + 0 = 0)
      BY <1>1, <3>1
    <3> QED
      BY <1>1, <1>2, <1>9, <3>1, <3>2, <3>3, ListKeeps
  <2>2. ASSUME NEW x \in Entries \ Live PROVE Unnamed(x) /\ Spared(x)
    <3>1. x \notin published \cup fresh \cup unused \cup disk
      BY DEF CacheInv, Unknown
    <3>2. h \notin Naming(x)
      BY <1>2, Named1 DEF CacheInv, h
    <3>3. \A i \in 1 .. Len(p) : p[i] \notin Naming(x)
      BY <1>5, <1>6, <3>2
    <3>4. Holders(x)' = Holders(x) /\ Count(Waiting, {x})' = Count(Waiting, {x}) /\ Count(replaced, {x})' = Count(replaced, {x})
      BY <1>1 DEF Holders, Waiting
    <3> QED
      BY <1>1, <1>2, <1>5, <3>1, <3>3, <3>4, OutsideKept
  <2> QED
    BY <2>1, <2>2, AllKept DEF CacheInv
<1>11. Numbered' /\ Doom'
  <2>1. Numbered'
    BY <1>1 DEF CacheInv, Numbered
  <2>2. ASSUME NEW i \in 1 .. Len(p), NEW x \in Entries, Dooms(p[i], x) PROVE entry'[x].count = 0 /\ x \notin published' \cup fresh'
    <3>1. Dooms(h, x)
      BY <1>2, <1>4, <1>5, <2>2 DEF Dooms
    <3> QED
      BY <1>1, <1>2, <3>1 DEF CacheInv, Doom, h
  <2>3. Doom'
    BY <1>1, <1>2, <1>5, <2>2, DoomMoved DEF CacheInv
  <2> QED
    BY <2>1, <2>3
<1> QED
  BY <1>8, <1>9, <1>10, <1>11 DEF CacheInv

\* One entry changes, for the others the numbers are as they were.
LEMMA OneOther ==
  ASSUME Accounts, Unknown, NEW e \in Live, \A x \in Live \ {e} : Keeps(x),
         \A x \in Entries \ Live : Unnamed(x) /\ Spared(x),
         entry'[e].life = "live", CountOk(e)', LoadOk(e)', QueueOk(e)'
  PROVE  Accounts' /\ Unknown'
<1>1. \A x \in Entries : x \in Live' <=> x \in Live
  BY KeptAccounts, SparedKept DEF Live
<1>2. Accounts'
  <2> SUFFICES ASSUME NEW x \in Live' PROVE (CountOk(x) /\ LoadOk(x) /\ QueueOk(x))'
    BY DEF Accounts
  <2>1. x \in Entries
    BY DEF Live
  <2>2. x \in Live /\ CountOk(x) /\ LoadOk(x) /\ QueueOk(x)
    BY <1>1, <2>1 DEF Accounts
  <2>3. CASE x = e
    BY <2>3
  <2>4. CASE x # e
    BY <2>1, <2>2, <2>4, KeptAccounts
  <2> QED
    BY <2>3, <2>4
<1>3. Unknown'
  <2> SUFFICES ASSUME NEW x \in Entries, x \notin Live'
               PROVE  /\ x \notin published' \cup fresh' \cup unused' \cup disk'
                      /\ Holders(x)' = {}
                      /\ Count(Waiting, {x})' = 0 /\ Count(replaced, {x})' = 0 /\ StepsIn(Naming(x))' = 0
                      /\ entry'[x].life = "freed" => ~entry'[x].pending
    BY DEF Unknown
  <2>1. x \notin Live /\ Unnamed(x) /\ Spared(x)
    BY <1>1
  <2>2. StepsIn(Naming(x))' = StepsIn(Naming(x))
    BY <2>1, SparedKept
  <2> QED
    BY <2>1, <2>2 DEF Unknown, Spared
<1> QED
  BY <1>2, <1>3

SortsOne(t, e, dead) ==
  /\ At(t, "sort") /\ e \in Arg(t)
  /\ Then(t, <<<<"sort", Arg(t) \ {e}, dead>>>>)
  /\ UNCHANGED <<freshCount, allLocks, unused, incoming, queued, requests, running, tasks, reads,
                 replaced, laneQueue, lane, disk, held, calls, gone>>

LEMMA SortHead ==
  ASSUME CacheInv, NEW t \in Threads, At(t, "sort")
  PROVE  /\ Typed /\ todo[t] # <<>> /\ todo[t][1] \in AllSteps /\ todo[t][1][1] = "sort"
         /\ todo[t][1][2] = Arg(t) /\ todo[t][1][3] = More(t) /\ 1 \in DOMAIN todo[t]
         /\ Arg(t) \in SUBSET Entries /\ More(t) \in SUBSET Entries
         /\ \A x \in Entries : (x \in Arg(t) \/ x \in More(t)) <=> todo[t][1] \in Unusing(x)
         /\ \A x \in Entries : (x \in Arg(t) \/ x \in More(t)) <=> todo[t][1] \in Naming(x)
         /\ \A x \in Arg(t) \cup More(t) : x \in Live
         /\ \A x \in More(t) : entry[x].count = 0 /\ x \notin published \cup fresh
<1>1. /\ Typed /\ todo[t] # <<>> /\ todo[t][1] \in AllSteps /\ todo[t][1][1] = "sort"
      /\ todo[t][1][2] = Arg(t) /\ todo[t][1][3] = More(t) /\ 1 \in DOMAIN todo[t]
  BY IdleHead, LenProperties, EmptySeq
<1>2. Arg(t) \in SUBSET Entries /\ More(t) \in SUBSET Entries
  BY <1>1, StepTypes
<1>3. ASSUME NEW x \in Entries
      PROVE  /\ (x \in Arg(t) \/ x \in More(t)) <=> todo[t][1] \in Unusing(x)
             /\ (x \in Arg(t) \/ x \in More(t)) <=> todo[t][1] \in Naming(x)
  BY <1>1 DEF Unusing, Naming, Takes, ForSets, Counting, Passing, Waits
<1>4. \A x \in Arg(t) \cup More(t) : x \in Live
  <2>1. Unknown
    BY DEF CacheInv
  <2> QED
    BY <1>1, <1>2, <1>3, <2>1, Named1
<1>5. \A x \in More(t) : entry[x].count = 0 /\ x \notin published \cup fresh
  BY <1>1, <1>2 DEF CacheInv, Doom, Dooms
<1> QED
  BY <1>1, <1>2, <1>3, <1>4, <1>5

\* What every step of the sorting leaves as it is, and how the entries that
\* are sorted change.
LEMMA SortMoves ==
  ASSUME CacheInv, NEW t \in Threads, NEW e, NEW dead \in SUBSET Entries, SortsOne(t, e, dead),
         dead \subseteq More(t) \cup {e}, More(t) \subseteq dead,
         entry' \in [Entries -> EntryType], \A x \in Entries \ {e} : entry'[x] = entry[x],
         entry'[e].state = entry[e].state, entry'[e].life = entry[e].life, entry'[e].count = entry[e].count,
         published' \subseteq published, fresh' \subseteq fresh,
         e \in dead => entry'[e].count = 0 /\ e \notin published' \cup fresh'
  PROVE  /\ e \in Live /\ Typed' /\ Numbered' /\ Shape' /\ Doom' /\ Counters' /\ Dispatching' /\ Ending' /\ ~gone
         /\ \A x \in Entries \ {e} : Shifts(x, 0, 0, 0, 0, 0, 0, 0)
         /\ \A x \in Live \ {e} : Keeps(x)
         /\ Shifts(e, 0, 0, 0, 0, 0, 0, One(e \in dead) - 1)
         /\ \A x \in Entries \ Live : Unnamed(x) /\ Spared(x)
<1> DEFINE h == todo[t][1]
           a == <<"sort", Arg(t) \ {e}, dead>>
           p == <<a>>
<1>1. /\ At(t, "sort") /\ Then(t, p) /\ e \in Arg(t)
      /\ UNCHANGED <<freshCount, allLocks, unused, incoming, queued, requests, running, tasks, reads,
                     replaced, laneQueue, lane, disk, held, calls, gone>>
  BY DEF SortsOne
<1>2. /\ Typed /\ todo[t] # <<>> /\ h \in AllSteps /\ h[1] = "sort" /\ 1 \in DOMAIN todo[t]
      /\ Arg(t) \in SUBSET Entries /\ More(t) \in SUBSET Entries
      /\ \A x \in Entries : (x \in Arg(t) \/ x \in More(t)) <=> h \in Unusing(x)
      /\ \A x \in Entries : (x \in Arg(t) \/ x \in More(t)) <=> h \in Naming(x)
      /\ \A x \in Arg(t) \cup More(t) : x \in Live
      /\ \A x \in More(t) : entry[x].count = 0 /\ x \notin published \cup fresh
  BY <1>1, SortHead
<1>3. e \in Live /\ e \in Entries /\ Arg(t) \ {e} \in SUBSET Entries
  BY <1>1, <1>2
<1>4. a \in AllSteps /\ a[1] = "sort" /\ a[2] = Arg(t) \ {e} /\ a[3] = dead
  BY <1>3, StepsAre
<1>5. /\ p \in Seq(AllSteps) /\ Len(p) <= 1 /\ Len(p) = 1 /\ p[1] = a /\ \A i \in 1 .. Len(p) : p[i] = a
  BY <1>4
<1>6. /\ \A x \in Entries : a \in Unusing(x) <=> x \in (Arg(t) \ {e}) \cup dead
      /\ \A x \in Entries : a \in Naming(x) <=> x \in (Arg(t) \ {e}) \cup dead
  BY <1>4 DEF Unusing, Naming, Takes, ForSets, Counting, Passing, Waits
<1>7. \A G : Count(p, G) = One(a \in G)
  BY CountShort
<1> HIDE DEF h, a, p
<1>8. /\ Shape' /\ Counters' /\ Dispatching' /\ Ending' /\ ~gone
      /\ todo' \in [Threads -> Seq(AllSteps)]
      /\ \A x \in Entries : Shifts(x, 0, 0, 0, 0, 0, 0, Count(p, Unusing(x)) - One(h \in Unusing(x)))
  <2>1. /\ h[1] \in {"takeUnused", "lockAll", "sort"}
        /\ \A i \in 1 .. Len(p) : p[i][1] \in ForSets
    BY <1>2, <1>4, <1>5 DEF ForSets
  <2>2. h = todo[t][1]
    BY DEF h
  <2>3. \A x \in Entries : entry'[x].state = entry[x].state
    BY <1>3
  <2> QED
    BY <1>1, <1>2, <1>5, <2>1, <2>2, <2>3, ListStep
<1>9. Typed'
  BY <1>1, <1>2, <1>8 DEF Typed, TypeOK, EntryType
<1>10. \A x \in Entries \ {e} : Shifts(x, 0, 0, 0, 0, 0, 0, 0)
  <2>1. ASSUME NEW x \in Entries \ {e} PROVE Shifts(x, 0, 0, 0, 0, 0, 0, 0)
    <3>1. Count(p, Unusing(x)) - One(h \in Unusing(x)) = 0
      BY <1>2, <1>6, <1>7 DEF One
    <3>2. Shifts(x, 0, 0, 0, 0, 0, 0, Count(p, Unusing(x)) - One(h \in Unusing(x)))
      BY <1>8
    <3> QED
      BY <3>1, <3>2
  <2> QED
    BY <2>1
<1>11. Shifts(e, 0, 0, 0, 0, 0, 0, One(e \in dead) - 1)
  <2>1. Count(p, Unusing(e)) - One(h \in Unusing(e)) = One(e \in dead) - 1
    BY <1>1, <1>2, <1>3, <1>6, <1>7 DEF One
  <2>2. Shifts(e, 0, 0, 0, 0, 0, 0, Count(p, Unusing(e)) - One(h \in Unusing(e)))
    BY <1>3, <1>8
  <2> QED
    BY <2>1, <2>2
<1>12. ASSUME NEW x \in Live \ {e} PROVE Keeps(x)
  <2>1. x \in Entries /\ One(x \in unused) = One(x \in unused) + 0
    BY DEF Live, One
  <2>2. One(x \in unused') = One(x \in unused) + 0 /\ 0 \in Int /\ (~gone => 0 + 0 = 0)
    BY <1>1, <2>1
  <2>3. Shifts(x, 0, 0, 0, 0, 0, 0, 0) /\ entry'[x] = entry[x]
    BY <1>10, <2>1
  <2> QED
    BY <1>1, <1>2, <1>9, <2>1, <2>2, <2>3, ListKeeps
<1>13. ASSUME NEW x \in Entries \ Live PROVE Unnamed(x) /\ Spared(x)
  <2>1. x \notin published \cup fresh \cup unused \cup disk
    BY DEF CacheInv, Unknown
  <2>2. x # e /\ x \notin Arg(t) \cup More(t)
    BY <1>1, <1>2
  <2>3. \A i \in 1 .. Len(p) : p[i] \notin Naming(x)
    BY <1>5, <1>6, <2>2
  <2>4. Holders(x)' = Holders(x) /\ Count(Waiting, {x})' = Count(Waiting, {x}) /\ Count(replaced, {x})' = Count(replaced, {x})
    BY <1>1 DEF Holders, Waiting
  <2> QED
    BY <1>1, <1>2, <1>5, <2>1, <2>2, <2>3, <2>4, OutsideKept
<1>14. Numbered'
  <2>1. \A x \in Entries : entry'[x].life = entry[x].life
    BY <1>3
  <2> QED
    BY <2>1 DEF CacheInv, Numbered
<1>15. Doom'
  <2>1. ASSUME NEW i \in 1 .. Len(p), NEW x \in Entries, Dooms(p[i], x) PROVE entry'[x].count = 0 /\ x \notin published' \cup fresh'
    <3>1. x \in dead
      BY <1>4, <1>5, <2>1 DEF Dooms
    <3>2. x # e => x \in More(t)
      BY <3>1
    <3> QED
      BY <1>2, <3>1, <3>2
  <2>2. \A x \in Live : entry[x].count = 0 /\ x \notin published \cup fresh
                          => entry'[x].count = 0 /\ x \notin published' \cup fresh'
    BY DEF Live
  <2> QED
    BY <1>1, <1>2, <1>5, <2>1, <2>2, DoomMoved DEF CacheInv
<1> QED
  BY <1>3, <1>8, <1>9, <1>10, <1>11, <1>12, <1>13, <1>14, <1>15

LEMMA SortStep ==
  ASSUME CacheInv, NEW t \in Threads, Sort(t)
  PROVE  CacheInv'
<1>1. PICK e \in Arg(t) :
        LET goes == entry[e].count = 0 IN
        /\ entry' = [entry EXCEPT ![e].queued = goes]
        /\ published' = IF goes THEN published \ {e} ELSE published
        /\ fresh' = IF goes THEN fresh \ {e} ELSE fresh
        /\ Then(t, <<<<"sort", Arg(t) \ {e}, IF goes THEN More(t) \cup {e} ELSE More(t)>>>>)
  BY DEF Sort
<1>2. /\ At(t, "sort")
      /\ UNCHANGED <<freshCount, allLocks, unused, incoming, queued, requests, running, tasks, reads,
                     replaced, laneQueue, lane, disk, held, calls, gone>>
  BY DEF Sort, waitVars, countVars, laneVars, userVars
<1> DEFINE dead == IF entry[e].count = 0 THEN More(t) \cup {e} ELSE More(t)
<1>3. /\ Typed /\ Arg(t) \in SUBSET Entries /\ More(t) \in SUBSET Entries /\ e \in Live /\ e \in Entries
      /\ todo[t] # <<>> /\ todo[t] \in Seq(AllSteps) /\ 1 \in 1 .. Len(todo[t])
      /\ todo[t][1] \in Unusing(e)
      /\ \A x \in More(t) : entry[x].count = 0 /\ x \notin published \cup fresh
  BY <1>2, SortHead DEF Typed
<1>4. CountOk(e) /\ LoadOk(e) /\ QueueOk(e)
  BY <1>3 DEF CacheInv, Accounts
<1>5. /\ entry \in [Entries -> EntryType] /\ entry[e] \in EntryType /\ (entry[e].count = 0) \in BOOLEAN
      /\ entry' = [entry EXCEPT ![e] = [entry[e] EXCEPT !.queued = entry[e].count = 0]]
  BY <1>1, <1>3 DEF Typed, TypeOK, EntryType
<1> DEFINE new == [entry[e] EXCEPT !.queued = entry[e].count = 0]
<1>6. /\ new.queued = (entry[e].count = 0) /\ new.count = entry[e].count /\ new.parked = entry[e].parked
      /\ new.claimed = entry[e].claimed /\ new.state = entry[e].state /\ new.pending = entry[e].pending
      /\ new.life = entry[e].life
  BY <1>5 DEF EntryType
<1>7. new \in EntryType
  BY <1>5 DEF EntryType
<1>8. /\ SortsOne(t, e, dead) /\ dead \in SUBSET Entries /\ dead \subseteq More(t) \cup {e} /\ More(t) \subseteq dead
      /\ published' \subseteq published /\ fresh' \subseteq fresh
      /\ e \in dead => entry[e].count = 0 /\ e \notin published' \cup fresh'
  <2>1. e \in dead => entry[e].count = 0
    BY <1>3
  <2>2. entry[e].count = 0 => e \notin published' \cup fresh'
    BY <1>1
  <2> QED
    BY <1>1, <1>2, <1>3, <2>1, <2>2 DEF SortsOne
<1> HIDE DEF dead, new
<1>9. /\ entry' \in [Entries -> EntryType] /\ entry'[e] = new /\ \A x \in Entries \ {e} : entry'[x] = entry[x]
  BY <1>3, <1>5, <1>7 DEF new
<1>10. /\ Typed' /\ Numbered' /\ Shape' /\ Doom' /\ Counters' /\ Dispatching' /\ Ending' /\ ~gone
       /\ \A x \in Live \ {e} : Keeps(x)
       /\ Shifts(e, 0, 0, 0, 0, 0, 0, One(e \in dead) - 1)
       /\ \A x \in Entries \ Live : Unnamed(x) /\ Spared(x)
  BY <1>6, <1>8, <1>9, SortMoves
<1>11. Queue(e) = 1 /\ entry[e].queued
  <2>1. StepsIn(Unusing(e)) \in Nat /\ StepsIn(Unusing(e)) # 0
    BY <1>3, Someone DEF Typed
  <2> QED
    BY <1>4, <1>10, <2>1 DEF QueueOk, Queue, One
<1>12. CountOk(e)' /\ LoadOk(e)' /\ QueueOk(e)'
  <2>1. /\ Cardinality(Holders(e))' = Cardinality(Holders(e)) /\ Count(Waiting, {e})' = Count(Waiting, {e})
        /\ Count(replaced, {e})' = Count(replaced, {e})
    BY <1>2 DEF Holders, Waiting
  <2>2. /\ \A G : StepsIn(G) \in Nat
        /\ Cardinality(Holders(e)) \in Nat /\ Count(Waiting, {e}) \in Nat /\ Count(replaced, {e}) \in Nat
        /\ entry[e].count \in Nat
    BY <1>3, Amounts
  <2>3. /\ Having(e) \in Int /\ Loads(e) \in Int /\ Coming(e) \in Int /\ TasksOf(e) \in Int
        /\ One(entry[e].parked) \in Int
    BY <2>2 DEF Having, Loads, Coming, TasksOf, One
  <2>4. Having(e) + 0 = new.count
    BY <1>4, <1>6, <2>3 DEF CountOk
  <2>5. Loads(e) + 0 + One(new.parked) - One(entry[e].parked) = One(new.state = "Loading" /\ new.claimed)
    BY <1>4, <1>6, <2>3 DEF LoadOk
  <2>6. ~new.claimed => new.pending /\ new.state = "Loading" /\ Coming(e) + 0 # 0
    BY <1>4, <1>6, <2>3 DEF LoadOk
  <2>7. TasksOf(e) + 0 + One(new.parked) - One(entry[e].parked) <= 1
    BY <1>4, <1>6, <2>3 DEF LoadOk
  <2>8. new.parked \/ StepsIn(For(Unparkers, e)) + 0 # 0 => new.pending
    BY <1>4, <1>6, <2>2 DEF LoadOk, Unparkers
  <2>9. new.pending => ~new.claimed \/ new.parked \/ StepsIn(For(PendingKinds, e)) + 0 # 0
    BY <1>4, <1>6, <2>2 DEF LoadOk, PendingKinds
  <2>10. Queue(e) + (One(e \in dead) - 1) = One(new.queued) /\ (~new.queued => new.count # 0)
    <3>1. (e \in dead <=> entry[e].count = 0) /\ (new.queued <=> entry[e].count = 0)
      BY <1>3, <1>6 DEF dead
    <3>2. One(e \in dead) = One(new.queued) /\ One(e \in dead) \in Int
      BY <3>1 DEF One
    <3>3. 1 + (One(e \in dead) - 1) = One(e \in dead)
      BY <3>2
    <3>4. ~new.queued => new.count # 0
      BY <1>6, <3>1
    <3> QED
      BY <1>11, <3>2, <3>3, <3>4
  <2>11. 0 \in Int /\ One(e \in dead) - 1 \in Int
    BY DEF One
  <2>12. disk' = disk /\ unused' = unused /\ gone' = gone
    BY <1>2
  <2> QED
    BY <1>3, <1>7, <1>9, <1>10, <2>1, <2>4, <2>5, <2>6, <2>7, <2>8, <2>9, <2>10, <2>11, <2>12, AccountsMove
<1>13. entry'[e].life = "live"
  BY <1>3, <1>6, <1>9 DEF Live
<1>14. Accounts' /\ Unknown'
  BY <1>3, <1>10, <1>12, <1>13, OneOther DEF CacheInv
<1> QED
  BY <1>10, <1>14 DEF CacheInv

\* A thread runs the done of a read, and goes on where it was, or looks for its
\* load once more.
Delivers(t, r, k, last) ==
  /\ todo[t] # <<>> /\ todo[t][1][1] \in {"poll", "lastReads", "waitReading"}
  /\ \/ last = todo[t][1] /\ last[1] \in {"poll", "lastReads"}
     \/ last[1] = "wait" /\ todo[t][1][1] = "waitReading" /\ last[2] = todo[t][1][2]
  /\ r \in disk /\ k \in {"bytesRead", "readOver"}
  /\ disk' = disk \ {r}
  /\ Then(t, <<<<k, r>>, last>>)
  /\ UNCHANGED <<entry, published, fresh, freshCount, allLocks, unused, incoming, queued, requests, running, tasks, reads,
                 replaced, laneQueue, lane, held, calls, gone>>

LEMMA DeliversStep ==
  ASSUME CacheInv, NEW t \in Threads, NEW r, NEW k, NEW last \in AllSteps, Delivers(t, r, k, last)
  PROVE  CacheInv'
<1> DEFINE h == todo[t][1]
           a == <<k, r>>
           p == <<a, last>>
<1>1. /\ Typed /\ todo[t] # <<>> /\ h[1] \in {"poll", "lastReads", "waitReading"} /\ r \in disk
      /\ k \in {"bytesRead", "readOver"} /\ disk' = disk \ {r} /\ Then(t, p)
      /\ UNCHANGED <<entry, published, fresh, freshCount, allLocks, unused, incoming, queued, requests, running, tasks, reads,
                     replaced, laneQueue, lane, held, calls, gone>>
  BY DEF Delivers, CacheInv
<1>2. \/ last = h /\ last[1] \in {"poll", "lastReads"}
      \/ last[1] = "wait" /\ h[1] = "waitReading" /\ last[2] = h[2]
  BY DEF Delivers
<1>3. /\ h \in AllSteps /\ r \in Entries /\ r \in Live /\ a \in AllSteps /\ a[1] = k /\ a[2] = r
      /\ 1 \in DOMAIN todo[t]
  <2>1. todo[t] \in Seq(AllSteps) /\ r \in Entries
    BY <1>1 DEF Typed, TypeOK
  <2>2. k \in EntryKinds \ {"takeParked"}
    BY <1>1 DEF EntryKinds, Counting
  <2>3. a \in AllSteps
    BY <2>1, <2>2, StepsAre
  <2>4. r \in Live
    BY <1>1, <2>1 DEF CacheInv, Unknown
  <2> QED
    BY <1>1, <2>1, <2>3, <2>4, EmptySeq
<1> HIDE DEF a
<1>4. Follows(h, p, Mine(t)') /\ Calm(p) /\ p \in Seq(AllSteps)
  <2>5. TaskDoneOnLane[1] = "taskDone" /\ EndOfForce[1] = "end"
    BY DEF TaskDoneOnLane, EndOfForce
  <2>6. a # TaskDoneOnLane /\ a # EndOfForce /\ last # TaskDoneOnLane /\ last # EndOfForce
    BY <1>1, <1>2, <1>3, <2>5
  <2>1. Apt(h, a) /\ Covered(h, a, Mine(t)') /\ a[1] \notin {"reload"} \cup Lasts /\ a[1] # "unpark"
    BY <1>1, <1>3, <2>6 DEF Apt, Suits, Covered, LaneSteps, LateSteps, Dispatcher, Lasts, Forces, Passing, Waits
  <2>2. /\ Apt(h, last) /\ Covered(h, last, Mine(t)') /\ last[1] \notin {"reload", "unpark"} \cup Firsts
        /\ h[1] \in Waits => last[1] \in Waits /\ last[2] = h[2]
    <3>1. CASE last = h /\ last[1] \in {"poll", "lastReads"}
      BY <2>6, <3>1 DEF Apt, Suits, Covered, LaneSteps, LateSteps, Dispatcher, Lasts, Forces, Passing, Waits, Firsts, ForSets
    <3>2. CASE last[1] = "wait" /\ h[1] = "waitReading" /\ last[2] = h[2]
      BY <2>6, <3>2 DEF Apt, Suits, Covered, LaneSteps, LateSteps, Dispatcher, Lasts, Forces, Passing, Waits, Firsts, ForSets
    <3> QED
      BY <1>2, <3>1, <3>2
  <2>3. ~(a = TaskDoneOnLane /\ last = TaskDoneOnLane) /\ h[1] \notin TaskEnds
    BY <1>1, <2>6 DEF TaskEnds
  <2>4. {a[1], last[1]} \cap (Dispatcher \cup ForSets \cup {"destroyAll"}) = {}
    BY <1>1, <1>2, <1>3 DEF Dispatcher, ForSets
  <2> HIDE DEF h
  <2> QED
    BY <1>3, <2>1, <2>2, <2>3, <2>4, FollowsTwo
<1>5. ASSUME NEW x \in Entries
      PROVE  /\ Of(last, Comers, x) \in Nat /\ One(x = r) \in Nat
             /\ Shifts(x, One(x = r), One(x = r), Of(last, Comers, x), One(x = r), 0, 0, 0)
  <2>1. {h[1], a[1], last[1]} \cap ForSets = {}
    BY <1>1, <1>2, <1>3 DEF ForSets
  <2>2. \A K \in {Counting, Loaders, Comers, Tasking, Unparkers, PendingKinds, {"enqueue"}} : Of(h, K, x) = 0
    BY <1>1 DEF Of, One, Counting, Loaders, Comers, Tasking, Unparkers, PendingKinds
  <2>3. /\ Of(last, Counting, x) = 0 /\ Of(last, Loaders, x) = 0 /\ Of(last, Tasking, x) = 0
        /\ Of(last, Unparkers, x) = 0 /\ Of(last, PendingKinds, x) = 0 /\ Of(last, {"enqueue"}, x) = 0
    BY <1>1, <1>2 DEF Of, One, Counting, Loaders, Tasking, Unparkers, PendingKinds
  <2>4. /\ Of(a, Counting, x) = One(x = r) /\ Of(a, Loaders, x) = One(x = r) /\ Of(a, Tasking, x) = One(x = r)
        /\ Of(a, Comers, x) = 0 /\ Of(a, Unparkers, x) = 0 /\ Of(a, PendingKinds, x) = 0 /\ Of(a, {"enqueue"}, x) = 0
    BY <1>1, <1>3 DEF Of, One, Counting, Loaders, Comers, Tasking, Unparkers, PendingKinds
  <2>5. Of(last, Comers, x) \in Nat /\ One(x = r) \in Nat
    BY DEF Of, One
  <2> HIDE DEF h
  <2>6. Shifts(x, Of(a, Counting, x) + Of(last, Counting, x) - Of(h, Counting, x),
                Of(a, Loaders, x) + Of(last, Loaders, x) - Of(h, Loaders, x),
                Of(a, Comers, x) + Of(last, Comers, x) - Of(h, Comers, x),
                Of(a, Tasking, x) + Of(last, Tasking, x) - Of(h, Tasking, x),
                Of(a, Unparkers, x) + Of(last, Unparkers, x) - Of(h, Unparkers, x),
                Of(a, PendingKinds, x) + Of(last, PendingKinds, x) - Of(h, PendingKinds, x),
                Of(a, {"enqueue"}, x) + Of(last, {"enqueue"}, x) - Of(h, {"enqueue"}, x))
    BY <1>1, <1>3, <2>1, ShiftTwo DEF h
  <2>7. /\ Of(a, Counting, x) + Of(last, Counting, x) - Of(h, Counting, x) = One(x = r)
        /\ Of(a, Loaders, x) + Of(last, Loaders, x) - Of(h, Loaders, x) = One(x = r)
        /\ Of(a, Comers, x) + Of(last, Comers, x) - Of(h, Comers, x) = Of(last, Comers, x)
        /\ Of(a, Tasking, x) + Of(last, Tasking, x) - Of(h, Tasking, x) = One(x = r)
        /\ Of(a, Unparkers, x) + Of(last, Unparkers, x) - Of(h, Unparkers, x) = 0
        /\ Of(a, PendingKinds, x) + Of(last, PendingKinds, x) - Of(h, PendingKinds, x) = 0
        /\ Of(a, {"enqueue"}, x) + Of(last, {"enqueue"}, x) - Of(h, {"enqueue"}, x) = 0
    BY <2>2, <2>3, <2>4, <2>5
  <2> QED
    BY <2>5, <2>6, <2>7
<1>6. disk' \subseteq Entries /\ Cardinality(disk') = Cardinality(disk) - 1
  BY <1>1, <1>3, DiskFinite DEF Typed, TypeOK
<1>7. Typed'
  <2>1. todo' \in [Threads -> Seq(AllSteps)]
    BY <1>1, <1>4, Moved DEF Typed
  <2> QED
    BY <1>1, <2>1, <1>6 DEF Typed, TypeOK
<1>8. Accounts' /\ Unknown'
  <2>1. ASSUME NEW x \in Live PROVE Keeps(x)
    <3>1. x \in Entries
      BY DEF Live
    <3>8. PICK z \in Int, o \in Int, m \in Int, d \in Int :
            /\ z = 0 /\ o = One(x = r) /\ m = Of(last, Comers, x) /\ d = 0 - o
            /\ z + z + z + o + d = 0 /\ o + d = 0 /\ o + z + d = 0 /\ m + z >= 0 /\ z + z = 0
      BY <1>5, <3>1
    <3>2. Cardinality(Holders(x))' = Cardinality(Holders(x)) + z
      BY <1>1, <3>1, <3>8, Zeros DEF Holders
    <3>3. Count(Waiting, {x})' = Count(Waiting, {x}) + z
      BY <1>1, <3>1, <3>8, Zeros DEF Waiting
    <3>4. Count(replaced, {x})' = Count(replaced, {x}) + z
      BY <1>1, <3>1, <3>8, Zeros
    <3>5. One(x \in disk') = One(x \in disk) + d
      BY <1>1, <3>8 DEF One
    <3>6. One(x \in unused') = One(x \in unused) + z
      BY <1>1, <3>1, <3>8, Zeros DEF One
    <3>7. /\ ~gone' => ~gone /\ z + z = 0
          /\ entry'[x] = entry[x]
      BY <1>1, <3>8
    <3>9. Shifts(x, o, o, m, o, 0, 0, z)
      BY <1>5, <3>1, <3>8
    <3> HIDE DEF h, p
    <3>10. Typed /\ Typed' /\ x \in Entries
      BY <1>1, <1>7, <3>1
    <3>11. /\ z + z + z + o + d = 0 /\ o + d = 0 /\ o + z + d = 0 /\ m + z >= 0
           /\ z \in Int /\ o \in Int /\ m \in Int /\ d \in Int
      BY <3>8
    <3> QED
      BY <3>2, <3>3, <3>4, <3>5, <3>6, <3>7, <3>9, <3>10, <3>11, Handing
  <2>2. ASSUME NEW x \in Entries \ Live PROVE Unnamed(x) /\ Spared(x)
    <3>1. x \notin published \cup fresh \cup unused \cup disk
      BY DEF CacheInv, Unknown
    <3>2. a \notin Naming(x)
      BY <1>1, <1>3, <3>1 DEF Naming, Takes, ForSets
    <3>3. last \notin Naming(x)
      <4>1. h \in Naming(x) => x \in Live
        BY <1>1, <1>3, Named1 DEF CacheInv
      <4>2. last \in Naming(x) => h \in Naming(x)
        BY <1>2, <1>3 DEF Naming, Takes, ForSets, Passing, Waits
      <4> QED
        BY <4>1, <4>2
    <3>4. \A i \in 1 .. Len(p) : p[i] \notin Naming(x)
      BY <3>2, <3>3
    <3>5. Holders(x)' = Holders(x) /\ Count(Waiting, {x})' = Count(Waiting, {x}) /\ Count(replaced, {x})' = Count(replaced, {x})
      BY <1>1 DEF Holders, Waiting
    <3> HIDE DEF h, p
    <3> QED
      BY <1>1, <1>4, <3>1, <3>4, <3>5, OutsideKept
  <2> QED
    BY <2>1, <2>2, AllKept DEF CacheInv
<1>9. Counters'
  <2>1. TaskDoneOnLane[1] = "taskDone" /\ TaskDoneOnLane[2] = TRUE
    BY DEF TaskDoneOnLane
  <2>2. /\ One(h \in Named(TaskSteps)) = 0 /\ One(h \in Named(ReadSteps)) = 0 /\ One(h \in {TaskDoneOnLane}) = 0
    BY <1>1, <2>1 DEF Named, TaskSteps, ReadSteps, One
  <2>3. /\ One(a \in Named(TaskSteps)) = 1 /\ One(a \in Named(ReadSteps)) = 1 /\ One(a \in {TaskDoneOnLane}) = 0
    BY <1>1, <1>3, <2>1 DEF Named, TaskSteps, ReadSteps, One
  <2>4. /\ One(last \in Named(TaskSteps)) = 0 /\ One(last \in Named(ReadSteps)) = 0 /\ One(last \in {TaskDoneOnLane}) = 0
    BY <1>2, <2>1 DEF Named, TaskSteps, ReadSteps, One
  <2> HIDE DEF h
  <2>5. \A G : StepsIn(G)' = StepsIn(G) - One(h \in G) + One(a \in G) + One(last \in G)
    BY <1>1, <1>3, ThenFew DEF h
  <2>6. \A G : StepsIn(G) \in Nat
    BY <1>1, <1>3, Amounts
  <2>7. /\ StepsIn(Named(TaskSteps))' = StepsIn(Named(TaskSteps)) + 1
        /\ StepsIn(Named(ReadSteps))' = StepsIn(Named(ReadSteps)) + 1
        /\ StepsIn({TaskDoneOnLane})' = StepsIn({TaskDoneOnLane})
    BY <2>2, <2>3, <2>4, <2>5, <2>6
  <2>8. Waiting' = Waiting
    BY <1>1 DEF Waiting
  <2>9. Len(Waiting) \in Nat /\ Len(laneQueue) \in Nat /\ Cardinality(disk) \in Nat
    BY <1>1, <1>3, Amounts, DiskFinite, LenProperties DEF Typed, TypeOK
  <2>10. /\ running = Len(laneQueue) + StepsIn({TaskDoneOnLane}) /\ (MaxLoads # 0 => running <= MaxLoads)
        /\ tasks = Len(Waiting) + StepsIn(Named(TaskSteps)) + Cardinality(disk)
        /\ reads = StepsIn(Named(ReadSteps)) + Cardinality(disk)
    BY DEF CacheInv, Counters, ReadSteps
  <2>11. /\ tasks' = Len(Waiting)' + StepsIn(Named(TaskSteps))' + Cardinality(disk)'
        /\ reads' = StepsIn(Named(ReadSteps))' + Cardinality(disk)'
        /\ running' = Len(laneQueue)' + StepsIn({TaskDoneOnLane})'
    BY <1>1, <2>6, <2>7, <2>9, <2>10, <1>6, <2>8, SMTT(60)
  <2> QED
    BY <1>1, <2>10, <2>11 DEF Counters, ReadSteps
<1>10. Numbered' /\ Shape' /\ Doom' /\ Dispatching' /\ Ending'
  <2>1. /\ h[1] \notin Dispatcher \cup {"dispatch", "destroyAll"}
        /\ h[1] \notin {"release", "enqueue"} /\ p # <<>>
    BY <1>1 DEF Dispatcher
  <2>2. /\ \A u \in Users : held[u] \subseteq held'[u]
        /\ gone => held' = held
    BY <1>1
  <2> HIDE DEF h, p
  <2>3. h = todo[t][1] /\ published' \cup fresh' \subseteq published \cup fresh
    BY <1>1 DEF h
  <2> QED
    BY <1>1, <1>4, <1>7, <2>1, <2>2, <2>3, HandOn
<1> QED
  BY <1>7, <1>8, <1>9, <1>10 DEF CacheInv

LEMMA ReadIsOver ==
  ASSUME CacheInv, NEW t \in Threads, NEW ok \in BOOLEAN, PollDelivers(t, ok) \/ LastRead(t, ok) \/ WaitInReader(t, ok)
  PROVE  CacheInv'
<1> DEFINE k == IF ok THEN "bytesRead" ELSE "readOver"
<1>1. CASE PollDelivers(t, ok) \/ LastRead(t, ok)
  <2>1. PICK r \in disk, kind \in {"poll", "lastReads"} :
          At(t, kind) /\ disk' = disk \ {r} /\ Then(t, <<<<k, r>>, <<kind, None>>>>)
    BY <1>1 DEF PollDelivers, LastRead
  <2>2. UNCHANGED <<entry, published, fresh, freshCount, allLocks, unused, incoming, queued, requests, running, tasks, reads,
                    replaced, laneQueue, lane, held, calls, gone>>
    BY <1>1 DEF PollDelivers, LastRead, mapVars, waitVars, countVars, laneVars, userVars
  <2>3. todo[t][1] \in AllSteps /\ todo[t][1][1] = kind /\ todo[t] # <<>>
    BY <2>1, IdleHead
  <2>4. todo[t][1] = <<kind, None>>
    BY <2>3, StepTypes DEF ForNobody
  <2>5. Delivers(t, r, k, todo[t][1])
    BY <2>1, <2>2, <2>3, <2>4 DEF Delivers
  <2> QED
    BY <2>3, <2>5, DeliversStep
<1>2. CASE WaitInReader(t, ok)
  <2>1. PICK r \in disk : disk' = disk \ {r} /\ Then(t, <<<<k, r>>, <<"wait", Arg(t)>>>>)
    BY <1>2 DEF WaitInReader
  <2>2. /\ At(t, "waitReading")
        /\ UNCHANGED <<entry, published, fresh, freshCount, allLocks, unused, incoming, queued, requests, running, tasks, reads,
                       replaced, laneQueue, lane, held, calls, gone>>
    BY <1>2 DEF WaitInReader, mapVars, waitVars, countVars, laneVars, userVars
  <2>3. todo[t] # <<>> /\ todo[t][1][1] = "waitReading" /\ todo[t][1][2] = Arg(t) /\ Arg(t) \in Entries
    BY <2>2, EntryHead DEF EntryKinds, Passing, Waits
  <2> DEFINE last == <<"wait", Arg(t)>>
  <2>4. last \in AllSteps /\ last[1] = "wait" /\ last[2] = Arg(t)
    BY <2>3, StepsAre DEF EntryKinds, Passing, Waits
  <2>5. Delivers(t, r, k, last)
    BY <2>1, <2>2, <2>3, <2>4 DEF Delivers
  <2> HIDE DEF last
  <2> QED
    BY <2>4, <2>5, DeliversStep
<1> QED
  BY <1>1, <1>2

-----------------------------------------------------------------------------
(* The end of the lane. *)

\* The limit of loads only gets smaller when the lane ends.
LEMMA LimitSinks ==
  ASSUME lane' # "on"
  PROVE  loadLimit \in Nat /\ loadLimit' \in Nat /\ loadLimit' <= loadLimit
<1>1. MaxLoads \in Nat /\ Cardinality(LaneThreads) \in Nat
  BY CacheAssumption, FS_CardinalityType
<1>2. Cardinality(LaneThreads) \div 2 \in Nat
  BY <1>1
<1>3. loadLimit' = IF MaxLoads # 0 THEN MaxLoads ELSE 1
  BY DEF loadLimit
<1>4. loadLimit \in Nat /\ (MaxLoads # 0 => loadLimit = MaxLoads) /\ (MaxLoads = 0 => loadLimit >= 1)
  BY <1>1, <1>2 DEF loadLimit
<1> QED
  BY <1>1, <1>3, <1>4

LEMMA JoinedStep ==
  ASSUME CacheInv, NEW t \in Threads, Joined(t)
  PROVE  CacheInv'
<1> DEFINE h == todo[t][1]
           a == <<"drain", None>>
           p == <<a>>
<1>1. At(t, "join")
  BY DEF Joined
<1>2. /\ Typed /\ todo[t] # <<>> /\ h \in AllSteps /\ h[1] = "join" /\ h[2] = Arg(t) /\ h[3] = More(t)
      /\ \A x \in Entries : h \notin Naming(x)
  BY <1>1, IdleHead DEF EntryKinds, Counting, Passing, Waits, ForSets
<1>3. /\ a \in AllSteps /\ a[1] = "drain" /\ a[2] = None
  BY <1>2, StepsAre DEF EntryKinds, Counting, Passing, Waits, ForNobody, Dispatcher
<1>4. /\ Then(t, p) /\ entry' = entry
      /\ UNCHANGED <<published, fresh, freshCount, allLocks, unused, incoming, queued, requests, running, tasks, reads, replaced, laneQueue, disk, held, calls, gone>> /\ lane' = "off"
  BY <1>1, <1>2 DEF Joined, Pass, OnlyEntries, mapVars, waitVars, countVars, laneVars, userVars
<1>5. Follows(h, p, Mine(t)') /\ Calm(p) /\ p \in Seq(AllSteps)
  <2>1. Apt(h, a)
    BY <1>2, <1>3 DEF Apt, Suits, Lasts, TaskDoneOnLane, Forces, EndOfForce, LaneSteps, Dispatcher, LateSteps
  <2>2. /\ Covered(h, a, Mine(t)')
    BY <1>2, <1>3 DEF Covered, Backs, Passing, Waits, Counting
  <2>3. /\ a[1] \notin {"reload", "unpark"}
        /\ h[1] \in Waits => a[1] \in Waits /\ a[2] = h[2]
        /\ h[1] \in TaskEnds => a[1] \in TaskEnds
        /\ a[1] \notin Dispatcher \cup ForSets \cup {"destroyAll"}
    BY <1>2, <1>3 DEF Waits, TaskEnds, Lasts, Firsts, Dispatcher, ForSets, TaskDoneOnLane
  <2> HIDE DEF h, a
  <2>4. Follows(h, <<a>>, Mine(t)') /\ Calm(<<a>>) /\ <<a>> \in Seq(AllSteps)
    BY <1>3, <2>1, <2>2, <2>3, FollowsOne
  <2> QED
    BY <2>4
<1>6. Typed'
  <2>1. todo' \in [Threads -> Seq(AllSteps)]
    BY <1>2, <1>4, <1>5, Moved DEF Typed
  <2> QED
    BY <1>2, <1>4, <2>1 DEF Typed, TypeOK
<1>7. Accounts' /\ Unknown'
  <2>1. \A x \in Entries : \A i \in 1 .. Len(p) : p[i] \notin Naming(x)
    BY <1>3 DEF Naming, Takes, ForSets, Counting, Passing, Waits
  <2>2. \A x \in Entries : Count(Waiting, {x})' = Count(Waiting, {x})
    BY <1>4 DEF Waiting, Count
  <2>3. published' \cup fresh' \subseteq published \cup fresh
    BY <1>4
  <2> HIDE DEF p
  <2>4. \A x \in Entries : todo[t][1] \notin Naming(x)
    BY <1>2
  <2> HIDE DEF h
  <2> QED
    BY <1>2, <1>4, <1>5, <2>1, <2>2, <2>3, <2>4, IdleStep
<1>8. Counters'
  <2>1. Balanced
    <3>1. h[1] \notin TaskSteps /\ \A i \in 1 .. Len(p) : p[i][1] \notin TaskSteps
      BY <1>2, <1>3 DEF TaskSteps
    <3> HIDE DEF p
    <3> QED
      BY <1>2, <1>4, <1>5, <3>1, NoTask
  <2> QED
    BY <1>4, <2>1, CountersKept DEF CacheInv
<1>9. Numbered' /\ Shape' /\ Doom' /\ Ending'
  <2>1. Still(p) /\ h[1] \notin Waits \cup {"destroyAll", "release", "enqueue"}
    BY <1>2, <1>5 DEF Calm, Still, Waits
  <2> HIDE DEF p
  <2> QED
    BY <1>2, <1>4, <1>5, <2>1, RestKept
<1>10. Dispatching'
  <2>1. h[1] \notin Dispatcher \cup {"dispatch"}
    BY <1>2 DEF Dispatcher
  <2>2. Full => Full'
    BY <1>2, <1>4, LimitSinks DEF Full, Typed, TypeOK
  <2>3. Typed /\ Shape /\ Dispatching
    BY DEF CacheInv
  <2> HIDE DEF h, p
  <2>4. /\ \A u \in Threads : Dispatches(u) \/ Dispatches(u)' => todo[u] # <<>> /\ todo'[u] # <<>> /\ todo'[u][1] = todo[u][1]
        /\ StepsIn(For({"dispatch"}, None))' = 0 => StepsIn(For({"dispatch"}, None)) = 0
    BY <1>2, <1>4, <1>5, <2>1, <2>3, CalmStep DEF h
  <2> QED
    BY <1>4, <2>2, <2>3, <2>4, DispatchingKept
<1> QED
  BY <1>6, <1>7, <1>8, <1>9, <1>10 DEF CacheInv

-----------------------------------------------------------------------------
(* A thread that has nothing to do gets something. *)

\* The steps p of a thread, mine its handles, when it had nothing to do.
Begins(t, p, mine) ==
  /\ Backed(p, mine) /\ ForceEnds(p)
  /\ \A i \in 1 .. Len(p) : /\ p[i][1] \notin Firsts \cup {"reload", "unpark", "destroyAll"}
                            /\ p[i][1] \in Lasts => i = Len(p)
  /\ \A i, j \in 1 .. Len(p) : p[i] = TaskDoneOnLane /\ p[j] = TaskDoneOnLane => i = j
  /\ t \in LaneThreads => LaneLike(p)
  /\ (\E i \in 1 .. Len(p) : p[i] = EndOfForce) => Inside("forceLoad") = {}

LEMMA EnteredRest ==
  ASSUME CacheInv, NEW t \in Threads, todo[t] = <<>>, NEW p \in Seq(AllSteps), todo' = [todo EXCEPT ![t] = p],
         Begins(t, p, Mine(t)'), \A u \in Users \ {t} : held'[u] = held[u],
         \A x \in Entries : /\ entry'[x].state = entry[x].state /\ entry'[x].life = entry[x].life
                            /\ entry[x].count = 0 => entry'[x].count = 0,
         UNCHANGED <<published, fresh, incoming, queued, requests, running>>, Full => Full'
  PROVE  /\ Numbered' /\ Shape' /\ Doom' /\ Dispatching'
         /\ todo' \in [Threads -> Seq(AllSteps)]
<1>1. /\ Typed /\ Shape /\ Doom /\ Dispatching /\ todo \in [Threads -> Seq(AllSteps)]
  BY DEF CacheInv, Typed
<1>2. /\ todo' \in [Threads -> Seq(AllSteps)] /\ todo'[t] = p
      /\ \A u \in Threads \ {t} : todo'[u] = todo[u]
      /\ \A G : StepsIn(G)' = StepsIn(G) + Count(p, G)
  BY <1>1, Entered
<1>3. Numbered'
  <2>1. {e \in Entries : entry'[e].life # "none"} = {e \in Entries : entry[e].life # "none"}
    OBVIOUS
  <2> QED
    BY <2>1 DEF CacheInv, Numbered
<1>4. Shape'
  <2>1. ASSUME NEW u \in Threads
        PROVE  /\ Backed(todo'[u], Mine(u)')
               /\ ReloadWaits(todo'[u]) /\ UnparkClaims(todo'[u]) /\ FirstAndLast(todo'[u]) /\ ForceEnds(todo'[u])
    <3>1. CASE u = t
      BY <1>2, <3>1 DEF Begins, ReloadWaits, UnparkClaims, FirstAndLast
    <3>2. CASE u # t
      <4>1. Mine(u)' = Mine(u)
        BY <3>2 DEF Mine
      <4> QED
        BY <1>1, <1>2, <3>2, <4>1 DEF Shape
    <3> QED
      BY <3>1, <3>2
  <2>2. ASSUME NEW u \in Threads, At(u, "reload")' PROVE (Me(u).state # "Loading")'
    <3>1. u # t
      <4>1. p # <<>> => 1 \in 1 .. Len(p)
        BY EmptySeq, LenProperties
      <4> QED
        BY <1>2, <2>2, <4>1 DEF At, Begins
    <3>2. todo'[u] = todo[u]
      BY <1>2, <3>1
    <3>3. At(u, "reload")
      BY <2>2, <3>2 DEF At
    <3>4. Arg(u) \in Entries /\ entry[Arg(u)].state # "Loading"
      BY <1>1, <3>3, EntryHead DEF Shape, Me, EntryKinds, Counting
    <3>5. Arg(u)' = Arg(u)
      BY <3>2 DEF Arg
    <3>6. entry'[Arg(u)].state # "Loading"
      BY <3>4
    <3> QED
      BY <3>5, <3>6 DEF Me
  <2>3. ASSUME NEW u \in LaneThreads PROVE LaneLike(todo'[u])
    <3>1. CASE u = t
      BY <1>2, <3>1 DEF Begins
    <3>2. CASE u # t
      BY <1>1, <1>2, <3>2 DEF Shape, Threads
    <3> QED
      BY <3>1, <3>2
  <2>4. ASSUME NEW u \in Inside("forceLoad")', NEW v \in Inside("forceLoad")' PROVE u = v
    <3>1. ASSUME NEW w \in Inside("forceLoad")', w # t PROVE w \in Inside("forceLoad")
      BY <1>2, <3>1 DEF Inside, Steps, Threads
    <3>2. t \in Inside("forceLoad")' => Inside("forceLoad") = {}
      BY <1>2 DEF Inside, Steps, Begins, EndOfForce
    <3>3. u # t /\ v # t => u = v
      BY <1>1, <3>1 DEF Shape
    <3>4. (u = t => v = t) /\ (v = t => u = t)
      BY <3>1, <3>2
    <3> QED
      BY <3>3, <3>4
  <2> QED
    BY <2>1, <2>2, <2>3, <2>4 DEF Shape
<1>5. Doom'
  <2>1. ASSUME NEW u \in Threads, NEW i \in DOMAIN todo'[u], NEW x \in Entries, Dooms(todo'[u][i], x)
        PROVE  entry'[x].count = 0 /\ x \notin published' \cup fresh'
    <3>1. u # t
      BY <1>2, <2>1 DEF Dooms, Begins, Firsts, ForSets
    <3>2. todo'[u] = todo[u]
      BY <1>2, <3>1
    <3>3. entry[x].count = 0 /\ x \notin published \cup fresh
      BY <1>1, <2>1, <3>2 DEF Doom
    <3> QED
      BY <3>3
  <2> QED
    BY <2>1 DEF Doom
<1>6. Dispatching'
  <2>1. p # <<>> => 1 \in 1 .. Len(p)
    BY EmptySeq, LenProperties
  <2>2. ~Dispatches(t) /\ ~Dispatches(t)'
    BY <1>2, <2>1 DEF Dispatches, Begins, Firsts
  <2>3. \A u \in Threads : Dispatches(u) \/ Dispatches(u)' => todo[u] # <<>> /\ todo'[u] # <<>> /\ todo'[u][1] = todo[u][1]
    BY <1>2, <2>2 DEF Dispatches
  <2>4. \A i \in 1 .. Len(p) : p[i] \notin For({"dispatch"}, None)
    BY DEF For, Begins, Firsts
  <2>5. Count(p, For({"dispatch"}, None)) = 0
    BY <2>4, CountType
  <2>6. StepsIn(For({"dispatch"}, None)) \in Nat
    BY <1>1, Someone
  <2>7. StepsIn(For({"dispatch"}, None))' = StepsIn(For({"dispatch"}, None))
    BY <1>2, <2>5, <2>6
  <2> QED
    BY <1>1, <2>3, <2>7, DispatchingKept
<1> QED
  BY <1>2, <1>3, <1>4, <1>5, <1>6

LEMMA EnteredEnding ==
  ASSUME CacheInv, NEW t \in Threads, todo[t] = <<>>, NEW p \in Seq(AllSteps), todo' = [todo EXCEPT ![t] = p],
         Begins(t, p, Mine(t)'), gone' = gone, gone => held' = held /\ t \in LaneThreads /\ tasks # 0,
         \A i \in 1 .. Len(p) : p[i][1] \notin {"lastReads", "lastTasks"}
  PROVE  Ending'
<1>1. /\ Ending /\ todo \in [Threads -> Seq(AllSteps)] /\ Users \cap LaneThreads = {}
  BY CacheAssumption DEF CacheInv, Typed
<1>2. /\ todo'[t] = p /\ \A u \in Threads \ {t} : todo'[u] = todo[u]
      /\ \A i \in DOMAIN p : p[i] \in AllSteps /\ i \in 1 .. Len(p)
  BY <1>1, Entered
<1>3. ASSUME NEW u \in Threads, NEW i \in DOMAIN todo'[u], todo'[u][i][1] \in {"lastReads", "lastTasks", "destroyAll", "destroy"}
      PROVE  u # t /\ todo'[u] = todo[u] /\ i \in DOMAIN todo[u]
  BY <1>2, <1>3 DEF Begins, Firsts, ForSets
<1>4. ASSUME gone
      PROVE  /\ \A u \in Users : todo'[u] = todo[u] /\ held'[u] = {}
             /\ \A u \in Threads : \A i \in DOMAIN todo'[u] : todo'[u][i][1] \in LateSteps
  <2>1. \A u \in Users : todo'[u] = todo[u] /\ held'[u] = {}
    BY <1>1, <1>2, <1>4 DEF Ending, Threads
  <2>2. ASSUME NEW u \in Threads, NEW i \in DOMAIN todo'[u] PROVE todo'[u][i][1] \in LateSteps
    <3>1. CASE u = t
      BY <1>2, <1>4, <2>2, <3>1 DEF Begins, LaneLike, LateSteps
    <3>2. CASE u # t
      BY <1>1, <1>2, <1>4, <2>2, <3>2 DEF Ending
    <3> QED
      BY <3>1, <3>2
  <2> QED
    BY <2>1, <2>2
<1>5. ASSUME NEW u \in Threads, NEW i \in DOMAIN todo'[u]
      PROVE  /\ todo'[u][i][1] \in {"lastReads", "lastTasks", "destroyAll"} => gone /\ u \in Users
             /\ todo'[u][i][1] # "destroyAll"
             /\ ~(gone /\ todo'[u][i][1] = "destroy")
  <2>1. todo'[u][i][1] \in {"lastReads", "lastTasks", "destroyAll"} => gone /\ u \in Users
    BY <1>1, <1>3, <1>5 DEF Ending
  <2>2. todo'[u][i][1] = "destroyAll" => gone /\ tasks = 0
    BY <1>1, <1>3, <1>5 DEF Ending
  <2>3. gone /\ todo'[u][i][1] = "destroy" => tasks = 0
    BY <1>1, <1>3, <1>5 DEF Ending
  <2> QED
    BY <2>1, <2>2, <2>3
<1>6. gone' => /\ \A u \in Users : held'[u] = {}
               /\ \A u, v \in Users : todo'[u] # <<>> /\ todo'[v] # <<>> => u = v
               /\ \A u \in Threads : \A i \in DOMAIN todo'[u] : todo'[u][i][1] \in LateSteps
  BY <1>1, <1>4 DEF Ending
<1> QED
  BY <1>5, <1>6 DEF Ending

\* Of an entry that the steps do not name.
LEMMA EnteredElse ==
  ASSUME Typed, NEW t \in Threads, todo[t] = <<>>, NEW p \in Seq(AllSteps), todo' = [todo EXCEPT ![t] = p],
         NEW x \in Entries, \A i \in 1 .. Len(p) : p[i] \notin Naming(x)
  PROVE  Unnamed(x)
<1> SUFFICES ASSUME NEW G, G \subseteq Naming(x) PROVE StepsIn(G)' = StepsIn(G)
  BY DEF Unnamed
<1>1. StepsIn(G)' = StepsIn(G) + Count(p, G)
  BY Entered, ZenonT(60) DEF Typed
<1>2. Count(p, G) = 0
  BY CountType
<1>3. StepsIn(G) \in Nat
  BY Someone DEF Typed
<1> QED
  BY <1>1, <1>2, <1>3

LEMMA EnteredCounters ==
  ASSUME Typed, Counters, NEW t \in Threads, todo[t] = <<>>, NEW p \in Seq(AllSteps), todo' = [todo EXCEPT ![t] = p],
         \A i \in 1 .. Len(p) : p[i][1] \notin TaskSteps,
         UNCHANGED <<running, tasks, reads, laneQueue, disk, incoming, queued>>
  PROVE  Counters'
<1>1. /\ \A G : StepsIn(G)' = StepsIn(G) + Count(p, G) /\ StepsIn(G) \in Nat
      /\ TaskDoneOnLane[1] = "taskDone"
  BY Entered, Someone DEF Typed, TaskDoneOnLane
<1>2. /\ \A i \in 1 .. Len(p) : p[i] \notin Named(TaskSteps) /\ p[i] \notin Named(ReadSteps) /\ p[i] \notin {TaskDoneOnLane}
  BY <1>1 DEF Named, TaskSteps, ReadSteps
<1>3. Count(p, Named(TaskSteps)) = 0 /\ Count(p, Named(ReadSteps)) = 0 /\ Count(p, {TaskDoneOnLane}) = 0
  BY <1>2, CountType
<1>4. Balanced
  BY <1>1, <1>3 DEF Balanced
<1> QED
  BY <1>4, CountersKept

\* A call that names no entry yet.
LEMMA NewCall ==
  ASSUME CacheInv, NEW t \in Threads, todo[t] = <<>>, NEW p \in Seq(AllSteps), todo' = [todo EXCEPT ![t] = p],
         Begins(t, p, Mine(t)'), \A i \in 1 .. Len(p) : p[i][1] \notin TaskSteps \cup EntryKinds,
         UNCHANGED <<entry, published, fresh, freshCount, allLocks, unused, incoming, queued, requests, running, tasks, reads,
                     replaced, laneQueue, disk, held>>,
         lane' \in {"on", "stopping", "off"}, calls' \in Nat, gone' \in BOOLEAN, gone => gone', Full => Full',
         Ending'
  PROVE  CacheInv'
<1>1. Typed /\ Counters /\ Accounts /\ Unknown
  BY DEF CacheInv
<1>2. Numbered' /\ Shape' /\ Doom' /\ Dispatching' /\ todo' \in [Threads -> Seq(AllSteps)]
  BY EnteredRest
<1>3. Typed'
  BY <1>1, <1>2 DEF Typed, TypeOK
<1>4. Counters'
  BY <1>1, EnteredCounters
<1>5. ASSUME NEW x \in Entries PROVE Unnamed(x) /\ Spared(x)
  <2>1. \A i \in 1 .. Len(p) : p[i] \notin Naming(x)
    BY DEF Naming, Takes, EntryKinds, Begins, Firsts
  <2>2. Unnamed(x)
    BY <1>1, <2>1, EnteredElse
  <2>3. Spared(x)
    BY DEF Spared, Holders, Waiting
  <2> QED
    BY <2>2, <2>3
<1>6. Accounts' /\ Unknown'
  BY <1>1, <1>5, NoneNamed
<1> QED
  BY <1>2, <1>3, <1>4, <1>6 DEF CacheInv

\* The steps of a member that tells it is under way.
LEMMA EnterCall ==
  ASSUME CacheInv, NEW u \in Users, NEW op \in {"bind", "load"} \cup Exclusive \cup {"find"}, NEW s \in Seq(AllSteps), s # <<>>,
         Enter(u, op, s), held' = held,
         \A i \in 1 .. Len(s) : /\ s[i][1] \notin TaskSteps \cup EntryKinds \cup Firsts \cup Lasts
                                /\ Forces(s[i]) => op = "forceLoad"
  PROVE  CacheInv'
<1> DEFINE p == s \o Ends(op)
           e == <<"end", op>>
<1>1. /\ todo[u] = <<>> /\ ~gone /\ MayCall(op) /\ calls' = calls + 1 /\ todo' = [todo EXCEPT ![u] = p]
      /\ UNCHANGED <<entry, published, fresh, freshCount, allLocks, unused, incoming, queued, requests, running, tasks, reads,
                     replaced, laneQueue, lane, disk, held, gone>>
  BY DEF Enter, mapVars, waitVars, countVars, laneVars
<1>2. /\ op \in Exclusive \cup {"find"} => Ends(op) = <<e>> /\ e \in AllSteps
      /\ op \notin Exclusive \cup {"find"} => Ends(op) = <<>>
      /\ e[1] = "end" /\ e[2] = op
  BY StepsAre DEF Ends
<1> HIDE DEF e
<1>3. /\ p \in Seq(AllSteps) /\ Len(s) \in Nat \ {0}
      /\ op \in Exclusive \cup {"find"} => Len(p) = Len(s) + 1 /\ p[Len(s) + 1] = e
      /\ op \notin Exclusive \cup {"find"} => Len(p) = Len(s)
      /\ \A i \in 1 .. Len(s) : p[i] = s[i]
  <2>1. Len(s) \in Nat \ {0}
    BY EmptySeq
  <2>2. CASE op \in Exclusive \cup {"find"}
    <3> DEFINE q == <<e>>
    <3>7. e \in AllSteps /\ Ends(op) = q
      BY <1>2, <2>2
    <3>8. q \in Seq(AllSteps) /\ Len(q) = 1 /\ q[1] = e
      BY <3>7
    <3>1. p = s \o q /\ q \in Seq(AllSteps) /\ Len(q) = 1 /\ q[1] = e
      BY <3>7, <3>8, Zenon
    <3>2. /\ s \o q \in Seq(AllSteps) /\ Len(s \o q) = Len(s) + Len(q)
          /\ \A i \in 1 .. Len(s) + Len(q) : (s \o q)[i] = IF i <= Len(s) THEN s[i] ELSE q[i - Len(s)]
      BY <3>1, ConcatProperties
    <3> HIDE DEF q, p
    <3>3. p = s \o q /\ Len(q) = 1 /\ q[1] = e
      BY <3>1
    <3>4. Len(s) + 1 \in 1 .. Len(s) + Len(q) /\ Len(s) + 1 - Len(s) = 1 /\ ~(Len(s) + 1 <= Len(s))
      BY <2>1, <3>3
    <3>5. p[Len(s) + 1] = e
      BY <3>2, <3>3, <3>4
    <3>6. \A i \in 1 .. Len(s) : p[i] = s[i]
      BY <2>1, <3>2, <3>3
    <3> QED
      BY <2>1, <2>2, <3>2, <3>3, <3>5, <3>6
  <2>3. CASE op \notin Exclusive \cup {"find"}
    <3>1. p = s
      BY <1>2, <2>3
    <3> QED
      BY <2>1, <2>3, <3>1
  <2> QED
    BY <2>2, <2>3
<1> HIDE DEF p
<1>4. ASSUME NEW i \in 1 .. Len(p)
      PROVE  \/ i \in 1 .. Len(s) /\ p[i] = s[i]
             \/ i = Len(p) /\ p[i] = e /\ op \in Exclusive \cup {"find"}
  BY <1>3
<1>5. ASSUME NEW i \in 1 .. Len(p)
      PROVE  /\ p[i][1] \notin TaskSteps \cup EntryKinds \cup Firsts
             /\ p[i][1] \in Lasts => i = Len(p)
             /\ Forces(p[i]) => op = "forceLoad"
             /\ p[i] = e => i = Len(p)
             /\ p[i] = EndOfForce => op = "forceLoad"
             /\ p[i][1] \notin {"reload", "unpark", "destroyAll", "lastReads", "lastTasks"} /\ p[i] # TaskDoneOnLane
  <2>1. /\ TaskDoneOnLane[1] = "taskDone" /\ EndOfForce[1] = "end" /\ EndOfForce[2] = "forceLoad"
        /\ "taskDone" \in TaskSteps
    BY DEF TaskDoneOnLane, EndOfForce, TaskSteps
  <2>2. CASE i \in 1 .. Len(s) /\ p[i] = s[i]
    BY <1>2, <2>1, <2>2 DEF Lasts, EntryKinds, Counting, Passing
  <2>3. CASE i = Len(p) /\ p[i] = e
    BY <1>2, <2>1, <2>3 DEF TaskSteps, EntryKinds, Counting, Passing, Waits, Firsts, Dispatcher, ForSets, Lasts, Forces
  <2> QED
    BY <1>4, <2>2, <2>3
<1>6. Begins(u, p, Mine(u)')
  <2>1. Backed(p, Mine(u)')
    BY <1>5 DEF Backed, EntryKinds
  <2>2. ForceEnds(p)
    <3>1. op = "forceLoad" => p[Len(p)] = EndOfForce
      BY <1>2, <1>3 DEF Exclusive, EndOfForce, e
    <3> QED
      BY <1>5, <3>1 DEF ForceEnds
  <2>3. (\E i \in 1 .. Len(p) : p[i] = EndOfForce) => Inside("forceLoad") = {}
    BY <1>1, <1>5 DEF MayCall, Exclusive
  <2>4. u \notin LaneThreads
    BY CacheAssumption
  <2> QED
    BY <1>5, <2>1, <2>2, <2>3, <2>4 DEF Begins
<1>7. u \in Threads /\ Typed
  BY DEF Threads, CacheInv
<1>8. Ending'
  BY <1>1, <1>3, <1>5, <1>6, <1>7, EnteredEnding
<1>9. /\ calls' \in Nat /\ lane' \in {"on", "stopping", "off"} /\ gone' \in BOOLEAN
      /\ Full => Full'
  BY <1>1, <1>7 DEF Typed, TypeOK, Full, loadLimit
<1>10. \A i \in 1 .. Len(p) : p[i][1] \notin TaskSteps \cup EntryKinds
  BY <1>5
<1> QED
  BY <1>1, <1>3, <1>6, <1>7, <1>8, <1>9, <1>10, NewCall

LEMMA CallMemberStep ==
  ASSUME CacheInv, NEW u \in Users, NEW call \in KeyCalls, CallMember(u, call[1], call[2])
  PROVE  CacheInv'
<1> DEFINE op == call[1]
           kind == IF op \in {"bind", "find"} THEN "bindPublished" ELSE "lookup"
           a == <<kind, call[2], op>>
           s == <<a>>
<1>1. op \in {"bind", "find", "load", "forceLoad"} /\ call[2] \in Keys
  BY CacheAssumption
<1>2. a \in AllSteps /\ a[1] = kind /\ a[3] = op
  BY <1>1, StepsAre DEF Ops
<1>3. Enter(u, op, s) /\ held' = held
  BY DEF CallMember
<1> HIDE DEF a
<1>4. s \in Seq(AllSteps) /\ s # <<>> /\ \A i \in 1 .. Len(s) : s[i] = a
  BY <1>2
<1>5. /\ a[1] \notin TaskSteps \cup EntryKinds \cup Firsts \cup Lasts
      /\ Forces(a) => op = "forceLoad"
  BY <1>2 DEF TaskSteps, EntryKinds, Counting, Passing, Waits, Firsts, Dispatcher, ForSets, Lasts, Forces
<1>6. op \in {"bind", "load"} \cup Exclusive \cup {"find"}
  BY <1>1 DEF Exclusive
<1> HIDE DEF op, s
<1> QED
  BY <1>3, <1>4, <1>5, <1>6, EnterCall

LEMMA CallApplyStep ==
  ASSUME CacheInv, NEW u \in Users, CallApply(u)
  PROVE  CacheInv'
<1> DEFINE s == <<<<"poll", None>>, <<"freeReplaced", None>>, <<"publish", None>>>>
<1>1. Enter(u, "apply", s) /\ held' = held
  BY DEF CallApply
<1>2. /\ <<"poll", None>> \in AllSteps /\ <<"freeReplaced", None>> \in AllSteps /\ <<"publish", None>> \in AllSteps
  BY StepsAre DEF ForNobody
<1>3. /\ s \in Seq(AllSteps) /\ s # <<>>
      /\ \A i \in 1 .. Len(s) : s[i][1] \in {"poll", "freeReplaced", "publish"}
  BY <1>2
<1> HIDE DEF s
<1>4. \A i \in 1 .. Len(s) : /\ s[i][1] \notin TaskSteps \cup EntryKinds \cup Firsts \cup Lasts
                             /\ Forces(s[i]) => "apply" = "forceLoad"
  BY <1>3 DEF TaskSteps, EntryKinds, Counting, Passing, Waits, Firsts, Dispatcher, ForSets, Lasts, Forces
<1>5. "apply" \in {"bind", "load"} \cup Exclusive \cup {"find"}
  BY DEF Exclusive
<1> QED
  BY <1>1, <1>3, <1>4, <1>5, EnterCall

LEMMA CallCollectStep ==
  ASSUME CacheInv, NEW u \in Users, NEW o \in Owners, CallCollect(u, o)
  PROVE  CacheInv'
<1> DEFINE s == <<<<"freeReplaced", None>>, <<"takeUnused", o>>>>
<1>1. Enter(u, "collect", s) /\ held' = held
  BY DEF CallCollect
<1>2. <<"freeReplaced", None>> \in AllSteps /\ <<"takeUnused", o>> \in AllSteps
  BY StepsAre DEF ForNobody
<1>3. /\ s \in Seq(AllSteps) /\ s # <<>>
      /\ \A i \in 1 .. Len(s) : s[i][1] \in {"freeReplaced", "takeUnused"}
  BY <1>2
<1> HIDE DEF s
<1>4. \A i \in 1 .. Len(s) : /\ s[i][1] \notin TaskSteps \cup EntryKinds \cup Firsts \cup Lasts
                             /\ Forces(s[i]) => "collect" = "forceLoad"
  BY <1>3 DEF TaskSteps, EntryKinds, Counting, Passing, Waits, Firsts, Dispatcher, ForSets, Lasts, Forces
<1>5. "collect" \in {"bind", "load"} \cup Exclusive \cup {"find"}
  BY DEF Exclusive
<1> QED
  BY <1>1, <1>3, <1>4, <1>5, EnterCall

LEMMA ShutdownStep ==
  ASSUME CacheInv, NEW u \in Users, Shutdown(u)
  PROVE  CacheInv'
<1> DEFINE a == <<"join", None>>
           p == <<a>>
<1>1. /\ todo[u] = <<>> /\ ~gone /\ lane' = "stopping" /\ todo' = [todo EXCEPT ![u] = p]
      /\ UNCHANGED <<entry, published, fresh, freshCount, allLocks, unused, incoming, queued, requests, running, tasks, reads,
                     replaced, laneQueue, disk, held, calls, gone>>
  BY DEF Shutdown, mapVars, waitVars, countVars, userVars
<1>2. a \in AllSteps /\ a[1] = "join"
  BY StepsAre DEF ForNobody
<1> HIDE DEF a
<1>3. p \in Seq(AllSteps) /\ Len(p) = 1 /\ \A i \in 1 .. Len(p) : i = 1 /\ p[i] = a
  BY <1>2
<1> HIDE DEF p
<1>4. /\ a[1] \notin TaskSteps \cup EntryKinds \cup Firsts \cup {"reload", "unpark", "destroyAll", "lastReads", "lastTasks"}
      /\ a[1] \notin Passing /\ ~Forces(a) /\ a # EndOfForce
  <2>1. EndOfForce[1] = "end"
    BY DEF EndOfForce
  <2> QED
    BY <1>2, <2>1 DEF TaskSteps, EntryKinds, Counting, Passing, Waits, Firsts, Dispatcher, ForSets, Lasts, Forces
<1>5. u \in Threads /\ u \notin LaneThreads /\ Typed
  BY CacheAssumption DEF Threads, CacheInv
<1>6. Begins(u, p, Mine(u)')
  BY <1>3, <1>4, <1>5 DEF Begins, Backed, ForceEnds
<1>7. Ending'
  BY <1>1, <1>3, <1>4, <1>5, <1>6, EnteredEnding
<1>8. Full => Full'
  BY <1>1, <1>5, LimitSinks DEF Full, Typed, TypeOK
<1>9. calls' \in Nat /\ gone' \in BOOLEAN /\ \A i \in 1 .. Len(p) : p[i][1] \notin TaskSteps \cup EntryKinds
  BY <1>1, <1>3, <1>4, <1>5 DEF Typed
<1> QED
  BY <1>1, <1>3, <1>5, <1>6, <1>7, <1>8, <1>9, NewCall

LEMMA DestructorStep ==
  ASSUME CacheInv, NEW u \in Users, Destructor(u)
  PROVE  CacheInv'
<1> DEFINE a == <<"lastReads", None>>
           p == <<a>>
<1>1. /\ ~gone /\ gone' = TRUE /\ todo' = [todo EXCEPT ![u] = p]
      /\ \A v \in Users : todo[v] = <<>> /\ held[v] = {}
      /\ UNCHANGED <<entry, published, fresh, freshCount, allLocks, unused, incoming, queued, requests, running, tasks, reads,
                     replaced, laneQueue, lane, disk, held, calls>>
  BY DEF Destructor, mapVars, waitVars, countVars, laneVars
<1>2. a \in AllSteps /\ a[1] = "lastReads"
  BY StepsAre DEF ForNobody
<1> HIDE DEF a
<1>3. p \in Seq(AllSteps) /\ Len(p) = 1 /\ \A i \in 1 .. Len(p) : i = 1 /\ p[i] = a
  BY <1>2
<1> HIDE DEF p
<1>4. /\ a[1] \notin TaskSteps \cup EntryKinds \cup Firsts \cup {"reload", "unpark", "destroyAll"}
      /\ a[1] \notin Passing /\ ~Forces(a) /\ a # EndOfForce
  <2>1. EndOfForce[1] = "end"
    BY DEF EndOfForce
  <2> QED
    BY <1>2, <2>1 DEF TaskSteps, EntryKinds, Counting, Passing, Waits, Firsts, Dispatcher, ForSets, Lasts, Forces
<1>5. u \in Threads /\ u \notin LaneThreads /\ Typed /\ Ending /\ Shape /\ todo[u] = <<>> /\ todo \in [Threads -> Seq(AllSteps)]
  BY <1>1, CacheAssumption DEF Threads, CacheInv, Typed
<1>6. Begins(u, p, Mine(u)')
  BY <1>3, <1>4, <1>5 DEF Begins, Backed, ForceEnds
<1>7. /\ todo'[u] = p /\ \A v \in Threads \ {u} : todo'[v] = todo[v]
      /\ DOMAIN p = 1 .. Len(p)
  BY <1>1, <1>3, <1>5, Entered
<1>8. ASSUME NEW t \in Threads, NEW i \in DOMAIN todo'[t]
      PROVE  /\ todo'[t][i][1] \in LateSteps
             /\ todo'[t][i][1] = "lastReads" \/ todo'[t][i][1] \notin {"lastReads", "lastTasks", "destroyAll", "destroy"}
             /\ todo'[t][i][1] = "lastReads" => t \in Users
  <2>1. CASE t = u
    BY <1>2, <1>3, <1>7, <1>8, <2>1 DEF LateSteps
  <2>2. CASE t \in Users \ {u}
    BY <1>1, <1>5, <1>7, <1>8, <2>2
  <2>3. CASE t \in LaneThreads
    <3>1. todo'[t] = todo[t] /\ todo[t] \in Seq(AllSteps) /\ LaneLike(todo[t])
      BY <1>5, <1>7, <2>3 DEF Shape
    <3>2. todo'[t][i][1] \in LaneSteps
      BY <1>8, <3>1 DEF LaneLike
    <3> QED
      BY <3>2 DEF LateSteps, LaneSteps, Dispatcher
  <2> QED
    BY <2>1, <2>2, <2>3 DEF Threads
<1>9. Ending'
  <2>1. \A v, w \in Users : todo'[v] # <<>> /\ todo'[w] # <<>> => v = w
    BY <1>1, <1>7 DEF Threads
  <2>2. \A v \in Users : held'[v] = {}
    BY <1>1
  <2> QED
    BY <1>1, <1>8, <2>1, <2>2 DEF Ending
<1>10. /\ calls' \in Nat /\ lane' \in {"on", "stopping", "off"} /\ gone' \in BOOLEAN
       /\ Full => Full'
  BY <1>1, <1>5 DEF Typed, TypeOK, Full, loadLimit
<1>11. \A i \in 1 .. Len(p) : p[i][1] \notin TaskSteps \cup EntryKinds
  BY <1>3, <1>4
<1> QED
  BY <1>1, <1>3, <1>5, <1>6, <1>9, <1>10, <1>11, NewCall

LEMMA EnteredShifts ==
  ASSUME Typed, NEW t \in Threads, todo[t] = <<>>, NEW p \in Seq(AllSteps), todo' = [todo EXCEPT ![t] = p],
         NEW x \in Entries
  PROVE  Shifts(x, Count(p, For(Counting, x)), Count(p, For(Loaders, x)), Count(p, For(Comers, x)), Count(p, For(Tasking, x)),
                Count(p, For(Unparkers, x)), Count(p, For(PendingKinds, x)), Count(p, Unusing(x)))
BY Entered DEF Typed, Shifts

LEMMA CallWaitStep ==
  ASSUME CacheInv, NEW t \in Users, NEW e \in Entries, CallWait(t, e)
  PROVE  CacheInv'
<1> DEFINE a == <<"wait", e>>
           p == <<a>>
<1>1. a \in AllSteps /\ a[1] = "wait" /\ a[2] = e
  BY StepsAre DEF EntryKinds, Passing, Waits
<1>2. p \in Seq(AllSteps) /\ Len(p) = 1 /\ \A i \in 1 .. Len(p) : i = 1 /\ p[i] = a
  BY <1>1
<1>3. /\ todo[t] = <<>> /\ ~gone /\ calls' = calls + 1 /\ todo' = [todo EXCEPT ![t] = p] /\ e \in held[t]
      /\ UNCHANGED <<entry, published, fresh, freshCount, allLocks, unused, incoming, queued, requests, running, tasks, reads,
                     replaced, laneQueue, lane, disk, held, gone>>
  <2>1. Ends("wait") = <<>>
    BY DEF Ends, Exclusive
  <2>2. p \o <<>> = p
    BY <1>2, ConcatEmptySeq
  <2> HIDE DEF a, p
  <2>3. Enter(t, "wait", p) /\ e \in held[t] /\ held' = held
    BY DEF CallWait, p, a
  <2>4. todo' = [todo EXCEPT ![t] = p]
    BY <2>1, <2>2, <2>3 DEF Enter
  <2> QED
    BY <2>3, <2>4 DEF Enter, mapVars, waitVars, countVars, laneVars
<1> HIDE DEF a
<1>4. t \in Threads /\ t \notin LaneThreads /\ Typed /\ todo \in [Threads -> Seq(AllSteps)]
  BY CacheAssumption DEF Threads, CacheInv, Typed
<1>5. Begins(t, p, Mine(t)')
  <2>1. EndOfForce[1] = "end" /\ TaskDoneOnLane[1] = "taskDone"
    BY DEF EndOfForce, TaskDoneOnLane
  <2>2. a[1] \notin Firsts \cup {"reload", "unpark", "destroyAll"} \cup Lasts /\ ~Forces(a) /\ a # EndOfForce
    BY <1>1, <2>1 DEF Firsts, Dispatcher, ForSets, Lasts, Forces
  <2>3. a[2] \in Mine(t)'
    BY <1>1, <1>3 DEF Mine
  <2> HIDE DEF p
  <2> QED
    BY <1>2, <1>4, <2>2, <2>3 DEF Begins, Backed, ForceEnds
<1>6. Ending' /\ Counters' /\ Numbered' /\ Shape' /\ Doom' /\ Dispatching' /\ todo' \in [Threads -> Seq(AllSteps)]
  <2>1. \A i \in 1 .. Len(p) : p[i][1] \notin {"lastReads", "lastTasks"} /\ p[i][1] \notin TaskSteps
    BY <1>1, <1>2 DEF TaskSteps
  <2>2. Full => Full'
    BY <1>3 DEF Full, loadLimit
  <2>3. \A u \in Users \ {t} : held'[u] = held[u]
    BY <1>3
  <2>4. \A x \in Entries : /\ entry'[x].state = entry[x].state /\ entry'[x].life = entry[x].life
                           /\ entry[x].count = 0 => entry'[x].count = 0
    BY <1>3
  <2> HIDE DEF p
  <2>5. Ending'
    BY <1>2, <1>3, <1>4, <1>5, <2>1, EnteredEnding
  <2>6. Counters'
    BY <1>2, <1>3, <1>4, <2>1, EnteredCounters DEF CacheInv
  <2>7. Numbered' /\ Shape' /\ Doom' /\ Dispatching' /\ todo' \in [Threads -> Seq(AllSteps)]
    BY <1>2, <1>3, <1>4, <1>5, <2>2, <2>3, <2>4, EnteredRest
  <2> QED
    BY <2>5, <2>6, <2>7
<1>7. Typed'
  BY <1>3, <1>4, <1>6 DEF Typed, TypeOK
<1>8. e \in Live
  BY <1>3 DEF CacheInv, Unknown, Holders
<1>9. Shifts(e, 0, 0, 1, 0, 0, 0, 0)
  <2>1. /\ Of(a, Counting, e) = 0 /\ Of(a, Loaders, e) = 0 /\ Of(a, Comers, e) = 1 /\ Of(a, Tasking, e) = 0
        /\ Of(a, Unparkers, e) = 0 /\ Of(a, PendingKinds, e) = 0 /\ Of(a, {"enqueue"}, e) = 0
    BY <1>1 DEF Of, One, Counting, Loaders, Comers, Tasking, Unparkers, PendingKinds
  <2>2. /\ \A K : One(a \in For(K, e)) = Of(a, K, e)
        /\ One(a \in Unusing(e)) = Of(a, {"enqueue"}, e)
    BY <1>1, ShiftsSum DEF ForSets
  <2>3. \A G : Count(p, G) = One(a \in G)
    BY CountShort
  <2> HIDE DEF p
  <2>4. Shifts(e, Count(p, For(Counting, e)), Count(p, For(Loaders, e)), Count(p, For(Comers, e)), Count(p, For(Tasking, e)),
               Count(p, For(Unparkers, e)), Count(p, For(PendingKinds, e)), Count(p, Unusing(e)))
    BY <1>2, <1>3, <1>4, EnteredShifts
  <2> QED
    BY <2>1, <2>2, <2>3, <2>4
<1>10. ASSUME NEW x \in Entries \ {e} PROVE Unnamed(x) /\ Spared(x)
  <2>1. \A i \in 1 .. Len(p) : p[i] \notin Naming(x)
    BY <1>1, <1>2, <1>10 DEF Naming, Takes, ForSets
  <2> HIDE DEF p
  <2>2. Unnamed(x)
    BY <1>2, <1>3, <1>4, <2>1, EnteredElse
  <2>3. Spared(x)
    BY <1>3 DEF Spared, Holders, Waiting
  <2> QED
    BY <2>2, <2>3
<1>11. Keeps(e)
  <2>1. /\ Cardinality(Holders(e))' = Cardinality(Holders(e)) + 0
        /\ Count(Waiting, {e})' = Count(Waiting, {e}) + 0
        /\ Count(replaced, {e})' = Count(replaced, {e}) + 0
        /\ One(e \in disk') = One(e \in disk) + 0
        /\ One(e \in unused') = One(e \in unused) + 0
    BY <1>3, <1>4, Zeros DEF Holders, Waiting
  <2>2. (~gone' => ~gone /\ 0 + 0 = 0) /\ {0, 1} \subseteq Int /\ entry'[e] = entry[e]
    BY <1>3
  <2> HIDE DEF p
  <2> QED
    BY <1>4, <1>7, <1>9, <2>1, <2>2, Handing
<1>12. Accounts' /\ Unknown'
  BY <1>8, <1>10, <1>11, OneKept DEF CacheInv
<1> QED
  BY <1>6, <1>7, <1>12 DEF CacheInv

LEMMA DropStep ==
  ASSUME CacheInv, NEW t \in Users, NEW e \in Entries, Drop(t, e)
  PROVE  CacheInv'
<1> DEFINE a == <<"release", e>>
           p == <<a>>
<1>1. a \in AllSteps /\ a[1] = "release" /\ a[2] = e
  BY StepsAre DEF EntryKinds, Counting
<1>2. p \in Seq(AllSteps) /\ Len(p) = 1 /\ \A i \in 1 .. Len(p) : i = 1 /\ p[i] = a
  BY <1>1
<1>3. /\ todo[t] = <<>> /\ held' = [held EXCEPT ![t] = @ \ {e}] /\ todo' = [todo EXCEPT ![t] = p] /\ e \in held[t]
      /\ UNCHANGED <<entry, published, fresh, freshCount, allLocks, unused, incoming, queued, requests, running, tasks, reads,
                     replaced, laneQueue, lane, disk, calls, gone>>
  BY DEF Drop, mapVars, waitVars, countVars, laneVars
<1> HIDE DEF a
<1>4. /\ t \in Threads /\ t \notin LaneThreads /\ Typed /\ todo \in [Threads -> Seq(AllSteps)]
      /\ held \in [Users -> SUBSET Entries] /\ ~gone
  BY <1>3, CacheAssumption DEF Threads, CacheInv, Typed, TypeOK, Ending
<1>5. Begins(t, p, Mine(t)')
  <2>1. EndOfForce[1] = "end" /\ TaskDoneOnLane[1] = "taskDone"
    BY DEF EndOfForce, TaskDoneOnLane
  <2>2. a[1] \notin Firsts \cup {"reload", "unpark", "destroyAll"} \cup Lasts /\ ~Forces(a) /\ a # EndOfForce
    BY <1>1, <2>1 DEF Firsts, Dispatcher, ForSets, Lasts, Forces
  <2>3. a[1] \notin Passing
    BY <1>1 DEF Passing, Waits
  <2> HIDE DEF p
  <2> QED
    BY <1>2, <1>4, <2>2, <2>3 DEF Begins, Backed, ForceEnds
<1>6. Ending' /\ Counters' /\ Numbered' /\ Shape' /\ Doom' /\ Dispatching' /\ todo' \in [Threads -> Seq(AllSteps)]
  <2>1. \A i \in 1 .. Len(p) : p[i][1] \notin {"lastReads", "lastTasks"} /\ p[i][1] \notin TaskSteps
    BY <1>1, <1>2 DEF TaskSteps
  <2>2. Full => Full'
    BY <1>3 DEF Full, loadLimit
  <2>3. \A u \in Users \ {t} : held'[u] = held[u]
    BY <1>3, <1>4
  <2>4. \A x \in Entries : /\ entry'[x].state = entry[x].state /\ entry'[x].life = entry[x].life
                           /\ entry[x].count = 0 => entry'[x].count = 0
    BY <1>3
  <2> HIDE DEF p
  <2>5. Ending'
    BY <1>2, <1>3, <1>4, <1>5, <2>1, EnteredEnding
  <2>6. Counters'
    BY <1>2, <1>3, <1>4, <2>1, EnteredCounters DEF CacheInv
  <2>7. Numbered' /\ Shape' /\ Doom' /\ Dispatching' /\ todo' \in [Threads -> Seq(AllSteps)]
    BY <1>2, <1>3, <1>4, <1>5, <2>2, <2>3, <2>4, EnteredRest
  <2> QED
    BY <2>5, <2>6, <2>7
<1>7. Typed'
  BY <1>3, <1>4, <1>6 DEF Typed, TypeOK
<1>8. e \in Live
  BY <1>3 DEF CacheInv, Unknown, Holders
<1>9. Shifts(e, 1, 0, 0, 0, 0, 0, 0)
  <2>1. /\ Of(a, Counting, e) = 1 /\ Of(a, Loaders, e) = 0 /\ Of(a, Comers, e) = 0 /\ Of(a, Tasking, e) = 0
        /\ Of(a, Unparkers, e) = 0 /\ Of(a, PendingKinds, e) = 0 /\ Of(a, {"enqueue"}, e) = 0
    BY <1>1 DEF Of, One, Counting, Loaders, Comers, Tasking, Unparkers, PendingKinds
  <2>2. /\ \A K : One(a \in For(K, e)) = Of(a, K, e)
        /\ One(a \in Unusing(e)) = Of(a, {"enqueue"}, e)
    BY <1>1, ShiftsSum DEF ForSets
  <2>3. \A G : Count(p, G) = One(a \in G)
    BY CountShort
  <2> HIDE DEF p
  <2>4. Shifts(e, Count(p, For(Counting, e)), Count(p, For(Loaders, e)), Count(p, For(Comers, e)), Count(p, For(Tasking, e)),
               Count(p, For(Unparkers, e)), Count(p, For(PendingKinds, e)), Count(p, Unusing(e)))
    BY <1>2, <1>3, <1>4, EnteredShifts
  <2> QED
    BY <2>1, <2>2, <2>3, <2>4
<1>10. ASSUME NEW x \in Entries \ {e} PROVE Unnamed(x) /\ Spared(x)
  <2>1. \A i \in 1 .. Len(p) : p[i] \notin Naming(x)
    BY <1>1, <1>2, <1>10 DEF Naming, Takes, ForSets
  <2> HIDE DEF p
  <2>2. Unnamed(x)
    BY <1>2, <1>3, <1>4, <2>1, EnteredElse
  <2>3. Holders(x)' = Holders(x)
    BY <1>3, <1>4, <1>10 DEF Holders
  <2>4. Spared(x)
    BY <1>3, <2>3 DEF Spared, Waiting
  <2> QED
    BY <2>2, <2>4
<1>11. Keeps(e)
  <2>3. Cardinality(Holders(e))' = Cardinality(Holders(e)) + (-1)
    <3>1. Holders(e)' = Holders(e) \ {t} /\ t \in Holders(e)
      BY <1>3, <1>4 DEF Holders
    <3>2. IsFiniteSet(Holders(e)) /\ Cardinality(Holders(e)) \in Nat
      BY <1>4, Amounts
    <3>3. Cardinality(Holders(e) \ {t}) = Cardinality(Holders(e)) - 1
      BY <3>1, <3>2, FS_RemoveElement
    <3> QED
      BY <3>1, <3>2, <3>3
  <2>1. /\ Count(Waiting, {e})' = Count(Waiting, {e}) + 0
        /\ Count(replaced, {e})' = Count(replaced, {e}) + 0
        /\ One(e \in disk') = One(e \in disk) + 0
        /\ One(e \in unused') = One(e \in unused) + 0
    BY <1>3, <1>4, Zeros DEF Waiting
  <2>2. (~gone' => ~gone /\ 0 + 0 = 0) /\ {-1, 0, 1} \subseteq Int /\ entry'[e] = entry[e]
    BY <1>3
  <2> HIDE DEF p
  <2> QED
    BY <1>4, <1>7, <1>9, <2>1, <2>2, <2>3, Handing
<1>12. Accounts' /\ Unknown'
  BY <1>8, <1>10, <1>11, OneKept DEF CacheInv
<1> QED
  BY <1>6, <1>7, <1>12 DEF CacheInv

LEMMA CallCopyStep ==
  ASSUME CacheInv, NEW u \in Users, NEW v \in Users, NEW e \in Entries, CallCopy(u, v, e)
  PROVE  CacheInv'
<1> DEFINE p == <<>>
           new == [entry[e] EXCEPT !.count = @ + 1]
<1>1. /\ e \in held[u] /\ e \notin held[v] /\ todo[v] = <<>> /\ ~gone /\ calls' = calls + 1
      /\ held' = [held EXCEPT ![v] = @ \cup {e}] /\ entry' = [entry EXCEPT ![e] = new]
      /\ UNCHANGED <<published, fresh, freshCount, allLocks, unused, incoming, queued, requests, running, tasks, reads,
                     replaced, todo, laneQueue, lane, disk, gone>>
  BY DEF CallCopy, mapVars, waitVars, countVars, laneVars
<1>2. /\ v \in Threads /\ v \notin LaneThreads /\ Typed /\ todo \in [Threads -> Seq(AllSteps)]
      /\ held \in [Users -> SUBSET Entries]
  BY CacheAssumption DEF Threads, CacheInv, Typed, TypeOK
<1>3. p \in Seq(AllSteps) /\ todo' = [todo EXCEPT ![v] = p]
  BY <1>1, <1>2
<1>4. /\ e \in Live /\ entry \in [Entries -> EntryType] /\ entry[e] \in EntryType /\ entry[e].count \in Nat
      /\ CountOk(e) /\ LoadOk(e) /\ QueueOk(e)
  <2>1. e \in Live
    BY <1>1 DEF CacheInv, Unknown, Holders
  <2> QED
    BY <1>2, <2>1 DEF CacheInv, Accounts, Typed, TypeOK, EntryType
<1>5. /\ new.count = entry[e].count + 1 /\ new.parked = entry[e].parked /\ new.claimed = entry[e].claimed
      /\ new.state = entry[e].state /\ new.pending = entry[e].pending /\ new.queued = entry[e].queued
      /\ new.life = entry[e].life
  BY <1>4 DEF EntryType
<1>6. new \in EntryType
  BY <1>4 DEF EntryType
<1> HIDE DEF new
<1>7. /\ entry' \in [Entries -> EntryType] /\ entry'[e] = new /\ \A x \in Entries \ {e} : entry'[x] = entry[x]
  BY <1>1, <1>4, <1>6
<1>8. Holders(e)' = Holders(e) \cup {v} /\ v \notin Holders(e) /\ u \in Holders(e)
  BY <1>1, <1>2 DEF Holders
<1>9. /\ Cardinality(Holders(e))' = Cardinality(Holders(e)) + 1 /\ Cardinality(Holders(e)) \in Nat \ {0}
  <2>1. IsFiniteSet(Holders(e)) /\ Cardinality(Holders(e)) \in Nat /\ Cardinality(Holders(e)) # 0
    BY <1>1, <1>2, Amounts
  <2>2. Cardinality(Holders(e) \cup {v}) = Cardinality(Holders(e)) + 1
    BY <1>8, <2>1, FS_AddElement
  <2> QED
    BY <1>8, <2>1, <2>2
<1>10. /\ \A G : StepsIn(G)' = StepsIn(G) /\ StepsIn(G) \in Nat
       /\ Count(Waiting, {e}) \in Nat /\ Count(replaced, {e}) \in Nat
  <2>1. \A G : StepsIn(G)' = StepsIn(G)
    BY <1>1 DEF StepsIn
  <2>2. /\ \A G : StepsIn(G) \in Nat
        /\ Count(Waiting, {e}) \in Nat /\ Count(replaced, {e}) \in Nat
    BY <1>2, Amounts
  <2> QED
    BY <2>1, <2>2
<1>11. CountOk(e)' /\ LoadOk(e)' /\ QueueOk(e)'
  <2>1. Waiting' = Waiting /\ replaced' = replaced /\ disk' = disk /\ unused' = unused /\ gone' = gone
    BY <1>1 DEF Waiting
  <2>2. Count(Waiting, {e})' = Count(Waiting, {e}) /\ Count(replaced, {e})' = Count(replaced, {e})
    BY <2>1
  <2>3. Having(e)' = Having(e) + 1 /\ Having(e) \in Nat /\ Having(e) # 0
    <3>1. StepsIn(For(Counting, e)) \in Nat /\ One(e \in disk) \in Nat /\ One(e \in disk)' = One(e \in disk)
      BY <1>10, <2>1 DEF One
    <3>2. Having(e)' = Cardinality(Holders(e))' + Count(Waiting, {e}) + Count(replaced, {e}) + StepsIn(For(Counting, e)) + One(e \in disk)
      BY <1>10, <2>1, <2>2, <3>1 DEF Having
    <3> HIDE DEF p
    <3> QED
      BY <1>9, <1>10, <3>1, <3>2 DEF Having
  <2>4. CountOk(e)'
    BY <1>4, <1>5, <1>7, <2>3 DEF CountOk
  <2>5. /\ Loads(e)' = Loads(e) /\ Coming(e)' = Coming(e) /\ TasksOf(e)' = TasksOf(e) /\ Queue(e)' = Queue(e)
        /\ StepsIn(For(PendingKinds, e))' = StepsIn(For(PendingKinds, e))
    BY <1>5, <1>7, <1>10, <2>1, <2>2 DEF Loads, Coming, TasksOf, Queue
  <2>6. LoadOk(e)'
    BY <1>4, <1>5, <1>7, <1>10, <2>5 DEF LoadOk
  <2>7. QueueOk(e)'
    BY <1>4, <1>5, <1>7, <2>1, <2>5 DEF QueueOk
  <2> QED
    BY <2>4, <2>6, <2>7
<1>12. ASSUME NEW x \in Entries \ {e} PROVE Unnamed(x) /\ Spared(x)
  <2>1. Holders(x)' = Holders(x)
    BY <1>1, <1>2, <1>12 DEF Holders
  <2>2. Unnamed(x)
    BY <1>10 DEF Unnamed
  <2>3. Spared(x)
    BY <1>1, <1>7, <2>1 DEF Spared, Waiting
  <2> QED
    BY <2>2, <2>3
<1>13. Accounts' /\ Unknown'
  <2>1. entry'[e].life = "live"
    BY <1>4, <1>5, <1>7 DEF Live
  <2> QED
    BY <1>11, <1>12, <2>1, OneEntry DEF CacheInv
<1>14. Numbered' /\ Shape' /\ Doom' /\ Dispatching' /\ todo' \in [Threads -> Seq(AllSteps)]
  <2>1. Begins(v, p, Mine(v)')
    BY <1>2 DEF Begins, Backed, ForceEnds
  <2>2. /\ Full => Full'
        /\ \A w \in Users \ {v} : held'[w] = held[w]
    BY <1>1, <1>2 DEF Full, loadLimit
  <2>3. Having(e) # 0
    <3>1. StepsIn(For(Counting, e)) \in Nat /\ One(e \in disk) \in Nat
      BY <1>10 DEF One
    <3> QED
      BY <1>9, <1>10, <3>1 DEF Having
  <2>4. \A x \in Entries : /\ entry'[x].state = entry[x].state /\ entry'[x].life = entry[x].life
                           /\ entry[x].count = 0 => entry'[x].count = 0
    BY <1>4, <1>5, <1>7, <2>3 DEF CountOk
  <2> HIDE DEF p
  <2> QED
    BY <1>1, <1>2, <1>3, <2>1, <2>2, <2>4, EnteredRest
<1>15. Typed'
  <2>1. held' \in [Users -> SUBSET Entries] /\ calls' \in Nat
    BY <1>1, <1>2 DEF Typed
  <2> QED
    BY <1>1, <1>2, <1>7, <2>1 DEF Typed, TypeOK, EntryType
<1>16. Counters'
  <2>1. Balanced
    BY <1>10 DEF Balanced
  <2> QED
    BY <1>1, <2>1, CountersKept DEF CacheInv
<1>17. Ending'
  BY <1>1 DEF CacheInv, Ending
<1> QED
  BY <1>13, <1>14, <1>15, <1>16, <1>17 DEF CacheInv

-----------------------------------------------------------------------------
(* The lane takes a task. *)

LEMMA LaneHead ==
  ASSUME Typed, Unknown, laneQueue # <<>>, laneQueue' = Tail(laneQueue), UNCHANGED <<incoming, queued>>, NEW e, e = Head(laneQueue)
  PROVE  /\ e \in Entries /\ e \in Live /\ laneQueue' \in Seq(Entries)
         /\ Len(laneQueue) \in Nat /\ Len(laneQueue') = Len(laneQueue) - 1
         /\ Len(Waiting) \in Nat \ {0} /\ Len(Waiting)' = Len(Waiting) - 1
         /\ Count(Waiting, {e})' = Count(Waiting, {e}) + (-1)
         /\ \A x \in Entries \ {e} : Count(Waiting, {x})' = Count(Waiting, {x})
<1>1. incoming \in Seq(Entries) /\ queued \in Seq(Entries) /\ laneQueue \in Seq(Entries)
  BY DEF Typed, TypeOK
<1>2. /\ \A G : Count(Tail(laneQueue), G) = Count(laneQueue, G) - One(laneQueue[1] \in G)
      /\ Head(laneQueue) = laneQueue[1] /\ laneQueue[1] \in Entries /\ Tail(laneQueue) \in Seq(Entries)
      /\ Len(Tail(laneQueue)) = Len(laneQueue) - 1 /\ Len(laneQueue) \in Nat \ {0}
  BY <1>1, CountTail
<1>3. e = laneQueue[1] /\ e \in Entries /\ laneQueue' \in Seq(Entries) /\ Len(laneQueue') = Len(laneQueue) - 1
  BY <1>2
<1>4. /\ Waiting = incoming \o queued \o laneQueue /\ Waiting' = incoming \o queued \o laneQueue'
      /\ Waiting \in Seq(Entries)
      /\ Len(Waiting) = Len(incoming) + Len(queued) + Len(laneQueue)
      /\ Len(Waiting') = Len(incoming) + Len(queued) + Len(laneQueue')
      /\ \A G : Count(Waiting, G) = Count(incoming, G) + Count(queued, G) + Count(laneQueue, G)
      /\ \A G : Count(Waiting', G) = Count(incoming, G) + Count(queued, G) + Count(laneQueue', G)
  <2>1. Waiting = incoming \o queued \o laneQueue /\ Waiting' = incoming \o queued \o laneQueue'
    BY DEF Waiting
  <2>2. /\ Waiting \in Seq(Entries)
        /\ Len(Waiting) = Len(incoming) + Len(queued) + Len(laneQueue)
        /\ \A G : Count(Waiting, G) = Count(incoming, G) + Count(queued, G) + Count(laneQueue, G)
    BY <1>1, ThreeLists DEF Waiting
  <2> DEFINE later == laneQueue'
  <2>3. later \in Seq(Entries)
    BY <1>3
  <2> HIDE DEF later
  <2>4. /\ Len(incoming \o queued \o later) = Len(incoming) + Len(queued) + Len(later)
        /\ \A G : Count(incoming \o queued \o later, G) = Count(incoming, G) + Count(queued, G) + Count(later, G)
    BY <1>1, <2>3, ThreeLists
  <2>5. /\ Len(incoming \o queued \o laneQueue') = Len(incoming) + Len(queued) + Len(laneQueue')
        /\ \A G : Count(incoming \o queued \o laneQueue', G) = Count(incoming, G) + Count(queued, G) + Count(laneQueue', G)
    BY <2>4 DEF later
  <2> QED
    BY <2>1, <2>2, <2>5
<1>5. /\ Len(incoming) \in Nat /\ Len(queued) \in Nat
      /\ \A G : Count(incoming, G) \in Nat /\ Count(queued, G) \in Nat /\ Count(laneQueue, G) \in Nat
      /\ \A G : Count(laneQueue', G) = Count(laneQueue, G) - One(e \in G)
  BY <1>1, <1>2, <1>3, CountType, LenProperties
<1>6. Len(Waiting) \in Nat \ {0} /\ Len(Waiting)' = Len(Waiting) - 1
  BY <1>2, <1>3, <1>4, <1>5
<1>7. ASSUME NEW x \in Entries PROVE Count(Waiting, {x})' = Count(Waiting, {x}) - One(e \in {x})
  <2>1. Count(Waiting, {x})' = Count(Waiting', {x})
    BY DEF Count
  <2>2. One(e \in {x}) \in Int
    BY DEF One
  <2>3. Count(laneQueue', {x}) = Count(laneQueue, {x}) - One(e \in {x})
    BY <1>5
  <2> QED
    BY <1>4, <1>5, <2>1, <2>2, <2>3
<1>8. e \in Live
  <2>1. Count(laneQueue, {e}) # 0
    <3>1. Len(laneQueue) \in Nat /\ 1 \in 1 .. Len(laneQueue) /\ laneQueue[1] \in {e}
      BY <1>2, <1>3
    <3>2. Count(laneQueue, {e}) = 0 => \A i \in 1 .. Len(laneQueue) : laneQueue[i] \notin {e}
      BY <1>1, CountType
    <3> QED
      BY <3>1, <3>2
  <2>2. Count(Waiting, {e}) # 0
    BY <1>4, <1>5, <2>1
  <2> QED
    BY <1>3, <2>2 DEF Unknown
<1>9. \A x \in Entries : Count(Waiting, {x}) \in Nat
  BY <1>4, CountType
<1>10. One(e \in {e}) = 1 /\ \A x \in Entries \ {e} : One(e \in {x}) = 0
  BY DEF One
<1> QED
  BY <1>2, <1>3, <1>6, <1>7, <1>8, <1>9, <1>10

\* A thread of the lane takes a task to run it, or to drop it.
TaskFor(t, k) ==
  /\ todo[t] = <<>> /\ laneQueue # <<>> /\ laneQueue' = Tail(laneQueue)
  /\ k \in {"claimOrPark", "claimFail"}
  /\ todo' = [todo EXCEPT ![t] = <<<<k, Head(laneQueue)>>, <<"release", Head(laneQueue)>>, TaskDoneOnLane>>]
  /\ UNCHANGED <<entry, published, fresh, freshCount, allLocks, unused, incoming, queued, requests, running, tasks, reads,
                 replaced, lane, disk, held, calls, gone>>

LEMMA LaneTakes ==
  ASSUME CacheInv, NEW t \in LaneThreads, NEW k, TaskFor(t, k)
  PROVE  CacheInv'
<1>1. PICK e : e = Head(laneQueue)
  OBVIOUS
<1> DEFINE a == <<k, e>>
           b == <<"release", e>>
           c == TaskDoneOnLane
           p == <<a, b, c>>
<1>2. /\ todo[t] = <<>> /\ laneQueue # <<>> /\ laneQueue' = Tail(laneQueue)
      /\ k \in {"claimOrPark", "claimFail"} /\ todo' = [todo EXCEPT ![t] = p]
      /\ UNCHANGED <<entry, published, fresh, freshCount, allLocks, unused, incoming, queued, requests, running, tasks, reads,
                     replaced, lane, disk, held, calls, gone>>
  BY <1>1 DEF TaskFor
<1>3. t \in Threads /\ Typed /\ Unknown /\ Counters /\ todo \in [Threads -> Seq(AllSteps)]
  BY DEF Threads, CacheInv, Typed
<1>4. /\ e \in Entries /\ e \in Live /\ laneQueue' \in Seq(Entries)
      /\ Len(laneQueue) \in Nat /\ Len(laneQueue') = Len(laneQueue) - 1
      /\ Len(Waiting) \in Nat \ {0} /\ Len(Waiting)' = Len(Waiting) - 1
      /\ Count(Waiting, {e})' = Count(Waiting, {e}) + (-1)
      /\ \A x \in Entries \ {e} : Count(Waiting, {x})' = Count(Waiting, {x})
  BY <1>1, <1>2, <1>3, LaneHead
<1>5. /\ a \in AllSteps /\ a[1] = k /\ a[2] = e
      /\ b \in AllSteps /\ b[1] = "release" /\ b[2] = e
      /\ c \in AllSteps /\ c[1] = "taskDone" /\ c[2] = TRUE
  <2>1. k \in EntryKinds \ {"takeParked"} /\ "release" \in EntryKinds \ {"takeParked"}
    BY <1>2 DEF EntryKinds, Counting, Passing
  <2>2. a \in AllSteps /\ b \in AllSteps
    BY <1>4, <2>1, StepsAre
  <2>3. c \in AllSteps
    BY StepsAre DEF TaskDoneOnLane
  <2> QED
    BY <2>2, <2>3 DEF TaskDoneOnLane
<1> HIDE DEF a, b, c
<1>6. /\ p \in Seq(AllSteps) /\ Len(p) = 3 /\ p[1] = a /\ p[2] = b /\ p[3] = c
      /\ \A G : Count(p, G) = One(a \in G) + One(b \in G) + One(c \in G)
  <2>1. p \in Seq(AllSteps) /\ Len(p) = 3 /\ p[1] = a /\ p[2] = b /\ p[3] = c
    BY <1>5
  <2>2. \A G : Count(<<a, b, c>>, G) = One(a \in G) + One(b \in G) + One(c \in G)
    BY <1>5, CountThree
  <2> QED
    BY <2>1, <2>2
<1> HIDE DEF p
<1>7. \A i \in 1 .. Len(p) : i \in {1, 2, 3} /\ p[i] \in {a, b, c} /\ (i # 3 => p[i] \in {a, b})
  BY <1>6
<1>8. Begins(t, p, Mine(t)')
  <2>1. EndOfForce[1] = "end"
    BY DEF EndOfForce
  <2>2. \A s \in {a, b, c} : /\ s[1] \notin Firsts \cup {"reload", "unpark", "destroyAll"} \cup Lasts
                             /\ ~Forces(s) /\ s # EndOfForce /\ s[1] \in LaneSteps
    BY <1>2, <1>5, <2>1 DEF Firsts, Dispatcher, ForSets, Lasts, Forces, LaneSteps
  <2>3. a # TaskDoneOnLane /\ b # TaskDoneOnLane
    BY <1>2, <1>5 DEF c
  <2>4. Backed(p, Mine(t)')
    <3>1. /\ b[1] \notin Passing /\ c[1] \notin Passing /\ b[1] \in Counting /\ b[2] = a[2]
      BY <1>5 DEF Passing, Waits, Counting
    <3> QED
      BY <1>6, <1>7, <3>1 DEF Backed
  <2>5. LaneLike(p)
    BY <1>5, <1>6, <1>7, <2>2 DEF LaneLike, TaskEnds
  <2>6. ForceEnds(p)
    BY <1>7, <2>2 DEF ForceEnds
  <2>7. \A i, j \in 1 .. Len(p) : p[i] = TaskDoneOnLane /\ p[j] = TaskDoneOnLane => i = j
    BY <1>7, <2>3
  <2> QED
    BY <1>7, <2>2, <2>4, <2>5, <2>6, <2>7 DEF Begins
<1>9. Ending' /\ Numbered' /\ Shape' /\ Doom' /\ Dispatching' /\ todo' \in [Threads -> Seq(AllSteps)]
  <2>1. \A i \in 1 .. Len(p) : p[i][1] \notin {"lastReads", "lastTasks"}
    BY <1>2, <1>5, <1>7
  <2>2. Full => Full'
    BY <1>2 DEF Full, loadLimit
  <2>3. \A u \in Users \ {t} : held'[u] = held[u]
    BY <1>2
  <2>4. \A x \in Entries : /\ entry'[x].state = entry[x].state /\ entry'[x].life = entry[x].life
                           /\ entry[x].count = 0 => entry'[x].count = 0
    BY <1>2
  <2>5. tasks # 0
    <3>1. StepsIn(Named(TaskSteps)) \in Nat /\ Cardinality(disk) \in Nat
      BY <1>3, Someone, DiskFinite
    <3> QED
      BY <1>3, <1>4, <3>1 DEF Counters
  <2>6. Ending'
    BY <1>2, <1>3, <1>6, <1>8, <2>1, <2>5, EnteredEnding
  <2>7. Numbered' /\ Shape' /\ Doom' /\ Dispatching' /\ todo' \in [Threads -> Seq(AllSteps)]
    BY <1>2, <1>3, <1>6, <1>8, <2>2, <2>3, <2>4, EnteredRest
  <2> QED
    BY <2>6, <2>7
<1>10. Typed'
  BY <1>2, <1>3, <1>4, <1>9 DEF Typed, TypeOK
<1>11. Shifts(e, 1, 0, 1, 1, 0, 0, 0)
  <2>1. /\ Of(a, Counting, e) = 0 /\ Of(a, Loaders, e) = 0 /\ Of(a, Comers, e) = 1 /\ Of(a, Tasking, e) = 1
        /\ Of(a, Unparkers, e) = 0 /\ Of(a, PendingKinds, e) = 0 /\ Of(a, {"enqueue"}, e) = 0
    BY <1>2, <1>5 DEF Of, One, Counting, Loaders, Comers, Tasking, Unparkers, PendingKinds
  <2>2. /\ Of(b, Counting, e) = 1 /\ Of(b, Loaders, e) = 0 /\ Of(b, Comers, e) = 0 /\ Of(b, Tasking, e) = 0
        /\ Of(b, Unparkers, e) = 0 /\ Of(b, PendingKinds, e) = 0 /\ Of(b, {"enqueue"}, e) = 0
    BY <1>5 DEF Of, One, Counting, Loaders, Comers, Tasking, Unparkers, PendingKinds
  <2>3. /\ Of(c, Counting, e) = 0 /\ Of(c, Loaders, e) = 0 /\ Of(c, Comers, e) = 0 /\ Of(c, Tasking, e) = 0
        /\ Of(c, Unparkers, e) = 0 /\ Of(c, PendingKinds, e) = 0 /\ Of(c, {"enqueue"}, e) = 0
    BY <1>5 DEF Of, One, Counting, Loaders, Comers, Tasking, Unparkers, PendingKinds
  <2>4. a[1] \notin ForSets /\ b[1] \notin ForSets /\ c[1] \notin ForSets
    BY <1>2, <1>5 DEF ForSets
  <2>5. /\ \A K : One(a \in For(K, e)) = Of(a, K, e)
        /\ \A K : One(b \in For(K, e)) = Of(b, K, e)
        /\ \A K : One(c \in For(K, e)) = Of(c, K, e)
        /\ One(a \in Unusing(e)) = Of(a, {"enqueue"}, e)
        /\ One(b \in Unusing(e)) = Of(b, {"enqueue"}, e)
        /\ One(c \in Unusing(e)) = Of(c, {"enqueue"}, e)
    BY <1>4, <1>5, <2>4, ShiftsSum
  <2>6. /\ Count(p, For(Counting, e)) = 1 /\ Count(p, For(Loaders, e)) = 0 /\ Count(p, For(Comers, e)) = 1
        /\ Count(p, For(Tasking, e)) = 1 /\ Count(p, For(Unparkers, e)) = 0 /\ Count(p, For(PendingKinds, e)) = 0
        /\ Count(p, Unusing(e)) = 0
    BY <1>6, <2>1, <2>2, <2>3, <2>5
  <2>7. Shifts(e, Count(p, For(Counting, e)), Count(p, For(Loaders, e)), Count(p, For(Comers, e)), Count(p, For(Tasking, e)),
               Count(p, For(Unparkers, e)), Count(p, For(PendingKinds, e)), Count(p, Unusing(e)))
    BY <1>2, <1>3, <1>4, <1>6, EnteredShifts
  <2> QED
    BY <2>6, <2>7
<1>12. ASSUME NEW x \in Entries \ {e} PROVE Unnamed(x) /\ Spared(x)
  <2>1. \A s \in {a, b, c} : s \notin Naming(x)
    BY <1>2, <1>5, <1>12 DEF Naming, Takes, ForSets, Counting, Passing, Waits
  <2>2. \A i \in 1 .. Len(p) : p[i] \notin Naming(x)
    BY <1>7, <2>1
  <2>3. Unnamed(x)
    BY <1>2, <1>3, <1>6, <2>2, EnteredElse
  <2>4. Spared(x)
    BY <1>2, <1>4, <1>12 DEF Spared, Holders
  <2> QED
    BY <2>3, <2>4
<1>13. Keeps(e)
  <2>1. /\ Cardinality(Holders(e))' = Cardinality(Holders(e)) + 0
        /\ Count(replaced, {e})' = Count(replaced, {e}) + 0
        /\ One(e \in disk') = One(e \in disk) + 0
        /\ One(e \in unused') = One(e \in unused) + 0
    BY <1>2, <1>3, <1>4, Zeros DEF Holders
  <2>2. (~gone' => ~gone /\ 0 + 0 = 0) /\ {-1, 0, 1} \subseteq Int /\ entry'[e] = entry[e]
    BY <1>2
  <2> QED
    BY <1>3, <1>4, <1>10, <1>11, <2>1, <2>2, Handing, SMTT(60)
<1>14. Accounts' /\ Unknown'
  BY <1>4, <1>12, <1>13, OneKept DEF CacheInv
<1>15. Counters'
  <2>1. /\ One(a \in Named(TaskSteps)) = 0 /\ One(a \in Named(ReadSteps)) = 0 /\ One(a \in {TaskDoneOnLane}) = 0
    BY <1>2, <1>5 DEF Named, TaskSteps, ReadSteps, One, c
  <2>2. /\ One(b \in Named(TaskSteps)) = 0 /\ One(b \in Named(ReadSteps)) = 0 /\ One(b \in {TaskDoneOnLane}) = 0
    BY <1>5 DEF Named, TaskSteps, ReadSteps, One, c
  <2>3. /\ One(c \in Named(TaskSteps)) = 1 /\ One(c \in Named(ReadSteps)) = 0 /\ One(c \in {TaskDoneOnLane}) = 1
    BY <1>5 DEF Named, TaskSteps, ReadSteps, One, c
  <2>4. \A G : StepsIn(G)' = StepsIn(G) + Count(p, G)
    BY <1>2, <1>3, <1>6, Entered, ZenonT(60)
  <2>5. \A G : StepsIn(G) \in Nat
    BY <1>3, Someone
  <2>6. /\ Count(p, Named(TaskSteps)) = 1 /\ Count(p, Named(ReadSteps)) = 0 /\ Count(p, {TaskDoneOnLane}) = 1
    BY <1>6, <2>1, <2>2, <2>3
  <2>7. /\ StepsIn(Named(TaskSteps))' = StepsIn(Named(TaskSteps)) + 1
        /\ StepsIn(Named(ReadSteps))' = StepsIn(Named(ReadSteps))
        /\ StepsIn({TaskDoneOnLane})' = StepsIn({TaskDoneOnLane}) + 1
    BY <2>4, <2>5, <2>6
  <2>8. Cardinality(disk) \in Nat
    BY <1>3, DiskFinite
  <2>9. /\ running = Len(laneQueue) + StepsIn({TaskDoneOnLane}) /\ (MaxLoads # 0 => running <= MaxLoads)
        /\ tasks = Len(Waiting) + StepsIn(Named(TaskSteps)) + Cardinality(disk)
        /\ reads = StepsIn(Named(ReadSteps)) + Cardinality(disk)
    BY <1>3 DEF Counters, ReadSteps
  <2>10. /\ tasks' = Len(Waiting)' + StepsIn(Named(TaskSteps))' + Cardinality(disk)'
         /\ reads' = StepsIn(Named(ReadSteps))' + Cardinality(disk)'
         /\ running' = Len(laneQueue)' + StepsIn({TaskDoneOnLane})'
    <3>1. Cardinality(disk)' = Cardinality(disk) /\ tasks' = tasks /\ reads' = reads /\ running' = running
      BY <1>2
    <3>2. /\ StepsIn(Named(TaskSteps)) \in Nat /\ StepsIn(Named(ReadSteps)) \in Nat /\ StepsIn({TaskDoneOnLane}) \in Nat
      BY <2>5
    <3>3. Len(Waiting)' = Len(Waiting) - 1 /\ Len(laneQueue)' = Len(laneQueue) - 1
      BY <1>4
    <3>4. Len(Waiting) \in Nat /\ Len(laneQueue) \in Nat
      BY <1>4
    <3>5. tasks' = Len(Waiting)' + StepsIn(Named(TaskSteps))' + Cardinality(disk)'
      <4>1. tasks = Len(Waiting) + StepsIn(Named(TaskSteps)) + Cardinality(disk)
        BY <2>9
      <4>2. Len(Waiting)' + StepsIn(Named(TaskSteps))' + Cardinality(disk)'
              = (Len(Waiting) - 1) + (StepsIn(Named(TaskSteps)) + 1) + Cardinality(disk)
        BY <2>7, <3>1, <3>3
      <4> QED
        BY <2>8, <3>1, <3>2, <3>4, <4>1, <4>2
    <3>6. reads' = StepsIn(Named(ReadSteps))' + Cardinality(disk)'
      BY <2>7, <2>9, <3>1
    <3>7. running' = Len(laneQueue)' + StepsIn({TaskDoneOnLane})'
      <4>1. Len(laneQueue)' + StepsIn({TaskDoneOnLane})' = (Len(laneQueue) - 1) + (StepsIn({TaskDoneOnLane}) + 1)
        BY <2>7, <3>3
      <4> QED
        BY <2>9, <3>1, <3>2, <3>4, <4>1
    <3> QED
      BY <3>5, <3>6, <3>7
  <2> QED
    BY <1>2, <2>9, <2>10 DEF Counters, ReadSteps
<1> QED
  BY <1>9, <1>10, <1>14, <1>15 DEF CacheInv

LEMMA LaneStep ==
  ASSUME CacheInv, NEW t \in LaneThreads, LaneRuns(t) \/ LaneDrops(t)
  PROVE  CacheInv'
<1>1. CASE LaneRuns(t)
  <2>1. TaskFor(t, "claimOrPark")
    BY <1>1 DEF LaneRuns, TaskRuns, TaskFor, TaskDoneOnLane, mapVars, waitVars, countVars, userVars
  <2> QED
    BY <2>1, LaneTakes
<1>2. CASE LaneDrops(t)
  <2>1. TaskFor(t, "claimFail")
    BY <1>2 DEF LaneDrops, TaskDropped, TaskFor, TaskDoneOnLane, mapVars, waitVars, countVars, userVars
  <2> QED
    BY <2>1, LaneTakes
<1> QED
  BY <1>1, <1>2

LEMMA DrainLast ==
  ASSUME CacheInv, NEW t \in Threads, Drain(t), laneQueue = <<>>
  PROVE  CacheInv'
<1> DEFINE h == todo[t][1]
           p == <<>>
<1>1. At(t, "drain")
  BY DEF Drain
<1>2. /\ Typed /\ todo[t] # <<>> /\ h \in AllSteps /\ h[1] = "drain" /\ h[2] = Arg(t) /\ h[3] = More(t)
      /\ \A x \in Entries : h \notin Naming(x)
  BY <1>1, IdleHead DEF EntryKinds, Counting, Passing, Waits, ForSets
<1>3. /\ Then(t, p) /\ entry' = entry
      /\ UNCHANGED <<published, fresh, freshCount, allLocks, unused, incoming, queued, requests, running, tasks, reads, replaced, laneQueue, lane, disk, held, calls, gone>>
  BY <1>1, <1>2 DEF Drain, Pass, OnlyEntries, mapVars, waitVars, countVars, laneVars, userVars
<1>4. Follows(h, p, Mine(t)') /\ Calm(p) /\ p \in Seq(AllSteps)
  BY FollowsNone
<1>5. Typed'
  <2>1. todo' \in [Threads -> Seq(AllSteps)]
    BY <1>2, <1>3, <1>4, Moved DEF Typed
  <2> QED
    BY <1>2, <1>3, <2>1 DEF Typed, TypeOK
<1>6. Accounts' /\ Unknown'
  <2>1. \A x \in Entries : \A i \in 1 .. Len(p) : p[i] \notin Naming(x)
    OBVIOUS
  <2>2. \A x \in Entries : Count(Waiting, {x})' = Count(Waiting, {x})
    BY <1>3 DEF Waiting, Count
  <2>3. published' \cup fresh' \subseteq published \cup fresh
    BY <1>3
  <2> HIDE DEF p
  <2>4. \A x \in Entries : todo[t][1] \notin Naming(x)
    BY <1>2
  <2> HIDE DEF h
  <2> QED
    BY <1>2, <1>3, <1>4, <2>1, <2>2, <2>3, <2>4, IdleStep
<1>7. Counters'
  <2>1. Balanced
    <3>1. h[1] \notin TaskSteps /\ \A i \in 1 .. Len(p) : p[i][1] \notin TaskSteps
      BY <1>2 DEF TaskSteps
    <3> HIDE DEF p
    <3> QED
      BY <1>2, <1>3, <1>4, <3>1, NoTask
  <2> QED
    BY <1>3, <2>1, CountersKept DEF CacheInv
<1>8. Numbered' /\ Shape' /\ Doom' /\ Dispatching' /\ Ending'
  <2>1. /\ h[1] \notin Dispatcher \cup {"dispatch", "destroyAll"} /\ h[1] \notin Waits /\ h[1] \notin {"release", "enqueue"}
    BY <1>2, <1>3 DEF Dispatcher, Waits
  <2> HIDE DEF h, p
  <2>2. h = todo[t][1] /\ published' \cup fresh' \subseteq published \cup fresh
    BY <1>3 DEF h
  <2> QED
    BY <1>2, <1>3, <1>4, <1>5, <2>1, <2>2, HandOn
<1> QED
  BY <1>5, <1>6, <1>7, <1>8 DEF CacheInv

LEMMA DrainMore ==
  ASSUME CacheInv, NEW t \in Threads, Drain(t), laneQueue # <<>>
  PROVE  CacheInv'
<1>1. PICK e : e = Head(laneQueue)
  OBVIOUS
<1> DEFINE h == todo[t][1]
           a == <<"claimFail", e>>
           b == <<"release", e>>
           c == TaskDoneOnLane
           d == <<"drain", None>>
           p == <<a, b, c, d>>
<1>2. /\ At(t, "drain") /\ laneQueue' = Tail(laneQueue)
      /\ UNCHANGED <<entry, published, fresh, freshCount, allLocks, unused, incoming, queued, requests, running, tasks, reads,
                     replaced, lane, disk, held, calls, gone>>
  BY DEF Drain, mapVars, waitVars, countVars, userVars
<1>3. /\ Typed /\ Unknown /\ Counters /\ todo[t] # <<>> /\ todo[t] \in Seq(AllSteps) /\ h \in AllSteps /\ h[1] = "drain"
      /\ \A x \in Entries : h \notin Naming(x)
  BY <1>2, IdleHead DEF CacheInv, EntryKinds, Counting, Passing, Waits, ForSets
<1>4. /\ e \in Entries /\ e \in Live /\ laneQueue' \in Seq(Entries)
      /\ Len(laneQueue) \in Nat /\ Len(laneQueue') = Len(laneQueue) - 1
      /\ Len(Waiting) \in Nat \ {0} /\ Len(Waiting)' = Len(Waiting) - 1
      /\ Count(Waiting, {e})' = Count(Waiting, {e}) + (-1)
      /\ \A x \in Entries \ {e} : Count(Waiting, {x})' = Count(Waiting, {x})
  BY <1>1, <1>2, <1>3, LaneHead
<1>5. /\ a \in AllSteps /\ a[1] = "claimFail" /\ a[2] = e
      /\ b \in AllSteps /\ b[1] = "release" /\ b[2] = e
      /\ c \in AllSteps /\ c[1] = "taskDone" /\ c[2] = TRUE
      /\ d \in AllSteps /\ d[1] = "drain" /\ d[2] = None
  <2>1. "claimFail" \in EntryKinds \ {"takeParked"} /\ "release" \in EntryKinds \ {"takeParked"}
    BY DEF EntryKinds, Counting, Passing
  <2>2. a \in AllSteps /\ b \in AllSteps
    BY <1>4, <2>1, StepsAre
  <2>3. c \in AllSteps /\ d \in AllSteps
    BY StepsAre DEF TaskDoneOnLane, ForNobody
  <2> QED
    BY <2>2, <2>3 DEF TaskDoneOnLane
<1>6. Then(t, p)
  <2>1. TaskDropped(e) \o <<d>> = p
    <3> DEFINE q == <<a, b, c>>
               r == <<d>>
    <3>1. TaskDropped(e) = q
      BY DEF TaskDropped, TaskDoneOnLane
    <3> HIDE DEF a, b, c, d
    <3>2. /\ q \in Seq(AllSteps) /\ r \in Seq(AllSteps) /\ p \in Seq(AllSteps)
          /\ Len(q) = 3 /\ Len(r) = 1 /\ Len(p) = 4
          /\ q[1] = a /\ q[2] = b /\ q[3] = c /\ r[1] = d
          /\ p[1] = a /\ p[2] = b /\ p[3] = c /\ p[4] = d
      BY <1>5
    <3> HIDE DEF q, r, p
    <3>3. /\ q \o r \in Seq(AllSteps) /\ Len(q \o r) = Len(q) + Len(r)
          /\ \A i \in 1 .. Len(q) + Len(r) : (q \o r)[i] = IF i <= Len(q) THEN q[i] ELSE r[i - Len(q)]
      <4>1. q \in Seq(AllSteps) /\ r \in Seq(AllSteps)
        BY <3>2
      <4> QED
        BY <4>1, ConcatProperties
    <3>6. Len(q \o r) = 4
      BY <3>2, <3>3
    <3>4. \A i \in 1 .. 4 : (q \o r)[i] = p[i]
      <4>1. /\ (q \o r)[1] = a /\ (q \o r)[2] = b /\ (q \o r)[3] = c /\ (q \o r)[4] = d
        BY <3>2, <3>3
      <4> TAKE i \in 1 .. 4
      <4>2. i = 1 \/ i = 2 \/ i = 3 \/ i = 4
        OBVIOUS
      <4> QED
        BY <3>2, <4>1, <4>2
    <3>5. q \o r = p
      BY <3>2, <3>3, <3>4, <3>6, SeqEqual
    <3> QED
      BY <3>1, <3>5 DEF r
  <2>2. Then(t, TaskDropped(e) \o <<d>>)
    BY <1>1 DEF Drain
  <2> HIDE DEF p, d
  <2> QED
    BY <2>1, <2>2
<1> HIDE DEF a, b, c, d
<1>7. /\ p \in Seq(AllSteps) /\ Len(p) = 4 /\ p[1] = a /\ p[2] = b /\ p[3] = c /\ p[4] = d
      /\ \A G : Count(p, G) = One(a \in G) + One(b \in G) + One(c \in G) + One(d \in G)
  <2>1. p \in Seq(AllSteps) /\ Len(p) = 4 /\ p[1] = a /\ p[2] = b /\ p[3] = c /\ p[4] = d
    BY <1>5
  <2>2. ASSUME NEW G PROVE Count(<<a, b, c, d>>, G) = One(a \in G) + One(b \in G) + One(c \in G) + One(d \in G)
    <3>1. /\ Count(<<a, b>>, G) = One(a \in G) + One(b \in G)
          /\ Count(<<a, b, c>>, G) = One(a \in G) + One(b \in G) + One(c \in G)
          /\ Count(<<a, b, c, d>>, G) = One(a \in G) + One(b \in G) + One(c \in G) + One(d \in G)
      BY <1>5, CountFour
    <3> QED
      BY <3>1
  <2> QED
    BY <2>1, <2>2
<1> HIDE DEF p
<1>8. \A i \in 1 .. Len(p) : i \in {1, 2, 3, 4} /\ p[i] \in {a, b, c, d} /\ (i # 3 => p[i] \in {a, b, d}) /\ (i # 4 => p[i] \in {a, b, c})
  BY <1>7
<1>9. Follows(h, p, Mine(t)') /\ Calm(p)
  <2>1. EndOfForce[1] = "end"
    BY DEF EndOfForce
  <2>2. \A s \in {a, b, c, d} : /\ s[1] \notin Firsts \cup {"reload", "unpark", "destroyAll"}
                                /\ ~Forces(s) /\ Suits(h, s)
                                /\ s[1] \in Lasts => s = d
    BY <1>3, <1>5, <2>1 DEF Firsts, Dispatcher, ForSets, Lasts, Forces, LaneSteps, LateSteps, Suits
  <2>3. a # TaskDoneOnLane /\ b # TaskDoneOnLane /\ d # TaskDoneOnLane /\ a # d /\ b # d /\ c # d
    BY <1>5 DEF c
  <2>4. /\ b[1] \notin Passing /\ c[1] \notin Passing /\ d[1] \notin Passing /\ b[1] \in Counting /\ b[2] = a[2]
        /\ h[1] \in Lasts /\ h[1] \notin Waits /\ h[1] \notin TaskEnds
    BY <1>3, <1>5 DEF Passing, Waits, Counting, Lasts, TaskEnds
  <2>5. \A i \in 1 .. Len(p) : p[i][1] \in Passing => \E j \in 1 .. Len(p) : j > i /\ p[j][1] \in Counting /\ p[j][2] = p[i][2]
    BY <1>7, <1>8, <2>4
  <2>6. \A i, j \in 1 .. Len(p) : p[i] = TaskDoneOnLane /\ p[j] = TaskDoneOnLane => i = j
    BY <1>8, <2>3
  <2>7. \A i \in 1 .. Len(p) : p[i][1] \in Lasts => i = Len(p)
    BY <1>7, <1>8, <2>2, <2>3
  <2>8. Fits(h, p, Mine(t)')
    BY <1>8, <2>2, <2>4, <2>5, <2>6, <2>7 DEF Fits
  <2>9. Calm(p)
    BY <1>8, <2>2 DEF Calm, Firsts
  <2> QED
    BY <1>8, <2>2, <2>4, <2>8, <2>9 DEF Follows
<1>10. /\ todo' \in [Threads -> Seq(AllSteps)]
       /\ \A G : StepsIn(G)' = StepsIn(G) - One(h \in G) + Count(p, G)
  BY <1>3, <1>6, <1>7, Moved DEF Typed
<1>11. Typed'
  BY <1>2, <1>3, <1>4, <1>10 DEF Typed, TypeOK
<1>12. \A G : StepsIn(G) \in Nat
  BY <1>3, Someone DEF Typed
<1>13. Shifts(e, 1, 0, 1, 1, 0, 0, 0)
  <2>1. /\ Of(a, Counting, e) = 0 /\ Of(a, Loaders, e) = 0 /\ Of(a, Comers, e) = 1 /\ Of(a, Tasking, e) = 1
        /\ Of(a, Unparkers, e) = 0 /\ Of(a, PendingKinds, e) = 0 /\ Of(a, {"enqueue"}, e) = 0
    BY <1>5 DEF Of, One, Counting, Loaders, Comers, Tasking, Unparkers, PendingKinds
  <2>2. /\ Of(b, Counting, e) = 1 /\ Of(b, Loaders, e) = 0 /\ Of(b, Comers, e) = 0 /\ Of(b, Tasking, e) = 0
        /\ Of(b, Unparkers, e) = 0 /\ Of(b, PendingKinds, e) = 0 /\ Of(b, {"enqueue"}, e) = 0
    BY <1>5 DEF Of, One, Counting, Loaders, Comers, Tasking, Unparkers, PendingKinds
  <2>3. \A K \in {Counting, Loaders, Comers, Tasking, Unparkers, PendingKinds, {"enqueue"}} :
          Of(c, K, e) = 0 /\ Of(d, K, e) = 0 /\ Of(h, K, e) = 0
    BY <1>3, <1>5 DEF Of, One, Counting, Loaders, Comers, Tasking, Unparkers, PendingKinds
  <2>4. a[1] \notin ForSets /\ b[1] \notin ForSets /\ c[1] \notin ForSets /\ d[1] \notin ForSets /\ h[1] \notin ForSets
    BY <1>3, <1>5 DEF ForSets
  <2>5. \A s \in {a, b, c, d, h} : (\A K : One(s \in For(K, e)) = Of(s, K, e)) /\ One(s \in Unusing(e)) = Of(s, {"enqueue"}, e)
    BY <1>3, <1>4, <1>5, <2>4, ShiftsSum
  <2>6. /\ Count(p, For(Counting, e)) = 1 /\ Count(p, For(Loaders, e)) = 0 /\ Count(p, For(Comers, e)) = 1
        /\ Count(p, For(Tasking, e)) = 1 /\ Count(p, For(Unparkers, e)) = 0 /\ Count(p, For(PendingKinds, e)) = 0
        /\ Count(p, Unusing(e)) = 0
    BY <1>7, <2>1, <2>2, <2>3, <2>5
  <2>7. /\ One(h \in For(Counting, e)) = 0 /\ One(h \in For(Loaders, e)) = 0 /\ One(h \in For(Comers, e)) = 0
        /\ One(h \in For(Tasking, e)) = 0 /\ One(h \in For(Unparkers, e)) = 0 /\ One(h \in For(PendingKinds, e)) = 0
        /\ One(h \in Unusing(e)) = 0
    BY <2>3, <2>5
  <2> HIDE DEF h
  <2> QED
    BY <1>10, <1>12, <2>6, <2>7 DEF Shifts
<1>14. ASSUME NEW x \in Entries \ {e} PROVE Unnamed(x) /\ Spared(x)
  <2>1. \A s \in {a, b, c, d} : s \notin Naming(x)
    BY <1>5, <1>14 DEF Naming, Takes, ForSets, Counting, Passing, Waits
  <2>2. (\A i \in 1 .. Len(p) : p[i] \notin Naming(x)) /\ h \notin Naming(x)
    BY <1>3, <1>8, <2>1
  <2> HIDE DEF h
  <2>3. Unnamed(x)
    BY <1>3, <1>6, <1>7, <2>2, NotNamed DEF h
  <2>4. Spared(x)
    BY <1>2, <1>4, <1>14 DEF Spared, Holders
  <2> QED
    BY <2>3, <2>4
<1>15. Keeps(e)
  <2>1. /\ Cardinality(Holders(e))' = Cardinality(Holders(e)) + 0
        /\ Count(replaced, {e})' = Count(replaced, {e}) + 0
        /\ One(e \in disk') = One(e \in disk) + 0
        /\ One(e \in unused') = One(e \in unused) + 0
    BY <1>2, <1>3, <1>4, Zeros DEF Holders
  <2>2. (~gone' => ~gone /\ 0 + 0 = 0) /\ {-1, 0, 1} \subseteq Int /\ entry'[e] = entry[e]
    BY <1>2
  <2> QED
    BY <1>3, <1>4, <1>11, <1>13, <2>1, <2>2, Handing
<1>16. Accounts' /\ Unknown'
  BY <1>4, <1>14, <1>15, OneKept DEF CacheInv
<1>17. Counters'
  <2>1. /\ One(a \in Named(TaskSteps)) = 0 /\ One(a \in Named(ReadSteps)) = 0 /\ One(a \in {TaskDoneOnLane}) = 0
    BY <1>5 DEF Named, TaskSteps, ReadSteps, One, c
  <2>2. /\ One(b \in Named(TaskSteps)) = 0 /\ One(b \in Named(ReadSteps)) = 0 /\ One(b \in {TaskDoneOnLane}) = 0
    BY <1>5 DEF Named, TaskSteps, ReadSteps, One, c
  <2>3. /\ One(c \in Named(TaskSteps)) = 1 /\ One(c \in Named(ReadSteps)) = 0 /\ One(c \in {TaskDoneOnLane}) = 1
    BY <1>5 DEF Named, TaskSteps, ReadSteps, One, c
  <2>4. /\ One(d \in Named(TaskSteps)) = 0 /\ One(d \in Named(ReadSteps)) = 0 /\ One(d \in {TaskDoneOnLane}) = 0
        /\ One(h \in Named(TaskSteps)) = 0 /\ One(h \in Named(ReadSteps)) = 0 /\ One(h \in {TaskDoneOnLane}) = 0
    BY <1>3, <1>5 DEF Named, TaskSteps, ReadSteps, One, c
  <2>6. /\ Count(p, Named(TaskSteps)) = 1 /\ Count(p, Named(ReadSteps)) = 0 /\ Count(p, {TaskDoneOnLane}) = 1
    BY <1>7, <2>1, <2>2, <2>3, <2>4
  <2> HIDE DEF h
  <2>7. /\ StepsIn(Named(TaskSteps))' = StepsIn(Named(TaskSteps)) + 1
        /\ StepsIn(Named(ReadSteps))' = StepsIn(Named(ReadSteps))
        /\ StepsIn({TaskDoneOnLane})' = StepsIn({TaskDoneOnLane}) + 1
    BY <1>10, <1>12, <2>4, <2>6
  <2>8. Cardinality(disk) \in Nat
    BY <1>3, DiskFinite
  <2>9. /\ running = Len(laneQueue) + StepsIn({TaskDoneOnLane}) /\ (MaxLoads # 0 => running <= MaxLoads)
        /\ tasks = Len(Waiting) + StepsIn(Named(TaskSteps)) + Cardinality(disk)
        /\ reads = StepsIn(Named(ReadSteps)) + Cardinality(disk)
    BY <1>3 DEF Counters, ReadSteps
  <2>10. /\ tasks' = Len(Waiting)' + StepsIn(Named(TaskSteps))' + Cardinality(disk)'
         /\ reads' = StepsIn(Named(ReadSteps))' + Cardinality(disk)'
         /\ running' = Len(laneQueue)' + StepsIn({TaskDoneOnLane})'
    <3>1. Cardinality(disk)' = Cardinality(disk) /\ tasks' = tasks /\ reads' = reads /\ running' = running
      BY <1>2
    <3>2. /\ StepsIn(Named(TaskSteps)) \in Nat /\ StepsIn(Named(ReadSteps)) \in Nat /\ StepsIn({TaskDoneOnLane}) \in Nat
      BY <1>12
    <3>3. Len(Waiting)' = Len(Waiting) - 1 /\ Len(laneQueue)' = Len(laneQueue) - 1
      BY <1>4
    <3>4. Len(Waiting) \in Nat /\ Len(laneQueue) \in Nat
      BY <1>4
    <3>5. tasks' = Len(Waiting)' + StepsIn(Named(TaskSteps))' + Cardinality(disk)'
      <4>1. tasks = Len(Waiting) + StepsIn(Named(TaskSteps)) + Cardinality(disk)
        BY <2>9
      <4>2. Len(Waiting)' + StepsIn(Named(TaskSteps))' + Cardinality(disk)'
              = (Len(Waiting) - 1) + (StepsIn(Named(TaskSteps)) + 1) + Cardinality(disk)
        BY <2>7, <3>1, <3>3
      <4> QED
        BY <2>8, <3>1, <3>2, <3>4, <4>1, <4>2
    <3>6. reads' = StepsIn(Named(ReadSteps))' + Cardinality(disk)'
      BY <2>7, <2>9, <3>1
    <3>7. running' = Len(laneQueue)' + StepsIn({TaskDoneOnLane})'
      <4>1. Len(laneQueue)' + StepsIn({TaskDoneOnLane})' = (Len(laneQueue) - 1) + (StepsIn({TaskDoneOnLane}) + 1)
        BY <2>7, <3>3
      <4> QED
        BY <2>9, <3>1, <3>2, <3>4, <4>1
    <3> QED
      BY <3>5, <3>6, <3>7
  <2> QED
    BY <1>2, <2>9, <2>10 DEF Counters, ReadSteps
<1>18. Numbered' /\ Shape' /\ Doom' /\ Dispatching' /\ Ending'
  <2>1. /\ h[1] \notin Dispatcher \cup {"dispatch", "destroyAll"} /\ h[1] \notin Waits /\ h[1] \notin {"release", "enqueue"}
    BY <1>3 DEF Dispatcher, Waits
  <2>2. /\ \A u \in Users : held[u] \subseteq held'[u]
        /\ gone => held' = held
    BY <1>2
  <2> HIDE DEF h
  <2>3. h = todo[t][1] /\ published' \cup fresh' \subseteq published \cup fresh
    BY <1>2 DEF h
  <2> QED
    BY <1>2, <1>3, <1>6, <1>7, <1>9, <1>11, <2>1, <2>2, <2>3, HandOn
<1> QED
  BY <1>11, <1>16, <1>17, <1>18 DEF CacheInv

-----------------------------------------------------------------------------
(* What forceLoad loaded is put in place of the old resource. *)

LEMMA ReplaceOk ==
  ASSUME CacheInv, NEW t \in Threads, Replace(t, TRUE)
  PROVE  CacheInv'
<1>1. PICK e : e = Arg(t) /\ "reload" \in EntryKinds /\ At(t, "reload")
  BY DEF Replace, EntryKinds, Counting, Passing, Waits
<1> DEFINE h == todo[t][1]
           new == [entry[e] EXCEPT !.count = @ + 1]
           a == <<"freeReplaced", None>>
           b == <<"keep", e>>
           p == <<a, b>>
<1>2. /\ Typed /\ todo[t] # <<>> /\ h \in AllSteps /\ h[1] = "reload" /\ h[2] = e
      /\ e \in Live /\ e \in Entries /\ entry[e] \in EntryType
      /\ CountOk(e) /\ LoadOk(e) /\ QueueOk(e)
      /\ \A K : "reload" \in K => StepsIn(For(K, e)) # 0
      /\ \A x \in Entries \ {e} : h \notin Naming(x)
  BY <1>1, EntryHead
<1>3. entry[e].count # 0
  BY <1>1, HeadUsed DEF EntryKinds, Counting, Passing, Waits
<1>4. /\ a \in AllSteps /\ a[1] = "freeReplaced" /\ a[2] = None
      /\ b \in AllSteps /\ b[1] = "keep" /\ b[2] = e
  BY <1>2, StepsAre DEF EntryKinds, Counting, Passing, Waits, Ops, ForNobody
<1>5. /\ Then(t, p) /\ entry' = [entry EXCEPT ![e] = new] /\ replaced' = Append(replaced, e)
      /\ UNCHANGED <<published, fresh, freshCount, allLocks, unused, incoming, queued, requests, running, tasks, reads,
                     laneQueue, lane, disk, held, calls, gone>>
  BY <1>1 DEF Replace, mapVars, waitVars, countVars, laneVars, userVars
<1>6. /\ entry \in [Entries -> EntryType] /\ entry[e].count \in Nat /\ replaced \in Seq(Entries)
  BY <1>2 DEF Typed, TypeOK, EntryType
<1>7. /\ new.count = entry[e].count + 1 /\ new.parked = entry[e].parked /\ new.claimed = entry[e].claimed
      /\ new.state = entry[e].state /\ new.pending = entry[e].pending /\ new.queued = entry[e].queued
      /\ new.life = entry[e].life
  BY <1>2 DEF EntryType
<1>8. new \in EntryType
  BY <1>2, <1>6, SMTT(60) DEF EntryType
<1> HIDE DEF new, a, b
<1>9. /\ entry' \in [Entries -> EntryType] /\ entry'[e] = new /\ \A x \in Entries \ {e} : entry'[x] = entry[x]
  BY <1>2, <1>5, <1>6, <1>8
<1>10. /\ replaced' \in Seq(Entries) /\ Count(replaced, {e})' = Count(replaced, {e}) + 1
       /\ \A x \in Entries \ {e} : Count(replaced, {x})' = Count(replaced, {x})
  <2>1. /\ Append(replaced, e) \in Seq(Entries)
        /\ \A G : Count(Append(replaced, e), G) = Count(replaced, G) + One(e \in G)
    BY <1>2, <1>6, CountEnds
  <2>2. ASSUME NEW G PROVE Count(replaced, G)' = Count(replaced', G)
    BY DEF Count
  <2>3. One(e \in {e}) = 1 /\ \A x \in Entries \ {e} : One(e \in {x}) = 0
    BY DEF One
  <2>4. \A x \in Entries : Count(replaced, {x}) \in Nat
    BY <1>2, Amounts
  <2>5. Count(replaced, {e})' = Count(replaced, {e}) + 1
    <3>1. Count(replaced, {e})' = Count(replaced', {e})
      BY DEF Count
    <3> QED
      BY <1>5, <2>1, <2>3, <3>1
  <2>6. ASSUME NEW x \in Entries \ {e} PROVE Count(replaced, {x})' = Count(replaced, {x})
    <3>1. Count(replaced, {x})' = Count(replaced', {x})
      BY DEF Count
    <3>2. Count(replaced', {x}) = Count(replaced, {x}) + 0
      BY <1>5, <2>1, <2>3
    <3> QED
      BY <2>4, <3>1, <3>2
  <2> QED
    BY <1>5, <2>1, <2>5, <2>6
<1>11. Follows(h, p, Mine(t)) /\ Calm(p) /\ p \in Seq(AllSteps)
  <2>5. TaskDoneOnLane[1] = "taskDone" /\ EndOfForce[1] = "end"
    BY DEF TaskDoneOnLane, EndOfForce
  <2>1. Apt(h, a) /\ Apt(h, b)
    BY <1>2, <1>4, <2>5 DEF Apt, Suits, Lasts, Forces, LaneSteps, Dispatcher, LateSteps
  <2>2. Covered(h, a, Mine(t)) /\ Covered(h, b, Mine(t))
    BY <1>2, <1>4 DEF Covered, Backs, Passing, Waits, Counting
  <2>3. /\ a[1] \notin {"reload", "unpark"} \cup Lasts
        /\ b[1] \notin {"reload", "unpark"} \cup Firsts
        /\ ~(a = TaskDoneOnLane /\ b = TaskDoneOnLane)
        /\ h[1] \notin Waits /\ h[1] \notin TaskEnds
        /\ {a[1], b[1]} \cap (Dispatcher \cup ForSets \cup {"destroyAll"}) = {}
    BY <1>2, <1>4 DEF Waits, TaskEnds, Lasts, Firsts, Dispatcher, ForSets, TaskDoneOnLane
  <2> HIDE DEF h
  <2>4. Follows(h, <<a, b>>, Mine(t)) /\ Calm(<<a, b>>) /\ <<a, b>> \in Seq(AllSteps)
    BY <1>4, <2>1, <2>2, <2>3, FollowsTwo
  <2> QED
    BY <2>4
<1>12. Shifts(e, 0, 0, 0, 0, 0, 0, 0)
  <2>1. /\ Of(h, Counting, e) = 1 /\ Of(h, Loaders, e) = 0 /\ Of(h, Comers, e) = 0 /\ Of(h, Tasking, e) = 0
        /\ Of(h, Unparkers, e) = 0 /\ Of(h, PendingKinds, e) = 0 /\ Of(h, {"enqueue"}, e) = 0
        /\ Of(a, Counting, e) = 0 /\ Of(a, Loaders, e) = 0 /\ Of(a, Comers, e) = 0 /\ Of(a, Tasking, e) = 0
        /\ Of(a, Unparkers, e) = 0 /\ Of(a, PendingKinds, e) = 0 /\ Of(a, {"enqueue"}, e) = 0
        /\ Of(b, Counting, e) = 1 /\ Of(b, Loaders, e) = 0 /\ Of(b, Comers, e) = 0 /\ Of(b, Tasking, e) = 0
        /\ Of(b, Unparkers, e) = 0 /\ Of(b, PendingKinds, e) = 0 /\ Of(b, {"enqueue"}, e) = 0
    BY <1>2, <1>4 DEF Of, One, Counting, Loaders, Comers, Tasking, Unparkers, PendingKinds
  <2>2. {h[1], a[1], b[1]} \cap ForSets = {}
    BY <1>2, <1>4 DEF ForSets
  <2> HIDE DEF h
  <2>3. h = todo[t][1] /\ Then(t, <<a, b>>)
    BY <1>5 DEF h
  <2> QED
    BY <1>2, <1>4, <2>1, <2>2, <2>3, ShiftTwo
<1>13. /\ \A G : StepsIn(G) \in Nat
       /\ Cardinality(Holders(e)) \in Nat /\ Count(Waiting, {e}) \in Nat /\ Count(replaced, {e}) \in Nat
  BY <1>2, Amounts
<1>14. CountOk(e)' /\ LoadOk(e)' /\ QueueOk(e)'
  <2>1. Waiting' = Waiting /\ disk' = disk /\ unused' = unused /\ gone' = gone /\ Holders(e)' = Holders(e)
    BY <1>5 DEF Waiting, Holders
  <2>2. /\ Count(Waiting, {e})' = Count(Waiting, {e}) /\ Cardinality(Holders(e))' = Cardinality(Holders(e))
        /\ One(e \in disk)' = One(e \in disk) /\ One(e \in disk) \in Nat
        /\ One(e \in unused)' = One(e \in unused) /\ One(e \in unused) \in Nat
        /\ One(entry[e].parked)' = One(entry[e].parked) /\ One(entry[e].parked) \in Nat
    BY <1>7, <1>9, <2>1 DEF One
  <2>3. /\ StepsIn(For(Counting, e))' = StepsIn(For(Counting, e))
        /\ StepsIn(For(Loaders, e))' = StepsIn(For(Loaders, e))
        /\ StepsIn(For(Comers, e))' = StepsIn(For(Comers, e))
        /\ StepsIn(For(Tasking, e))' = StepsIn(For(Tasking, e))
        /\ StepsIn(For(Unparkers, e))' = StepsIn(For(Unparkers, e))
        /\ StepsIn(For(PendingKinds, e))' = StepsIn(For(PendingKinds, e))
        /\ StepsIn(Unusing(e))' = StepsIn(Unusing(e))
    BY <1>12, <1>13 DEF Shifts
  <2>4. Having(e)' = Having(e) + 1
    <3>1. Having(e)' = Cardinality(Holders(e)) + Count(Waiting, {e}) + (Count(replaced, {e}) + 1)
                       + StepsIn(For(Counting, e)) + One(e \in disk)
      BY <1>10, <2>2, <2>3 DEF Having
    <3> QED
      BY <1>13, <2>2, <3>1 DEF Having
  <2>5. CountOk(e)'
    BY <1>2, <1>7, <1>9, <2>4 DEF CountOk
  <2>6. Loads(e)' = Loads(e) /\ Coming(e)' = Coming(e) /\ TasksOf(e)' = TasksOf(e) /\ Queue(e)' = Queue(e)
    BY <2>2, <2>3 DEF Loads, Coming, TasksOf, Queue
  <2>7. LoadOk(e)'
    <3>1. /\ StepsIn(For({"unpark", "startParked"}, e))' = StepsIn(For({"unpark", "startParked"}, e))
          /\ StepsIn(For({"parkOrLoad", "unpark", "startParked"}, e))' = StepsIn(For({"parkOrLoad", "unpark", "startParked"}, e))
      BY <2>3 DEF Unparkers, PendingKinds
    <3> QED
      BY <1>2, <1>7, <1>9, <2>6, <3>1 DEF LoadOk
  <2>8. QueueOk(e)'
    BY <1>2, <1>6, <1>7, <1>9, <2>1, <2>6 DEF QueueOk
  <2> QED
    BY <2>5, <2>7, <2>8
<1>15. ASSUME NEW x \in Entries \ {e} PROVE Unnamed(x) /\ Spared(x)
  <2>1. a \notin Naming(x) /\ b \notin Naming(x) /\ h \notin Naming(x)
    BY <1>2, <1>4 DEF Naming, Takes, ForSets, Counting, Passing, Waits
  <2>2. \A i \in 1 .. Len(p) : p[i] \notin Naming(x)
    <3>1. Len(p) = 2 /\ p[1] = a /\ p[2] = b
      OBVIOUS
    <3> QED
      BY <2>1, <3>1
  <2> HIDE DEF h, p
  <2>3. Unnamed(x)
    BY <1>2, <1>5, <1>11, <2>1, <2>2, NotNamed DEF h
  <2>4. Spared(x)
    BY <1>5, <1>9, <1>10, <1>15 DEF Spared, Holders, Waiting
  <2> QED
    BY <2>3, <2>4
<1>16. Accounts' /\ Unknown'
  <2>1. entry'[e].life = "live"
    BY <1>2, <1>7, <1>9 DEF Live
  <2> QED
    BY <1>2, <1>14, <1>15, <2>1, OneEntry DEF CacheInv
<1>17. Typed'
  <2>1. todo' \in [Threads -> Seq(AllSteps)]
    BY <1>2, <1>5, <1>11, Moved DEF Typed
  <2> QED
    BY <1>2, <1>5, <1>9, <1>10, <2>1, SMTT(60) DEF Typed, TypeOK, EntryType
<1>18. Numbered'
  <2>1. {x \in Entries : entry'[x].life # "none"} = {x \in Entries : entry[x].life # "none"}
    BY <1>7, <1>9
  <2> QED
    BY <2>1 DEF Numbered, CacheInv
<1>19. Counters'
  <2>1. Balanced
    <3>1. h[1] \notin TaskSteps /\ \A i \in 1 .. Len(p) : p[i][1] \notin TaskSteps
      <4>1. Len(p) = 2 /\ p[1] = a /\ p[2] = b
        OBVIOUS
      <4> QED
        BY <1>2, <1>4, <4>1 DEF TaskSteps
    <3> HIDE DEF p
    <3> QED
      BY <1>2, <1>5, <1>11, <3>1, NoTask
  <2> QED
    BY <1>5, <2>1, CountersKept DEF CacheInv
<1>20. Shape' /\ Doom' /\ Dispatching' /\ Ending'
  <2>1. \A x \in Live : entry[x].count = 0 /\ x \notin published \cup fresh
                           => entry'[x].count = 0 /\ x \notin published' \cup fresh'
    BY <1>3, <1>5, <1>9 DEF Live
  <2>2. \A u \in Threads \ {t} : At(u, "reload") => entry'[Arg(u)].state # "Loading"
    <3> SUFFICES ASSUME NEW u \in Threads, At(u, "reload") PROVE entry'[Arg(u)].state # "Loading"
      OBVIOUS
    <3>1. entry[Arg(u)].state # "Loading"
      BY DEF CacheInv, Shape, Me
    <3>2. Arg(u) \in Entries
      BY EntryHead DEF EntryKinds, Counting
    <3> QED
      BY <1>7, <1>9, <3>1, <3>2
  <2>3. /\ h[1] \notin Dispatcher \cup {"dispatch", "destroyAll"} /\ h[1] \notin Waits /\ h[1] \notin {"release", "enqueue"}
        /\ held' \in [Users -> SUBSET Entries] /\ held' = held
    BY <1>2, <1>5 DEF Dispatcher, Waits, Typed, TypeOK
  <2>4. Mine(t)' = Mine(t)
    BY <2>3 DEF Mine
  <2> HIDE DEF p
  <2> QED
    BY <1>2, <1>5, <1>11, <2>1, <2>2, <2>3, <2>4, OrdinaryStep DEF CacheInv
<1> QED
  BY <1>16, <1>17, <1>18, <1>19, <1>20 DEF CacheInv

-----------------------------------------------------------------------------
(* destroy. *)

\* Nothing is under way for an entry without counts, but what has it as unused.
LEMMA NobodyHas ==
  ASSUME CacheInv, NEW x \in Live, entry[x].count = 0
  PROVE  /\ Holders(x) = {} /\ Count(Waiting, {x}) = 0 /\ Count(replaced, {x}) = 0 /\ x \notin disk
         /\ StepsIn(For(Counting \cup Passing, x)) = 0
         /\ entry[x].pending => entry[x].parked
         /\ entry[x].state # "Loading" \/ entry[x].parked
<1>1. /\ Typed /\ x \in Entries /\ CountOk(x) /\ LoadOk(x) /\ todo \in [Threads -> Seq(AllSteps)]
      /\ \A t \in Threads : Backed(todo[t], Mine(t))
  BY DEF CacheInv, Accounts, Live, Typed, Shape
<1>2. /\ Cardinality(Holders(x)) \in Nat /\ Count(Waiting, {x}) \in Nat /\ Count(replaced, {x}) \in Nat
      /\ \A G : StepsIn(G) \in Nat
      /\ Cardinality(Holders(x)) = 0 <=> \A u \in Users : x \notin held[u]
      /\ {entry[x].queued, entry[x].parked, entry[x].claimed, entry[x].pending} \subseteq BOOLEAN
      /\ entry[x].state \in {"Loading", "Ready", "Failed"}
  BY <1>1, Amounts
<1>3. /\ Cardinality(Holders(x)) = 0 /\ Count(Waiting, {x}) = 0 /\ Count(replaced, {x}) = 0
      /\ StepsIn(For(Counting, x)) = 0 /\ One(x \in disk) = 0
  <2>1. /\ Cardinality(Holders(x)) + Count(Waiting, {x}) + Count(replaced, {x}) + StepsIn(For(Counting, x)) + One(x \in disk) = 0
        /\ One(x \in disk) \in Nat
    BY <1>1 DEF CountOk, Having, One
  <2>2. /\ StepsIn(For(Counting, x)) \in Nat /\ Cardinality(Holders(x)) \in Nat
        /\ Count(Waiting, {x}) \in Nat /\ Count(replaced, {x}) \in Nat
    BY <1>2
  <2>3. \A i, j, k, m, n \in Nat : i + j + k + m + n = 0 => i = 0 /\ j = 0 /\ k = 0 /\ m = 0 /\ n = 0
    OBVIOUS
  <2> QED
    BY <2>1, <2>2, <2>3
<1>4. Holders(x) = {} /\ x \notin disk /\ \A t \in Threads : x \notin Mine(t)
  BY <1>2, <1>3 DEF One, Holders, Mine
<1>5. ASSUME NEW t \in Threads, NEW i \in 1 .. Len(todo[t])
      PROVE  todo[t][i] \notin For(Counting \cup Passing, x)
  <2>1. \A j \in 1 .. Len(todo[t]) : todo[t][j] \notin For(Counting, x) /\ todo[t][j] \in AllSteps
    BY <1>1, <1>3, Someone
  <2>2. \A j \in 1 .. Len(todo[t]) : ~(todo[t][j][1] \in Counting /\ todo[t][j][2] = x)
    BY <2>1 DEF For
  <2>3. ~(todo[t][i][1] \in Passing /\ todo[t][i][2] = x)
    BY <1>1, <1>4, <2>2 DEF Backed
  <2> QED
    BY <2>2, <2>3 DEF For
<1>6. StepsIn(For(Counting \cup Passing, x)) = 0
  BY <1>1, <1>5, Someone
<1>7. /\ StepsIn(For(Comers, x)) = 0 /\ StepsIn(For(Loaders, x)) = 0
      /\ StepsIn(For({"parkOrLoad", "unpark", "startParked"}, x)) = 0
  <2>1. /\ For(Comers, x) \subseteq For(Counting \cup Passing, x)
        /\ For(Loaders, x) \subseteq For(Counting \cup Passing, x)
        /\ For({"parkOrLoad", "unpark", "startParked"}, x) \subseteq For(Counting \cup Passing, x)
    BY DEF For, Comers, Loaders, Counting, Passing, Waits
  <2> QED
    BY <1>1, <1>6, <2>1, StepsLess
<1>8. entry[x].claimed
  BY <1>1, <1>3, <1>7 DEF LoadOk, Coming
<1>9. entry[x].pending => entry[x].parked
  BY <1>1, <1>7, <1>8 DEF LoadOk
<1>10. entry[x].state # "Loading" \/ entry[x].parked
  <2>1. One(entry[x].parked) = One(entry[x].state = "Loading" /\ entry[x].claimed)
    BY <1>1, <1>3, <1>7 DEF LoadOk, Loads, One
  <2> QED
    BY <1>2, <1>8, <2>1 DEF One
<1> QED
  BY <1>3, <1>4, <1>6, <1>9, <1>10

LEMMA DestroyDeadStep ==
  ASSUME CacheInv, NEW t \in Threads, DestroyDead(t)
  PROVE  CacheInv'
<1> DEFINE h == todo[t][1]
           D == Arg(t)
           p == <<>>
<1>1. /\ At(t, "destroy") /\ Then(t, p) /\ OnlyEntries
      /\ entry' = [x \in Entries |-> IF x \in D THEN Freed(x) ELSE entry[x]]
  BY DEF DestroyDead
<1>2. /\ Typed /\ Unknown /\ Accounts /\ todo[t] # <<>> /\ todo[t] \in Seq(AllSteps) /\ todo \in [Threads -> Seq(AllSteps)]
      /\ h \in AllSteps /\ h[1] = "destroy" /\ h[2] = D /\ D \in SUBSET Entries /\ 1 \in DOMAIN todo[t]
  <2>1. todo[t] # <<>> /\ todo[t] \in Seq(AllSteps) /\ h[1] = "destroy" /\ h[2] = D
    BY <1>1 DEF At, Arg, CacheInv, Typed
  <2>2. h \in AllSteps /\ 1 \in DOMAIN todo[t]
    BY <2>1, CountTail
  <2>3. D \in SUBSET Entries
    BY <2>1, <2>2, StepTypes
  <2> QED
    BY <2>1, <2>2, <2>3 DEF CacheInv, Typed
<1>3. /\ UNCHANGED <<published, fresh, freshCount, allLocks, unused, incoming, queued, requests, running, tasks, reads,
                     replaced, laneQueue, lane, disk, held, calls, gone>>
  BY <1>1 DEF OnlyEntries, mapVars, waitVars, countVars, laneVars, userVars
<1>4. Follows(h, p, Mine(t)) /\ Follows(h, p, Mine(t)') /\ Calm(p) /\ p \in Seq(AllSteps)
  BY FollowsNone
<1>5. /\ entry \in [Entries -> EntryType]
      /\ \A x \in D : Freed(x) \in EntryType /\ Freed(x).life = "freed" /\ Freed(x).state = entry[x].state
                      /\ Freed(x).count = entry[x].count /\ Freed(x).pending = (entry[x].pending /\ ~entry[x].parked)
  <2>1. entry \in [Entries -> EntryType]
    BY <1>2 DEF Typed, TypeOK, EntryType
  <2>2. ASSUME NEW x \in D
        PROVE  Freed(x) \in EntryType /\ Freed(x).life = "freed" /\ Freed(x).state = entry[x].state
               /\ Freed(x).count = entry[x].count /\ Freed(x).pending = (entry[x].pending /\ ~entry[x].parked)
    <3>1. entry[x] \in EntryType
      BY <1>2, <2>1
    <3> QED
      BY <3>1 DEF Freed, EntryType
  <2> QED
    BY <2>1, <2>2
<1>6. /\ entry' \in [Entries -> EntryType]
      /\ \A x \in Entries \ D : entry'[x] = entry[x]
      /\ \A x \in D : entry'[x] = Freed(x)
      /\ \A x \in Entries : entry'[x].state = entry[x].state /\ entry'[x].count = entry[x].count
  BY <1>1, <1>2, <1>5
<1>7. ASSUME NEW x \in D
      PROVE  /\ x \in Live /\ x \in Entries /\ entry[x].count = 0 /\ x \notin published \cup fresh
             /\ h \in Unusing(x) /\ h \in Naming(x)
  <2>1. h \in Unusing(x) /\ h \in Naming(x) /\ Dooms(h, x)
    BY <1>2 DEF Unusing, Naming, Takes, Dooms, ForSets
  <2>2. x \in Live
    BY <1>2, <2>1, Named1
  <2>3. entry[x].count = 0 /\ x \notin published \cup fresh
    BY <1>2, <2>1 DEF CacheInv, Doom
  <2> QED
    BY <1>2, <2>1, <2>2, <2>3
<1>8. /\ todo' \in [Threads -> Seq(AllSteps)] /\ \A G : StepsIn(G)' = StepsIn(G) - One(h \in G)
      /\ \A G : StepsIn(G) \in Nat
  <2>1. todo' \in [Threads -> Seq(AllSteps)]
    BY <1>1, <1>2, <1>4, Moved
  <2>2. \A G : StepsIn(G)' = StepsIn(G) - One(h \in G)
    BY <1>1, <1>2, ThenFew
  <2> QED
    BY <1>2, <2>1, <2>2, Someone
<1>9. ASSUME NEW x \in D
      PROVE  StepsIn(Unusing(x)) = 1 /\ x \notin unused
  <2>1. StepsIn(Unusing(x)) \in Nat /\ StepsIn(Unusing(x)) # 0
    BY <1>2, <1>7, <1>8, Someone
  <2>2. CASE ~gone
    <3>1. StepsIn(Unusing(x)) + One(x \in unused) = One(entry[x].queued)
      BY <1>2, <1>7, <2>2 DEF Accounts, QueueOk, Queue
    <3> QED
      BY <2>1, <3>1 DEF One
  <2>3. CASE gone
    <3>1. Len(todo[t]) = 1 /\ (\A u \in Threads \ {t} : todo[u] = <<>>) /\ published \cup fresh \cup unused = {}
      BY <1>2, <2>3 DEF CacheInv, Ending
    <3>2. Count(todo[t], Unusing(x)) = One(h \in Unusing(x)) + Count(Tail(todo[t]), Unusing(x))
          /\ Len(Tail(todo[t])) = 0 /\ Tail(todo[t]) \in Seq(AllSteps)
      <4>1. Count(Tail(todo[t]), Unusing(x)) = Count(todo[t], Unusing(x)) - One(h \in Unusing(x))
            /\ Len(Tail(todo[t])) = Len(todo[t]) - 1 /\ Tail(todo[t]) \in Seq(AllSteps)
        BY <1>2, CountTail
      <4>2. Count(todo[t], Unusing(x)) \in Nat
        BY <1>2, CountType
      <4> QED
        BY <3>1, <4>1, <4>2 DEF One
    <3>3. /\ todo'[t] = <<>> /\ \A u \in Threads : todo'[u] = <<>>
      <4>1. todo'[t] = p \o Tail(todo[t]) /\ \A u \in Threads \ {t} : todo'[u] = todo[u]
        BY <1>1, <1>2, <1>4, Moved
      <4>2. Tail(todo[t]) = <<>>
        <5>1. Tail(todo[t]) \in Seq(AllSteps) /\ Len(Tail(todo[t])) = 0
          BY <3>2
        <5> QED
          BY <5>1, EmptySeq, LenProperties
      <4>3. todo'[t] = <<>>
        BY <4>1, <4>2
      <4> QED
        BY <3>1, <4>1, <4>3
    <3>4. StepsIn(Unusing(x))' = 0
      <4>1. \A G : StepsOfAll(todo', G) = 0
        BY <1>8, <3>3, StepsNone
      <4> QED
        BY <4>1, StepsInAll
    <3>5. One(h \in Unusing(x)) = 1
      BY <1>7 DEF One
    <3> QED
      BY <1>8, <2>1, <3>1, <3>4, <3>5
  <2> QED
    BY <2>2, <2>3
<1>10. ASSUME NEW x \in D
       PROVE  /\ x \notin published' \cup fresh' \cup unused' \cup disk'
              /\ Holders(x)' = {}
              /\ Count(Waiting, {x})' = 0 /\ Count(replaced, {x})' = 0 /\ StepsIn(Naming(x))' = 0
              /\ entry'[x].life = "freed" /\ ~entry'[x].pending
  <2>1. /\ Holders(x) = {} /\ Count(Waiting, {x}) = 0 /\ Count(replaced, {x}) = 0 /\ x \notin disk
        /\ StepsIn(For(Counting \cup Passing, x)) = 0
        /\ entry[x].pending => entry[x].parked
    BY <1>7, NobodyHas
  <2>2. StepsIn(Naming(x)) = 1
    <3>1. Naming(x) = For(Counting \cup Passing, x) \cup Unusing(x)
      BY DEF Naming, For, Unusing
    <3>2. For(Counting \cup Passing, x) \cap Unusing(x) = {}
      BY DEF For, Unusing, Takes, ForSets, Counting, Passing, Waits
    <3>3. StepsIn(For(Counting \cup Passing, x) \cup Unusing(x)) = StepsIn(For(Counting \cup Passing, x)) + StepsIn(Unusing(x))
      BY <1>2, <3>2, StepsTwo
    <3> QED
      BY <1>9, <2>1, <3>1, <3>3
  <2>3. StepsIn(Naming(x))' = 0
    <3>1. One(h \in Naming(x)) = 1
      BY <1>7 DEF One
    <3> QED
      BY <1>8, <2>2, <3>1
  <2>4. Holders(x)' = Holders(x) /\ Waiting' = Waiting /\ replaced' = replaced
    BY <1>3 DEF Holders, Waiting
  <2>5. Count(Waiting, {x})' = Count(Waiting, {x}) /\ Count(replaced, {x})' = Count(replaced, {x})
    BY <2>4
  <2>6. entry'[x].life = "freed" /\ ~entry'[x].pending
    BY <1>5, <1>6, <2>1
  <2> QED
    BY <1>3, <1>7, <1>9, <2>1, <2>3, <2>4, <2>5, <2>6
<1>11. ASSUME NEW x \in Entries \ D PROVE Unnamed(x) /\ Spared(x)
  <2>1. h \notin Naming(x)
    BY <1>2, <1>11 DEF Naming, Takes, ForSets, Counting, Passing, Waits
  <2>2. \A i \in 1 .. Len(p) : p[i] \notin Naming(x)
    OBVIOUS
  <2> HIDE DEF p
  <2>3. Unnamed(x)
    BY <1>1, <1>2, <1>4, <2>1, <2>2, NotNamed
  <2>4. Spared(x)
    BY <1>1, <1>6, <1>11, Spares
  <2> QED
    BY <2>3, <2>4
<1>12. \A x \in D : x \notin Live'
  BY <1>6, <1>10 DEF Live
<1>13. Accounts'
  <2> SUFFICES ASSUME NEW x \in Live' PROVE (CountOk(x) /\ LoadOk(x) /\ QueueOk(x))'
    BY DEF Accounts
  <2>1. x \in Entries /\ x \notin D
    BY <1>12 DEF Live
  <2>2. Unnamed(x) /\ Spared(x)
    BY <1>11, <2>1
  <2>3. x \in Live
    BY <2>1, <2>2, SparedKept
  <2>4. CountOk(x) /\ LoadOk(x) /\ QueueOk(x)
    BY <1>2, <2>3 DEF Accounts
  <2> QED
    BY <2>1, <2>2, <2>4, SparedKept
<1>14. Unknown'
  <2> SUFFICES ASSUME NEW x \in Entries, x \notin Live'
               PROVE  /\ x \notin published' \cup fresh' \cup unused' \cup disk'
                      /\ Holders(x)' = {}
                      /\ Count(Waiting, {x})' = 0 /\ Count(replaced, {x})' = 0 /\ StepsIn(Naming(x))' = 0
                      /\ entry'[x].life = "freed" => ~entry'[x].pending
    BY DEF Unknown
  <2>1. CASE x \in D
    BY <1>10, <2>1
  <2>2. CASE x \notin D
    <3>1. Unnamed(x) /\ Spared(x)
      BY <1>11, <2>2
    <3>2. x \notin Live
      BY <3>1, SparedKept
    <3>3. /\ StepsIn(Naming(x))' = StepsIn(Naming(x))
      BY <3>1 DEF Unnamed
    <3> QED
      BY <1>2, <1>3, <3>1, <3>2, <3>3 DEF Unknown, Spared
  <2> QED
    BY <2>1, <2>2
<1>15. Typed'
  BY <1>2, <1>3, <1>6, <1>8 DEF Typed, TypeOK, EntryType
<1>16. Numbered'
  <2>1. \A x \in Entries : entry'[x].life # "none" <=> entry[x].life # "none"
    BY <1>5, <1>6, <1>7 DEF Live
  <2>2. {x \in Entries : entry'[x].life # "none"} = {x \in Entries : entry[x].life # "none"}
    BY <2>1
  <2> QED
    BY <2>2 DEF Numbered, CacheInv
<1>17. Counters'
  <2>1. Balanced
    <3>1. h[1] \notin TaskSteps /\ \A i \in 1 .. Len(p) : p[i][1] \notin TaskSteps
      BY <1>2 DEF TaskSteps
    <3> HIDE DEF p
    <3> QED
      BY <1>1, <1>2, <1>4, <3>1, NoTask
  <2> QED
    BY <1>3, <2>1, CountersKept DEF CacheInv
<1>18. Shape' /\ Doom' /\ Dispatching' /\ Ending'
  <2>1. \A x \in Live : entry[x].count = 0 /\ x \notin published \cup fresh
                           => entry'[x].count = 0 /\ x \notin published' \cup fresh'
    BY <1>3, <1>6 DEF Live
  <2>2. \A u \in Threads \ {t} : At(u, "reload") => entry'[Arg(u)].state # "Loading"
    <3> SUFFICES ASSUME NEW u \in Threads, At(u, "reload") PROVE entry'[Arg(u)].state # "Loading"
      OBVIOUS
    <3>1. entry[Arg(u)].state # "Loading"
      BY DEF CacheInv, Shape, Me
    <3>2. Arg(u) \in Entries
      BY EntryHead DEF EntryKinds, Counting
    <3> QED
      BY <1>6, <3>1, <3>2
  <2>3. /\ h[1] \notin Dispatcher \cup {"dispatch", "destroyAll"} /\ h[1] \notin Waits /\ h[1] \notin {"release", "enqueue"}
        /\ held' \in [Users -> SUBSET Entries] /\ held' = held
    BY <1>2, <1>3 DEF Dispatcher, Waits, Typed, TypeOK
  <2> HIDE DEF p, D
  <2> QED
    BY <1>1, <1>2, <1>3, <1>4, <2>1, <2>2, <2>3, OrdinaryStep DEF CacheInv
<1> QED
  BY <1>13, <1>14, <1>15, <1>16, <1>17, <1>18 DEF CacheInv

-----------------------------------------------------------------------------
(* The end of the destructor. *)

\* Nothing is left then but this step, and nobody has an entry.
LEMMA NothingLeft ==
  ASSUME CacheInv, NEW t \in Threads, At(t, "destroyAll")
  PROVE  /\ gone /\ tasks = 0 /\ reads = 0 /\ Waiting = <<>> /\ disk = {} /\ replaced = <<>>
         /\ todo[t] \in Seq(AllSteps) /\ todo[t] # <<>> /\ Len(todo[t]) = 1 /\ todo[t][1] = <<"destroyAll", None>>
         /\ \A u \in Threads \ {t} : todo[u] = <<>>
         /\ \A G : StepsIn(G) = One(todo[t][1] \in G)
         /\ \A x \in Live : entry[x].count = 0
<1> DEFINE h == todo[t][1]
<1>1. /\ Typed /\ Accounts /\ Counters /\ Ending /\ FirstAndLast(todo[t]) /\ todo \in [Threads -> Seq(AllSteps)]
      /\ todo[t] # <<>> /\ todo[t] \in Seq(AllSteps) /\ h[1] = "destroyAll"
  BY DEF CacheInv, Shape, Typed, At
<1>2. /\ 1 \in DOMAIN todo[t] /\ 1 \in 1 .. Len(todo[t]) /\ h \in AllSteps /\ h = <<"destroyAll", None>>
  <2>1. h \in AllSteps /\ 1 \in DOMAIN todo[t] /\ 1 \in 1 .. Len(todo[t])
    BY <1>1, CountTail
  <2>2. "destroyAll" \in ForNobody
    BY DEF ForNobody
  <2> QED
    BY <1>1, <2>1, <2>2, StepTypes
<1>3. gone /\ tasks = 0 /\ replaced = <<>> /\ \A u \in Threads \ {t} : todo[u] = <<>>
  BY <1>1, <1>2 DEF Ending
<1>4. Len(todo[t]) = 1
  <2>1. h[1] \in Lasts
    BY <1>1 DEF Lasts
  <2> QED
    BY <1>1, <1>2, <2>1 DEF FirstAndLast
<1>5. \A G : StepsIn(G) \in Nat
  BY <1>1, Someone
<1>6. ASSUME NEW G PROVE StepsIn(G) = One(h \in G)
  <2> DEFINE f == [todo EXCEPT ![t] = <<>>]
  <2>1. f \in [Threads -> Seq(AllSteps)] /\ f[t] = <<>> /\ OnlyOf(todo, f, t) /\ \A u \in Threads : f[u] = <<>>
    <3>1. <<>> \in Seq(AllSteps)
      OBVIOUS
    <3> QED
      BY <1>1, <1>3, <3>1 DEF OnlyOf
  <2> HIDE DEF f
  <2>2. todo \in [Threads -> Seq(AllSteps)] /\ f \in [Threads -> Seq(AllSteps)] /\ OnlyOf(todo, f, t)
    BY <1>1, <2>1
  <2>3. StepsOfAll(f, G) = StepsOfAll(todo, G) - Count(todo[t], G) + Count(f[t], G)
    BY <2>2, StepsMoved, ZenonT(60)
  <2>4. StepsOfAll(f, G) = 0
    BY <2>1, StepsNone
  <2>5. Count(f[t], G) = 0
    BY <2>1, CountShort
  <2>6. Count(todo[t], G) = One(h \in G)
    <3>1. Count(Tail(todo[t]), G) = Count(todo[t], G) - One(h \in G) /\ Tail(todo[t]) \in Seq(AllSteps)
          /\ Len(Tail(todo[t])) = Len(todo[t]) - 1
      BY <1>1, CountTail
    <3>2. Count(todo[t], G) \in Nat /\ Count(Tail(todo[t]), G) \in Nat
      BY <1>1, <3>1, CountType
    <3>3. Count(Tail(todo[t]), G) = 0
      <4>1. Len(Tail(todo[t])) = 0
        BY <1>4, <3>1
      <4>2. \A i \in 1 .. Len(Tail(todo[t])) : Tail(todo[t])[i] \notin G
        BY <4>1
      <4> QED
        BY <3>1, <4>2, CountType
    <3> QED
      BY <3>1, <3>2, <3>3 DEF One
  <2>7. StepsOfAll(todo, G) = StepsIn(G)
    BY StepsInAll
  <2> QED
    BY <1>5, <2>3, <2>4, <2>5, <2>6, <2>7 DEF One
<1>7. Len(Waiting) = 0 /\ Cardinality(disk) = 0 /\ reads = 0
  <2>1. /\ tasks = Len(Waiting) + StepsIn(Named(TaskSteps)) + Cardinality(disk)
        /\ reads = StepsIn(Named({"bytesRead", "readOver", "readDone"})) + Cardinality(disk)
    BY <1>1 DEF Counters
  <2>2. /\ h \notin Named(TaskSteps) /\ h \notin Named({"bytesRead", "readOver", "readDone"})
    BY <1>1 DEF Named, TaskSteps
  <2>3. StepsIn(Named(TaskSteps)) = 0 /\ StepsIn(Named({"bytesRead", "readOver", "readDone"})) = 0
    BY <1>6, <2>2 DEF One
  <2>4. Len(Waiting) \in Nat /\ Cardinality(disk) \in Nat
    <3>1. Waiting \in Seq(Entries)
      BY <1>1, ThreeLists DEF Typed, TypeOK, Waiting
    <3> QED
      BY <1>1, <3>1, DiskFinite
  <2> QED
    BY <1>3, <2>1, <2>3, <2>4
<1>8. Waiting = <<>> /\ disk = {}
  <2>1. Waiting \in Seq(Entries)
    BY <1>1, ThreeLists DEF Typed, TypeOK, Waiting
  <2>2. IsFiniteSet(disk)
    BY <1>1, DiskFinite
  <2> QED
    BY <1>7, <2>1, <2>2, FS_EmptySet, EmptySeq
<1>9. ASSUME NEW x \in Live PROVE entry[x].count = 0
  <2>1. x \in Entries /\ CountOk(x)
    BY <1>1 DEF Live, Accounts
  <2>2. Holders(x) = {}
    BY <1>1, <1>3 DEF Ending, Holders
  <2>3. Count(Waiting, {x}) = 0 /\ Count(replaced, {x}) = 0
    BY <1>3, <1>8, CountShort
  <2>4. StepsIn(For(Counting, x)) = 0
    <3>1. h \notin For(Counting, x)
      BY <1>1 DEF For, Counting
    <3> QED
      BY <1>6, <3>1 DEF One
  <2>5. One(x \in disk) = 0 /\ Cardinality(Holders(x)) = 0
    BY <1>8, <2>2, FS_EmptySet DEF One
  <2> QED
    BY <2>1, <2>3, <2>4, <2>5 DEF CountOk, Having
<1> QED
  BY <1>1, <1>2, <1>3, <1>4, <1>6, <1>7, <1>8, <1>9

LEMMA DestroyAllStep ==
  ASSUME CacheInv, NEW t \in Threads, DestroyAll(t)
  PROVE  CacheInv'
<1> DEFINE h == todo[t][1]
<1>1. PICK S : S = published \cup fresh
  OBVIOUS
<1> DEFINE a == <<"destroy", S>>
           p == <<a>>
<1>2. /\ At(t, "destroyAll") /\ Then(t, p) /\ published' = {} /\ fresh' = {} /\ unused' = {}
      /\ UNCHANGED <<entry, freshCount, allLocks, incoming, queued, requests, running, tasks, reads, replaced, laneQueue, lane,
                     disk, held, calls, gone>>
  BY <1>1 DEF DestroyAll, waitVars, countVars, laneVars, userVars
<1>3. /\ gone /\ tasks = 0 /\ Waiting = <<>> /\ disk = {} /\ replaced = <<>>
      /\ todo[t] \in Seq(AllSteps) /\ todo[t] # <<>> /\ Len(todo[t]) = 1 /\ h = <<"destroyAll", None>> /\ h[1] = "destroyAll"
      /\ \A u \in Threads \ {t} : todo[u] = <<>>
      /\ \A G : StepsIn(G) = One(h \in G)
      /\ \A x \in Live : entry[x].count = 0
  BY <1>2, NothingLeft
<1>4. /\ Typed /\ Accounts /\ Unknown /\ S \in SUBSET Entries /\ S \subseteq Live /\ todo \in [Threads -> Seq(AllSteps)]
  BY <1>1 DEF CacheInv, Typed, TypeOK, Unknown
<1>5. a \in AllSteps /\ a[1] = "destroy" /\ a[2] = S
  BY <1>4, StepsAre
<1> HIDE DEF a
<1>6. Follows(h, p, Mine(t)') /\ p \in Seq(AllSteps)
  <2>1. TaskDoneOnLane[1] = "taskDone" /\ EndOfForce[1] = "end"
    BY DEF TaskDoneOnLane, EndOfForce
  <2>2. Apt(h, a)
    BY <1>3, <1>5, <2>1 DEF Apt, Suits, Lasts, Forces, LaneSteps, Dispatcher, LateSteps
  <2>3. Covered(h, a, Mine(t)') /\ a[1] \notin {"reload", "unpark"} /\ h[1] \notin Waits /\ h[1] \notin TaskEnds
    BY <1>3, <1>5 DEF Covered, Passing, Waits, Counting, TaskEnds
  <2> HIDE DEF h
  <2> QED
    BY <1>5, <2>2, <2>3, FollowsOne
<1>7. /\ Len(p) = 1 /\ p[1] = a /\ p # <<>>
  OBVIOUS
<1>8. /\ todo' \in [Threads -> Seq(AllSteps)] /\ todo'[t] = p \o Tail(todo[t])
      /\ \A u \in Threads \ {t} : todo'[u] = <<>>
      /\ \A G : StepsIn(G)' = StepsIn(G) - One(h \in G) + One(a \in G)
  <2>1. /\ todo' \in [Threads -> Seq(AllSteps)] /\ todo'[t] = p \o Tail(todo[t])
        /\ \A u \in Threads \ {t} : todo'[u] = todo[u]
    BY <1>2, <1>3, <1>4, <1>6, Moved
  <2>2. \A G : StepsIn(G)' = StepsIn(G) - One(h \in G) + One(a \in G)
    BY <1>2, <1>3, <1>4, <1>5, ThenFew
  <2> QED
    BY <1>3, <2>1, <2>2
<1>9. /\ Len(todo'[t]) = 1 /\ todo'[t][1] = a
  <2>1. /\ p \o Tail(todo[t]) \in Seq(AllSteps)
        /\ Len(p \o Tail(todo[t])) = Len(p) + Len(todo[t]) - 1
        /\ \A i \in 1 .. Len(p) : (p \o Tail(todo[t]))[i] = p[i]
    BY <1>3, <1>6, Behind
  <2> HIDE DEF p
  <2> QED
    BY <1>3, <1>7, <1>8, <2>1
<1>10. \A G : StepsIn(G)' = One(a \in G)
  <2> TAKE G
  <2>1. One(h \in G) \in Nat /\ One(a \in G) \in Nat
    BY DEF One
  <2>2. StepsIn(G) = One(h \in G)
    BY <1>3
  <2>3. StepsIn(G)' = StepsIn(G) - One(h \in G) + One(a \in G)
    BY <1>8
  <2> HIDE DEF h
  <2> QED
    BY <2>1, <2>2, <2>3
<1> HIDE DEF p
<1>11. Typed'
  BY <1>2, <1>4, <1>8 DEF Typed, TypeOK
<1>12. ASSUME NEW x \in Live PROVE Keeps(x)
  <2>1. /\ x \in Entries /\ entry'[x] = entry[x] /\ gone'
    BY <1>2, <1>3 DEF Live
  <2>2. /\ Cardinality(Holders(x))' = Cardinality(Holders(x)) + 0
        /\ Count(Waiting, {x})' = Count(Waiting, {x}) + 0
        /\ Count(replaced, {x})' = Count(replaced, {x}) + 0
        /\ One(x \in disk') = One(x \in disk) + 0
    <3>1. Holders(x)' = Holders(x) /\ Waiting' = Waiting /\ replaced' = replaced /\ disk' = disk
      BY <1>2 DEF Holders, Waiting
    <3>2. /\ Cardinality(Holders(x)) \in Nat /\ Count(Waiting, {x}) \in Nat /\ Count(replaced, {x}) \in Nat
          /\ One(x \in disk) \in Nat
      BY <1>4, <2>1, Amounts DEF One
    <3> QED
      BY <3>1, <3>2
  <2>3. Shifts(x, 0, 0, 0, 0, 0, 0, One(a \in Unusing(x)))
    <3>1. /\ h \notin For(Counting, x) /\ h \notin For(Loaders, x) /\ h \notin For(Comers, x) /\ h \notin For(Tasking, x)
          /\ h \notin For(Unparkers, x) /\ h \notin For(PendingKinds, x) /\ h \notin Unusing(x)
      BY <1>3 DEF For, Unusing, Takes, ForSets, Counting, Loaders, Comers, Tasking, Unparkers, PendingKinds
    <3>2. /\ a \notin For(Counting, x) /\ a \notin For(Loaders, x) /\ a \notin For(Comers, x) /\ a \notin For(Tasking, x)
          /\ a \notin For(Unparkers, x) /\ a \notin For(PendingKinds, x)
      BY <1>5 DEF For, Counting, Loaders, Comers, Tasking, Unparkers, PendingKinds
    <3>3. One(a \in Unusing(x)) \in Nat /\ One(FALSE) = 0
      BY DEF One
    <3>4. /\ StepsIn(For(Counting, x)) = 0 /\ StepsIn(For(Loaders, x)) = 0 /\ StepsIn(For(Comers, x)) = 0
          /\ StepsIn(For(Tasking, x)) = 0 /\ StepsIn(For(Unparkers, x)) = 0 /\ StepsIn(For(PendingKinds, x)) = 0
          /\ StepsIn(Unusing(x)) = 0
      BY <1>3, <3>1 DEF One
    <3>5. /\ StepsIn(For(Counting, x))' = 0 /\ StepsIn(For(Loaders, x))' = 0 /\ StepsIn(For(Comers, x))' = 0
          /\ StepsIn(For(Tasking, x))' = 0 /\ StepsIn(For(Unparkers, x))' = 0 /\ StepsIn(For(PendingKinds, x))' = 0
      BY <1>10, <3>2 DEF One
    <3>6. StepsIn(Unusing(x))' = One(a \in Unusing(x))
      BY <1>10
    <3> QED
      BY <3>3, <3>4, <3>5, <3>6 DEF Shifts
  <2>4. /\ {0} \subseteq Int /\ One(a \in Unusing(x)) \in Int /\ One(x \in unused') - One(x \in unused) \in Int
        /\ One(x \in unused') = One(x \in unused) + (One(x \in unused') - One(x \in unused))
    BY DEF One
  <2>5. PICK q \in Int, f \in Int : Shifts(x, 0, 0, 0, 0, 0, 0, q) /\ One(x \in unused') = One(x \in unused) + f
    BY <2>3, <2>4
  <2>6. 0 \in Int /\ 0 + 0 + 0 + 0 + 0 = 0 /\ 0 + 0 = 0 /\ 0 + 0 + 0 = 0 /\ 0 + 0 >= 0 /\ (~gone' => ~gone /\ q + f = 0)
    BY <2>1
  <2> QED
    BY <1>4, <1>11, <2>1, <2>2, <2>5, <2>6, Handing
<1>13. ASSUME NEW x \in Entries \ Live PROVE Unnamed(x) /\ Spared(x)
  <2>1. a \notin Naming(x)
    BY <1>4, <1>5, <1>13 DEF Naming, Takes, ForSets, Counting, Passing, Waits
  <2>2. /\ \A i \in 1 .. Len(p) : p[i] \notin Naming(x)
        /\ entry'[x] = entry[x] /\ (gone => gone') /\ x \notin published' \cup fresh' \cup unused' \cup disk'
    BY <1>2, <1>3, <1>7, <2>1
  <2>3. Holders(x)' = Holders(x) /\ Waiting' = Waiting /\ replaced' = replaced
    BY <1>2 DEF Holders, Waiting
  <2>4. Count(Waiting, {x})' = Count(Waiting, {x}) /\ Count(replaced, {x})' = Count(replaced, {x})
    BY <2>3
  <2> QED
    BY <1>2, <1>3, <1>6, <1>13, <2>2, <2>3, <2>4, OutsideKept
<1>14. Accounts' /\ Unknown'
  BY <1>4, <1>12, <1>13, AllKept
<1>15. Shape'
  <2>1. /\ held' \in [Users -> SUBSET Entries] /\ held' = held
    BY <1>2, <1>4 DEF Typed, TypeOK
  <2>2. \A u \in Threads \ {t} : At(u, "reload") => entry'[Arg(u)].state # "Loading"
    BY <1>3 DEF At
  <2>3. h[1] \notin Waits
    BY <1>3 DEF Waits
  <2> QED
    BY <1>2, <1>3, <1>4, <1>6, <2>1, <2>2, <2>3, ShapeKept DEF CacheInv
<1>16. Doom'
  <2>1. \A i \in 1 .. Len(p) : \A x \in Entries : Dooms(p[i], x) => entry'[x].count = 0 /\ x \notin published' \cup fresh'
    BY <1>2, <1>3, <1>4, <1>5, <1>7 DEF Dooms
  <2>2. \A x \in Live : entry[x].count = 0 /\ x \notin published \cup fresh
                           => entry'[x].count = 0 /\ x \notin published' \cup fresh'
    BY <1>2
  <2> QED
    BY <1>2, <1>3, <1>4, <1>6, <2>1, <2>2, DoomMoved DEF CacheInv
<1>17. Dispatching'
  <2>1. \A u \in Threads : ~Dispatches(u) /\ ~Dispatches(u)'
    <3>1. \A u \in Threads : ~Dispatches(u)
      BY <1>3 DEF Dispatches, Dispatcher
    <3>2. \A u \in Threads : todo'[u] = <<>> \/ todo'[u][1][1] \notin Dispatcher
      BY <1>5, <1>8, <1>9 DEF Dispatcher
    <3> QED
      BY <3>1, <3>2 DEF Dispatches
  <2>2. StepsIn(For({"dispatch"}, None)) = 0
    <3>1. h \notin For({"dispatch"}, None)
      BY <1>3 DEF For
    <3> QED
      BY <1>3, <3>1 DEF One
  <2>3. Full => Full'
    BY <1>2 DEF Full, loadLimit
  <2> QED
    BY <1>2, <2>1, <2>2, <2>3, DispatchingKept DEF CacheInv
<1>18. Ending'
  <2>1. /\ gone' /\ tasks' = 0 /\ replaced' = <<>> /\ published' \cup fresh' \cup unused' = {} /\ held' = held
    BY <1>2, <1>3
  <2>2. /\ \A u \in Users : held[u] = {}
    BY <1>3 DEF CacheInv, Ending
  <2>3. \A u \in Threads : \A i \in DOMAIN todo'[u] : u = t /\ i = 1 /\ todo'[u][i] = a
    <3> SUFFICES ASSUME NEW u \in Threads, NEW i \in DOMAIN todo'[u] PROVE u = t /\ i = 1 /\ todo'[u][i] = a
      OBVIOUS
    <3>1. u = t
      BY <1>8
    <3>2. DOMAIN todo'[t] = 1 .. 1
      BY <1>8, <1>9
    <3> QED
      BY <1>9, <3>1, <3>2
  <2>4. a[1] \in LateSteps /\ a[1] \notin {"lastReads", "lastTasks", "destroyAll"}
    BY <1>5 DEF LateSteps
  <2>5. \A u, w \in Users : todo'[u] # <<>> /\ todo'[w] # <<>> => u = w
    BY <1>8 DEF Threads
  <2> QED
    BY <1>8, <1>9, <2>1, <2>2, <2>3, <2>4, <2>5 DEF Ending
<1>19. Counters'
  <2>1. Balanced
    <3>1. h[1] \notin TaskSteps /\ \A i \in 1 .. Len(p) : p[i][1] \notin TaskSteps
      BY <1>3, <1>5, <1>7 DEF TaskSteps
    <3> QED
      BY <1>2, <1>3, <1>4, <1>6, <3>1, NoTask
  <2> QED
    BY <1>2, <2>1, CountersKept DEF CacheInv
<1>20. Numbered'
  BY <1>2 DEF Numbered, CacheInv
<1> QED
  BY <1>11, <1>14, <1>15, <1>16, <1>17, <1>18, <1>19, <1>20 DEF CacheInv

-----------------------------------------------------------------------------
(* Old resources are freed: each gives its count to a release. *)

\* p releases the n oldest ones, and may end with destroyAll.
Frees(t, n, p) ==
  /\ replaced' = SubSeq(replaced, n + 1, Len(replaced))
  /\ \A i \in 1 .. Len(p) : \/ p[i][1] = "release"
                            \/ i = Len(p) /\ p[i] = <<"destroyAll", None>> /\ todo[t][1][1] = "lastTasks"
  /\ \A x \in Entries : \A K : "destroyAll" \notin K =>
       Count(p, For(K, x)) = IF "release" \in K THEN Count(SubSeq(replaced, 1, n), {x}) ELSE 0
  /\ \A x \in Entries : Count(SubSeq(replaced, 1, n), {x}) = 0 => \A i \in 1 .. Len(p) : p[i] \notin Naming(x)

LEMMA FreesOld ==
  ASSUME CacheInv, NEW t \in Threads, todo[t] # <<>>, todo[t][1][1] \in {"freeReplaced", "lastTasks"},
         NEW n \in 0 .. Len(replaced), NEW p \in Seq(AllSteps), Then(t, p), Frees(t, n, p),
         UNCHANGED <<entry, published, fresh, freshCount, allLocks, unused, incoming, queued, requests, running, tasks, reads,
                     laneQueue, lane, disk, held, calls, gone>>
  PROVE  /\ Typed' /\ Numbered' /\ Accounts' /\ Unknown' /\ Counters' /\ Shape' /\ Doom'
         /\ Follows(todo[t][1], p, Mine(t)')
<1> DEFINE h == todo[t][1]
<1>1. /\ Typed /\ Accounts /\ Unknown /\ h \in AllSteps /\ h[1] \in {"freeReplaced", "lastTasks"}
      /\ replaced \in Seq(Entries) /\ Len(replaced) \in Nat /\ todo \in [Threads -> Seq(AllSteps)]
  <2>1. Typed /\ replaced \in Seq(Entries) /\ todo \in [Threads -> Seq(AllSteps)]
    BY DEF CacheInv, Typed, TypeOK
  <2>2. h \in AllSteps
    BY <2>1, CountTail
  <2> QED
    BY <2>1, <2>2, LenProperties DEF CacheInv
<1>2. \A x \in Entries : h \notin Naming(x) /\ \A K : h[1] \notin K => h \notin For(K, x)
  BY <1>1 DEF Naming, For, Takes, ForSets, Counting, Passing, Waits
<1>3. \A i \in 1 .. Len(p) : p[i][1] \in {"release", "destroyAll"} /\ (p[i][1] = "destroyAll" => i = Len(p) /\ h[1] = "lastTasks")
  BY DEF Frees
<1>4. Follows(h, p, Mine(t)')
  <2>1. TaskDoneOnLane[1] = "taskDone" /\ EndOfForce[1] = "end"
    BY DEF TaskDoneOnLane, EndOfForce
  <2>2. /\ h[1] \notin Waits /\ h[1] \notin TaskEnds /\ (h[1] = "lastTasks" => h[1] \in Lasts) /\ h[1] \notin LaneSteps
        /\ h[1] \notin {"release", "enqueue"}
    BY <1>1 DEF Waits, TaskEnds, Lasts, LaneSteps, Dispatcher
  <2>3. \A i \in 1 .. Len(p) : /\ p[i][1] \notin Passing /\ p[i][1] \notin {"reload", "unpark"} /\ p[i][1] \notin Firsts
                               /\ (p[i][1] \in Lasts => p[i][1] = "destroyAll")
                               /\ p[i] # TaskDoneOnLane /\ ~Forces(p[i]) /\ p[i] # EndOfForce
                               /\ p[i][1] \in LateSteps
                               /\ p[i][1] \notin {"lastReads", "lastTasks"}
    BY <1>3, <2>1 DEF Passing, Waits, Firsts, Dispatcher, ForSets, Lasts, Forces, LateSteps, LaneSteps
  <2>4. Fits(h, p, Mine(t)')
    BY <1>3, <2>2, <2>3 DEF Fits
  <2>5. \A i \in 1 .. Len(p) : Suits(h, p[i])
    BY <2>2, <2>3 DEF Suits
  <2> QED
    BY <2>2, <2>4, <2>5 DEF Follows
<1>5. /\ todo' \in [Threads -> Seq(AllSteps)]
      /\ \A G : StepsIn(G)' = StepsIn(G) - One(h \in G) + Count(p, G)
  BY <1>1, Moved
<1>6. /\ replaced' \in Seq(Entries)
      /\ \A G : Count(replaced, G) = Count(SubSeq(replaced, 1, n), G) + Count(replaced', G)
      /\ SubSeq(replaced, 1, n) \in Seq(Entries)
  <2>1. /\ SubSeq(replaced, n + 1, Len(replaced)) \in Seq(Entries)
        /\ \A G : Count(replaced, G) = Count(SubSeq(replaced, 1, n), G) + Count(SubSeq(replaced, n + 1, Len(replaced)), G)
    BY <1>1, CountParts
  <2>2. SubSeq(replaced, 1, n) \in Seq(Entries)
    BY <1>1, SubSeqProperties
  <2>3. replaced' = SubSeq(replaced, n + 1, Len(replaced))
    BY DEF Frees
  <2> QED
    BY <2>1, <2>2, <2>3
<1>7. Typed'
  BY <1>1, <1>5, <1>6 DEF Typed, TypeOK
<1>8. \A x \in Entries : Holders(x)' = Holders(x) /\ Count(Waiting, {x})' = Count(Waiting, {x})
  <2>1. Waiting' = Waiting
    BY DEF Waiting
  <2> QED
    BY <2>1 DEF Holders
<1>9. ASSUME NEW x \in Live PROVE Keeps(x)
  <2>1. x \in Entries
    BY DEF Live
  <2>2. PICK c \in Nat : c = Count(SubSeq(replaced, 1, n), {x})
    BY <1>6, CountType
  <2>3. Count(replaced, {x})' = Count(replaced, {x}) + (-c)
    <3>1. Count(replaced', {x}) \in Nat
      BY <1>6, CountType
    <3>2. Count(replaced, {x})' = Count(replaced', {x})
      BY DEF Count
    <3>3. Count(replaced, {x}) = c + Count(replaced', {x})
      BY <1>6, <2>2
    <3> QED
      BY <3>1, <3>2, <3>3
  <2>4. /\ Count(p, For(Counting, x)) = c
        /\ Count(p, For(Loaders, x)) = 0 /\ Count(p, For(Comers, x)) = 0 /\ Count(p, For(Tasking, x)) = 0
        /\ Count(p, For(Unparkers, x)) = 0 /\ Count(p, For(PendingKinds, x)) = 0
    <3>1. /\ "release" \in Counting /\ "release" \notin Loaders /\ "release" \notin Comers /\ "release" \notin Tasking
          /\ "release" \notin Unparkers /\ "release" \notin PendingKinds
          /\ "destroyAll" \notin Counting \cup Loaders \cup Comers \cup Tasking \cup Unparkers \cup PendingKinds
      BY DEF Counting, Loaders, Comers, Tasking, Unparkers, PendingKinds
    <3> QED
      BY <2>1, <2>2, <3>1 DEF Frees
  <2>5. Count(p, Unusing(x)) = 0
    <3>1. \A i \in 1 .. Len(p) : p[i] \notin Unusing(x)
      BY <1>3 DEF Unusing, Takes, ForSets
    <3> QED
      BY <3>1, CountType
  <2>6. /\ One(h \in For(Counting, x)) = 0 /\ One(h \in For(Loaders, x)) = 0 /\ One(h \in For(Comers, x)) = 0
        /\ One(h \in For(Tasking, x)) = 0 /\ One(h \in For(Unparkers, x)) = 0 /\ One(h \in For(PendingKinds, x)) = 0
        /\ One(h \in Unusing(x)) = 0
    <3>1. /\ h[1] \notin Counting /\ h[1] \notin Loaders /\ h[1] \notin Comers /\ h[1] \notin Tasking
          /\ h[1] \notin Unparkers /\ h[1] \notin PendingKinds
      BY <1>1 DEF Counting, Loaders, Comers, Tasking, Unparkers, PendingKinds
    <3>2. h \notin Unusing(x)
      BY <1>1 DEF Unusing, Takes, ForSets
    <3> QED
      BY <1>2, <2>1, <3>1, <3>2 DEF One
  <2>7. /\ StepsIn(For(Counting, x)) \in Nat /\ StepsIn(For(Loaders, x)) \in Nat /\ StepsIn(For(Comers, x)) \in Nat
        /\ StepsIn(For(Tasking, x)) \in Nat /\ StepsIn(For(Unparkers, x)) \in Nat /\ StepsIn(For(PendingKinds, x)) \in Nat
        /\ StepsIn(Unusing(x)) \in Nat
    BY <1>1, <2>1, Amounts
  <2> HIDE DEF h
  <2>8. Shifts(x, c, 0, 0, 0, 0, 0, 0)
    BY <1>5, <2>4, <2>5, <2>6, <2>7 DEF Shifts
  <2>9. /\ Cardinality(Holders(x))' = Cardinality(Holders(x)) + 0
        /\ Count(Waiting, {x})' = Count(Waiting, {x}) + 0
        /\ One(x \in disk') = One(x \in disk) + 0
        /\ One(x \in unused') = One(x \in unused) + 0
    BY <1>1, <1>8, <2>1, Zeros
  <2>10. /\ c \in Int /\ -c \in Int /\ 0 \in Int /\ entry'[x] = entry[x]
         /\ 0 + 0 + (-c) + c + 0 = 0 /\ 0 + 0 = 0 /\ 0 + 0 + 0 = 0 /\ 0 + 0 >= 0
         /\ (~gone' => ~gone /\ 0 + 0 = 0)
    OBVIOUS
  <2>11. PICK r \in Int : r = -c
    BY <2>10
  <2>12. Count(replaced, {x})' = Count(replaced, {x}) + r /\ 0 + 0 + r + c + 0 = 0
    BY <2>3, <2>11
  <2> QED
    BY <1>1, <1>7, <2>1, <2>8, <2>9, <2>10, <2>11, <2>12, Handing
<1>10. ASSUME NEW x \in Entries \ Live PROVE Unnamed(x) /\ Spared(x)
  <2>1. Count(replaced, {x}) = 0
    BY <1>1, <1>10 DEF Unknown
  <2>2. Count(SubSeq(replaced, 1, n), {x}) = 0 /\ Count(replaced', {x}) = 0
    <3>1. Count(SubSeq(replaced, 1, n), {x}) \in Nat /\ Count(replaced', {x}) \in Nat
      BY <1>6, CountType
    <3>2. Count(replaced, {x}) = Count(SubSeq(replaced, 1, n), {x}) + Count(replaced', {x})
      BY <1>6
    <3> QED
      BY <2>1, <3>1, <3>2
  <2>3. Count(replaced, {x})' = Count(replaced, {x})
    <3>1. Count(replaced, {x})' = Count(replaced', {x})
      BY DEF Count
    <3> QED
      BY <2>1, <2>2, <3>1
  <2>4. \A i \in 1 .. Len(p) : p[i] \notin Naming(x)
    BY <1>10, <2>2 DEF Frees
  <2>5. entry'[x] = entry[x] /\ (gone => gone') /\ x \notin published' \cup fresh' \cup unused' \cup disk'
    BY <1>1, <1>10 DEF Unknown
  <2> QED
    BY <1>8, <1>10, <2>3, <2>4, <2>5, OutsideKept
<1>11. Accounts' /\ Unknown'
  BY <1>1, <1>9, <1>10, AllKept
<1>12. Shape'
  <2>1. held' \in [Users -> SUBSET Entries] /\ held' = held
    BY <1>1 DEF Typed, TypeOK
  <2>2. \A u \in Threads \ {t} : At(u, "reload") => entry'[Arg(u)].state # "Loading"
    BY DEF CacheInv, Shape, Me
  <2>3. h[1] \notin Waits
    BY <1>1 DEF Waits
  <2> QED
    BY <1>1, <1>4, <2>1, <2>2, <2>3, ShapeKept DEF CacheInv
<1>13. Doom'
  <2>1. \A i \in 1 .. Len(p) : \A x \in Entries : Dooms(p[i], x) => entry'[x].count = 0 /\ x \notin published' \cup fresh'
    BY <1>3 DEF Dooms
  <2>2. \A x \in Live : entry[x].count = 0 /\ x \notin published \cup fresh
                           => entry'[x].count = 0 /\ x \notin published' \cup fresh'
    OBVIOUS
  <2> QED
    BY <1>1, <2>1, <2>2, DoomMoved DEF CacheInv
<1>14. Counters'
  <2>1. Balanced
    <3>1. h[1] \notin TaskSteps /\ \A i \in 1 .. Len(p) : p[i][1] \notin TaskSteps
      BY <1>1, <1>3 DEF TaskSteps
    <3> QED
      BY <1>1, <3>1, NoTask
  <2> QED
    BY <2>1, CountersKept DEF CacheInv
<1>15. Numbered'
  BY DEF Numbered, CacheInv
<1> QED
  BY <1>4, <1>7, <1>11, <1>12, <1>13, <1>14, <1>15

LEMMA FreeReplacedStep ==
  ASSUME CacheInv, NEW t \in Threads, NEW n \in 0 .. MaxCalls, FreeReplaced(t, n)
  PROVE  CacheInv'
<1> DEFINE p == [i \in 1 .. n |-> <<"release", replaced[i]>>]
<1>1. /\ At(t, "freeReplaced") /\ n <= Len(replaced) /\ Then(t, p) /\ replaced' = SubSeq(replaced, n + 1, Len(replaced))
      /\ UNCHANGED <<entry, published, fresh, freshCount, allLocks, unused, incoming, queued, requests, running, tasks, reads,
                     laneQueue, lane, disk, held, calls, gone>>
  BY DEF FreeReplaced, mapVars, waitVars, countVars, laneVars, userVars
<1>2. /\ Typed /\ todo[t] # <<>> /\ todo[t][1][1] = "freeReplaced" /\ replaced \in Seq(Entries)
      /\ n \in 0 .. Len(replaced)
  <2>1. Typed /\ replaced \in Seq(Entries) /\ n \in Nat
    BY CacheAssumption, SMTT(60) DEF CacheInv, Typed, TypeOK
  <2>2. Len(replaced) \in Nat
    BY <2>1, LenProperties
  <2> QED
    BY <1>1, <2>1, <2>2 DEF At
<1>3. /\ p \in Seq(AllSteps) /\ Len(p) = n
      /\ \A i \in 1 .. n : p[i] = <<"release", replaced[i]>>
      /\ \A x \in Entries : \A K : Count(p, For(K, x)) = IF "release" \in K THEN Count(SubSeq(replaced, 1, n), {x}) ELSE 0
      /\ \A x \in Entries : Count(SubSeq(replaced, 1, n), {x}) = 0 => \A i \in 1 .. n : p[i] \notin Naming(x)
  BY <1>2, CountReleases
<1> HIDE DEF p
<1>4. Frees(t, n, p)
  <2>1. \A i \in 1 .. Len(p) : p[i][1] = "release"
    BY <1>3
  <2> QED
    BY <1>1, <1>3, <2>1 DEF Frees
<1>5. /\ Typed' /\ Numbered' /\ Accounts' /\ Unknown' /\ Counters' /\ Shape' /\ Doom'
      /\ Follows(todo[t][1], p, Mine(t)')
  <2>1. todo[t][1][1] \in {"freeReplaced", "lastTasks"}
    BY <1>2
  <2> QED
    BY <1>1, <1>2, <1>3, <1>4, <2>1, FreesOld
<1>6. Dispatching' /\ Ending'
  <2>1. PICK h : h = todo[t][1]
    OBVIOUS
  <2>2. Calm(p)
    BY <1>3 DEF Calm, Dispatcher, ForSets
  <2>3. /\ h[1] \notin Dispatcher \cup {"dispatch", "destroyAll"} /\ h[1] \notin {"release", "enqueue"} /\ h[1] \notin Waits
    BY <1>2, <2>1 DEF Dispatcher, Waits
  <2>4. UNCHANGED <<incoming, queued, requests, running, lane, gone>> /\ held' = held /\ published' = published /\ fresh' = fresh
        /\ entry' = entry
    BY <1>1
  <2>5. published' \cup fresh' \subseteq published \cup fresh
    BY <2>4
  <2> QED
    BY <1>1, <1>2, <1>3, <1>5, <2>1, <2>2, <2>3, <2>4, <2>5, HandOn
<1> QED
  BY <1>5, <1>6 DEF CacheInv

LEMMA LastReplacedStep ==
  ASSUME CacheInv, NEW t \in Threads, LastReplaced(t)
  PROVE  CacheInv'
<1>1. PICK n : n = Len(replaced)
  OBVIOUS
<1> DEFINE r == [i \in 1 .. n |-> <<"release", replaced[i]>>]
           d == <<"destroyAll", None>>
           p == r \o <<d>>
<1>2. /\ Typed /\ replaced \in Seq(Entries) /\ n \in Nat /\ n \in 0 .. Len(replaced) /\ DOMAIN replaced = 1 .. n
      /\ todo \in [Threads -> Seq(AllSteps)]
  <2>1. Typed /\ replaced \in Seq(Entries) /\ todo \in [Threads -> Seq(AllSteps)]
    BY DEF CacheInv, Typed, TypeOK
  <2>2. Len(replaced) \in Nat /\ DOMAIN replaced = 1 .. Len(replaced)
    BY <2>1, LenProperties
  <2> QED
    BY <1>1, <2>1, <2>2
<1>3. /\ At(t, "lastTasks") /\ tasks = 0 /\ Then(t, p) /\ replaced' = <<>>
      /\ UNCHANGED <<entry, published, fresh, freshCount, allLocks, unused, incoming, queued, requests, running, tasks, reads,
                     laneQueue, lane, disk, held, calls, gone>>
  BY <1>2 DEF LastReplaced, mapVars, waitVars, countVars, laneVars, userVars
<1>4. /\ todo[t] # <<>> /\ todo[t][1][1] = "lastTasks" /\ todo[t] \in Seq(AllSteps)
  BY <1>2, <1>3 DEF At
<1>5. /\ r \in Seq(AllSteps) /\ Len(r) = n
      /\ \A i \in 1 .. n : r[i] = <<"release", replaced[i]>>
      /\ \A x \in Entries : \A K : Count(r, For(K, x)) = IF "release" \in K THEN Count(SubSeq(replaced, 1, n), {x}) ELSE 0
      /\ \A x \in Entries : Count(SubSeq(replaced, 1, n), {x}) = 0 => \A i \in 1 .. n : r[i] \notin Naming(x)
  BY <1>2, CountReleases
<1>6. d \in AllSteps /\ <<d>> \in Seq(AllSteps) /\ d[1] = "destroyAll"
  <2>1. d \in AllSteps
    BY StepsAre DEF ForNobody
  <2> QED
    BY <2>1
<1> HIDE DEF r
<1>7. /\ p \in Seq(AllSteps) /\ Len(p) = n + 1
      /\ \A i \in 1 .. n : p[i] = r[i]
      /\ p[n + 1] = d
      /\ \A G : Count(p, G) = Count(r, G) + One(d \in G)
  <2> DEFINE q == <<d>>
  <2>1. Len(q) = 1 /\ q[1] = d /\ q \in Seq(AllSteps) /\ \A G : Count(q, G) = One(d \in G)
    BY <1>6, CountShort
  <2> HIDE DEF q, d
  <2>2. /\ r \o q \in Seq(AllSteps) /\ Len(r \o q) = Len(r) + Len(q)
        /\ \A i \in 1 .. Len(r) + Len(q) : (r \o q)[i] = IF i <= Len(r) THEN r[i] ELSE q[i - Len(r)]
    BY <1>5, <2>1, ConcatProperties
  <2>3. ASSUME NEW G PROVE Count(r \o q, G) = Count(r, G) + Count(q, G)
    BY <1>5, <2>1, CountConcat
  <2>4. /\ Len(r \o q) = n + 1 /\ (\A i \in 1 .. n : (r \o q)[i] = r[i]) /\ (r \o q)[n + 1] = q[1]
    BY <1>2, <1>5, <2>1, <2>2
  <2>5. p = r \o q
    BY DEF q
  <2> HIDE DEF p
  <2> QED
    BY <2>1, <2>2, <2>3, <2>4, <2>5
<1> HIDE DEF p
<1>8. \A i \in 1 .. Len(p) : (i \in 1 .. n /\ p[i] = <<"release", replaced[i]>>) \/ (i = n + 1 /\ i = Len(p) /\ p[i] = d)
  BY <1>2, <1>5, <1>7
<1>9. Frees(t, n, p)
  <2>1. replaced' = SubSeq(replaced, n + 1, Len(replaced))
    BY <1>1, <1>2, <1>3, SubSeqEmpty
  <2>2. \A i \in 1 .. Len(p) : \/ p[i][1] = "release"
                               \/ i = Len(p) /\ p[i] = <<"destroyAll", None>> /\ todo[t][1][1] = "lastTasks"
    BY <1>4, <1>8
  <2>3. ASSUME NEW x \in Entries, NEW K, "destroyAll" \notin K
        PROVE  Count(p, For(K, x)) = IF "release" \in K THEN Count(SubSeq(replaced, 1, n), {x}) ELSE 0
    <3>1. One(d \in For(K, x)) = 0
      BY <1>6, <2>3 DEF One, For
    <3>2. Count(r, For(K, x)) \in Nat
      BY <1>5, CountType
    <3>3. Count(p, For(K, x)) = Count(r, For(K, x)) + 0
      BY <1>7, <3>1
    <3>4. Count(p, For(K, x)) = Count(r, For(K, x))
      BY <3>2, <3>3
    <3> QED
      BY <1>5, <3>4
  <2>4. ASSUME NEW x \in Entries, Count(SubSeq(replaced, 1, n), {x}) = 0, NEW i \in 1 .. Len(p) PROVE p[i] \notin Naming(x)
    <3>1. d \notin Naming(x)
      BY <1>6 DEF Naming, Takes, ForSets, Counting, Passing, Waits
    <3> QED
      BY <1>2, <1>5, <1>7, <1>8, <2>4, <3>1
  <2> QED
    BY <2>1, <2>2, <2>3, <2>4 DEF Frees
<1>10. /\ Typed' /\ Numbered' /\ Accounts' /\ Unknown' /\ Counters' /\ Shape' /\ Doom'
  <2>1. todo[t][1][1] \in {"freeReplaced", "lastTasks"}
    BY <1>4
  <2> QED
    BY <1>2, <1>3, <1>4, <1>7, <1>9, <2>1, FreesOld

<1>11. /\ gone /\ t \in Users /\ Len(todo[t]) = 1
       /\ \A u \in Threads \ {t} : todo[u] = <<>>
  <2>1. 1 \in DOMAIN todo[t] /\ 1 \in 1 .. Len(todo[t])
    BY <1>4, CountTail
  <2>2. gone /\ t \in Users
    BY <1>4, <2>1 DEF CacheInv, Ending
  <2>3. Len(todo[t]) = 1
    <3>1. todo[t][1][1] \in Lasts
      BY <1>4 DEF Lasts
    <3> QED
      BY <2>1, <3>1 DEF CacheInv, Shape, FirstAndLast
  <2>4. StepsIn(Named(TaskSteps)) = 0
    <3>1. tasks = Len(Waiting) + StepsIn(Named(TaskSteps)) + Cardinality(disk)
      BY DEF CacheInv, Counters
    <3>2. Len(Waiting) \in Nat /\ Cardinality(disk) \in Nat /\ StepsIn(Named(TaskSteps)) \in Nat
      <4>1. Waiting \in Seq(Entries)
        BY <1>2, ThreeLists DEF Typed, TypeOK, Waiting
      <4> QED
        BY <1>2, <4>1, DiskFinite, Someone
    <3> QED
      BY <1>3, <3>1, <3>2
  <2>5. ASSUME NEW u \in LaneThreads PROVE todo[u] = <<>>
    <3> SUFFICES ASSUME todo[u] # <<>> PROVE FALSE
      OBVIOUS
    <3>1. u \in Threads /\ todo[u] \in Seq(AllSteps)
      BY <1>2 DEF Threads
    <3>2. Len(todo[u]) \in 1 .. Len(todo[u]) /\ todo[u][Len(todo[u])] \in AllSteps
      BY <3>1, EmptySeq, LenProperties, ElementOfSeq
    <3>3. todo[u][Len(todo[u])][1] \in TaskEnds
      BY DEF CacheInv, Shape, LaneLike
    <3>4. todo[u][Len(todo[u])] \in Named(TaskSteps)
      BY <3>2, <3>3 DEF Named, TaskEnds, TaskSteps
    <3> QED
      BY <1>2, <2>4, <3>1, <3>2, <3>4, Someone
  <2>6. ASSUME NEW u \in Threads \ {t} PROVE todo[u] = <<>>
    <3>1. CASE u \in Users
      BY <1>4, <2>2, <2>6, <3>1 DEF CacheInv, Ending
    <3> QED
      BY <2>5, <2>6, <3>1 DEF Threads
  <2> QED
    BY <2>2, <2>3, <2>6
<1>12. /\ todo' \in [Threads -> Seq(AllSteps)] /\ Len(todo'[t]) = n + 1
       /\ \A i \in 1 .. n + 1 : todo'[t][i] = p[i]
       /\ \A u \in Threads \ {t} : todo'[u] = <<>>
       /\ \A G : StepsIn(G)' = StepsIn(G) - One(todo[t][1] \in G) + Count(p, G)
  <2>1. /\ todo' \in [Threads -> Seq(AllSteps)] /\ todo'[t] = p \o Tail(todo[t])
        /\ \A u \in Threads \ {t} : todo'[u] = todo[u]
        /\ \A G : StepsIn(G)' = StepsIn(G) - One(todo[t][1] \in G) + Count(p, G)
    BY <1>2, <1>3, <1>4, <1>7, Moved
  <2>2. /\ Len(p \o Tail(todo[t])) = Len(p) + Len(todo[t]) - 1
        /\ \A i \in 1 .. Len(p) : (p \o Tail(todo[t]))[i] = p[i]
    <3>1. todo[t] \in Seq(AllSteps) /\ todo[t] # <<>> /\ p \in Seq(AllSteps)
      BY <1>4, <1>7
    <3> QED
      BY <3>1, Behind
  <2>3. Len(todo'[t]) = n + 1 /\ \A i \in 1 .. n + 1 : todo'[t][i] = p[i]
    BY <1>2, <1>7, <1>11, <2>1, <2>2
  <2> QED
    BY <1>11, <2>1, <2>3
<1>13. \A i \in 1 .. n + 1 : todo'[t][i][1] \in {"release", "destroyAll"}
  BY <1>6, <1>7, <1>8, <1>12
<1>14. Dispatching'
  <2>1. \A u \in Threads : ~Dispatches(u) /\ ~Dispatches(u)'
    <3>1. \A u \in Threads : ~Dispatches(u)
      BY <1>4, <1>11 DEF Dispatches, Dispatcher
    <3>2. \A u \in Threads : todo'[u] = <<>> \/ todo'[u][1][1] \notin Dispatcher
      <4>1. 1 \in 1 .. n + 1
        BY <1>2
      <4>2. todo'[t][1][1] \notin Dispatcher
        BY <1>13, <4>1 DEF Dispatcher
      <4> QED
        BY <1>12, <4>2
    <3> QED
      BY <3>1, <3>2 DEF Dispatches
  <2>2. StepsIn(For({"dispatch"}, None)) = 0
    <3>1. \A u \in Threads : \A i \in 1 .. Len(todo[u]) : todo[u][i] \notin For({"dispatch"}, None)
      BY <1>4, <1>11 DEF For
    <3> QED
      BY <1>2, <3>1, Someone
  <2>3. Full => Full'
    BY <1>3 DEF Full, loadLimit
  <2> QED
    BY <1>3, <2>1, <2>2, <2>3, DispatchingKept DEF CacheInv
<1>15. Ending'
  <2>1. /\ gone' /\ tasks' = 0 /\ replaced' = <<>> /\ held' = held
    BY <1>3, <1>11
  <2>2. /\ \A u \in Users : held[u] = {}
    BY <1>11 DEF CacheInv, Ending
  <2>3. \A u \in Threads : \A i \in DOMAIN todo'[u] : u = t /\ todo'[u][i][1] \in {"release", "destroyAll"}
    <3> SUFFICES ASSUME NEW u \in Threads, NEW i \in DOMAIN todo'[u]
                 PROVE  u = t /\ todo'[u][i][1] \in {"release", "destroyAll"}
      OBVIOUS
    <3>1. u = t
      BY <1>12
    <3>2. DOMAIN todo'[t] = 1 .. n + 1
      BY <1>12
    <3> QED
      BY <1>13, <3>1, <3>2
  <2>4. {"release", "destroyAll"} \subseteq LateSteps
    BY DEF LateSteps, LaneSteps
  <2>5. \A u, w \in Users : todo'[u] # <<>> /\ todo'[w] # <<>> => u = w
    BY <1>12 DEF Threads
  <2> QED
    BY <1>11, <1>12, <2>1, <2>2, <2>3, <2>4, <2>5 DEF Ending
<1> QED
  BY <1>10, <1>14, <1>15 DEF CacheInv

-----------------------------------------------------------------------------
(* A new entry. *)

\* Nothing is known of it before.
LEMMA NewEntry ==
  ASSUME CacheInv, NEW e, e = 1 + Cardinality({x \in Entries : entry[x].life # "none"})
  PROVE  /\ e \in Entries => entry[e].life = "none" /\ e \notin Live
         /\ e \in Entries => \E n \in 0 .. MaxEntries : {x \in Entries : entry[x].life # "none"} \cup {e} = 1 .. n
<1>1. PICK n \in 0 .. MaxEntries : {x \in Entries : entry[x].life # "none"} = 1 .. n
  BY DEF CacheInv, Numbered
<1>2. n \in Nat /\ MaxEntries \in Nat
  BY CacheAssumption
<1>3. Cardinality(1 .. n) = n
  <2>1. Cardinality(1 .. n) = IF 1 > n THEN 0 ELSE n - 1 + 1
    BY <1>2, FS_Interval
  <2> QED
    BY <1>2, <2>1
<1>4. e = n + 1
  <2> DEFINE made == {x \in Entries : entry[x].life # "none"}
  <2>1. made = 1 .. n /\ e = 1 + Cardinality(made)
    BY <1>1
  <2> HIDE DEF made
  <2>2. Cardinality(made) = n
    BY <1>3, <2>1
  <2> QED
    BY <1>2, <2>1, <2>2
<1>5. e \in Entries => entry[e].life = "none" /\ e \notin Live
  BY <1>1, <1>2, <1>4 DEF Live
<1>6. e \in Entries => n + 1 \in 0 .. MaxEntries /\ (1 .. n) \cup {e} = 1 .. n + 1
  BY <1>2, <1>4 DEF Entries
<1> QED
  BY <1>1, <1>5, <1>6

\* A thread makes it, and has its load to start, or to do.
LEMMA MakesOne ==
  ASSUME CacheInv, NEW t \in Threads, At(t, "lookup"), NEW e \in Entries, entry[e].life = "none", e \notin Live,
         NEW n \in 0 .. MaxEntries, {x \in Entries : entry[x].life # "none"} \cup {e} = 1 .. n,
         NEW a \in AllSteps, a[2] = e, NEW b \in AllSteps, b[2] = e, Then(t, <<a, b>>),
         NEW new \in EntryType, entry' = [entry EXCEPT ![e] = new], new.life = "live", new.state = "Loading",
         ~new.queued, ~new.parked,
         \/ a[1] = "startRead" /\ b[1] = "keep" /\ new.count = 2 /\ new.claimed /\ ~new.pending
         \/ a[1] = "startTask" /\ b[1] = "keep" /\ new.count = 2 /\ ~new.claimed /\ new.pending
         \/ a[1] = "load" /\ b[1] = "throwOrKeep" /\ new.count = 1 /\ new.claimed /\ ~new.pending,
         published' \cup fresh' = published \cup fresh \cup {e}, freshCount' \in Nat,
         UNCHANGED <<allLocks, unused, incoming, queued, requests, running, tasks, reads, replaced, laneQueue, lane, disk,
                     held, calls, gone>>
  PROVE  CacheInv'
<1> DEFINE h == todo[t][1]
           p == <<a, b>>
<1>1. /\ Typed /\ Unknown /\ todo[t] # <<>> /\ h \in AllSteps /\ h[1] = "lookup"
      /\ \A x \in Entries : h \notin Naming(x)
  <2>1. Typed /\ Unknown /\ todo[t] # <<>> /\ h \in AllSteps /\ h[1] = "lookup"
    BY CountTail DEF CacheInv, At, Typed
  <2>2. \A x \in Entries : h \notin Naming(x)
    BY <2>1 DEF Naming, Takes, ForSets, Counting, Passing, Waits
  <2> QED
    BY <2>1, <2>2
<1>2. /\ entry \in [Entries -> EntryType] /\ entry' \in [Entries -> EntryType] /\ entry'[e] = new
      /\ \A x \in Entries \ {e} : entry'[x] = entry[x]
  BY <1>1 DEF Typed, TypeOK, EntryType
<1>3. a[1] \in {"startRead", "startTask", "load"} /\ b[1] \in {"keep", "throwOrKeep"}
  OBVIOUS
<1>4. Follows(h, p, Mine(t)') /\ Calm(p) /\ p \in Seq(AllSteps)
  <2>1. TaskDoneOnLane[1] = "taskDone" /\ EndOfForce[1] = "end"
    BY DEF TaskDoneOnLane, EndOfForce
  <2>2. Apt(h, a) /\ Apt(h, b)
    BY <1>1, <1>3, <2>1 DEF Apt, Suits, Lasts, Forces, LaneSteps, Dispatcher, LateSteps
  <2>3. (Covered(h, a, Mine(t)') \/ Backs(a, b)) /\ Covered(h, b, Mine(t)')
    BY <1>3 DEF Covered, Backs, Passing, Waits, Counting
  <2>4. /\ a[1] \notin {"reload", "unpark"} \cup Lasts
        /\ b[1] \notin {"reload", "unpark"} \cup Firsts
        /\ ~(a = TaskDoneOnLane /\ b = TaskDoneOnLane)
        /\ h[1] \notin Waits /\ h[1] \notin TaskEnds
        /\ {a[1], b[1]} \cap (Dispatcher \cup ForSets \cup {"destroyAll"}) = {}
    BY <1>1, <1>3, <2>1 DEF Waits, TaskEnds, Lasts, Firsts, Dispatcher, ForSets
  <2> HIDE DEF h
  <2>5. Follows(h, <<a, b>>, Mine(t)') /\ Calm(<<a, b>>) /\ <<a, b>> \in Seq(AllSteps)
    BY <2>2, <2>3, <2>4, FollowsTwo
  <2> QED
    BY <2>5
<1>5. /\ Len(p) = 2 /\ p[1] = a /\ p[2] = b
  OBVIOUS
<1>6. /\ todo' \in [Threads -> Seq(AllSteps)]
      /\ \A G : StepsIn(G)' = StepsIn(G) - One(h \in G) + One(a \in G) + One(b \in G)
  <2>1. todo' \in [Threads -> Seq(AllSteps)]
    BY <1>1, <1>4, Moved DEF Typed
  <2>2. \A G : StepsIn(G)' = StepsIn(G) - One(h \in G) + One(a \in G) + One(b \in G)
    BY <1>1, ThenFew
  <2> QED
    BY <2>1, <2>2
<1> HIDE DEF p
<1>7. /\ Holders(e) = {} /\ Count(Waiting, {e}) = 0 /\ Count(replaced, {e}) = 0 /\ StepsIn(Naming(e)) = 0
      /\ e \notin published \cup fresh \cup unused \cup disk
  BY <1>1 DEF Unknown
<1>8. /\ Holders(e)' = {} /\ Count(Waiting, {e})' = 0 /\ Count(replaced, {e})' = 0 /\ One(e \in disk)' = 0 /\ One(e \in unused)' = 0
      /\ Cardinality(Holders(e))' = 0 /\ One(entry[e].parked)' = 0
  <2>1. Holders(e)' = Holders(e) /\ Waiting' = Waiting /\ replaced' = replaced
    BY DEF Holders, Waiting
  <2>2. Count(Waiting, {e})' = Count(Waiting, {e}) /\ Count(replaced, {e})' = Count(replaced, {e})
    BY <2>1
  <2>3. Cardinality(Holders(e)') = 0
    BY <1>7, <2>1, FS_EmptySet
  <2> QED
    BY <1>2, <1>7, <2>1, <2>2, <2>3 DEF One
<1>9. \A K : K \subseteq EntryKinds => StepsIn(For(K, e))' = One(a[1] \in K) + One(b[1] \in K)
  <2> SUFFICES ASSUME NEW K, K \subseteq EntryKinds PROVE StepsIn(For(K, e))' = One(a[1] \in K) + One(b[1] \in K)
    OBVIOUS
  <2>1. For(K, e) \subseteq Naming(e)
    BY ForNames
  <2>2. StepsIn(For(K, e)) = 0
    BY <1>1, <1>7, <2>1, StepsLess
  <2>3. One(h \in For(K, e)) = 0
    BY <1>1, <2>1 DEF One
  <2>4. (a \in For(K, e) <=> a[1] \in K) /\ (b \in For(K, e) <=> b[1] \in K)
    BY DEF For
  <2>5. One(a[1] \in K) \in Nat /\ One(b[1] \in K) \in Nat
    BY DEF One
  <2>6. StepsIn(For(K, e))' = StepsIn(For(K, e)) - One(h \in For(K, e)) + One(a \in For(K, e)) + One(b \in For(K, e))
    BY <1>6
  <2>7. One(a \in For(K, e)) = One(a[1] \in K) /\ One(b \in For(K, e)) = One(b[1] \in K)
    BY <2>4 DEF One
  <2> HIDE DEF h
  <2> QED
    BY <2>2, <2>3, <2>5, <2>6, <2>7
<1>10. StepsIn(Unusing(e))' = 0
  <2>1. StepsIn(Unusing(e)) = 0
    BY <1>1, <1>7, ForNames, StepsLess
  <2>2. a \notin Unusing(e) /\ b \notin Unusing(e) /\ h \notin Unusing(e)
    BY <1>1, <1>3 DEF Unusing, Takes, ForSets
  <2>3. One(a \in Unusing(e)) = 0 /\ One(b \in Unusing(e)) = 0 /\ One(h \in Unusing(e)) = 0
    BY <2>2 DEF One
  <2>4. StepsIn(Unusing(e))' = StepsIn(Unusing(e)) - One(h \in Unusing(e)) + One(a \in Unusing(e)) + One(b \in Unusing(e))
    BY <1>6
  <2> HIDE DEF h
  <2> QED
    BY <2>1, <2>3, <2>4
<1>11. /\ StepsIn(For(Counting, e))' = One(a[1] \in Counting) + One(b[1] \in Counting)
       /\ StepsIn(For(Loaders, e))' = One(a[1] \in Loaders) + One(b[1] \in Loaders)
       /\ StepsIn(For(Comers, e))' = One(a[1] \in Comers) + One(b[1] \in Comers)
       /\ StepsIn(For(Tasking, e))' = One(a[1] \in Tasking) + One(b[1] \in Tasking)
       /\ StepsIn(For({"unpark", "startParked"}, e))' = 0
       /\ StepsIn(For({"parkOrLoad", "unpark", "startParked"}, e))' = 0
  <2>1. /\ StepsIn(For(Counting, e))' = One(a[1] \in Counting) + One(b[1] \in Counting)
        /\ StepsIn(For(Loaders, e))' = One(a[1] \in Loaders) + One(b[1] \in Loaders)
        /\ StepsIn(For(Comers, e))' = One(a[1] \in Comers) + One(b[1] \in Comers)
        /\ StepsIn(For(Tasking, e))' = One(a[1] \in Tasking) + One(b[1] \in Tasking)
        /\ StepsIn(For(Unparkers, e))' = One(a[1] \in Unparkers) + One(b[1] \in Unparkers)
        /\ StepsIn(For(PendingKinds, e))' = One(a[1] \in PendingKinds) + One(b[1] \in PendingKinds)
    BY <1>9, ForNames
  <2>2. /\ a[1] \notin Unparkers /\ b[1] \notin Unparkers /\ a[1] \notin PendingKinds /\ b[1] \notin PendingKinds
    BY <1>3 DEF Unparkers, PendingKinds
  <2> QED
    BY <2>1, <2>2 DEF One, Unparkers, PendingKinds
<1>12. b[1] \in Counting /\ b[1] \notin Loaders /\ b[1] \notin Comers /\ b[1] \notin Tasking
  BY <1>3 DEF Counting, Loaders, Comers, Tasking
<1>13. /\ (a[1] = "load" => a[1] \notin Counting) /\ (a[1] # "load" => a[1] \in Counting)
       /\ (a[1] = "startTask" => a[1] \notin Loaders) /\ (a[1] # "startTask" => a[1] \in Loaders)
       /\ (a[1] = "startTask" => a[1] \in Comers)
  BY <1>3 DEF Counting, Loaders, Comers
<1>14. CountOk(e)' /\ LoadOk(e)' /\ QueueOk(e)'
  <2>1. CountOk(e)'
    <3>1. Having(e)' = One(a[1] \in Counting) + One(b[1] \in Counting)
      <4>1. One(a[1] \in Counting) \in Nat /\ One(b[1] \in Counting) \in Nat
        BY DEF One
      <4>2. Having(e)' = 0 + 0 + 0 + (One(a[1] \in Counting) + One(b[1] \in Counting)) + 0
        BY <1>8, <1>11 DEF Having
      <4> QED
        BY <4>1, <4>2
    <3>2. new.count = One(a[1] \in Counting) + One(b[1] \in Counting)
      BY <1>12, <1>13 DEF One
    <3> QED
      BY <1>2, <3>1, <3>2 DEF CountOk
  <2>2. Loads(e)' = One(a[1] # "startTask")
    <3>1. Loads(e)' = (One(a[1] \in Loaders) + One(b[1] \in Loaders)) + 0 + 0
      BY <1>8, <1>11 DEF Loads
    <3> QED
      BY <1>12, <1>13, <3>1 DEF One
  <2>3. a[1] = "startTask" => Coming(e)' = 1
    <3>1. Coming(e)' = 0 + (One(a[1] \in Comers) + One(b[1] \in Comers))
      BY <1>8, <1>11 DEF Coming
    <3> QED
      BY <1>12, <1>13, <3>1 DEF One
  <2>4. TasksOf(e)' <= 1
    <3>1. TasksOf(e)' = (One(a[1] \in Tasking) + One(b[1] \in Tasking)) + 0 + 0 + 0
      BY <1>8, <1>11 DEF TasksOf
    <3> QED
      BY <1>12, <3>1 DEF One
  <2>5. LoadOk(e)'
    <3>1. Loads(e)' = One(entry[e].state = "Loading" /\ entry[e].claimed)'
      BY <1>2, <2>2 DEF One
    <3>2. (~entry'[e].claimed => entry'[e].pending /\ entry'[e].state = "Loading" /\ Coming(e)' # 0)
      BY <1>2, <2>3
    <3>3. entry'[e].parked \/ StepsIn(For({"unpark", "startParked"}, e))' # 0 => entry'[e].pending
      BY <1>2, <1>11
    <3>4. entry'[e].pending => ~entry'[e].claimed
      BY <1>2
    <3> QED
      BY <2>4, <3>1, <3>2, <3>3, <3>4 DEF LoadOk
  <2>6. QueueOk(e)'
    <3>1. Queue(e)' = 0
      BY <1>8, <1>10 DEF Queue
    <3> QED
      BY <1>2, <3>1 DEF QueueOk, One
  <2> QED
    BY <2>1, <2>5, <2>6
<1>15. ASSUME NEW x \in Entries \ {e} PROVE Unnamed(x) /\ Spared(x)
  <2>1. a \notin Naming(x) /\ b \notin Naming(x)
    BY <1>3, <1>15 DEF Naming, Takes, ForSets
  <2>2. \A i \in 1 .. Len(p) : p[i] \notin Naming(x)
    BY <1>5, <2>1
  <2>3. Then(t, p)
    BY DEF p
  <2>4. Unnamed(x)
    BY <1>1, <1>4, <1>15, <2>2, <2>3, NotNamed
  <2>5. Spared(x)
    BY <1>2, <1>15 DEF Spared, Holders, Waiting
  <2> QED
    BY <2>4, <2>5
<1>16. Accounts' /\ Unknown'
  BY <1>2, <1>14, <1>15, OneEntry DEF CacheInv
<1>17. Typed'
  <2>1. published' \cup fresh' \subseteq Entries
    BY <1>1 DEF Typed, TypeOK
  <2> QED
    BY <1>1, <1>2, <1>6, <2>1, SMTT(60) DEF Typed, TypeOK, EntryType
<1>18. Numbered'
  <2>1. {x \in Entries : entry'[x].life # "none"} = {x \in Entries : entry[x].life # "none"} \cup {e}
    BY <1>2
  <2> QED
    BY <2>1 DEF Numbered
<1>19. Counters'
  <2>1. Balanced
    <3>1. h[1] \notin TaskSteps /\ \A i \in 1 .. Len(p) : p[i][1] \notin TaskSteps
      BY <1>1, <1>3, <1>5 DEF TaskSteps
    <3>2. Then(t, p)
      BY DEF p
    <3> QED
      BY <1>1, <1>4, <3>1, <3>2, NoTask
  <2> QED
    BY <2>1, CountersKept DEF CacheInv
<1>20. Shape' /\ Doom' /\ Dispatching' /\ Ending'
  <2>1. \A x \in Live : entry[x].count = 0 /\ x \notin published \cup fresh
                           => entry'[x].count = 0 /\ x \notin published' \cup fresh'
    BY <1>2 DEF Live
  <2>2. \A u \in Threads \ {t} : At(u, "reload") => entry'[Arg(u)].state # "Loading"
    <3> SUFFICES ASSUME NEW u \in Threads, At(u, "reload") PROVE entry'[Arg(u)].state # "Loading"
      OBVIOUS
    <3>1. entry[Arg(u)].state # "Loading"
      BY DEF CacheInv, Shape, Me
    <3>2. Arg(u) \in Entries /\ Arg(u) \in Live
      BY EntryHead DEF EntryKinds, Counting
    <3> QED
      BY <1>2, <3>1, <3>2
  <2>3. /\ h[1] \notin Dispatcher \cup {"dispatch", "destroyAll"} /\ h[1] \notin Waits /\ h[1] \notin {"release", "enqueue"}
        /\ held' \in [Users -> SUBSET Entries] /\ held' = held
    BY <1>1 DEF Dispatcher, Waits, Typed, TypeOK
  <2>4. Then(t, p)
    BY DEF p
  <2> QED
    BY <1>1, <1>4, <2>1, <2>2, <2>3, <2>4, OrdinaryStep DEF CacheInv
<1> QED
  BY <1>16, <1>17, <1>18, <1>19, <1>20 DEF CacheInv

LEMMA MakeStep ==
  ASSUME CacheInv, NEW t \in Threads, Make(t)
  PROVE  CacheInv'
<1>1. PICK e, k, op : /\ e = 1 + Cardinality({x \in Entries : entry[x].life # "none"})
                      /\ k = Arg(t) /\ op = More(t)
  OBVIOUS
<1> DEFINE file == op = "bind" /\ k \in Files
           new == [NoEntry EXCEPT !.life = "live", !.key = k, !.count = IF op = "bind" THEN 2 ELSE 1,
                                  !.claimed = file \/ op # "bind", !.reading = file, !.pending = op = "bind" /\ ~file]
<1>2. /\ At(t, "lookup") /\ op # "find" /\ e \in Entries
      /\ entry' = [entry EXCEPT ![e] = new]
      /\ IF op = "forceLoad" THEN published' = published \cup {e} /\ fresh' = fresh /\ freshCount' = freshCount
                             ELSE fresh' = fresh \cup {e} /\ freshCount' = freshCount + 1 /\ published' = published
      /\ Then(t, IF op = "bind" THEN <<<<IF file THEN "startRead" ELSE "startTask", e>>>> \o Found(op, e)
                                ELSE <<<<"load", e>>, <<"throwOrKeep", e>>>>)
      /\ UNCHANGED <<allLocks, unused, incoming, queued, requests, running, tasks, reads, replaced, laneQueue, lane, disk,
                     held, calls, gone>>
  BY <1>1 DEF Make, NotThere, waitVars, countVars, laneVars, userVars
<1>3. k \in Keys /\ op \in Ops
  <2>1. todo[t] # <<>> /\ todo[t][1][1] = "lookup" /\ todo[t][1][2] = k /\ todo[t][1][3] = op
    BY <1>1, <1>2 DEF At, Arg, More
  <2>2. todo[t][1] \in AllSteps
    BY <2>1, CountTail DEF CacheInv, Typed
  <2>3. todo[t][1] = <<"lookup", todo[t][1][2], todo[t][1][3]>> /\ todo[t][1][2] \in Keys /\ todo[t][1][3] \in Ops
    BY <2>1, <2>2, StepTypes
  <2> QED
    BY <2>1, <2>3
<1>4. /\ new.life = "live" /\ new.key = k /\ new.count = (IF op = "bind" THEN 2 ELSE 1)
      /\ new.claimed = (file \/ op # "bind") /\ new.reading = file /\ new.pending = (op = "bind" /\ ~file)
      /\ new.queued = FALSE /\ new.parked = FALSE /\ new.state = "Loading"
  BY DEF NoEntry
<1>5. new \in EntryType
  <2>1. file \in BOOLEAN /\ (op = "bind") \in BOOLEAN
    OBVIOUS
  <2> HIDE DEF file
  <2> QED
    BY <1>3, <2>1 DEF NoEntry, EntryType
<1>6. /\ entry[e].life = "none" /\ e \notin Live
      /\ \E n \in 0 .. MaxEntries : {x \in Entries : entry[x].life # "none"} \cup {e} = 1 .. n
  BY <1>1, <1>2, NewEntry
<1>7. PICK n \in 0 .. MaxEntries : {x \in Entries : entry[x].life # "none"} \cup {e} = 1 .. n
  BY <1>6
<1>8. published' \cup fresh' = published \cup fresh \cup {e} /\ freshCount' \in Nat
  BY <1>2, SMTT(60) DEF CacheInv, Typed, TypeOK
<1>9. PICK a, b : /\ Then(t, <<a, b>>) /\ a \in AllSteps /\ b \in AllSteps /\ a[2] = e /\ b[2] = e
                  /\ \/ a[1] = "startRead" /\ b[1] = "keep" /\ op = "bind" /\ file
                     \/ a[1] = "startTask" /\ b[1] = "keep" /\ op = "bind" /\ ~file
                     \/ a[1] = "load" /\ b[1] = "throwOrKeep" /\ op # "bind"
  <2>1. "startRead" \in EntryKinds \ {"takeParked"} /\ "startTask" \in EntryKinds \ {"takeParked"} /\ "keep" \in EntryKinds \ {"takeParked"}
        /\ "load" \in EntryKinds \ {"takeParked"} /\ "throwOrKeep" \in EntryKinds \ {"takeParked"}
    BY DEF EntryKinds, Counting, Passing
  <2>2. /\ <<"startRead", e>> \in AllSteps /\ <<"startTask", e>> \in AllSteps /\ <<"keep", e>> \in AllSteps
        /\ <<"load", e>> \in AllSteps /\ <<"throwOrKeep", e>> \in AllSteps
    BY <1>2, <2>1, StepsAre
  <2>3. CASE op = "bind"
    <3>1. PICK a : a = <<IF file THEN "startRead" ELSE "startTask", e>>
      OBVIOUS
    <3>2. PICK b : b = <<"keep", e>>
      OBVIOUS
    <3>3. /\ a \in AllSteps /\ b \in AllSteps /\ a[2] = e /\ b[2] = e /\ b[1] = "keep"
          /\ (file => a[1] = "startRead") /\ (~file => a[1] = "startTask")
      BY <2>2, <3>1, <3>2
    <3>4. Found(op, e) = <<b>>
      BY <2>3, <3>2 DEF Found
    <3>5. <<a>> \o <<b>> = <<a, b>>
      BY <3>3, Joins
    <3>6. Then(t, <<a>> \o Found(op, e))
      BY <1>2, <2>3, <3>1
    <3>7. Then(t, <<a, b>>)
      BY <3>4, <3>5, <3>6
    <3> QED
      BY <2>3, <3>3, <3>7
  <2>4. CASE op # "bind"
    <3>1. Then(t, <<<<"load", e>>, <<"throwOrKeep", e>>>>)
      BY <1>2, <2>4
    <3>2. PICK a : a = <<"load", e>>
      OBVIOUS
    <3>3. PICK b : b = <<"throwOrKeep", e>>
      OBVIOUS
    <3>4. Then(t, <<a, b>>)
      BY <3>1, <3>2, <3>3
    <3>5. a \in AllSteps /\ b \in AllSteps /\ a[2] = e /\ b[2] = e /\ a[1] = "load" /\ b[1] = "throwOrKeep"
      BY <2>2, <3>2, <3>3
    <3> QED
      BY <2>4, <3>4, <3>5
  <2> QED
    BY <2>3, <2>4
<1> HIDE DEF new
<1>10. \/ a[1] = "startRead" /\ b[1] = "keep" /\ new.count = 2 /\ new.claimed /\ ~new.pending
       \/ a[1] = "startTask" /\ b[1] = "keep" /\ new.count = 2 /\ ~new.claimed /\ new.pending
       \/ a[1] = "load" /\ b[1] = "throwOrKeep" /\ new.count = 1 /\ new.claimed /\ ~new.pending
  BY <1>4, <1>9
<1> HIDE DEF file
<1> QED
  BY <1>2, <1>4, <1>5, <1>6, <1>7, <1>8, <1>9, <1>10, MakesOne, ZenonT(60)

-----------------------------------------------------------------------------
(* All steps. *)

LEMMA LooksFor ==
  ASSUME Typed, NEW t \in Threads, At(t, "lookup") \/ At(t, "bindPublished")
  PROVE  More(t) \in Ops
<1>1. todo[t] # <<>> /\ todo[t][1][1] \in {"lookup", "bindPublished"} /\ todo[t][1][3] = More(t)
  BY DEF At, More
<1>2. todo[t][1] \in AllSteps
  BY <1>1, CountTail DEF Typed
<1> QED
  BY <1>1, <1>2, StepTypes DEF Ops

LEMMA FoundStep ==
  ASSUME CacheInv, NEW t \in Threads, At(t, "lookup") \/ At(t, "bindPublished"),
         NEW e \in published \cup fresh, AcquireFound(t, More(t), e), OnlyEntries
  PROVE  CacheInv'
<1>1. PICK op : op = More(t)
  OBVIOUS
<1>2. AcquireFound(t, op, e) /\ op \in {"bind", "find", "load", "forceLoad"}
  BY <1>1, LooksFor DEF CacheInv, Ops
<1>3. CASE entry[e].parked
  BY <1>1, <1>2, <1>3, AcquireParked
<1>4. CASE ~entry[e].parked /\ op \in {"bind", "find"}
  BY <1>1, <1>2, <1>4, AcquireBind
<1>5. CASE ~entry[e].parked /\ op = "load"
  BY <1>1, <1>2, <1>5, AcquireLoad
<1>6. CASE ~entry[e].parked /\ op = "forceLoad"
  BY <1>1, <1>2, <1>6, AcquireForce
<1> QED
  BY <1>2, <1>3, <1>4, <1>5, <1>6

LEMMA BindPublishedStep ==
  ASSUME CacheInv, NEW t \in Threads, BindPublished(t)
  PROVE  CacheInv'
<1>1. CASE {e \in published : entry[e].key = Arg(t)} = {}
  BY <1>1, LookupNext
<1>2. CASE {e \in published : entry[e].key = Arg(t)} # {}
  <2>1. /\ At(t, "bindPublished") /\ OnlyEntries
        /\ \E e \in {x \in published : entry[x].key = Arg(t)} : AcquireFound(t, More(t), e)
    BY <1>2 DEF BindPublished
  <2>2. PICK e \in published : AcquireFound(t, More(t), e)
    BY <2>1
  <2>3. e \in published \cup fresh
    OBVIOUS
  <2> QED
    BY <2>1, <2>2, <2>3, FoundStep
<1> QED
  BY <1>1, <1>2

LEMMA LookupStep ==
  ASSUME CacheInv, NEW t \in Threads, Lookup(t)
  PROVE  CacheInv'
<1>1. At(t, "lookup") /\ OnlyEntries /\ \E e \in published \cup fresh : AcquireFound(t, More(t), e)
  BY DEF Lookup
<1>2. PICK e \in published \cup fresh : AcquireFound(t, More(t), e)
  BY <1>1
<1> QED
  BY <1>1, <1>2, FoundStep

LEMMA TakeParkedStep ==
  ASSUME CacheInv, NEW t \in Threads, TakeParked(t)
  PROVE  CacheInv'
<1>1. todo[t] # <<>> /\ todo[t][1][1] = "takeParked" /\ todo[t][1][3] = More(t)
  BY DEF TakeParked, At, More
<1>2. todo[t][1] \in AllSteps
  BY <1>1, CountTail DEF CacheInv, Typed
<1>3. More(t) \in {"bind", "find"} \/ More(t) = "load" \/ More(t) = "forceLoad"
  BY <1>1, <1>2, StepTypes DEF Ops
<1>4. CASE Me(t).parked
  BY <1>3, <1>4, TakeParkedBind, TakeParkedLoad, TakeParkedForce
<1>5. CASE ~Me(t).parked
  BY <1>3, <1>5, TakenBind, TakenLoad, TakenForce
<1> QED
  BY <1>4, <1>5

\* What a thread does with its first step.
LEMMA StepKeeps ==
  ASSUME CacheInv, NEW t \in Threads, Step(t)
  PROVE  CacheInv'
<1>1. CASE Release(t) \/ Enqueue(t) \/ Keep(t) \/ ThrowOrKeep(t)
  BY <1>1, ReleaseLast, ReleaseOther, EnqueueStep, KeepAgain, KeepFirst, ThrowStep, KeepStep
<1>2. CASE TakeParked(t) \/ BindPublished(t) \/ Lookup(t) \/ FindsNothing(t) \/ Make(t)
  BY <1>2, TakeParkedStep, BindPublishedStep, LookupStep, FindsNothingStep, MakeStep
<1>3. CASE ClaimFree(t) \/ LoadAnew(t)
  BY <1>3, ClaimFreeClaimed, ClaimFreeClaims, LoadAnewStep
<1>4. CASE ClaimFail(t) \/ ClaimOrPark(t) \/ ParkOrLoad(t) \/ Unpark(t)
  BY <1>4, ClaimFailFirst, ClaimFailLate, ClaimOrParkFirst, ClaimOrParkLate, ParkAlone, ParkNot, UnparkStep
<1>5. CASE Wait(t) \/ WaitState(t) \/ WaitAsleep(t) \/ WakeUp(t)
  BY <1>5, WaitClaimed, WaitClaims, WaitStateLoading, WaitStateOver, WaitAsleepStep, WakeUpStep
<1>6. ASSUME NEW ok \in BOOLEAN,
             \/ Replace(t, ok) \/ Load(t, ok)
             \/ WaitInReader(t, ok) \/ StartRead(t, ok) \/ PollDelivers(t, ok) \/ LastRead(t, ok)
      PROVE  CacheInv'
  <2>1. CASE Load(t, ok)
    BY <2>1, LoadStep
  <2>2. CASE WaitInReader(t, ok) \/ PollDelivers(t, ok) \/ LastRead(t, ok)
    BY <2>2, ReadIsOver
  <2>3. CASE ok = TRUE /\ (Replace(t, ok) \/ StartRead(t, ok))
    <3>1. Replace(t, TRUE) \/ StartRead(t, TRUE)
      BY <2>3
    <3> QED
      BY <3>1, ReplaceOk, StartReadOk
  <2>4. CASE ok = FALSE /\ (Replace(t, ok) \/ StartRead(t, ok))
    <3>1. Replace(t, FALSE) \/ StartRead(t, FALSE)
      BY <2>4
    <3> QED
      BY <3>1, ReplaceNot, StartReadNot
  <2> QED
    BY <1>6, <2>1, <2>2, <2>3, <2>4
<1>7. CASE StartParked(t) \/ StartTask(t) \/ PushIncoming(t)
  BY <1>7, StartParkedStep, StartTaskOn, StartTaskOff, PushStep
<1>8. CASE Dispatch(t) \/ DispatchOnce(t) \/ Submit(t) \/ NoPlace(t) \/ Handled(t)
  BY <1>8, DispatchFirst, DispatchLater, DispatchOnceStep, SubmitStep, NoPlaceStep, HandledLast, HandledMore
<1>9. CASE TaskDone(t)
  <2>1. todo[t] # <<>> /\ todo[t][1][1] = "taskDone" /\ todo[t][1][2] = Arg(t)
    BY <1>9 DEF TaskDone, At, Arg
  <2>2. todo[t][1] \in AllSteps
    BY <2>1, CountTail DEF CacheInv, Typed
  <2>3. Arg(t) \in BOOLEAN
    BY <2>1, <2>2, StepTypes
  <2> QED
    BY <1>9, <2>3, TaskDoneHere, TaskDoneOnTheLane, Zenon
<1>10. CASE TaskGone(t) \/ BytesRead(t) \/ ReadOver(t) \/ ReadingOver(t) \/ ReadDone(t) \/ Polled(t)
  BY <1>10, TaskGoneStep, BytesReadStep, ReadOverStep, ReadingOverStep, ReadDoneStep, PolledStep
<1>11. CASE \E n \in 0 .. MaxCalls : FreeReplaced(t, n)
  BY <1>11, FreeReplacedStep
<1>12. CASE Publish(t) \/ TakeUnused(t) \/ LockAll(t) \/ Sort(t) \/ Sorted(t) \/ DestroyDead(t)
  BY <1>12, PublishStep, TakeUnusedStep, LockAllStep, SortStep, SortedStep, DestroyDeadStep
<1>13. CASE EndCall(t) \/ LastTask(t) \/ LastReplaced(t) \/ DestroyAll(t)
  BY <1>13, EndCallStep, LastTaskStep, LastReplacedStep, DestroyAllStep
<1>14. CASE Joined(t) \/ Drain(t)
  BY <1>14, JoinedStep, DrainLast, DrainMore
<1> QED
  BY <1>1, <1>2, <1>3, <1>4, <1>5, <1>6, <1>7, <1>8, <1>9, <1>10, <1>11, <1>12, <1>13, <1>14, Zenon DEF Step

LEMMA UserKeeps ==
  ASSUME CacheInv, NEW u \in Users, User(u)
  PROVE  CacheInv'
<1>1. CASE \E call \in KeyCalls : CallMember(u, call[1], call[2])
  BY <1>1, CallMemberStep
<1>2. CASE CallApply(u)
  BY <1>2, CallApplyStep
<1>3. CASE \E o \in Owners : CallCollect(u, o)
  BY <1>3, CallCollectStep
<1>4. ASSUME NEW e \in Entries, CallWait(u, e) \/ Drop(u, e) \/ \E v \in Users : CallCopy(u, v, e)
      PROVE  CacheInv'
  BY <1>4, CallWaitStep, DropStep, CallCopyStep
<1>5. CASE Destructor(u) \/ Shutdown(u)
  BY <1>5, DestructorStep, ShutdownStep
<1> QED
  BY <1>1, <1>2, <1>3, <1>4, <1>5 DEF User

LEMMA NothingMoves ==
  ASSUME CacheInv, UNCHANGED vars
  PROVE  CacheInv'
<1> USE DEF vars, mapVars, waitVars, countVars, laneVars, userVars
<1>1. Typed' /\ Numbered'
  BY DEF CacheInv, Typed, TypeOK, Numbered
<1>2. Shape'
  BY DEF CacheInv, Shape, Mine, Inside, Steps, At, Arg, Me
<1>3. /\ Live' = Live /\ Waiting' = Waiting /\ \A G : StepsIn(G)' = StepsIn(G)
      /\ \A x : Holders(x)' = Holders(x)
  BY DEF Live, Waiting, StepsIn, Holders
<1>4. /\ Len(Waiting)' = Len(Waiting) /\ Cardinality(disk)' = Cardinality(disk) /\ loadLimit' = loadLimit
      /\ \A x : Count(Waiting, {x})' = Count(Waiting, {x}) /\ Count(replaced, {x})' = Count(replaced, {x})
  BY <1>3 DEF Count, loadLimit
<1>5. ASSUME NEW x
      PROVE  /\ StepsIn(For(Counting, x))' = StepsIn(For(Counting, x)) /\ StepsIn(For(Loaders, x))' = StepsIn(For(Loaders, x))
             /\ StepsIn(For(Comers, x))' = StepsIn(For(Comers, x)) /\ StepsIn(For(Tasking, x))' = StepsIn(For(Tasking, x))
             /\ StepsIn(Unusing(x))' = StepsIn(Unusing(x)) /\ StepsIn(Naming(x))' = StepsIn(Naming(x))
             /\ StepsIn(For({"unpark", "startParked"}, x))' = StepsIn(For({"unpark", "startParked"}, x))
             /\ StepsIn(For({"parkOrLoad", "unpark", "startParked"}, x))' = StepsIn(For({"parkOrLoad", "unpark", "startParked"}, x))
  BY <1>3
<1>6. ASSUME NEW x \in Live
      PROVE  CountOk(x)' /\ LoadOk(x)' /\ QueueOk(x)'
  <2>1. CountOk(x) /\ LoadOk(x) /\ QueueOk(x)
    BY DEF CacheInv, Accounts
  <2>2. Having(x)' = Having(x)
    BY <1>3, <1>4, <1>5 DEF Having, One
  <2>3. Loads(x)' = Loads(x) /\ Coming(x)' = Coming(x) /\ TasksOf(x)' = TasksOf(x) /\ Queue(x)' = Queue(x)
    BY <1>4, <1>5 DEF Loads, Coming, TasksOf, Queue, One
  <2> QED
    BY <2>1, <2>2, <2>3, <1>5 DEF CountOk, LoadOk, QueueOk, One
<1>7. Accounts'
  BY <1>3, <1>6 DEF Accounts
<1>8. Unknown'
  BY <1>3, <1>4, <1>5 DEF CacheInv, Unknown
<1>9. Doom'
  BY DEF CacheInv, Doom
<1>10. Counters'
  <2>1. /\ StepsIn({TaskDoneOnLane})' = StepsIn({TaskDoneOnLane}) /\ StepsIn(Named(TaskSteps))' = StepsIn(Named(TaskSteps))
        /\ StepsIn(Named({"bytesRead", "readOver", "readDone"}))' = StepsIn(Named({"bytesRead", "readOver", "readDone"}))
    BY <1>3
  <2> QED
    BY <2>1, <1>4 DEF CacheInv, Counters
<1>11. Dispatching'
  <2>1. StepsIn(For({"dispatch"}, None))' = StepsIn(For({"dispatch"}, None))
    BY <1>3
  <2>2. Full' = Full /\ \A t \in Threads : (Dispatches(t)' <=> Dispatches(t)) /\ Arg(t)' = Arg(t)
    BY <1>4 DEF Full, Dispatches, Arg
  <2>3. \A t \in Threads : (At(t, "start")' <=> At(t, "start")) /\ (At(t, "handled")' <=> At(t, "handled"))
    BY DEF At
  <2> QED
    BY <2>1, <2>2, <2>3 DEF CacheInv, Dispatching
<1>12. Ending'
  BY DEF CacheInv, Ending
<1> QED
  BY <1>1, <1>2, <1>7, <1>8, <1>9, <1>10, <1>11, <1>12 DEF CacheInv

LEMMA CacheStarts ==
  ASSUME Init
  PROVE  CacheInv
<1> USE DEF Init
<1>1. CacheAssumption
  BY CacheAssumption
<1>2. /\ todo \in [Threads -> Seq(AllSteps)] /\ \A t \in Threads : todo[t] = <<>> /\ Len(todo[t]) = 0 /\ DOMAIN todo[t] = {}
      /\ incoming = <<>> /\ queued = <<>> /\ laneQueue = <<>> /\ replaced = <<>>
  OBVIOUS
<1>3. \A G : StepsIn(G) = 0
  <2>1. \A t \in Threads : \A G : \A i \in 1 .. Len(todo[t]) : todo[t][i] \notin G
    BY <1>2
  <2> QED
    BY <1>2, <2>1, Someone
<1>4. Live = {} /\ \A x \in Entries : entry[x].life = "none" /\ entry[x] = NoEntry
  BY DEF Live, NoEntry
<1>5. Waiting = <<>> /\ Len(Waiting) = 0
  BY <1>2 DEF Waiting
<1>6. Typed
  <2>1. NoEntry \in [life : {"none", "live", "freed"}, key : Keys \cup {None}, count : Nat,
                     queued : BOOLEAN, parked : BOOLEAN, claimed : BOOLEAN,
                     state : {"Loading", "Ready", "Failed"}, reading : BOOLEAN, pending : BOOLEAN]
    BY DEF NoEntry
  <2>2. TypeOK
    BY <2>1 DEF TypeOK
  <2> QED
    BY <1>2, <2>2 DEF Typed
<1>7. Numbered
  <2>1. {e \in Entries : entry[e].life # "none"} = 1 .. 0
    BY <1>4
  <2>2. 0 \in 0 .. MaxEntries
    BY <1>1 DEF CacheAssumption
  <2> QED
    BY <2>1, <2>2 DEF Numbered
<1>8. Shape
  <2>1. ASSUME NEW t \in Threads
        PROVE  /\ Backed(todo[t], Mine(t)) /\ ReloadWaits(todo[t]) /\ UnparkClaims(todo[t])
               /\ FirstAndLast(todo[t]) /\ ForceEnds(todo[t]) /\ LaneLike(todo[t]) /\ ~At(t, "reload")
    BY <1>2 DEF Backed, ReloadWaits, UnparkClaims, FirstAndLast, ForceEnds, LaneLike, At
  <2>2. Inside("forceLoad") = {}
    BY <1>2 DEF Inside, Steps, Threads
  <2> QED
    BY <2>1, <2>2 DEF Shape, Threads
<1>9. Accounts
  BY <1>4 DEF Accounts
<1>10. Unknown
  <2>1. \A x : Count(<<>>, {x}) = 0
    <3> TAKE x
    <3>1. <<>> \in Seq(Entries) /\ \A i \in 1 .. Len(<<>>) : <<>>[i] \notin {x}
      OBVIOUS
    <3> QED
      BY <3>1, CountType
  <2>2. \A x \in Entries : Holders(x) = {}
    BY DEF Holders
  <2> QED
    BY <1>2, <1>3, <1>4, <1>5, <2>1, <2>2 DEF Unknown
<1>11. Doom
  BY <1>2 DEF Doom
<1>12. Counters
  <2>1. Cardinality(disk) = 0
    BY FS_EmptySet
  <2>2. Len(laneQueue) = 0 /\ MaxLoads \in Nat
    BY <1>1 DEF CacheAssumption
  <2> QED
    BY <1>3, <1>5, <2>1, <2>2 DEF Counters
<1>13. Dispatching
  BY <1>2 DEF Dispatching, Dispatches, At, Full
<1>14. Ending
  BY <1>2 DEF Ending
<1> QED
  BY <1>6, <1>7, <1>8, <1>9, <1>10, <1>11, <1>12, <1>13, <1>14 DEF CacheInv

LEMMA NextKeeps ==
  ASSUME CacheInv, [Next]_vars
  PROVE  CacheInv'
<1>1. CASE \E t \in Threads : Step(t)
  BY <1>1, StepKeeps
<1>2. CASE \E u \in Users : User(u)
  BY <1>2, UserKeeps
<1>3. CASE \E t \in LaneThreads : LaneRuns(t) \/ LaneDrops(t)
  BY <1>3, LaneStep
<1>4. CASE Over
  BY <1>4, NothingMoves DEF Over
<1>5. CASE UNCHANGED vars
  BY <1>5, NothingMoves
<1> QED
  BY <1>1, <1>2, <1>3, <1>4, <1>5 DEF Next

\* The invariant of all the cache: who has each entry, with whom its load is,
\* where it waits, what the counters say and what each thread may still do
\* agree, whatever the threads do next to each other (class ResourceCache).
THEOREM CacheStaysRight == Spec => []CacheInv
<1>1. Init => CacheInv
  BY CacheStarts
<1>2. CacheInv /\ [Next]_vars => CacheInv'
  BY NextKeeps
<1> QED
  BY <1>1, <1>2, PTL DEF Spec

\* Only members of their sets are in the fields (class ResourceCache).
THEOREM CacheTypeCorrect == Spec => []TypeOK
<1>1. CacheInv => TypeOK
  BY DEF CacheInv, Typed
<1> QED
  BY <1>1, CacheStaysRight, PTL

-----------------------------------------------------------------------------
(* What follows from the invariant. *)

\* The sums of the properties are those of the invariant.
LEMMA SumsAre ==
  ASSUME Typed, NEW x
  PROVE  /\ \A K : StepsFor(K, x) = StepsIn(For(K, x))
         /\ \A s : Places(s, x) = Count(s, {x})
         /\ Cardinality(disk \cap {x}) = One(x \in disk)
<1>1. ASSUME NEW K
      PROVE  StepsFor(K, x) = StepsIn(For(K, x))
  <2>1. ASSUME NEW t \in Threads
        PROVE  {j \in DOMAIN todo[t] : todo[t][j][1] \in K /\ todo[t][j][2] = x}
               = {j \in DOMAIN todo[t] : todo[t][j] \in For(K, x)}
    <3>1. todo[t] \in Seq(AllSteps)
      BY DEF Typed
    <3>2. \A j \in DOMAIN todo[t] : todo[t][j] \in AllSteps
      BY <3>1
    <3> QED
      BY <3>2 DEF For
  <2> DEFINE A(t) == {<<t, i>> : i \in {j \in DOMAIN todo[t] : todo[t][j][1] \in K /\ todo[t][j][2] = x}}
             B(t) == {<<t, i>> : i \in {j \in DOMAIN todo[t] : todo[t][j] \in For(K, x)}}
  <2>2. \A t \in Threads : A(t) = B(t)
    BY <2>1
  <2>3. StepsFor(K, x) = Cardinality(UNION {A(t) : t \in Threads})
    BY DEF StepsFor
  <2>4. StepsIn(For(K, x)) = Cardinality(UNION {B(t) : t \in Threads})
    BY DEF StepsIn
  <2> HIDE DEF A, B
  <2>5. {A(t) : t \in Threads} = {B(t) : t \in Threads}
    BY <2>2
  <2> QED
    BY <2>3, <2>4, <2>5
<1>2. \A s : Places(s, x) = Count(s, {x})
  BY DEF Places, Count
<1>3. Cardinality(disk \cap {x}) = One(x \in disk)
  <2>1. Cardinality({}) = 0 /\ Cardinality({x}) = 1
    BY FS_EmptySet, FS_Singleton
  <2>2. disk \cap {x} = IF x \in disk THEN {x} ELSE {}
    OBVIOUS
  <2> QED
    BY <2>1, <2>2 DEF One
<1> QED
  BY <1>1, <1>2, <1>3

\* The count of an entry is the number of those who have it (acquire, release).
THEOREM CountsAreRight == Spec => []CountIsRight
<1>1. CacheInv => CountIsRight
  <2> SUFFICES ASSUME CacheInv, NEW e \in Live
               PROVE  entry[e].count = Cardinality({u \in Users : e \in held[u]}) + Places(Waiting, e) + Places(replaced, e)
                                       + StepsFor(Counting, e) + Cardinality(disk \cap {e})
    BY DEF CountIsRight
  <2>1. Typed /\ CountOk(e)
    BY DEF CacheInv, Accounts
  <2>2. entry[e].count = Cardinality({u \in Users : e \in held[u]}) + Count(Waiting, {e}) + Count(replaced, {e})
                         + StepsIn(For(Counting, e)) + One(e \in disk)
    BY <2>1 DEF CountOk, Having, Holders
  <2> QED
    BY <2>1, <2>2, SumsAre
<1> QED
  BY <1>1, CacheStaysRight, PTL

\* The load of a resource is with exactly one, or comes, so that it is done
\* once and never lost (claim, claimOrPark, acquireFound, startParked, bytesRead).
THEOREM LoadsOnce == Spec => []LoadedOnce
<1>1. CacheInv => LoadedOnce
  <2> SUFFICES ASSUME CacheInv, NEW e \in Live
               PROVE  LET holders == StepsFor({"load", "parkOrLoad", "startParked", "unpark",
                                               "startRead", "bytesRead", "readOver"}, e)
                                     + Cardinality({x \in {"parked"} : entry[e].parked}) + Cardinality(disk \cap {e})
                          toCome == Places(Waiting, e)
                                    + StepsFor({"startTask", "push", "claimOrPark", "claimFail", "claimFree", "wait"}, e)
                      IN /\ holders = IF entry[e].state = "Loading" /\ entry[e].claimed THEN 1 ELSE 0
                         /\ ~entry[e].claimed => entry[e].pending /\ toCome # 0
    BY DEF LoadedOnce
  <2>1. Typed /\ LoadOk(e)
    BY DEF CacheInv, Accounts
  <2>2. /\ StepsFor({"load", "parkOrLoad", "startParked", "unpark", "startRead", "bytesRead", "readOver"}, e)
           = StepsIn(For(Loaders, e))
        /\ StepsFor({"startTask", "push", "claimOrPark", "claimFail", "claimFree", "wait"}, e) = StepsIn(For(Comers, e))
    BY <2>1, SumsAre DEF Loaders, Comers
  <2>3. Cardinality({x \in {"parked"} : entry[e].parked}) = One(entry[e].parked)
    <3>1. Cardinality({}) = 0 /\ Cardinality({"parked"}) = 1
      BY FS_EmptySet, FS_Singleton
    <3>2. {x \in {"parked"} : entry[e].parked} = IF entry[e].parked THEN {"parked"} ELSE {}
      OBVIOUS
    <3> QED
      BY <3>1, <3>2 DEF One
  <2>4. Cardinality(disk \cap {e}) = One(e \in disk) /\ Places(Waiting, e) = Count(Waiting, {e})
    BY <2>1, SumsAre
  <2>5. /\ StepsIn(For(Loaders, e)) + One(entry[e].parked) + One(e \in disk)
           = IF entry[e].state = "Loading" /\ entry[e].claimed THEN 1 ELSE 0
        /\ ~entry[e].claimed => entry[e].pending /\ Count(Waiting, {e}) + StepsIn(For(Comers, e)) # 0
    BY <2>1 DEF LoadOk, Loads, Coming, One
  <2> QED
    BY <2>2, <2>3, <2>4, <2>5
<1> QED
  BY <1>1, CacheStaysRight, PTL

\* When the destructor comes to free the entries, no task, no read and no other
\* thread is under way, and each load is over or parked (~ResourceCache).
THEOREM NothingOutlives == Spec => []NothingOutlivesTheCache
<1>1. CacheInv => NothingOutlivesTheCache
  <2> SUFFICES ASSUME CacheInv, NEW t \in Threads, At(t, "destroyAll")
               PROVE  /\ tasks = 0 /\ reads = 0 /\ Waiting = <<>> /\ disk = {}
                      /\ \A e \in Live : entry[e].count = 0 /\ (entry[e].state # "Loading" \/ entry[e].parked)
                      /\ \A u \in Threads \ {t} : todo[u] = <<>>
    BY DEF NothingOutlivesTheCache
  <2> QED
    BY NothingLeft, NobodyHas
<1> QED
  BY <1>1, CacheStaysRight, PTL

\* Of steps a thread has one of at most, there are as many as threads with one.
LEMMA OneEach ==
  ASSUME Typed, NEW G,
         \A t \in Threads : \A i, j \in DOMAIN todo[t] : todo[t][i] \in G /\ todo[t][j] \in G => i = j
  PROVE  StepsIn(G) = Cardinality({t \in Threads : \E i \in DOMAIN todo[t] : todo[t][i] \in G})
<1> DEFINE T == {t \in Threads : \E i \in DOMAIN todo[t] : todo[t][i] \in G}
           W == UNION {{<<t, i>> : i \in {j \in DOMAIN todo[t] : todo[t][j] \in G}} : t \in Threads}
           f == [t \in T |-> <<t, CHOOSE i \in DOMAIN todo[t] : todo[t][i] \in G>>]
<1>1. \A w : w \in W <=> \E t \in Threads : \E i \in DOMAIN todo[t] : todo[t][i] \in G /\ w = <<t, i>>
  OBVIOUS
<1>2. ASSUME NEW t \in T
      PROVE  \E i \in DOMAIN todo[t] : todo[t][i] \in G /\ f[t] = <<t, i>>
  OBVIOUS
<1>3. ASSUME NEW t \in T
      PROVE  f[t] \in W
  BY <1>1, <1>2
<1>4. ASSUME NEW w \in W
      PROVE  \E t \in T : f[t] = w
  <2>0. PICK t \in Threads : \E i \in DOMAIN todo[t] : todo[t][i] \in G /\ w = <<t, i>>
    BY <1>1
  <2>1. PICK i \in DOMAIN todo[t] : todo[t][i] \in G /\ w = <<t, i>>
    BY <2>0
  <2>2. t \in T
    BY <2>1
  <2>3. PICK j \in DOMAIN todo[t] : todo[t][j] \in G /\ f[t] = <<t, j>>
    BY <1>2, <2>2
  <2>4. i = j
    BY <2>1, <2>3
  <2> QED
    BY <2>1, <2>2, <2>3, <2>4
<1>5. ASSUME NEW t \in T, NEW u \in T, f[t] = f[u]
      PROVE  t = u
  BY <1>5
<1>6. IsFiniteSet(T)
  BY ThreadsFinite, FS_Subset
<1> HIDE DEF W, T
<1>7. f \in [T -> W]
  BY <1>3
<1>8. \A t, u \in T : f[t] = f[u] => t = u
  BY <1>5
<1>9. \A w \in W : \E t \in T : f[t] = w
  BY <1>4
<1> HIDE DEF f
<1>10. f \in Bijection(T, W)
  <2>1. f \in Injection(T, W)
    BY <1>7, <1>8 DEF Injection, IsInjective
  <2>2. f \in Surjection(T, W)
    BY <1>7, <1>9 DEF Surjection
  <2> QED
    BY <2>1, <2>2 DEF Bijection
<1>11. Cardinality(T) = Cardinality(W)
  BY <1>6, <1>10, FS_Bijection DEF ExistsBijection
<1> QED
  BY <1>11 DEF StepsIn, W, T

\* Each load waits in one place only, no more than the limit are on the lane and
\* none of its places stays empty (dispatch, taskDone).
THEOREM PlacesAreUsed == Spec => []NoPlaceIsWasted
<1>1. CacheInv => NoPlaceIsWasted
  <2> SUFFICES ASSUME CacheInv
               PROVE  NoPlaceIsWasted
    OBVIOUS
  <2>1. Typed /\ Counters /\ Dispatching
    BY DEF CacheInv
  <2>2. ASSUME NEW e \in Entries
        PROVE  Places(Waiting, e) <= 1
    <3>1. Places(Waiting, e) = Count(Waiting, {e}) /\ Count(Waiting, {e}) \in Nat
      BY <2>1, SumsAre, Amounts
    <3>2. CASE e \in Live
      <4>1. /\ StepsIn(For(Tasking, e)) + Count(Waiting, {e}) + One(e \in disk) + One(entry[e].parked) <= 1
            /\ StepsIn(For(Tasking, e)) \in Nat /\ One(e \in disk) \in Nat /\ One(entry[e].parked) \in Nat
        BY <2>1, <3>2, Amounts DEF CacheInv, Accounts, LoadOk, TasksOf, One
      <4> QED
        BY <3>1, <4>1
    <3>3. CASE e \notin Live
      BY <3>1, <3>3 DEF CacheInv, Unknown
    <3> QED
      BY <3>2, <3>3
  <2>3. StepsIn({TaskDoneOnLane})
        = Cardinality({t \in Threads : \E i \in DOMAIN todo[t] : todo[t][i] = <<"taskDone", TRUE>>})
    <3>1. ASSUME NEW t \in Threads, NEW i \in DOMAIN todo[t], NEW j \in DOMAIN todo[t],
                 todo[t][i] \in {TaskDoneOnLane}, todo[t][j] \in {TaskDoneOnLane}
          PROVE  i = j
      <4>1. todo[t] \in Seq(AllSteps) /\ FirstAndLast(todo[t])
        BY <2>1 DEF Typed, CacheInv, Shape
      <4>2. i \in 1 .. Len(todo[t]) /\ j \in 1 .. Len(todo[t])
        BY <4>1
      <4> QED
        BY <3>1, <4>1, <4>2 DEF FirstAndLast
    <3>2. StepsIn({TaskDoneOnLane})
          = Cardinality({t \in Threads : \E i \in DOMAIN todo[t] : todo[t][i] \in {TaskDoneOnLane}})
      BY <2>1, <3>1, OneEach
    <3> QED
      BY <3>2 DEF TaskDoneOnLane
  <2>4. StepsFor({"dispatch"}, None) = StepsIn(For({"dispatch"}, None))
    BY <2>1, SumsAre
  <2>5. running = Len(laneQueue) + StepsIn({TaskDoneOnLane}) /\ (MaxLoads # 0 => running <= MaxLoads)
    BY <2>1 DEF Counters
  <2>6. requests = 0 /\ StepsIn(For({"dispatch"}, None)) = 0 => incoming = <<>> /\ (queued = <<>> \/ running >= loadLimit)
    BY <2>1 DEF Dispatching, Full
  <2> QED
    BY <2>2, <2>3, <2>4, <2>5, <2>6 DEF NoPlaceIsWasted
<1> QED
  BY <1>1, CacheStaysRight, PTL

InHands == UNION {held[u] : u \in Users}
InLists == {Waiting[i] : i \in DOMAIN Waiting}
InSteps == {e \in Entries : \E t \in Threads : \E i \in DOMAIN todo[t] :
              \/ todo[t][i][1] \notin {"lookup", "bindPublished", "taskDone", "dispatchOnce", "start", "handled",
                                       "sort", "lockAll", "destroy", "takeUnused", "end"} /\ todo[t][i][2] = e
              \/ todo[t][i][1] \in {"sort", "lockAll", "destroy"} /\ e \in todo[t][i][2]}

LEMMA TouchedAre == Touched = published \cup fresh \cup unused \cup disk \cup InHands \cup InLists \cup InSteps
BY DEF Touched, InHands, InLists, InSteps

\* Nothing that goes or went can be reached any more, and what nobody has is in
\* the one place where collect finds it (destroy, release, unusedNow).
THEOREM OnlyUnusedGoes == Spec => []OnlyTheUnusedGoes
<1>1. CacheInv => OnlyTheUnusedGoes
  <2> SUFFICES ASSUME CacheInv
               PROVE  OnlyTheUnusedGoes
    OBVIOUS
  <2>1. Typed /\ Unknown /\ todo \in [Threads -> Seq(AllSteps)]
    BY DEF CacheInv, Typed
  <2>2. ASSUME NEW t \in Threads, NEW i \in DOMAIN todo[t]
        PROVE  i \in 1 .. Len(todo[t]) /\ todo[t][i] \in AllSteps
    BY <2>1
  <2>3. ASSUME NEW e \in Entries, e \notin Live
        PROVE  e \notin Touched
    <3>1. /\ e \notin published \cup fresh \cup unused \cup disk /\ Holders(e) = {}
          /\ Count(Waiting, {e}) = 0 /\ StepsIn(Naming(e)) = 0
      BY <2>1, <2>3 DEF Unknown
    <3>2. e \notin UNION {held[u] : u \in Users}
      BY <3>1 DEF Holders
    <3>3. e \notin {Waiting[i] : i \in DOMAIN Waiting}
      <4>1. Waiting \in Seq(Entries)
        BY <2>1, Amounts
      <4>2. \A i \in 1 .. Len(Waiting) : Waiting[i] \notin {e}
        BY <3>1, <4>1, CountType
      <4> QED
        BY <4>1, <4>2
    <3>4. ASSUME NEW t \in Threads, NEW i \in DOMAIN todo[t]
          PROVE  /\ ~(/\ todo[t][i][1] \notin {"lookup", "bindPublished", "taskDone", "dispatchOnce", "start", "handled",
                                               "sort", "lockAll", "destroy", "takeUnused", "end"}
                      /\ todo[t][i][2] = e)
                 /\ ~(todo[t][i][1] \in {"sort", "lockAll", "destroy"} /\ e \in todo[t][i][2])
      <4>1. PICK a : a = todo[t][i]
        OBVIOUS
      <4>2. a \in AllSteps /\ a \notin Naming(e)
        BY <2>1, <2>2, <3>1, <3>4, <4>1, Someone
      <4>3. ~(a[1] \in Counting \cup Passing \cup {"enqueue"} /\ a[2] = e) /\ ~Takes(a, e)
        BY <4>2 DEF Naming
      <4>4. a[1] \in Counting \cup Passing \cup {"enqueue"} \cup {"lookup", "bindPublished", "taskDone", "takeUnused", "end"}
                     \cup ForNobody \cup Dispatcher \cup ForSets
        BY <4>2 DEF AllSteps, Counting, Passing, Waits, ForNobody, Dispatcher, ForSets
      <4>5. a[1] \in ForNobody => a[2] # e
        <5>1. None \notin Entries
          BY CacheAssumption
        <5>2. a[1] \in ForNobody => a[2] = None
          BY <4>2, StepTypes
        <5> QED
          BY <5>1, <5>2
      <4> QED
        BY <4>1, <4>3, <4>4, <4>5 DEF Takes, Dispatcher, ForSets
    <3>5. e \notin {x \in Entries : \E t \in Threads : \E i \in DOMAIN todo[t] :
                      \/ todo[t][i][1] \notin {"lookup", "bindPublished", "taskDone", "dispatchOnce", "start", "handled",
                                               "sort", "lockAll", "destroy", "takeUnused", "end"} /\ todo[t][i][2] = x
                      \/ todo[t][i][1] \in {"sort", "lockAll", "destroy"} /\ x \in todo[t][i][2]}
      BY <3>4, Zenon
    <3>6. e \notin published /\ e \notin fresh /\ e \notin unused /\ e \notin disk
      BY <3>1
    <3>7. e \notin InHands /\ e \notin InLists /\ e \notin InSteps
      BY <3>2, <3>3, <3>5 DEF InHands, InLists, InSteps
    <3> QED
      BY <3>6, <3>7, TouchedAre
  <2>4. \A e \in Entries : entry[e].life = "freed" => ~entry[e].pending
    BY <2>1 DEF Unknown, Live
  <2>5. ASSUME NEW e \in Live, ~gone
        PROVE  LET places == Cardinality(unused \cap {e}) + StepsFor({"enqueue"}, e)
                             + Cardinality({t \in Threads : \E s \in Steps(t) :
                                 \/ s[1] \in {"lockAll", "sort", "destroy"} /\ e \in s[2]
                                 \/ s[1] = "sort" /\ e \in s[3]})
               IN /\ entry[e].queued => places = 1
                  /\ ~entry[e].queued => places = 0 /\ entry[e].count # 0
    <3> DEFINE G == {a \in AllSteps : Takes(a, e)}
               T == {t \in Threads : \E s \in Steps(t) :
                                 \/ s[1] \in {"lockAll", "sort", "destroy"} /\ e \in s[2]
                                 \/ s[1] = "sort" /\ e \in s[3]}
    <3>1. e \in Entries /\ Queue(e) = One(entry[e].queued) /\ (~entry[e].queued => entry[e].count # 0)
      BY <2>5 DEF CacheInv, Accounts, QueueOk, Live
    <3>2. T = {t \in Threads : \E i \in DOMAIN todo[t] : todo[t][i] \in G}
      <4>1. ASSUME NEW t \in Threads
            PROVE  t \in T <=> \E i \in DOMAIN todo[t] : todo[t][i] \in G
        BY <2>2, <4>1 DEF Steps, Takes, ForSets
      <4> QED
        BY <4>1
    <3>3. StepsIn(G) = Cardinality(T)
      <4>1. ASSUME NEW t \in Threads, NEW i \in DOMAIN todo[t], NEW j \in DOMAIN todo[t], todo[t][i] \in G, todo[t][j] \in G
            PROVE  i = j
        <5>1. FirstAndLast(todo[t])
          BY DEF CacheInv, Shape
        <5>2. todo[t][i][1] \in Firsts /\ todo[t][j][1] \in Firsts
          BY <4>1 DEF Takes, Firsts
        <5> QED
          BY <2>2, <5>1, <5>2 DEF FirstAndLast
      <4> QED
        BY <2>1, <3>2, <4>1, OneEach
    <3>4. StepsIn(Unusing(e)) = StepsIn(For({"enqueue"}, e)) + StepsIn(G)
      <4>1. Unusing(e) = For({"enqueue"}, e) \cup G
        BY DEF Unusing, For
      <4>2. For({"enqueue"}, e) \cap G = {}
        BY DEF For, Takes, ForSets
      <4> QED
        BY <2>1, <4>1, <4>2, StepsTwo
    <3>5. StepsFor({"enqueue"}, e) = StepsIn(For({"enqueue"}, e)) /\ Cardinality(unused \cap {e}) = One(e \in unused)
      <4>1. Cardinality({}) = 0 /\ Cardinality({e}) = 1
        BY FS_EmptySet, FS_Singleton
      <4>2. unused \cap {e} = IF e \in unused THEN {e} ELSE {}
        OBVIOUS
      <4> QED
        BY <2>1, <4>1, <4>2, SumsAre DEF One
    <3>6. /\ StepsIn(For({"enqueue"}, e)) \in Nat /\ StepsIn(G) \in Nat /\ One(e \in unused) \in Nat
          /\ entry[e].queued \in BOOLEAN
      BY <2>1, <3>1, Amounts DEF One
    <3>7. Cardinality(unused \cap {e}) + StepsFor({"enqueue"}, e) + Cardinality(T) = One(entry[e].queued)
      BY <3>1, <3>3, <3>4, <3>5, <3>6 DEF Queue
    <3> HIDE DEF T
    <3>8. /\ entry[e].queued => Cardinality(unused \cap {e}) + StepsFor({"enqueue"}, e) + Cardinality(T) = 1
          /\ ~entry[e].queued => Cardinality(unused \cap {e}) + StepsFor({"enqueue"}, e) + Cardinality(T) = 0
      BY <3>7 DEF One
    <3> QED
      BY <3>1, <3>8 DEF T
  <2>6. Touched \cap {e \in Entries : entry[e].life # "live"} = {}
    BY <2>3 DEF Live
  <2> QED
    BY <2>4, <2>5, <2>6 DEF OnlyTheUnusedGoes
<1> QED
  BY <1>1, CacheStaysRight, PTL

=============================================================================
