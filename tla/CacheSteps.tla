----------------------------- MODULE CacheSteps ------------------------------
(***************************************************************************)
(* The inductive invariant of the resource cache, for every number of      *)
(* users, lane threads, keys and entries, the lemmas about counts of steps *)
(* and lists it needs, and the actions that change one entry only.  The    *)
(* other actions and the theorems are in CacheProofs.                      *)
(***************************************************************************)
EXTENDS ResourceCache, FiniteSetTheorems, SequenceTheorems, TLAPS

Ops == {"bind", "find", "load", "forceLoad"}

\* The steps that use an entry and have no count of it: the count is with a
\* later step of the thread, or with a handle of its user.
Waits == {"wait", "waitState", "waitReading", "asleep"}
Passing == Waits \cup {"load", "unpark", "startParked", "claimFail", "claimOrPark", "parkOrLoad", "readingOver"}

ForNobody == {"dispatch", "taskGone", "readDone", "poll", "freeReplaced", "publish",
              "lastReads", "lastTasks", "destroyAll", "join", "drain"}
Dispatcher == {"dispatchOnce", "start", "handled"}
ForSets == {"lockAll", "sort", "destroy"}

AllSteps ==
  (((Counting \ {"takeParked"}) \cup Passing \cup {"enqueue"}) \X Entries)
  \cup ({"takeParked"} \X Entries \X Ops)
  \cup ({"lookup"} \X Keys \X Ops) \cup ({"bindPublished"} \X Keys \X {"bind", "find"})
  \cup (ForNobody \X {None}) \cup (Dispatcher \X Nat) \cup ({"taskDone"} \X BOOLEAN)
  \cup ({"takeUnused"} \X Owners)
  \cup ({"lockAll", "destroy"} \X (SUBSET Entries)) \cup ({"sort"} \X (SUBSET Entries) \X (SUBSET Entries))
  \cup ({"end"} \X (Exclusive \cup {"find"}))

\* How many members of a set G there are in a sequence, and how many steps of
\* G the threads have to do.
Count(s, G) == Cardinality({i \in DOMAIN s : s[i] \in G})
StepsIn(G) == Cardinality(UNION {{<<t, i>> : i \in {j \in DOMAIN todo[t] : todo[t][j] \in G}} : t \in Threads})

For(kinds, x) == {a \in AllSteps : a[1] \in kinds /\ a[2] = x}
Named(kinds) == {a \in AllSteps : a[1] \in kinds}

\* The steps that hold an entry as unused: it is under way to its owner's
\* list, or taken off it.
Takes(a, x) == a[1] \in ForSets /\ (x \in a[2] \/ (a[1] = "sort" /\ x \in a[3]))
Unusing(x) == {a \in AllSteps : (a[1] = "enqueue" /\ a[2] = x) \/ Takes(a, x)}
Dooms(a, x) == (a[1] = "destroy" /\ x \in a[2]) \/ (a[1] = "sort" /\ x \in a[3])

\* All that name an entry.
Naming(x) == {a \in AllSteps : (a[1] \in Counting \cup Passing \cup {"enqueue"} /\ a[2] = x) \/ Takes(a, x)}

One(b) == IF b THEN 1 ELSE 0
Mine(t) == IF t \in Users THEN held[t] ELSE {}
Holders(x) == {u \in Users : x \in held[u]}

-----------------------------------------------------------------------------
(* The invariant. *)

Typed ==
  /\ TypeOK
  /\ todo \in [Threads -> Seq(AllSteps)]
  /\ calls \in Nat /\ gone \in BOOLEAN

Numbered == \E n \in 0 .. MaxEntries : {e \in Entries : entry[e].life # "none"} = 1 .. n

\* The steps of a thread, mine the entries it has handles of.  Who has the
\* entry when it is used:
Backed(s, mine) ==
  \A i \in 1 .. Len(s) : s[i][1] \in Passing =>
    \/ s[i][2] \in mine
    \/ \E j \in 1 .. Len(s) : j > i /\ s[j][1] \in Counting /\ s[j][2] = s[i][2]

\* reload comes behind wait, and unpark before the next one to claim.
ReloadWaits(s) ==
  \A i \in 1 .. Len(s) : s[i][1] = "reload" /\ i > 1 => s[i - 1][1] \in Waits /\ s[i - 1][2] = s[i][2]

UnparkClaims(s) ==
  \A i \in 1 .. Len(s) : s[i][1] = "unpark" =>
    i < Len(s) /\ s[i + 1][1] \in {"wait", "claimFree"} /\ s[i + 1][2] = s[i][2]

\* Steps that come first only, or last only; a thread ends one task at most.
Firsts == {"dispatch"} \cup Dispatcher \cup ForSets
Lasts == {"join", "drain", "lastReads", "lastTasks", "destroyAll", "end"}
TaskDoneOnLane == <<"taskDone", TRUE>>

FirstAndLast(s) ==
  /\ \A i \in 1 .. Len(s) : (s[i][1] \in Firsts => i = 1) /\ (s[i][1] \in Lasts => i = Len(s))
  /\ \A i, j \in 1 .. Len(s) : s[i] = TaskDoneOnLane /\ s[j] = TaskDoneOnLane => i = j

\* forceLoad says so at its end.
EndOfForce == <<"end", "forceLoad">>
Forces(a) == a[1] \in {"claimFree", "reload"} \/ (a[1] \in {"lookup", "takeParked"} /\ a[3] = "forceLoad")
ForceEnds(s) == \A i \in 1 .. Len(s) : Forces(s[i]) => s[Len(s)] = EndOfForce

\* What lane threads do, and that they end with the end of a task.
LaneSteps == {"release", "enqueue", "load", "claimFail", "claimOrPark", "parkOrLoad", "dispatch", "taskDone", "taskGone"}
             \cup Dispatcher
TaskEnds == {"taskDone", "taskGone"}
LaneLike(s) ==
  /\ \A i \in 1 .. Len(s) : s[i][1] \in LaneSteps
  /\ s # <<>> => s[Len(s)][1] \in TaskEnds

Shape ==
  /\ \A t \in Threads : /\ Backed(todo[t], Mine(t))
                        /\ ReloadWaits(todo[t]) /\ UnparkClaims(todo[t]) /\ FirstAndLast(todo[t]) /\ ForceEnds(todo[t])
                        /\ At(t, "reload") => Me(t).state # "Loading"
  /\ \A t \in LaneThreads : LaneLike(todo[t])
  /\ \A u, v \in Inside("forceLoad") : u = v

\* Who has the entry; with whom its load is; where it will be loaded.
Having(x) ==
  Cardinality(Holders(x)) + Count(Waiting, {x}) + Count(replaced, {x}) + StepsIn(For(Counting, x)) + One(x \in disk)
Loaders == {"load", "parkOrLoad", "startParked", "unpark", "startRead", "bytesRead", "readOver"}
Loads(x) == StepsIn(For(Loaders, x)) + One(entry[x].parked) + One(x \in disk)
Comers == {"startTask", "push", "claimOrPark", "claimFail", "claimFree", "wait"}
Coming(x) == Count(Waiting, {x}) + StepsIn(For(Comers, x))
Tasking == {"startTask", "push", "claimOrPark", "claimFail", "startRead", "bytesRead", "readOver", "parkOrLoad", "startParked"}
TasksOf(x) == StepsIn(For(Tasking, x)) + Count(Waiting, {x}) + One(x \in disk) + One(entry[x].parked)

CountOk(x) == entry[x].count = Having(x)

LoadOk(x) ==
  /\ Loads(x) = One(entry[x].state = "Loading" /\ entry[x].claimed)
  /\ ~entry[x].claimed => entry[x].pending /\ entry[x].state = "Loading" /\ Coming(x) # 0
  /\ TasksOf(x) <= 1
  /\ entry[x].parked \/ StepsIn(For({"unpark", "startParked"}, x)) # 0 => entry[x].pending
  /\ entry[x].pending => ~entry[x].claimed \/ entry[x].parked
                         \/ StepsIn(For({"parkOrLoad", "unpark", "startParked"}, x)) # 0

\* An entry that nobody has is in one place from which it goes.
Queue(x) == StepsIn(Unusing(x)) + One(x \in unused)
QueueOk(x) == ~gone => Queue(x) = One(entry[x].queued) /\ (~entry[x].queued => entry[x].count # 0)

Accounts == \A x \in Live : CountOk(x) /\ LoadOk(x) /\ QueueOk(x)

\* Nobody has an entry that is not there.
Unknown ==
  \A x \in Entries \ Live :
    /\ x \notin published \cup fresh \cup unused \cup disk
    /\ Holders(x) = {}
    /\ Count(Waiting, {x}) = 0 /\ Count(replaced, {x}) = 0 /\ StepsIn(Naming(x)) = 0
    /\ entry[x].life = "freed" => ~entry[x].pending

Doom ==
  \A t \in Threads : \A i \in DOMAIN todo[t] : \A x \in Entries :
    Dooms(todo[t][i], x) => entry[x].count = 0 /\ x \notin published \cup fresh

\* The counters.
TaskSteps == {"push", "taskDone", "taskGone", "bytesRead", "readOver", "readDone"}
Counters ==
  /\ running = Len(laneQueue) + StepsIn({TaskDoneOnLane})
  /\ tasks = Len(Waiting) + StepsIn(Named(TaskSteps)) + Cardinality(disk)
  /\ reads = StepsIn(Named({"bytesRead", "readOver", "readDone"})) + Cardinality(disk)
  /\ MaxLoads # 0 => running <= MaxLoads

\* dispatch.
Dispatches(t) == todo[t] # <<>> /\ todo[t][1][1] \in Dispatcher
Full == queued = <<>> \/ running >= loadLimit
Dispatching ==
  /\ \A s, t \in Threads : Dispatches(s) /\ Dispatches(t) => s = t
  /\ requests # 0 => \E t \in Threads : Dispatches(t)
  /\ \A t \in Threads : Dispatches(t) => todo[t][1][2] \in 1 .. requests
  /\ StepsIn(For({"dispatch"}, None)) = 0 =>
       /\ requests = 0 => incoming = <<>> /\ Full
       /\ \A t \in Threads : /\ At(t, "start") /\ Arg(t) = requests => incoming = <<>>
                             /\ At(t, "handled") /\ Arg(t) = requests => incoming = <<>> /\ Full

\* The destructor.
LateSteps == LaneSteps \cup {"startTask", "push", "bytesRead", "readOver", "readingOver", "readDone",
                             "lastReads", "lastTasks", "destroyAll", "destroy"}
Ending ==
  /\ gone => /\ \A u \in Users : held[u] = {}
             /\ \A u, v \in Users : todo[u] # <<>> /\ todo[v] # <<>> => u = v
             /\ \A t \in Threads : \A i \in DOMAIN todo[t] : todo[t][i][1] \in LateSteps
  /\ \A t \in Threads : \A i \in DOMAIN todo[t] :
       /\ todo[t][i][1] \in {"lastReads", "lastTasks", "destroyAll"} => gone /\ t \in Users
       /\ todo[t][i][1] = "destroyAll" =>
            /\ tasks = 0 /\ replaced = <<>>
            /\ \A j \in DOMAIN todo[t] : todo[t][j][1] \in {"release", "enqueue", "destroyAll"}
            /\ \A u \in Threads \ {t} : todo[u] = <<>>
       /\ gone /\ todo[t][i][1] = "destroy" =>
            /\ tasks = 0 /\ replaced = <<>>
            /\ Len(todo[t]) = 1 /\ \A u \in Threads \ {t} : todo[u] = <<>>
            /\ published \cup fresh \cup unused = {}

CacheInv ==
  /\ Typed /\ Numbered /\ Shape
  /\ Accounts /\ Unknown /\ Doom
  /\ Counters /\ Dispatching /\ Ending

-----------------------------------------------------------------------------
(* Counting in sequences. *)

LEMMA CountType ==
  ASSUME NEW S, NEW s \in Seq(S), NEW G
  PROVE  /\ Count(s, G) \in Nat
         /\ Count(s, G) = 0 <=> \A i \in 1 .. Len(s) : s[i] \notin G
         /\ IsFiniteSet({i \in DOMAIN s : s[i] \in G})
<1> DEFINE D == {i \in DOMAIN s : s[i] \in G}
<1>1. DOMAIN s = 1 .. Len(s) /\ Len(s) \in Nat
  OBVIOUS
<1>2. IsFiniteSet(1 .. Len(s))
  BY <1>1, FS_Interval
<1>3. IsFiniteSet(D) /\ Cardinality(D) \in Nat
  BY <1>1, <1>2, FS_Subset, FS_CardinalityType
<1>4. Cardinality(D) = 0 <=> D = {}
  BY <1>3, FS_EmptySet
<1> QED
  BY <1>1, <1>3, <1>4 DEF Count

LEMMA CountConcat ==
  ASSUME NEW S, NEW s \in Seq(S), NEW r \in Seq(S), NEW G
  PROVE  Count(s \o r, G) = Count(s, G) + Count(r, G)
<1> DEFINE n == Len(s)
           D == {i \in DOMAIN s : s[i] \in G}
           E == {i \in DOMAIN r : r[i] \in G}
           F == {i \in DOMAIN (s \o r) : (s \o r)[i] \in G}
           H == F \ D
           f == [i \in E |-> n + i]
<1>1. /\ DOMAIN s = 1 .. n /\ n \in Nat /\ DOMAIN r = 1 .. Len(r) /\ Len(r) \in Nat
      /\ s \o r \in Seq(S) /\ DOMAIN (s \o r) = 1 .. n + Len(r)
      /\ \A i \in 1 .. n + Len(r) : (s \o r)[i] = IF i <= n THEN s[i] ELSE r[i - n]
  BY ConcatProperties, LenProperties
<1>2. IsFiniteSet(D) /\ IsFiniteSet(E) /\ IsFiniteSet(F)
  BY <1>1, CountType, ZenonT(60)
<1>3. D \subseteq F /\ \A i \in 1 .. n : i \in F <=> i \in D
  BY <1>1
<1>4. H = {i \in n + 1 .. n + Len(r) : r[i - n] \in G}
  BY <1>1, <1>3
<1>5. \A i \in E : f[i] \in H
  BY <1>1, <1>4
<1>6. \A i, j \in E : f[i] = f[j] => i = j
  BY <1>1
<1>7. \A h \in H : \E i \in E : f[i] = h
  <2> TAKE h \in H
  <2>1. h - n \in E /\ n + (h - n) = h
    BY <1>1, <1>4
  <2> QED
    BY <2>1
<1>8. f \in Bijection(E, H)
  <2>1. f \in [E -> H]
    BY <1>5
  <2>2. f \in Injection(E, H)
    BY <2>1, <1>6 DEF Injection, IsInjective
  <2>3. f \in Surjection(E, H)
    BY <2>1, <1>7 DEF Surjection
  <2> QED
    BY <2>2, <2>3 DEF Bijection
<1>9. Cardinality(H) = Cardinality(E)
  BY <1>2, <1>8, FS_Bijection DEF ExistsBijection
<1>10. Cardinality(H) = Cardinality(F) - Cardinality(F \cap D)
  BY <1>2, FS_Difference
<1>11. F \cap D = D
  BY <1>3
<1>12. Cardinality(D) \in Nat /\ Cardinality(E) \in Nat /\ Cardinality(F) \in Nat
  BY <1>2, FS_CardinalityType
<1> HIDE DEF D, E, F, H
<1>14. Cardinality(F \cap D) = Cardinality(D)
  BY <1>11
<1>13. Cardinality(F) = Cardinality(D) + Cardinality(E)
  BY <1>9, <1>10, <1>14, <1>12, Z3
<1> QED
  BY <1>13 DEF Count, D, E, F

LEMMA CountShort ==
  ASSUME NEW G
  PROVE  /\ Count(<<>>, G) = 0
         /\ \A a : Count(<<a>>, G) = One(a \in G)
<1>1. Count(<<>>, G) = 0
  <2>1. {i \in DOMAIN <<>> : <<>>[i] \in G} = {}
    OBVIOUS
  <2> QED
    BY <2>1, FS_EmptySet DEF Count
<1>2. ASSUME NEW a PROVE Count(<<a>>, G) = One(a \in G)
  <2>1. {i \in DOMAIN <<a>> : <<a>>[i] \in G} = IF a \in G THEN {1} ELSE {}
    OBVIOUS
  <2>2. Cardinality({1}) = 1
    BY FS_Singleton
  <2>3. Cardinality({}) = 0
    BY FS_EmptySet
  <2> QED
    BY <2>1, <2>2, <2>3 DEF Count, One
<1> QED
  BY <1>1, <1>2

LEMMA CountFour ==
  ASSUME NEW S, NEW a \in S, NEW b \in S, NEW c \in S, NEW d \in S, NEW G
  PROVE  /\ Count(<<a, b>>, G) = One(a \in G) + One(b \in G)
         /\ Count(<<a, b, c>>, G) = One(a \in G) + One(b \in G) + One(c \in G)
         /\ Count(<<a, b, c, d>>, G) = One(a \in G) + One(b \in G) + One(c \in G) + One(d \in G)
<1>1. /\ <<a>> \in Seq(S) /\ <<b>> \in Seq(S) /\ <<c>> \in Seq(S) /\ <<d>> \in Seq(S)
      /\ <<a, b>> \in Seq(S) /\ <<a, b, c>> \in Seq(S)
  OBVIOUS
<1>2. <<a, b>> = <<a>> \o <<b>>
  <2> DEFINE p == <<a>>
             q == <<b>>
  <2>1. p \in Seq(S) /\ q \in Seq(S) /\ <<a, b>> \in Seq(S)
    OBVIOUS
  <2>2. /\ Len(p \o q) = Len(p) + Len(q) /\ p \o q \in Seq(S)
        /\ \A i \in 1 .. Len(p) + Len(q) : (p \o q)[i] = IF i <= Len(p) THEN p[i] ELSE q[i - Len(p)]
    BY <2>1, ConcatProperties
  <2>3. Len(p) = 1 /\ Len(q) = 1 /\ p[1] = a /\ q[1] = b
    OBVIOUS
  <2> HIDE DEF p, q
  <2>4. Len(p \o q) = 2 /\ (p \o q)[1] = a /\ (p \o q)[2] = b
    BY <2>2, <2>3
  <2>5. \A i \in 1 .. 2 : (p \o q)[i] = <<a, b>>[i]
    <3> TAKE i \in 1 .. 2
    <3>1. i = 1 \/ i = 2
      OBVIOUS
    <3>2. <<a, b>>[1] = a /\ <<a, b>>[2] = b
      OBVIOUS
    <3> QED
      BY <2>4, <3>1, <3>2
  <2>6. p \o q = <<a, b>>
    BY <2>1, <2>2, <2>4, <2>5, SeqEqual
  <2> QED
    BY <2>6 DEF p, q
<1>9. <<a, b, c>> = <<a, b>> \o <<c>>
  OBVIOUS
<1>3. <<a, b, c, d>> = <<a, b, c>> \o <<d>>
  <2> DEFINE p == <<a, b, c>>
             q == <<d>>
  <2>1. p \in Seq(S) /\ q \in Seq(S) /\ <<a, b, c, d>> \in Seq(S)
    OBVIOUS
  <2>2. /\ Len(p \o q) = Len(p) + Len(q) /\ p \o q \in Seq(S)
        /\ \A i \in 1 .. Len(p) + Len(q) : (p \o q)[i] = IF i <= Len(p) THEN p[i] ELSE q[i - Len(p)]
    BY <2>1, ConcatProperties
  <2>3. Len(p) = 3 /\ Len(q) = 1
    OBVIOUS
  <2> HIDE DEF p, q
  <2>4. Len(p \o q) = 4
    BY <2>2, <2>3
  <2>5. (p \o q)[1] = p[1] /\ (p \o q)[2] = p[2] /\ (p \o q)[3] = p[3] /\ (p \o q)[4] = q[1]
    BY <2>2, <2>3
  <2>6. p[1] = a /\ p[2] = b /\ p[3] = c /\ q[1] = d
    BY DEF p, q
  <2>7. \A i \in 1 .. 4 : (p \o q)[i] = <<a, b, c, d>>[i]
    <3> TAKE i \in 1 .. 4
    <3>1. i = 1 \/ i = 2 \/ i = 3 \/ i = 4
      OBVIOUS
    <3>2. /\ <<a, b, c, d>>[1] = a /\ <<a, b, c, d>>[2] = b
          /\ <<a, b, c, d>>[3] = c /\ <<a, b, c, d>>[4] = d
      OBVIOUS
    <3> QED
      BY <2>5, <2>6, <3>1, <3>2
  <2>8. p \o q = <<a, b, c, d>>
    BY <2>1, <2>2, <2>4, <2>7, SeqEqual
  <2> QED
    BY <2>8 DEF p, q
<1>4. \A p, q \in Seq(S) : Count(p \o q, G) = Count(p, G) + Count(q, G)
  BY CountConcat
<1>5. /\ Count(<<a>>, G) = One(a \in G) /\ Count(<<b>>, G) = One(b \in G)
      /\ Count(<<c>>, G) = One(c \in G) /\ Count(<<d>>, G) = One(d \in G)
  BY CountShort
<1>6. Count(<<a, b>>, G) = Count(<<a>>, G) + Count(<<b>>, G)
  BY <1>1, <1>4, Zenon, <1>2
<1>7. Count(<<a, b, c>>, G) = Count(<<a, b>>, G) + Count(<<c>>, G)
  BY <1>1, <1>4, Zenon, <1>9
<1>8. Count(<<a, b, c, d>>, G) = Count(<<a, b, c>>, G) + Count(<<d>>, G)
  BY <1>1, <1>4, Zenon, <1>3
<1> QED
  BY <1>5, <1>6, <1>7, <1>8

LEMMA CountTwo ==
  ASSUME NEW a \in AllSteps, NEW b \in AllSteps, NEW G
  PROVE  Count(<<a, b>>, G) = One(a \in G) + One(b \in G)
<1>1. ASSUME NEW c \in AllSteps, NEW d \in AllSteps
      PROVE  /\ Count(<<a, b>>, G) = One(a \in G) + One(b \in G)
             /\ Count(<<a, b, c>>, G) = One(a \in G) + One(b \in G) + One(c \in G)
             /\ Count(<<a, b, c, d>>, G) = One(a \in G) + One(b \in G) + One(c \in G) + One(d \in G)
  BY CountFour
<1> QED
  BY <1>1

LEMMA CountThree ==
  ASSUME NEW a \in AllSteps, NEW b \in AllSteps, NEW c \in AllSteps, NEW G
  PROVE  Count(<<a, b, c>>, G) = One(a \in G) + One(b \in G) + One(c \in G)
<1>1. ASSUME NEW d \in AllSteps
      PROVE  /\ Count(<<a, b>>, G) = One(a \in G) + One(b \in G)
             /\ Count(<<a, b, c>>, G) = One(a \in G) + One(b \in G) + One(c \in G)
             /\ Count(<<a, b, c, d>>, G) = One(a \in G) + One(b \in G) + One(c \in G) + One(d \in G)
  BY CountFour
<1> QED
  BY <1>1

LEMMA CountTail ==
  ASSUME NEW S, NEW s \in Seq(S), s # <<>>, NEW G
  PROVE  /\ Count(Tail(s), G) = Count(s, G) - One(s[1] \in G)
         /\ Head(s) = s[1] /\ s[1] \in S /\ Tail(s) \in Seq(S)
         /\ Len(Tail(s)) = Len(s) - 1 /\ Len(s) \in Nat \ {0}
         /\ \A i \in 1 .. Len(s) - 1 : Tail(s)[i] = s[i + 1]
<1>1. /\ Head(s) = s[1] /\ s[1] \in S /\ Tail(s) \in Seq(S) /\ <<s[1]>> \in Seq(S)
      /\ Len(Tail(s)) = Len(s) - 1 /\ Len(s) \in Nat \ {0}
      /\ \A i \in 1 .. Len(s) - 1 : Tail(s)[i] = s[i + 1]
  BY HeadTailProperties, EmptySeq
<1>2. <<s[1]>> \o Tail(s) = s
  BY <1>1, ConcatProperties, SeqEqual
<1>3. \A p, q \in Seq(S) : Count(p \o q, G) = Count(p, G) + Count(q, G)
  BY CountConcat
<1>4. Count(s, G) = Count(<<s[1]>>, G) + Count(Tail(s), G)
  BY <1>1, <1>2, <1>3, Zenon
<1>5. Count(<<s[1]>>, G) = One(s[1] \in G) /\ Count(Tail(s), G) \in Nat
  BY <1>1, CountShort, CountType
<1>6. Count(Tail(s), G) = Count(s, G) - One(s[1] \in G)
  BY <1>4, <1>5 DEF One
<1> QED
  BY <1>1, <1>6, Zenon

-----------------------------------------------------------------------------
(* Counting the steps of all threads, f the steps each has to do. *)

StepsOf(f, t, G) == {<<t, i>> : i \in {j \in DOMAIN f[t] : f[t][j] \in G}}
StepsBut(f, t, G) == Cardinality(UNION {StepsOf(f, u, G) : u \in Threads \ {t}})
OnlyOf(f, g, t) == \A u \in Threads \ {t} : g[u] = f[u]
StepsOfAll(f, G) == Cardinality(UNION {StepsOf(f, u, G) : u \in Threads})

LEMMA ThreadsFinite == IsFiniteSet(Threads)
BY CacheAssumption, FS_Union DEF Threads

LEMMA StepsOfCount ==
  ASSUME NEW f, NEW t, f[t] \in Seq(AllSteps), NEW G
  PROVE  IsFiniteSet(StepsOf(f, t, G)) /\ Cardinality(StepsOf(f, t, G)) = Count(f[t], G)
<1> DEFINE D == {j \in DOMAIN f[t] : f[t][j] \in G}
           h == [i \in D |-> <<t, i>>]
<1>1. IsFiniteSet(D)
  <2>1. DOMAIN f[t] = 1 .. Len(f[t]) /\ Len(f[t]) \in Nat
    OBVIOUS
  <2>2. IsFiniteSet(1 .. Len(f[t]))
    BY <2>1, FS_Interval
  <2>3. D \in SUBSET (1 .. Len(f[t]))
    BY <2>1
  <2> QED
    BY <2>2, <2>3, FS_Subset
<1>2. h \in [D -> StepsOf(f, t, G)]
  BY DEF StepsOf
<1>3. h \in Injection(D, StepsOf(f, t, G))
  BY <1>2 DEF Injection, IsInjective
<1>4. h \in Surjection(D, StepsOf(f, t, G))
  BY <1>2 DEF Surjection, StepsOf
<1>5. h \in Bijection(D, StepsOf(f, t, G))
  BY <1>3, <1>4 DEF Bijection
<1>6. IsFiniteSet(StepsOf(f, t, G)) /\ Cardinality(StepsOf(f, t, G)) = Cardinality(D)
  BY <1>1, <1>5, FS_Bijection DEF ExistsBijection
<1> QED
  BY <1>6 DEF Count

LEMMA StepsSplit ==
  ASSUME NEW f \in [Threads -> Seq(AllSteps)], NEW t \in Threads, NEW G
  PROVE  /\ StepsOfAll(f, G) = Count(f[t], G) + StepsBut(f, t, G)
         /\ StepsOfAll(f, G) \in Nat /\ StepsBut(f, t, G) \in Nat /\ Count(f[t], G) \in Nat
<1> DEFINE R == UNION {StepsOf(f, u, G) : u \in Threads \ {t}}
           W == UNION {StepsOf(f, u, G) : u \in Threads}
           A == StepsOf(f, t, G)
<1>1. \A u \in Threads : IsFiniteSet(StepsOf(f, u, G)) /\ f[u] \in Seq(AllSteps)
  BY StepsOfCount
<1>2. IsFiniteSet({StepsOf(f, u, G) : u \in Threads \ {t}})
  <2> DEFINE S == Threads \ {t}
             T == {StepsOf(f, u, G) : u \in S}
             h == [u \in S |-> StepsOf(f, u, G)]
  <2>1. IsFiniteSet(S)
    BY ThreadsFinite, FS_Difference
  <2>2. h \in Surjection(S, T)
    BY DEF Surjection
  <2>3. IsFiniteSet(T)
    BY <2>1, <2>2, FS_Surjection
  <2> QED
    BY <2>3
<1>3. IsFiniteSet(R)
  BY <1>1, <1>2, FS_UNION
<1>4. W = A \cup R
  OBVIOUS
<1>5. A \cap R = {}
  BY DEF StepsOf
<1>6. IsFiniteSet(A) /\ Cardinality(A) = Count(f[t], G)
  BY <1>1, StepsOfCount
<1> HIDE DEF R, W, A
<1>7. Cardinality(W) = Cardinality(A) + Cardinality(R) - Cardinality(A \cap R)
  BY <1>6, <1>3, <1>4, FS_Union
<1>8. Cardinality(A \cap R) = 0
  BY <1>5, FS_EmptySet
<1>9. Cardinality(A) \in Nat /\ Cardinality(R) \in Nat
  BY <1>3, <1>6, FS_CardinalityType
<1>10. StepsOfAll(f, G) = Cardinality(W) /\ StepsBut(f, t, G) = Cardinality(R)
  BY DEF StepsOfAll, StepsBut, R, W
<1>11. Cardinality(W) = Count(f[t], G) + Cardinality(R)
  BY <1>6, <1>7, <1>8, <1>9
<1> QED
  BY <1>6, <1>9, <1>10, <1>11

LEMMA StepsMoved ==
  ASSUME NEW f \in [Threads -> Seq(AllSteps)], NEW g \in [Threads -> Seq(AllSteps)],
         NEW t \in Threads, OnlyOf(f, g, t), NEW G
  PROVE  StepsOfAll(g, G) = StepsOfAll(f, G) - Count(f[t], G) + Count(g[t], G)
<1>1. StepsOfAll(f, G) = Count(f[t], G) + StepsBut(f, t, G) /\ StepsBut(f, t, G) \in Nat /\ Count(f[t], G) \in Nat
  BY StepsSplit
<1>2. StepsOfAll(g, G) = Count(g[t], G) + StepsBut(g, t, G) /\ Count(g[t], G) \in Nat
  BY StepsSplit
<1>3. \A u \in Threads \ {t} : StepsOf(g, u, G) = StepsOf(f, u, G)
  BY DEF StepsOf, OnlyOf
<1>4. {StepsOf(g, u, G) : u \in Threads \ {t}} = {StepsOf(f, u, G) : u \in Threads \ {t}}
  BY <1>3
<1>5. StepsBut(g, t, G) = StepsBut(f, t, G)
  BY <1>4 DEF StepsBut
<1> QED
  BY <1>1, <1>2, <1>5

LEMMA StepsNone ==
  ASSUME NEW f \in [Threads -> Seq(AllSteps)], NEW G
  PROVE  /\ StepsOfAll(f, G) \in Nat
         /\ StepsOfAll(f, G) = 0 <=> \A t \in Threads : \A i \in 1 .. Len(f[t]) : f[t][i] \notin G
<1> DEFINE W == UNION {StepsOf(f, u, G) : u \in Threads}
<1>1. \A u \in Threads : IsFiniteSet(StepsOf(f, u, G)) /\ f[u] \in Seq(AllSteps)
  BY StepsOfCount
<1>2. IsFiniteSet({StepsOf(f, u, G) : u \in Threads})
  <2> DEFINE T == {StepsOf(f, u, G) : u \in Threads}
             h == [u \in Threads |-> StepsOf(f, u, G)]
  <2>1. h \in Surjection(Threads, T)
    BY DEF Surjection
  <2>2. IsFiniteSet(T)
    BY ThreadsFinite, <2>1, FS_Surjection
  <2> QED
    BY <2>2
<1>3. IsFiniteSet(W)
  BY <1>1, <1>2, FS_UNION
<1>4. Cardinality(W) \in Nat /\ (Cardinality(W) = 0 <=> W = {})
  BY <1>3, FS_CardinalityType, FS_EmptySet
<1>5. W = {} <=> \A t \in Threads : \A i \in DOMAIN f[t] : f[t][i] \notin G
  <2>1. W = {} <=> \A t \in Threads : StepsOf(f, t, G) = {}
    OBVIOUS
  <2>2. \A t \in Threads : StepsOf(f, t, G) = {} <=> \A i \in DOMAIN f[t] : f[t][i] \notin G
    BY DEF StepsOf
  <2> QED
    BY <2>1, <2>2
<1>6. \A t \in Threads : DOMAIN f[t] = 1 .. Len(f[t])
  BY <1>1
<1> QED
  BY <1>4, <1>5, <1>6 DEF StepsOfAll

LEMMA StepsInAll == \A G : StepsIn(G) = StepsOfAll(todo, G) /\ StepsIn(G)' = StepsOfAll(todo', G)
BY DEF StepsIn, StepsOfAll, StepsOf

-----------------------------------------------------------------------------
(* The order of steps. *)

\* The steps p may come instead of the step h, whose thread has handles of mine.
Fits(h, p, mine) ==
  /\ \A i \in 1 .. Len(p) :
       /\ p[i][1] \in Passing =>
            \/ p[i][2] \in mine
            \/ h[1] \in Passing /\ h[2] = p[i][2]
            \/ \E j \in 1 .. Len(p) : j > i /\ p[j][1] \in Counting /\ p[j][2] = p[i][2]
       /\ p[i][1] = "reload" => i > 1 /\ p[i - 1][1] \in Waits /\ p[i - 1][2] = p[i][2]
       /\ p[i][1] = "unpark" => i < Len(p) /\ p[i + 1][1] \in {"wait", "claimFree"} /\ p[i + 1][2] = p[i][2]
       /\ p[i][1] \in Firsts => i = 1
       /\ p[i][1] \in Lasts => i = Len(p)
       /\ p[i][1] \in Lasts \/ p[i] = TaskDoneOnLane => h[1] \in Lasts
       /\ Forces(p[i]) => Forces(h) \/ (p[Len(p)] = EndOfForce /\ h[1] \in Lasts)
  /\ \A i, j \in 1 .. Len(p) : p[i] = TaskDoneOnLane /\ p[j] = TaskDoneOnLane => i = j
  /\ h[1] \in Waits /\ p # <<>> => p[Len(p)][1] \in Waits /\ p[Len(p)][2] = h[2]

\* s without its first step and behind p.
LEMMA Behind ==
  ASSUME NEW S, NEW s \in Seq(S), s # <<>>, NEW p \in Seq(S)
  PROVE  /\ p \o Tail(s) \in Seq(S)
         /\ Len(p) \in Nat /\ Len(s) \in Nat \ {0}
         /\ Len(p \o Tail(s)) = Len(p) + Len(s) - 1
         /\ \A i \in 1 .. Len(p) : (p \o Tail(s))[i] = p[i]
         /\ \A i \in Len(p) + 1 .. Len(p) + Len(s) - 1 : (p \o Tail(s))[i] = s[i - Len(p) + 1]
<1>1. /\ Tail(s) \in Seq(S) /\ Len(Tail(s)) = Len(s) - 1 /\ Len(s) \in Nat \ {0}
      /\ \A i \in 1 .. Len(s) - 1 : Tail(s)[i] = s[i + 1]
  BY HeadTailProperties, EmptySeq
<1>2. /\ p \o Tail(s) \in Seq(S) /\ Len(p) \in Nat
      /\ Len(p \o Tail(s)) = Len(p) + Len(Tail(s))
      /\ \A i \in 1 .. Len(p) + Len(Tail(s)) :
           (p \o Tail(s))[i] = IF i <= Len(p) THEN p[i] ELSE Tail(s)[i - Len(p)]
  BY <1>1, ConcatProperties
<1> QED
  BY <1>1, <1>2

LEMMA FitsBacked ==
  ASSUME NEW s \in Seq(AllSteps), s # <<>>, NEW p \in Seq(AllSteps), NEW mine, NEW more, mine \subseteq more,
         Backed(s, mine), Fits(s[1], p, more)
  PROVE  Backed(p \o Tail(s), more)
<1> DEFINE q == p \o Tail(s)
           n == Len(p)
           m == Len(s)
<1>1. /\ n \in Nat /\ m \in Nat \ {0} /\ Len(q) = n + m - 1
      /\ \A i \in 1 .. n : q[i] = p[i]
      /\ \A i \in n + 1 .. n + m - 1 : q[i] = s[i - n + 1]
  BY Behind
<1>2. \A j \in 2 .. m : n + j - 1 \in n + 1 .. n + m - 1 /\ q[n + j - 1] = s[j]
  BY <1>1
<1>3. ASSUME NEW i \in 1 .. m, s[i][1] \in Passing, s[i][2] \notin mine
      PROVE  \E j \in 2 .. m : j > i /\ s[j][1] \in Counting /\ s[j][2] = s[i][2]
  BY <1>1, <1>3 DEF Backed
<1> HIDE DEF q, n, m
<1>4. ASSUME NEW i \in 1 .. Len(q), q[i][1] \in Passing, q[i][2] \notin more
      PROVE  \E j \in 1 .. Len(q) : j > i /\ q[j][1] \in Counting /\ q[j][2] = q[i][2]
  <2>1. CASE i \in 1 .. n
    <3>1. q[i] = p[i]
      BY <1>1, <2>1
    <3>2. CASE s[1][1] \in Passing /\ s[1][2] = p[i][2]
      <4>1. s[1][2] \notin mine
        BY <1>4, <3>1, <3>2
      <4>2. PICK j \in 2 .. m : s[j][1] \in Counting /\ s[j][2] = s[1][2]
        BY <1>1, <1>3, <3>2, <4>1
      <4>3. n + j - 1 \in 1 .. Len(q) /\ n + j - 1 > i /\ q[n + j - 1] = s[j]
        BY <1>1, <1>2, <2>1
      <4> QED
        BY <3>1, <3>2, <4>2, <4>3
    <3>3. CASE \E j \in 1 .. n : j > i /\ p[j][1] \in Counting /\ p[j][2] = p[i][2]
      <4>1. PICK j \in 1 .. n : j > i /\ p[j][1] \in Counting /\ p[j][2] = p[i][2]
        BY <3>3
      <4>2. j \in 1 .. Len(q) /\ q[j] = p[j]
        BY <1>1
      <4> QED
        BY <3>1, <4>1, <4>2
    <3> QED
      BY <1>4, <2>1, <3>1, <3>2, <3>3 DEF Fits, n
  <2>2. CASE i \in n + 1 .. n + m - 1
    <3>1. q[i] = s[i - n + 1] /\ i - n + 1 \in 1 .. m
      BY <1>1, <2>2
    <3>2. PICK j \in 2 .. m : j > i - n + 1 /\ s[j][1] \in Counting /\ s[j][2] = s[i - n + 1][2]
      BY <1>3, <1>4, <3>1
    <3>3. n + j - 1 \in n + 1 .. n + m - 1 /\ q[n + j - 1] = s[j]
      BY <1>2
    <3>4. n + j - 1 \in 1 .. Len(q) /\ n + j - 1 > i
      BY <1>1, <2>2, <3>2, <3>3
    <3> QED
      BY <3>1, <3>2, <3>3, <3>4
  <2> QED
    BY <1>1, <2>1, <2>2
<1> QED
  BY <1>4 DEF Backed, q

LEMMA FitsOrder ==
  ASSUME NEW s \in Seq(AllSteps), s # <<>>, NEW p \in Seq(AllSteps), NEW more,
         ReloadWaits(s), UnparkClaims(s), FirstAndLast(s), ForceEnds(s), Fits(s[1], p, more)
  PROVE  /\ ReloadWaits(p \o Tail(s)) /\ UnparkClaims(p \o Tail(s))
         /\ FirstAndLast(p \o Tail(s)) /\ ForceEnds(p \o Tail(s))
<1> DEFINE q == p \o Tail(s)
           n == Len(p)
           m == Len(s)
<1>1. /\ n \in Nat /\ m \in Nat \ {0} /\ Len(q) = n + m - 1
      /\ \A i \in 1 .. n : q[i] = p[i]
      /\ \A i \in n + 1 .. n + m - 1 : q[i] = s[i - n + 1]
  BY Behind
<1>2. p # <<>> <=> n > 0
  BY EmptySeq
<1>3. \A i \in 1 .. Len(q) : \/ i \in 1 .. n /\ q[i] = p[i]
                             \/ i - n + 1 \in 2 .. m /\ i > n /\ q[i] = s[i - n + 1]
  BY <1>1
<1> HIDE DEF q
<1>4. ReloadWaits(q)
  <2>1. ASSUME NEW i \in 1 .. Len(q), q[i][1] = "reload", i > 1
        PROVE  q[i - 1][1] \in Waits /\ q[i - 1][2] = q[i][2]
    <3>1. CASE i \in 1 .. n
      <4>1. q[i] = p[i] /\ q[i - 1] = p[i - 1]
        BY <1>1, <2>1, <3>1
      <4> QED
        BY <2>1, <3>1, <4>1 DEF Fits
    <3>2. CASE i = n + 1
      <4>1. q[i] = s[2] /\ 2 \in 1 .. m /\ q[i - 1] = p[n] /\ p # <<>>
        BY <1>1, <1>2, <2>1, <3>2
      <4>2. s[1][1] \in Waits /\ s[1][2] = s[2][2]
        BY <2>1, <4>1 DEF ReloadWaits
      <4> QED
        BY <4>1, <4>2 DEF Fits
    <3>3. CASE i > n + 1
      <4> HIDE DEF n, m
      <4>5. i \in n + 1 .. n + m - 1 /\ i - 1 \in n + 1 .. n + m - 1
        BY <1>1, <3>3
      <4>3. i - n + 1 \in 1 .. m /\ q[i] = s[i - n + 1]
        BY <1>1, <4>5
      <4>6. (i - 1) - n + 1 = i - n
        BY <1>1, <4>5
      <4>4. q[i - 1] = s[i - n]
        BY <1>1, <4>5, <4>6
      <4>1. i - n + 1 \in 1 .. m /\ q[i] = s[i - n + 1] /\ q[i - 1] = s[i - n]
        BY <4>3, <4>4
      <4>2. (i - n + 1) - 1 = i - n /\ i - n + 1 > 1
        BY <1>1, <3>3
      <4> QED
        BY <2>1, <4>1, <4>2 DEF ReloadWaits, m
    <3> QED
      BY <1>1, <3>1, <3>2, <3>3
  <2> QED
    BY <2>1 DEF ReloadWaits
<1>5. UnparkClaims(q)
  <2>1. ASSUME NEW i \in 1 .. Len(q), q[i][1] = "unpark"
        PROVE  i < Len(q) /\ q[i + 1][1] \in {"wait", "claimFree"} /\ q[i + 1][2] = q[i][2]
    <3>1. CASE i \in 1 .. n
      <4>1. p[i][1] = "unpark"
        BY <1>1, <2>1, <3>1
      <4>2. i < n /\ p[i + 1][1] \in {"wait", "claimFree"} /\ p[i + 1][2] = p[i][2]
        BY <3>1, <4>1 DEF Fits
      <4> QED
        BY <1>1, <3>1, <4>2, SMTT(60)
    <3>2. CASE i > n
      <4>1. i - n + 1 \in 1 .. m /\ q[i] = s[i - n + 1]
        BY <1>1, <3>2
      <4>2. i - n + 1 < m /\ s[(i - n + 1) + 1][1] \in {"wait", "claimFree"} /\ s[(i - n + 1) + 1][2] = s[i - n + 1][2]
        BY <2>1, <4>1 DEF UnparkClaims
      <4>3. q[i + 1] = s[(i - n + 1) + 1] /\ i < Len(q)
        BY <1>1, <3>2, <4>2, SMTT(60)
      <4> QED
        BY <4>1, <4>2, <4>3
    <3> QED
      BY <1>1, <3>1, <3>2
  <2> QED
    BY <2>1 DEF UnparkClaims
<1>6. s[1][1] \in Lasts => m = 1
  <2>1. 1 \in 1 .. Len(s)
    BY <1>1
  <2>2. \A i \in 1 .. Len(s) : s[i][1] \in Lasts => i = Len(s)
    BY DEF FirstAndLast
  <2> QED
    BY <2>1, <2>2
<1>7. \A i \in 1 .. Len(q) : (q[i][1] \in Firsts => i = 1) /\ (q[i][1] \in Lasts => i = Len(q))
  <2> TAKE i \in 1 .. Len(q)
  <2>1. CASE i \in 1 .. n
    <3>1. p[i][1] \in Lasts => i = n /\ m = 1
      BY <1>6, <2>1 DEF Fits
    <3>2. p[i][1] \in Firsts => i = 1
      BY <2>1 DEF Fits
    <3> QED
      BY <1>1, <2>1, <3>1, <3>2, SMTT(60)
  <2>2. CASE i > n
    <3>1. i - n + 1 \in 2 .. m /\ q[i] = s[i - n + 1]
      BY <1>1, <2>2
    <3> QED
      BY <1>1, <3>1, SMTT(60) DEF FirstAndLast
  <2> QED
    BY <1>1, <2>1, <2>2
<1>8. \A i, j \in 1 .. Len(q) : q[i] = TaskDoneOnLane /\ q[j] = TaskDoneOnLane => i = j
  <2>1. \A i \in 1 .. n : p[i] = TaskDoneOnLane => m = 1
    BY <1>6 DEF Fits
  <2>2. \A i, j \in 1 .. n : p[i] = TaskDoneOnLane /\ p[j] = TaskDoneOnLane => i = j
    BY DEF Fits
  <2>3. \A i, j \in 1 .. m : s[i] = TaskDoneOnLane /\ s[j] = TaskDoneOnLane => i = j
    BY DEF FirstAndLast
  <2> HIDE DEF n, m
  <2> TAKE i, j \in 1 .. Len(q)
  <2>4. CASE i \in 1 .. n /\ j \in 1 .. n
    BY <1>1, <2>2, <2>4
  <2>5. CASE i > n /\ j > n
    <3>1. i - n + 1 \in 1 .. m /\ q[i] = s[i - n + 1] /\ j - n + 1 \in 1 .. m /\ q[j] = s[j - n + 1]
      BY <1>1, <2>5
    <3>2. q[i] = TaskDoneOnLane /\ q[j] = TaskDoneOnLane => i - n + 1 = j - n + 1
      BY <2>3, <3>1
    <3> QED
      BY <1>1, <3>2
  <2>6. CASE i \in 1 .. n /\ j > n
    BY <1>1, <2>1, <2>6
  <2>7. CASE i > n /\ j \in 1 .. n
    BY <1>1, <2>1, <2>7
  <2> QED
    BY <1>1, <2>4, <2>5, <2>6, <2>7
<1>9. ForceEnds(q)
  <2>1. ASSUME NEW k \in 1 .. m, Forces(s[k])
        PROVE  m > 1 /\ s[m] = EndOfForce
    <3>1. s[m] = EndOfForce
      BY <2>1 DEF ForceEnds
    <3>2. EndOfForce[1] = "end"
      BY DEF EndOfForce
    <3>3. ~Forces(EndOfForce)
      BY <3>2 DEF Forces
    <3> QED
      BY <1>1, <2>1, <3>1, <3>3
  <2>2. m > 1 => q[Len(q)] = s[m]
    BY <1>1
  <2>3. ASSUME NEW i \in 1 .. Len(q), Forces(q[i])
        PROVE  q[Len(q)] = EndOfForce
    <3>1. CASE i \in 1 .. n
      <4>1. Forces(p[i])
        BY <1>1, <2>3, <3>1
      <4>2. CASE Forces(s[1])
        BY <1>1, <2>1, <2>2, <4>2
      <4>3. CASE p[n] = EndOfForce /\ s[1][1] \in Lasts
        <5>1. m = 1 /\ n \in 1 .. n
          BY <1>1, <1>6, <3>1, <4>3
        <5>2. Len(q) = n
          BY <1>1, <5>1
        <5> QED
          BY <1>1, <4>3, <5>1, <5>2
      <4> QED
        BY <3>1, <4>1, <4>2, <4>3 DEF Fits
    <3>2. CASE i > n
      <4>1. i - n + 1 \in 1 .. m /\ q[i] = s[i - n + 1]
        BY <1>1, <3>2
      <4> QED
        BY <2>1, <2>2, <2>3, <4>1
    <3> QED
      BY <1>1, <3>1, <3>2
  <2> QED
    BY <2>3 DEF ForceEnds
<1> QED
  BY <1>4, <1>5, <1>7, <1>8, <1>9 DEF FirstAndLast, q

LEMMA FitsLane ==
  ASSUME NEW s \in Seq(AllSteps), s # <<>>, NEW p \in Seq(AllSteps),
         LaneLike(s), \A i \in 1 .. Len(p) : p[i][1] \in LaneSteps,
         s[1][1] \in TaskEnds /\ p # <<>> => p[Len(p)][1] \in TaskEnds
  PROVE  LaneLike(p \o Tail(s))
<1> DEFINE q == p \o Tail(s)
           n == Len(p)
           m == Len(s)
<1>1. /\ q \in Seq(AllSteps)
      /\ n \in Nat /\ m \in Nat \ {0} /\ Len(q) = n + m - 1
      /\ \A i \in 1 .. n : q[i] = p[i]
      /\ \A i \in n + 1 .. n + m - 1 : q[i] = s[i - n + 1]
  BY Behind
<1>2. (p # <<>> <=> n > 0) /\ (q # <<>> <=> n + m > 1)
  BY <1>1, EmptySeq
<1> HIDE DEF q
<1>3. \A i \in 1 .. Len(q) : q[i][1] \in LaneSteps
  <2> TAKE i \in 1 .. Len(q)
  <2>1. CASE i \in 1 .. n
    BY <1>1, <2>1
  <2>2. CASE i > n
    <3>1. i - n + 1 \in 1 .. m /\ q[i] = s[i - n + 1]
      BY <1>1, <2>2
    <3> QED
      BY <3>1 DEF LaneLike
  <2> QED
    BY <1>1, <2>1, <2>2
<1>4. s[m][1] \in TaskEnds
  BY DEF LaneLike
<1>5. q # <<>> => q[Len(q)][1] \in TaskEnds
  <2>1. CASE m > 1
    BY <1>1, <1>4, <2>1, SMTT(60)
  <2>2. CASE m = 1
    BY <1>1, <1>2, <1>4, <2>2
  <2> HIDE DEF m
  <2>3. m = 1 \/ m > 1
    BY <1>1
  <2> QED
    BY <2>1, <2>2, <2>3
<1> QED
  BY <1>3, <1>5 DEF LaneLike, q

-----------------------------------------------------------------------------
(* What a step of a thread does to the steps there are. *)

LEMMA StepsChanged ==
  ASSUME todo \in [Threads -> Seq(AllSteps)], todo' \in [Threads -> Seq(AllSteps)],
         NEW t \in Threads, OnlyOf(todo, todo', t), NEW G
  PROVE  StepsOfAll(todo', G) = StepsOfAll(todo, G) - Count(todo[t], G) + Count(todo'[t], G)
BY StepsMoved, ZenonT(60)

LEMMA Moved ==
  ASSUME todo \in [Threads -> Seq(AllSteps)], NEW t \in Threads, todo[t] # <<>>,
         NEW p \in Seq(AllSteps), Then(t, p)
  PROVE  /\ todo' \in [Threads -> Seq(AllSteps)] /\ todo'[t] = p \o Tail(todo[t])
         /\ \A u \in Threads \ {t} : todo'[u] = todo[u]
         /\ todo[t][1] \in AllSteps
         /\ \A G : StepsIn(G)' = StepsIn(G) - One(todo[t][1] \in G) + Count(p, G)
<1>1. /\ todo[t] \in Seq(AllSteps) /\ Tail(todo[t]) \in Seq(AllSteps) /\ p \o Tail(todo[t]) \in Seq(AllSteps)
      /\ todo[t][1] \in AllSteps
  BY Behind, CountTail
<1>2. todo' = [todo EXCEPT ![t] = p \o Tail(todo[t])]
  BY DEF Then
<1>3. /\ todo' \in [Threads -> Seq(AllSteps)] /\ todo'[t] = p \o Tail(todo[t])
      /\ \A u \in Threads \ {t} : todo'[u] = todo[u]
  BY <1>1, <1>2
<1>4. ASSUME NEW G PROVE StepsIn(G)' = StepsIn(G) - One(todo[t][1] \in G) + Count(p, G)
  <2>8. todo' \in [Threads -> Seq(AllSteps)] /\ OnlyOf(todo, todo', t)
    BY <1>3 DEF OnlyOf
  <2>1. StepsOfAll(todo', G) = StepsOfAll(todo, G) - Count(todo[t], G) + Count(todo'[t], G)
    BY <2>8, StepsChanged
  <2>2. Count(todo'[t], G) = Count(p, G) + Count(Tail(todo[t]), G)
    BY <1>1, <1>3, CountConcat, ZenonT(60)
  <2>3. Count(Tail(todo[t]), G) = Count(todo[t], G) - One(todo[t][1] \in G)
    BY <1>1, CountTail
  <2>4. Count(todo[t], G) \in Nat /\ Count(p, G) \in Nat /\ Count(Tail(todo[t]), G) \in Nat
    BY <1>1, CountType
  <2>5. StepsOfAll(todo, G) \in Nat
    BY StepsNone
  <2>6. One(todo[t][1] \in G) \in Nat
    BY DEF One
  <2>7. StepsIn(G) = StepsOfAll(todo, G) /\ StepsIn(G)' = StepsOfAll(todo', G)
    BY StepsInAll
  <2> QED
    BY <2>1, <2>2, <2>3, <2>4, <2>5, <2>6, <2>7
<1> QED
  BY <1>1, <1>3, <1>4

LEMMA Entered ==
  ASSUME todo \in [Threads -> Seq(AllSteps)], NEW t \in Threads, todo[t] = <<>>,
         NEW p \in Seq(AllSteps), todo' = [todo EXCEPT ![t] = p]
  PROVE  /\ todo' \in [Threads -> Seq(AllSteps)] /\ todo'[t] = p
         /\ \A u \in Threads \ {t} : todo'[u] = todo[u]
         /\ \A G : StepsIn(G)' = StepsIn(G) + Count(p, G)
<1>1. /\ todo' \in [Threads -> Seq(AllSteps)] /\ todo'[t] = p
      /\ \A u \in Threads \ {t} : todo'[u] = todo[u]
  OBVIOUS
<1>2. ASSUME NEW G PROVE StepsIn(G)' = StepsIn(G) + Count(p, G)
  <2>8. todo' \in [Threads -> Seq(AllSteps)] /\ OnlyOf(todo, todo', t)
    BY <1>1 DEF OnlyOf
  <2>1. StepsOfAll(todo', G) = StepsOfAll(todo, G) - Count(todo[t], G) + Count(todo'[t], G)
    BY <2>8, StepsChanged
  <2>2. Count(todo[t], G) = 0
    BY CountShort
  <2>3. Count(p, G) \in Nat
    BY CountType
  <2>4. StepsOfAll(todo, G) \in Nat
    BY StepsNone
  <2>5. StepsIn(G) = StepsOfAll(todo, G) /\ StepsIn(G)' = StepsOfAll(todo', G)
    BY StepsInAll
  <2> QED
    BY <1>1, <2>1, <2>2, <2>3, <2>4, <2>5
<1> QED
  BY <1>1, <1>2

LEMMA Someone ==
  ASSUME todo \in [Threads -> Seq(AllSteps)]
  PROVE  \A G : /\ StepsIn(G) \in Nat
                /\ StepsIn(G) = 0 <=> \A t \in Threads : \A i \in 1 .. Len(todo[t]) : todo[t][i] \notin G
<1> TAKE G
<1>1. StepsIn(G) = StepsOfAll(todo, G)
  BY StepsInAll
<1> QED
  BY <1>1, StepsNone

-----------------------------------------------------------------------------
(* What the steps name. *)

EntryKinds == Counting \cup Passing \cup {"enqueue"}

LEMMA StepTypes ==
  ASSUME NEW a \in AllSteps
  PROVE  /\ a[1] \in EntryKinds => a[2] \in Entries
         /\ a[1] = "takeParked" => a = <<"takeParked", a[2], a[3]>> /\ a[3] \in Ops
         /\ a[1] \in EntryKinds \ {"takeParked"} => a = <<a[1], a[2]>>
         /\ a[1] = "lookup" => a = <<"lookup", a[2], a[3]>> /\ a[2] \in Keys /\ a[3] \in Ops
         /\ a[1] = "bindPublished" => a = <<"bindPublished", a[2], a[3]>> /\ a[2] \in Keys /\ a[3] \in {"bind", "find"}
         /\ a[1] \in ForNobody => a = <<a[1], None>>
         /\ a[1] \in Dispatcher => a[2] \in Nat /\ a = <<a[1], a[2]>>
         /\ a[1] = "taskDone" => a[2] \in BOOLEAN /\ a = <<"taskDone", a[2]>>
         /\ a[1] = "takeUnused" => a[2] \in Owners /\ a = <<"takeUnused", a[2]>>
         /\ a[1] \in {"lockAll", "destroy"} => a[2] \in SUBSET Entries /\ a = <<a[1], a[2]>>
         /\ a[1] = "sort" => a[2] \in SUBSET Entries /\ a[3] \in SUBSET Entries /\ a = <<"sort", a[2], a[3]>>
         /\ a[1] = "end" => a[2] \in Exclusive \cup {"find"} /\ a = <<"end", a[2]>>
BY DEF AllSteps, EntryKinds, Counting, Passing, Waits, ForNobody, Dispatcher

LEMMA StepsAre ==
  /\ \A k \in EntryKinds \ {"takeParked"}, e \in Entries : <<k, e>> \in AllSteps
  /\ \A e \in Entries, op \in Ops : <<"takeParked", e, op>> \in AllSteps
  /\ \A k \in Keys, op \in Ops : <<"lookup", k, op>> \in AllSteps
  /\ \A k \in Keys, op \in {"bind", "find"} : <<"bindPublished", k, op>> \in AllSteps
  /\ \A k \in ForNobody : <<k, None>> \in AllSteps
  /\ \A k \in Dispatcher, n \in Nat : <<k, n>> \in AllSteps
  /\ \A b \in BOOLEAN : <<"taskDone", b>> \in AllSteps
  /\ \A o \in Owners : <<"takeUnused", o>> \in AllSteps
  /\ \A list \in SUBSET Entries : <<"lockAll", list>> \in AllSteps /\ <<"destroy", list>> \in AllSteps
  /\ \A list, dead \in SUBSET Entries : <<"sort", list, dead>> \in AllSteps
  /\ \A op \in Exclusive \cup {"find"} : <<"end", op>> \in AllSteps
BY DEF AllSteps, EntryKinds, Counting, Passing, Waits, ForNobody, Dispatcher

LEMMA Belongs ==
  ASSUME NEW a \in AllSteps, a[1] \in EntryKinds, NEW x \in Entries
  PROVE  /\ \A K : a \in For(K, x) <=> a[1] \in K /\ a[2] = x
         /\ a \in Unusing(x) <=> a[1] = "enqueue" /\ a[2] = x
         /\ a \in Naming(x) <=> a[2] = x
         /\ a \notin For({"dispatch"}, None)
BY DEF For, Unusing, Naming, Takes, ForSets, EntryKinds, Counting, Passing, Waits

\* The kinds of steps that may come instead of a step: who does what.
Suits(h, a) ==
  /\ h[1] \in LaneSteps => a[1] \in LaneSteps
  /\ h[1] \in LateSteps => a[1] \in LateSteps
  /\ a # EndOfForce
  /\ a[1] \in {"lastReads", "lastTasks"} => h[1] = "lastReads"
  /\ h[1] \in {"release", "enqueue"} => a[1] = "enqueue"

Follows(h, p, mine) ==
  /\ Fits(h, p, mine)
  /\ \A i \in 1 .. Len(p) : Suits(h, p[i])
  /\ h[1] \in TaskEnds /\ p # <<>> => p[Len(p)][1] \in TaskEnds

\* Nothing of the kinds that the lists, the dispatcher and the destructor look for.
Calm(p) == \A i \in 1 .. Len(p) : p[i][1] \notin Dispatcher \cup ForSets \cup {"destroyAll"}

\* Where the steps after one come from.
LEMMA Origin ==
  ASSUME NEW s \in Seq(AllSteps), s # <<>>, NEW p \in Seq(AllSteps), FirstAndLast(s),
         NEW i \in 1 .. Len(p \o Tail(s))
  PROVE  \/ i \in 1 .. Len(p) /\ (p \o Tail(s))[i] = p[i]
         \/ \E j \in 2 .. Len(s) : /\ i = j + Len(p) - 1 /\ (p \o Tail(s))[i] = s[j]
                                   /\ s[j][1] \notin Firsts
                                   /\ s[1][1] \notin Lasts
<1>1. /\ Len(p) \in Nat /\ Len(s) \in Nat \ {0}
      /\ Len(p \o Tail(s)) = Len(p) + Len(s) - 1
      /\ \A n \in 1 .. Len(p) : (p \o Tail(s))[n] = p[n]
      /\ \A n \in Len(p) + 1 .. Len(p) + Len(s) - 1 : (p \o Tail(s))[n] = s[n - Len(p) + 1]
  BY Behind
<1>2. CASE i \in 1 .. Len(p)
  BY <1>1, <1>2
<1>3. CASE i \notin 1 .. Len(p)
  <2>1. i \in Len(p) + 1 .. Len(p) + Len(s) - 1 /\ i - Len(p) + 1 \in 2 .. Len(s)
    BY <1>1, <1>3
  <2>2. (p \o Tail(s))[i] = s[i - Len(p) + 1]
    BY <1>1, <2>1
  <2>3. s[i - Len(p) + 1][1] \notin Firsts /\ s[1][1] \notin Lasts
    BY <1>1, <2>1 DEF FirstAndLast
  <2>4. i = (i - Len(p) + 1) + Len(p) - 1
    BY <1>1, <2>1
  <2> QED
    BY <2>1, <2>2, <2>3, <2>4
<1> QED
  BY <1>2, <1>3

LEMMA ShapeKept ==
  ASSUME Typed, Shape, held' \in [Users -> SUBSET Entries], \A u \in Users : held[u] \subseteq held'[u],
         NEW t \in Threads, todo[t] # <<>>, NEW p \in Seq(AllSteps), Then(t, p),
         Follows(todo[t][1], p, Mine(t)'),
         \A u \in Threads \ {t} : At(u, "reload") => entry'[Arg(u)].state # "Loading",
         todo[t][1][1] \in Waits /\ p = <<>> => entry'[Arg(t)].state # "Loading"
  PROVE  Shape'
<1> DEFINE s == todo[t]
           q == p \o Tail(s)
<1>1. /\ todo' \in [Threads -> Seq(AllSteps)] /\ todo'[t] = q
      /\ \A u \in Threads \ {t} : todo'[u] = todo[u]
      /\ s \in Seq(AllSteps) /\ s[1] \in AllSteps
  BY Moved DEF Typed
<1>2. \A u \in Threads : Mine(u) \subseteq Mine(u)'
  BY DEF Mine
<1>3. \A u \in Threads : /\ Backed(todo[u], Mine(u)) /\ ReloadWaits(todo[u]) /\ UnparkClaims(todo[u])
                         /\ FirstAndLast(todo[u]) /\ ForceEnds(todo[u])
  BY DEF Shape
<1>4. Fits(s[1], p, Mine(t)') /\ s # <<>> /\ Backed(s, Mine(t)) /\ Mine(t) \subseteq Mine(t)'
  BY <1>2, <1>3 DEF Follows
<1> HIDE DEF s, q
<1>5. Backed(p \o Tail(s), Mine(t)')
  BY <1>1, <1>4, FitsBacked
<1>6. /\ ReloadWaits(q) /\ UnparkClaims(q) /\ FirstAndLast(q) /\ ForceEnds(q)
  BY <1>1, <1>3, <1>4, FitsOrder DEF s, q
<1>7. ASSUME NEW u \in Threads \ {t} PROVE Backed(todo'[u], Mine(u)')
  BY <1>1, <1>2, <1>3, SMTT(60) DEF Backed
<1>8. ASSUME q # <<>>, q[1][1] = "reload" PROVE entry'[q[1][2]].state # "Loading"
  <2>1. q \in Seq(AllSteps) /\ 1 \in 1 .. Len(q)
    BY <1>1, <1>8, Behind, EmptySeq DEF s, q
  <2>2. CASE 1 \in 1 .. Len(p) /\ q[1] = p[1]
    BY <1>8, <2>2 DEF Follows, Fits
  <2>3. CASE \E j \in 2 .. Len(s) : 1 = j + Len(p) - 1 /\ q[1] = s[j]
    <3>1. PICK j \in 2 .. Len(s) : 1 = j + Len(p) - 1 /\ q[1] = s[j]
      BY <2>3
    <3>2. j = 2 /\ Len(p) = 0 /\ 2 \in 1 .. Len(s) /\ p = <<>>
      BY <3>1, EmptySeq, LenProperties
    <3>3. ReloadWaits(s)
      BY <1>3 DEF s
    <3>4. s[1][1] \in Waits /\ s[1][2] = q[1][2]
      BY <1>8, <3>1, <3>2, <3>3 DEF ReloadWaits
    <3> QED
      BY <3>2, <3>4 DEF Arg, s
  <2> QED
    BY <1>1, <1>3, <1>4, <2>1, <2>2, <2>3, Origin, SMTT(60) DEF s, q
<1>9. ASSUME NEW u \in Threads, At(u, "reload")' PROVE (Me(u).state # "Loading")'
  <2>1. CASE u = t
    BY <1>1, <1>8, <1>9, <2>1 DEF At, Me, Arg
  <2>2. CASE u # t
    BY <1>1, <1>9, <2>2 DEF At, Me, Arg
  <2> QED
    BY <2>1, <2>2
<1>10. ASSUME NEW u \in LaneThreads PROVE LaneLike(todo'[u])
  <2>1. LaneLike(todo[u])
    BY DEF Shape
  <2>2. CASE u = t
    <3>1. 1 \in 1 .. Len(s)
      BY <1>1, <1>4, EmptySeq, LenProperties
    <3>2. s[1][1] \in LaneSteps
      BY <2>1, <2>2, <3>1 DEF LaneLike, s
    <3>3. \A i \in 1 .. Len(p) : p[i][1] \in LaneSteps
      BY <3>2 DEF Follows, Suits, s
    <3>4. s[1][1] \in TaskEnds /\ p # <<>> => p[Len(p)][1] \in TaskEnds
      BY DEF Follows, s
    <3>5. LaneLike(s)
      BY <2>1, <2>2 DEF s
    <3> QED
      BY <1>1, <1>4, <2>2, <3>3, <3>4, <3>5, FitsLane DEF q
  <2>3. CASE u # t
    BY <1>1, <2>1, <2>3 DEF Threads
  <2> QED
    BY <2>2, <2>3
<1>11. Inside("forceLoad")' \subseteq Inside("forceLoad")
  <2>1. ASSUME NEW u \in Users, NEW n \in DOMAIN todo'[u], todo'[u][n] = EndOfForce
        PROVE  \E m \in DOMAIN todo[u] : todo[u][m] = EndOfForce
    <3>1. CASE u = t
      <4>1. n \in 1 .. Len(q) /\ q[n] = EndOfForce
        BY <1>1, <2>1, <3>1 DEF Threads
      <4>2. ~(n \in 1 .. Len(p) /\ q[n] = p[n])
        BY <4>1 DEF Follows, Suits
      <4>3. \E j \in 2 .. Len(s) : q[n] = s[j]
        BY <1>1, <1>3, <1>4, <4>1, <4>2, Origin, SMTT(60) DEF s, q
      <4>4. PICK j \in 2 .. Len(s) : q[n] = s[j]
        BY <4>3
      <4>5. j \in DOMAIN s
        BY <1>1
      <4> QED
        BY <3>1, <4>1, <4>4, <4>5 DEF s
    <3>2. CASE u # t
      BY <1>1, <2>1, <3>2 DEF Threads
    <3> QED
      BY <3>1, <3>2
  <2> QED
    BY <2>1 DEF Inside, Steps, EndOfForce
<1>12. \A u, v \in Inside("forceLoad")' : u = v
  BY <1>11 DEF Shape
<1> QED
  BY <1>1, <1>5, <1>6, <1>7, <1>9, <1>10, <1>12, <1>3 DEF Shape, q, s

\* No thread has a step of these kinds it did not have.
NoNew(kinds) ==
  \A u \in Threads : \A i \in DOMAIN todo'[u] : todo'[u][i][1] \in kinds =>
    \E j \in DOMAIN todo[u] : todo[u][j] = todo'[u][i]

LEMMA Named1 ==
  ASSUME Typed, Unknown, NEW t \in Threads, NEW i \in DOMAIN todo[t], NEW x \in Entries, todo[t][i] \in Naming(x)
  PROVE  x \in Live
<1>1. todo \in [Threads -> Seq(AllSteps)] /\ i \in 1 .. Len(todo[t])
  BY DEF Typed
<1>2. StepsIn(Naming(x)) # 0
  BY <1>1, Someone
<1> QED
  BY <1>2 DEF Unknown

LEMMA DoomKept ==
  ASSUME Typed, Unknown, Doom, NoNew(ForSets),
         \A x \in Live : entry[x].count = 0 /\ x \notin published \cup fresh
                           => entry'[x].count = 0 /\ x \notin published' \cup fresh'
  PROVE  Doom'
<1> SUFFICES ASSUME NEW u \in Threads, NEW i \in DOMAIN todo'[u], NEW x \in Entries, Dooms(todo'[u][i], x)
             PROVE  entry'[x].count = 0 /\ x \notin published' \cup fresh'
  BY DEF Doom
<1>1. todo'[u][i][1] \in ForSets
  BY DEF Dooms, ForSets
<1>2. PICK j \in DOMAIN todo[u] : todo[u][j] = todo'[u][i]
  BY <1>1 DEF NoNew
<1>3. entry[x].count = 0 /\ x \notin published \cup fresh
  BY <1>2 DEF Doom
<1>4. todo[u][j] \in AllSteps
  BY DEF Typed
<1>5. todo[u][j] \in Naming(x)
  BY <1>2, <1>4 DEF Dooms, Naming, Takes, ForSets
<1>6. x \in Live
  BY <1>5, Named1
<1> QED
  BY <1>3, <1>6

LEMMA DispatchingKept ==
  ASSUME Dispatching, UNCHANGED <<incoming, queued, requests, running>>, Full => Full',
         \A u \in Threads : Dispatches(u) \/ Dispatches(u)' => todo[u] # <<>> /\ todo'[u] # <<>> /\ todo'[u][1] = todo[u][1],
         StepsIn(For({"dispatch"}, None))' = 0 => StepsIn(For({"dispatch"}, None)) = 0
  PROVE  Dispatching'
<1>1. \A u \in Threads : Dispatches(u) <=> Dispatches(u)'
  BY DEF Dispatches
<1>2. \A u \in Threads : At(u, "start")' \/ At(u, "handled")' => Dispatches(u)'
  BY DEF At, Dispatches, Dispatcher
<1>3. \A u \in Threads : (At(u, "start")' => At(u, "start") /\ Arg(u)' = Arg(u))
                         /\ (At(u, "handled")' => At(u, "handled") /\ Arg(u)' = Arg(u))
  BY <1>1, <1>2 DEF At, Arg
<1>5. \A u, v \in Threads : Dispatches(u)' /\ Dispatches(v)' => u = v
  BY <1>1 DEF Dispatching
<1>6. requests' # 0 => \E u \in Threads : Dispatches(u)'
  BY <1>1 DEF Dispatching
<1>7. \A u \in Threads : Dispatches(u)' => todo'[u][1][2] \in 1 .. requests'
  BY <1>1 DEF Dispatching
<1>8. StepsIn(For({"dispatch"}, None))' = 0 =>
       /\ requests' = 0 => incoming' = <<>> /\ Full'
       /\ \A u \in Threads : /\ At(u, "start")' /\ Arg(u)' = requests' => incoming' = <<>>
                             /\ At(u, "handled")' /\ Arg(u)' = requests' => incoming' = <<>> /\ Full'
  BY <1>3 DEF Dispatching
<1> QED
  BY <1>5, <1>6, <1>7, <1>8 DEF Dispatching

\* Nothing of the kinds that the lists and the end of the destructor look for.
Still(p) == \A i \in 1 .. Len(p) : p[i][1] \notin ForSets \cup {"destroyAll"}

LEMMA EndingKept ==
  ASSUME Typed, Shape, Ending, NEW t \in Threads, todo[t] # <<>>, NEW p \in Seq(AllSteps), Then(t, p),
         Follows(todo[t][1], p, Mine(t)'), Still(p), todo[t][1][1] # "destroyAll",
         gone' = gone, gone => held' = held,
         todo[t][1][1] \in {"release", "enqueue"} => tasks' = tasks /\ replaced' = replaced
  PROVE  Ending'
<1> DEFINE s == todo[t]
           q == p \o Tail(s)
<1>1. /\ todo' \in [Threads -> Seq(AllSteps)] /\ todo'[t] = q
      /\ \A u \in Threads \ {t} : todo'[u] = todo[u]
      /\ s \in Seq(AllSteps) /\ s[1] \in AllSteps
  BY Moved DEF Typed
<1>2. FirstAndLast(s) /\ s # <<>> /\ 1 \in 1 .. Len(s) /\ Len(s) \in Nat
  BY <1>1, EmptySeq, LenProperties DEF Shape
<1>3. \A i \in DOMAIN q : \/ i \in 1 .. Len(p) /\ q[i] = p[i]
                          \/ \E j \in 2 .. Len(s) : q[i] = s[j] /\ s[j][1] \notin Firsts /\ s[1][1] \notin Lasts
  <2> HIDE DEF s
  <2> TAKE i \in DOMAIN q
  <2>1. i \in 1 .. Len(p \o Tail(s))
    BY <1>1, <1>2, Behind
  <2>2. \/ i \in 1 .. Len(p) /\ (p \o Tail(s))[i] = p[i]
        \/ \E j \in 2 .. Len(s) : /\ i = j + Len(p) - 1 /\ (p \o Tail(s))[i] = s[j]
                                  /\ s[j][1] \notin Firsts
                                  /\ s[1][1] \notin Lasts
    BY <1>1, <1>2, <2>1, Origin, Zenon
  <2> QED
    BY <2>2
<1>4. \A i \in 1 .. Len(p) : Suits(s[1], p[i]) /\ p[i][1] \notin ForSets \cup {"destroyAll"}
  BY DEF Follows, Still
<1>5. DOMAIN s = 1 .. Len(s) /\ \A j \in 2 .. Len(s) : j \in DOMAIN s
  BY <1>1
<1> HIDE DEF s, q
<1>6. ASSUME gone'
      PROVE  /\ \A u \in Users : held'[u] = {}
             /\ \A u, v \in Users : todo'[u] # <<>> /\ todo'[v] # <<>> => u = v
             /\ \A u \in Threads : \A i \in DOMAIN todo'[u] : todo'[u][i][1] \in LateSteps
  <2>1. gone /\ held' = held
    BY <1>6
  <2>2. \A u \in Users : held'[u] = {}
    BY <2>1 DEF Ending
  <2>3. \A u, v \in Users : todo'[u] # <<>> /\ todo'[v] # <<>> => u = v
    BY <1>1, <1>2, <2>1 DEF Ending, Threads, s
  <2>4. s[1][1] \in LateSteps
    BY <1>2, <1>5, <2>1 DEF Ending, s
  <2>5. \A i \in DOMAIN q : q[i][1] \in LateSteps
    <3> TAKE i \in DOMAIN q
    <3>1. CASE i \in 1 .. Len(p) /\ q[i] = p[i]
      BY <1>4, <2>4, <3>1 DEF Suits
    <3>2. CASE \E j \in 2 .. Len(s) : q[i] = s[j]
      BY <1>5, <2>1, <3>2 DEF Ending, s
    <3> QED
      BY <1>3, <3>1, <3>2
  <2>6. \A u \in Threads : \A i \in DOMAIN todo'[u] : todo'[u][i][1] \in LateSteps
    BY <1>1, <2>1, <2>5 DEF Ending
  <2> QED
    BY <2>2, <2>3, <2>6
<1>7. ASSUME NEW u \in Threads, NEW i \in DOMAIN todo'[u]
      PROVE  /\ todo'[u][i][1] \in {"lastReads", "lastTasks", "destroyAll"} => gone' /\ u \in Users
             /\ todo'[u][i][1] = "destroyAll" =>
                  /\ tasks' = 0 /\ replaced' = <<>>
                  /\ \A j \in DOMAIN todo'[u] : todo'[u][j][1] \in {"release", "enqueue", "destroyAll"}
                  /\ \A v \in Threads \ {u} : todo'[v] = <<>>
             /\ ~(gone' /\ todo'[u][i][1] = "destroy")
  <2>1. CASE u # t
    <3>1. todo'[u] = todo[u]
      BY <1>1, <2>1
    <3>2. ~(todo[u][i][1] = "destroyAll") /\ ~(gone /\ todo[u][i][1] = "destroy")
      BY <1>2, <2>1, <3>1 DEF Ending, s
    <3> QED
      BY <3>1, <3>2 DEF Ending
  <2>2. CASE u = t
    <3>0. i \in DOMAIN q /\ todo'[u] = q
      BY <1>1, <2>2
    <3>1. CASE i \in 1 .. Len(p) /\ q[i] = p[i]
      <4>1. q[i][1] \notin ForSets \cup {"destroyAll"} /\ (q[i][1] \in {"lastReads", "lastTasks"} => s[1][1] = "lastReads")
        BY <1>4, <3>1 DEF Suits
      <4>2. s[1][1] = "lastReads" => gone /\ t \in Users
        BY <1>2, <1>5 DEF Ending, s
      <4>3. "destroy" \in ForSets
        BY DEF ForSets
      <4> QED
        BY <2>2, <3>0, <4>1, <4>2, <4>3
    <3>2. CASE \E j \in 2 .. Len(s) : q[i] = s[j] /\ s[j][1] \notin Firsts /\ s[1][1] \notin Lasts
      <4>1. PICK j \in 2 .. Len(s) : q[i] = s[j] /\ s[j][1] \notin Firsts /\ s[1][1] \notin Lasts
        BY <3>2
      <4>2. j \in DOMAIN s /\ "destroy" \in Firsts
        BY <1>5 DEF Firsts, ForSets
      <4>3. q[i][1] \in {"lastReads", "lastTasks", "destroyAll"} => gone /\ t \in Users
        BY <4>1, <4>2 DEF Ending, s
      <4>4. ASSUME q[i][1] = "destroyAll"
            PROVE  /\ tasks' = 0 /\ replaced' = <<>>
                   /\ \A k \in DOMAIN q : q[k][1] \in {"release", "enqueue", "destroyAll"}
                   /\ \A v \in Threads \ {u} : todo'[v] = <<>>
        <5>1. /\ tasks = 0 /\ replaced = <<>>
              /\ \A k \in DOMAIN s : s[k][1] \in {"release", "enqueue", "destroyAll"}
              /\ \A v \in Threads \ {t} : todo[v] = <<>>
          BY <4>1, <4>2, <4>4 DEF Ending, s
        <5>2. s[1][1] \in {"release", "enqueue"}
          BY <1>2, <1>5, <5>1 DEF s
        <5>3. tasks' = 0 /\ replaced' = <<>>
          BY <5>1, <5>2 DEF s
        <5>4. \A k \in 1 .. Len(p) : p[k][1] = "enqueue"
          BY <1>4, <5>2 DEF Suits
        <5>5. \A k \in DOMAIN q : q[k][1] \in {"release", "enqueue", "destroyAll"}
          BY <1>3, <1>5, <5>1, <5>4
        <5> QED
          BY <1>1, <2>2, <5>1, <5>3, <5>5
      <4> QED
        BY <2>2, <3>0, <4>1, <4>2, <4>3, <4>4
    <3> QED
      BY <1>3, <3>0, <3>1, <3>2
  <2> QED
    BY <2>1, <2>2
<1> QED
  BY <1>6, <1>7 DEF Ending

LEMMA CalmStep ==
  ASSUME Typed, Shape, NEW t \in Threads, todo[t] # <<>>, NEW p \in Seq(AllSteps), Then(t, p), Calm(p)
  PROVE  /\ NoNew(ForSets)
         /\ todo[t][1][1] \notin Dispatcher =>
              \A u \in Threads : Dispatches(u) \/ Dispatches(u)' => todo[u] # <<>> /\ todo'[u] # <<>> /\ todo'[u][1] = todo[u][1]
         /\ todo[t][1][1] # "dispatch" => (StepsIn(For({"dispatch"}, None))' = 0 => StepsIn(For({"dispatch"}, None)) = 0)
<1> DEFINE s == todo[t]
           q == p \o Tail(s)
<1>1. /\ todo' \in [Threads -> Seq(AllSteps)] /\ todo'[t] = q
      /\ \A u \in Threads \ {t} : todo'[u] = todo[u]
      /\ s \in Seq(AllSteps) /\ s[1] \in AllSteps
      /\ \A G : StepsIn(G)' = StepsIn(G) - One(s[1] \in G) + Count(p, G)
  BY Moved DEF Typed
<1>2. FirstAndLast(s) /\ s # <<>>
  BY DEF Shape
<1>3. \A i \in 1 .. Len(p) : p[i][1] \notin Dispatcher \cup ForSets
  BY DEF Calm
<1>4. q \in Seq(AllSteps) /\ DOMAIN q = 1 .. Len(q) /\ DOMAIN s = 1 .. Len(s)
  BY <1>1, <1>2, Behind
<1> HIDE DEF s, q
<1>5. ASSUME NEW i \in 1 .. Len(q), q[i][1] \in Dispatcher \cup ForSets PROVE FALSE
  <2>1. i \in 1 .. Len(p \o Tail(s))
    BY DEF q
  <2>2. \/ i \in 1 .. Len(p) /\ (p \o Tail(s))[i] = p[i]
        \/ \E j \in 2 .. Len(s) : /\ i = j + Len(p) - 1 /\ (p \o Tail(s))[i] = s[j]
                                  /\ s[j][1] \notin Firsts
                                  /\ s[1][1] \notin Lasts
    BY <1>1, <1>2, <2>1, Origin, Zenon
  <2> QED
    BY <1>3, <1>5, <2>2 DEF Firsts, q
<1>6. NoNew(ForSets)
  <2> SUFFICES ASSUME NEW u \in Threads, NEW i \in DOMAIN todo'[u], todo'[u][i][1] \in ForSets
               PROVE  \E j \in DOMAIN todo[u] : todo[u][j] = todo'[u][i]
    BY DEF NoNew
  <2>1. u # t
    BY <1>1, <1>4, <1>5
  <2> QED
    BY <1>1, <2>1
<1>7. ASSUME s[1][1] \notin Dispatcher, NEW u \in Threads, Dispatches(u) \/ Dispatches(u)'
      PROVE  todo[u] # <<>> /\ todo'[u] # <<>> /\ todo'[u][1] = todo[u][1]
  <2>1. ~(u = t /\ Dispatches(u))
    BY <1>7 DEF Dispatches, s
  <2>2. ~(u = t /\ Dispatches(u)')
    <3> SUFFICES ASSUME q # <<>>, q[1][1] \in Dispatcher PROVE FALSE
      BY <1>1 DEF Dispatches
    <3>1. 1 \in 1 .. Len(q)
      BY <1>4, EmptySeq, LenProperties
    <3> QED
      BY <1>5, <3>1
  <2>3. todo'[u] = todo[u]
    BY <1>1, <1>7, <2>1, <2>2
  <2> QED
    BY <1>7, <2>3 DEF Dispatches
<1>8. ASSUME s[1][1] # "dispatch", StepsIn(For({"dispatch"}, None))' = 0
      PROVE  StepsIn(For({"dispatch"}, None)) = 0
  <2> DEFINE G == For({"dispatch"}, None)
  <2>1. s[1] \notin G
    BY <1>8 DEF For
  <2>2. Count(p, G) \in Nat /\ StepsIn(G) \in Nat
    BY CountType, Someone DEF Typed
  <2>3. StepsIn(G)' = StepsIn(G) + Count(p, G)
    BY <1>1, <2>1, <2>2 DEF One
  <2> QED
    BY <1>8, <2>2, <2>3
<1> QED
  BY <1>6, <1>7, <1>8 DEF s

LEMMA StillStep ==
  ASSUME Typed, Shape, NEW t \in Threads, todo[t] # <<>>, NEW p \in Seq(AllSteps), Then(t, p), Still(p)
  PROVE  NoNew(ForSets)
<1> DEFINE s == todo[t]
           q == p \o Tail(s)
<1>1. /\ todo' \in [Threads -> Seq(AllSteps)] /\ todo'[t] = q
      /\ \A u \in Threads \ {t} : todo'[u] = todo[u]
      /\ s \in Seq(AllSteps) /\ s[1] \in AllSteps
  BY Moved DEF Typed
<1>2. FirstAndLast(s) /\ s # <<>>
  BY DEF Shape
<1>3. q \in Seq(AllSteps) /\ DOMAIN q = 1 .. Len(q)
  BY <1>1, <1>2, Behind
<1> HIDE DEF s, q
<1> SUFFICES ASSUME NEW u \in Threads, NEW i \in DOMAIN todo'[u], todo'[u][i][1] \in ForSets
             PROVE  \E j \in DOMAIN todo[u] : todo[u][j] = todo'[u][i]
  BY DEF NoNew
<1>4. CASE u = t
  <2>1. i \in 1 .. Len(p \o Tail(s)) /\ todo'[u][i] = (p \o Tail(s))[i]
    BY <1>1, <1>3, <1>4 DEF q
  <2>2. \/ i \in 1 .. Len(p) /\ (p \o Tail(s))[i] = p[i]
        \/ \E j \in 2 .. Len(s) : /\ i = j + Len(p) - 1 /\ (p \o Tail(s))[i] = s[j]
                                  /\ s[j][1] \notin Firsts
                                  /\ s[1][1] \notin Lasts
    BY <1>1, <1>2, <2>1, Origin, Zenon
  <2> QED
    BY <2>1, <2>2 DEF Firsts, Still
<1>5. CASE u # t
  BY <1>1, <1>5
<1> QED
  BY <1>4, <1>5

\* What a thread does next.
LEMMA NextStep ==
  ASSUME Typed, Shape, NEW t \in Threads, todo[t] # <<>>, NEW p \in Seq(AllSteps), Then(t, p)
  PROVE  /\ todo' \in [Threads -> Seq(AllSteps)]
         /\ \A u \in Threads \ {t} : todo'[u] = todo[u]
         /\ p # <<>> => todo'[t] # <<>> /\ todo'[t][1] = p[1]
         /\ p = <<>> => todo'[t] = <<>> \/ todo'[t][1][1] \notin Firsts
<1> DEFINE s == todo[t]
           q == p \o Tail(s)
<1>1. /\ todo' \in [Threads -> Seq(AllSteps)] /\ todo'[t] = q
      /\ \A u \in Threads \ {t} : todo'[u] = todo[u]
      /\ s \in Seq(AllSteps) /\ s[1] \in AllSteps
  BY Moved DEF Typed
<1>2. FirstAndLast(s) /\ s # <<>> /\ Len(s) \in Nat \ {0} /\ Len(p) \in Nat
  BY <1>1, EmptySeq, LenProperties DEF Shape
<1>3. /\ q \in Seq(AllSteps) /\ Len(q) = Len(p) + Len(s) - 1
      /\ \A i \in 1 .. Len(p) : q[i] = p[i]
      /\ \A i \in Len(p) + 1 .. Len(p) + Len(s) - 1 : q[i] = s[i - Len(p) + 1]
  BY <1>1, <1>2, Behind
<1> HIDE DEF s, q
<1>4. ASSUME p # <<>> PROVE q # <<>> /\ q[1] = p[1]
  <2>1. Len(p) # 0
    BY <1>4, EmptySeq
  <2> QED
    BY <1>2, <1>3, <2>1, EmptySeq
<1>5. ASSUME p = <<>>, q # <<>> PROVE q[1][1] \notin Firsts
  <2>1. Len(p) = 0 /\ Len(q) # 0
    BY <1>3, <1>5, EmptySeq
  <2>2. 2 \in 1 .. Len(s) /\ q[1] = s[2]
    BY <1>2, <1>3, <2>1
  <2> QED
    BY <1>2, <2>2 DEF FirstAndLast
<1> QED
  BY <1>1, <1>4, <1>5

\* A step that is none of the dispatcher or of the end of the destructor, and
\* frees no entry.
LEMMA OrdinaryStep ==
  ASSUME Typed, Shape, Unknown, Doom, Dispatching, Ending,
         NEW t \in Threads, todo[t] # <<>>, NEW p \in Seq(AllSteps), Then(t, p),
         Follows(todo[t][1], p, Mine(t)'), Calm(p), todo[t][1][1] \notin Dispatcher \cup {"dispatch", "destroyAll"},
         UNCHANGED <<incoming, queued, requests, running, lane, gone>>,
         held' \in [Users -> SUBSET Entries], \A u \in Users : held[u] \subseteq held'[u], gone => held' = held,
         todo[t][1][1] \in {"release", "enqueue"} => tasks' = tasks /\ replaced' = replaced,
         \A x \in Live : entry[x].count = 0 /\ x \notin published \cup fresh
                           => entry'[x].count = 0 /\ x \notin published' \cup fresh',
         \A u \in Threads \ {t} : At(u, "reload") => entry'[Arg(u)].state # "Loading",
         todo[t][1][1] \in Waits /\ p = <<>> => entry'[Arg(t)].state # "Loading"
  PROVE  Shape' /\ Doom' /\ Dispatching' /\ Ending'
<1>1. Shape'
  BY ShapeKept
<1>2. NoNew(ForSets)
  BY CalmStep
<1>3. Doom'
  BY <1>2, DoomKept
<1>4. /\ \A u \in Threads : Dispatches(u) \/ Dispatches(u)' => todo[u] # <<>> /\ todo'[u] # <<>> /\ todo'[u][1] = todo[u][1]
      /\ StepsIn(For({"dispatch"}, None))' = 0 => StepsIn(For({"dispatch"}, None)) = 0
  BY CalmStep
<1>5. Dispatching'
  <2>1. Full => Full'
    BY DEF Full, loadLimit
  <2> QED
    BY <1>4, <2>1, DispatchingKept
<1>6. Ending'
  <2>1. Still(p)
    BY DEF Calm, Still
  <2> QED
    BY <2>1, EndingKept
<1> QED
  BY <1>1, <1>3, <1>5, <1>6

-----------------------------------------------------------------------------
(* The accounts of an entry. *)

Unparkers == {"unpark", "startParked"}
PendingKinds == {"parkOrLoad", "unpark", "startParked"}

LEMMA Amounts ==
  ASSUME Typed, NEW x \in Entries
  PROVE  /\ IsFiniteSet(Holders(x)) /\ Cardinality(Holders(x)) \in Nat
         /\ Cardinality(Holders(x)) = 0 <=> \A u \in Users : x \notin held[u]
         /\ Waiting \in Seq(Entries) /\ Count(Waiting, {x}) \in Nat /\ Count(replaced, {x}) \in Nat
         /\ \A G : StepsIn(G) \in Nat
         /\ entry[x].count \in Nat /\ {entry[x].queued, entry[x].parked, entry[x].claimed, entry[x].pending} \subseteq BOOLEAN
         /\ entry[x].state \in {"Loading", "Ready", "Failed"}
<1>1. TypeOK
  BY DEF Typed
<1>2. IsFiniteSet(Users)
  BY CacheAssumption
<1>3. Holders(x) \in SUBSET Users
  BY DEF Holders
<1>4. IsFiniteSet(Holders(x))
  BY <1>2, <1>3, FS_Subset
<1>5. Cardinality(Holders(x)) \in Nat /\ (Cardinality(Holders(x)) = 0 <=> Holders(x) = {})
  BY <1>4, FS_CardinalityType, FS_EmptySet
<1>6. Holders(x) = {} <=> \A u \in Users : x \notin held[u]
  BY DEF Holders
<1>7. incoming \in Seq(Entries) /\ queued \in Seq(Entries) /\ laneQueue \in Seq(Entries) /\ replaced \in Seq(Entries)
  BY <1>1 DEF TypeOK
<1>8. Waiting \in Seq(Entries)
  BY <1>7 DEF Waiting
<1>9. Count(Waiting, {x}) \in Nat /\ Count(replaced, {x}) \in Nat
  BY <1>7, <1>8, CountType
<1>10. \A G : StepsIn(G) \in Nat
  BY Someone DEF Typed
<1>11. /\ entry[x].count \in Nat /\ {entry[x].queued, entry[x].parked, entry[x].claimed, entry[x].pending} \subseteq BOOLEAN
       /\ entry[x].state \in {"Loading", "Ready", "Failed"}
  BY <1>1 DEF TypeOK
<1> QED
  BY <1>4, <1>5, <1>6, <1>8, <1>9, <1>10, <1>11

\* A step that leaves an entry alone: no step for it comes or goes, and nothing
\* else with it changes.
Unnamed(x) == \A G : G \subseteq Naming(x) => StepsIn(G)' = StepsIn(G)
Spared(x) ==
  /\ entry'[x] = entry[x]
  /\ Holders(x)' = Holders(x)
  /\ Count(Waiting, {x})' = Count(Waiting, {x}) /\ Count(replaced, {x})' = Count(replaced, {x})
  /\ x \in disk' <=> x \in disk
  /\ x \in unused' <=> x \in unused
  /\ x \in published' \cup fresh' => x \in published \cup fresh
  /\ gone => gone'

LEMMA ForNames ==
  ASSUME NEW x \in Entries
  PROVE  /\ \A K : K \subseteq EntryKinds => For(K, x) \subseteq Naming(x)
         /\ Unusing(x) \subseteq Naming(x)
         /\ Counting \subseteq EntryKinds /\ Loaders \subseteq EntryKinds /\ Comers \subseteq EntryKinds
         /\ Tasking \subseteq EntryKinds /\ Unparkers \subseteq EntryKinds /\ PendingKinds \subseteq EntryKinds
BY DEF For, Naming, Unusing, Takes, ForSets, EntryKinds, Counting, Passing, Waits, Loaders, Comers, Tasking,
       Unparkers, PendingKinds

LEMMA SparedKept ==
  ASSUME NEW x \in Entries, Unnamed(x), Spared(x)
  PROVE  /\ x \in Live' <=> x \in Live
         /\ CountOk(x) => CountOk(x)'
         /\ LoadOk(x) => LoadOk(x)'
         /\ QueueOk(x) => QueueOk(x)'
         /\ StepsIn(Naming(x))' = StepsIn(Naming(x))
<1>1. /\ StepsIn(For(Counting, x))' = StepsIn(For(Counting, x)) /\ StepsIn(For(Loaders, x))' = StepsIn(For(Loaders, x))
      /\ StepsIn(For(Comers, x))' = StepsIn(For(Comers, x)) /\ StepsIn(For(Tasking, x))' = StepsIn(For(Tasking, x))
      /\ StepsIn(For(Unparkers, x))' = StepsIn(For(Unparkers, x))
      /\ StepsIn(For(PendingKinds, x))' = StepsIn(For(PendingKinds, x))
      /\ StepsIn(Unusing(x))' = StepsIn(Unusing(x)) /\ StepsIn(Naming(x))' = StepsIn(Naming(x))
  BY ForNames DEF Unnamed
<1>2. x \in Live' <=> x \in Live
  BY DEF Live, Spared
<1>3. CountOk(x) => CountOk(x)'
  BY <1>1 DEF CountOk, Having, Spared, One
<1>4. LoadOk(x) => LoadOk(x)'
  BY <1>1 DEF LoadOk, Loads, Coming, TasksOf, Spared, One, Unparkers, PendingKinds
<1>5. QueueOk(x) => QueueOk(x)'
  BY <1>1 DEF QueueOk, Queue, Spared, One
<1> QED
  BY <1>1, <1>2, <1>3, <1>4, <1>5

\* A step that concerns one entry only.
LEMMA OneEntry ==
  ASSUME Accounts, Unknown, NEW e \in Entries,
         \A x \in Entries \ {e} : Unnamed(x) /\ Spared(x),
         entry'[e].life = "live",
         CountOk(e)', LoadOk(e)', QueueOk(e)'
  PROVE  Accounts' /\ Unknown'
<1>1. Accounts'
  <2> SUFFICES ASSUME NEW x \in Live' PROVE (CountOk(x) /\ LoadOk(x) /\ QueueOk(x))'
    BY DEF Accounts
  <2>1. x \in Entries
    BY DEF Live
  <2>2. CASE x # e
    <3>1. Unnamed(x) /\ Spared(x)
      BY <2>1, <2>2
    <3>2. x \in Live
      BY <2>1, <3>1, SparedKept
    <3>3. CountOk(x) /\ LoadOk(x) /\ QueueOk(x)
      BY <3>2 DEF Accounts
    <3> QED
      BY <2>1, <3>1, <3>3, SparedKept
  <2> QED
    BY <2>2
<1>2. Unknown'
  <2> SUFFICES ASSUME NEW x \in Entries, x \notin Live'
               PROVE  /\ x \notin published' \cup fresh' \cup unused' \cup disk'
                      /\ Holders(x)' = {}
                      /\ Count(Waiting, {x})' = 0 /\ Count(replaced, {x})' = 0 /\ StepsIn(Naming(x))' = 0
                      /\ entry'[x].life = "freed" => ~entry'[x].pending
    BY DEF Unknown
  <2>1. x # e
    BY DEF Live
  <2>2. Unnamed(x) /\ Spared(x)
    BY <2>1
  <2>3. x \notin Live /\ StepsIn(Naming(x))' = StepsIn(Naming(x))
    BY <2>2, SparedKept
  <2> QED
    BY <2>2, <2>3 DEF Unknown, Spared
<1> QED
  BY <1>1, <1>2

\* A step for an entry at most, and what comes instead of it.
NamesOnly(h, p, e) ==
  /\ \A x \in Entries \ {e} : h \notin Naming(x)
  /\ \A i \in 1 .. Len(p) : \A x \in Entries \ {e} : p[i] \notin Naming(x)

LEMMA NotNamed ==
  ASSUME Typed, NEW t \in Threads, todo[t] # <<>>, NEW p \in Seq(AllSteps), Then(t, p),
         NEW x \in Entries, todo[t][1] \notin Naming(x), \A i \in 1 .. Len(p) : p[i] \notin Naming(x)
  PROVE  Unnamed(x)
<1> SUFFICES ASSUME NEW G, G \subseteq Naming(x) PROVE StepsIn(G)' = StepsIn(G)
  BY DEF Unnamed
<1>1. StepsIn(G)' = StepsIn(G) - One(todo[t][1] \in G) + Count(p, G)
  BY Moved DEF Typed
<1>2. Count(p, G) = 0
  BY CountType
<1>3. One(todo[t][1] \in G) = 0
  BY DEF One
<1>4. StepsIn(G) \in Nat
  BY Someone DEF Typed
<1> QED
  BY <1>1, <1>2, <1>3, <1>4

-----------------------------------------------------------------------------
(* Steps that change an entry, and nothing but that. *)

EntryType == [life : {"none", "live", "freed"}, key : Keys \cup {None}, count : Nat,
              queued : BOOLEAN, parked : BOOLEAN, claimed : BOOLEAN,
              state : {"Loading", "Ready", "Failed"}, reading : BOOLEAN, pending : BOOLEAN]

ReadSteps == {"bytesRead", "readOver", "readDone"}
Balanced ==
  /\ StepsIn({TaskDoneOnLane})' = StepsIn({TaskDoneOnLane})
  /\ StepsIn(Named(TaskSteps))' = StepsIn(Named(TaskSteps))
  /\ StepsIn(Named(ReadSteps))' = StepsIn(Named(ReadSteps))

LEMMA NoTask ==
  ASSUME Typed, NEW t \in Threads, todo[t] # <<>>, NEW p \in Seq(AllSteps), Then(t, p),
         todo[t][1][1] \notin TaskSteps, \A i \in 1 .. Len(p) : p[i][1] \notin TaskSteps
  PROVE  Balanced
<1>1. ASSUME NEW G, \A a \in G : a[1] \in TaskSteps PROVE StepsIn(G)' = StepsIn(G)
  <2>1. StepsIn(G)' = StepsIn(G) - One(todo[t][1] \in G) + Count(p, G)
    BY Moved DEF Typed
  <2>2. Count(p, G) = 0
    BY <1>1, CountType
  <2>3. One(todo[t][1] \in G) = 0
    BY <1>1 DEF One
  <2>4. StepsIn(G) \in Nat
    BY Someone DEF Typed
  <2> QED
    BY <2>1, <2>2, <2>3, <2>4
<1>2. \A a \in {TaskDoneOnLane} : a[1] \in TaskSteps
  BY DEF TaskDoneOnLane, TaskSteps
<1>3. \A a \in Named(TaskSteps) : a[1] \in TaskSteps
  BY DEF Named
<1>4. \A a \in Named(ReadSteps) : a[1] \in TaskSteps
  BY DEF Named, TaskSteps, ReadSteps
<1> QED
  BY <1>1, <1>2, <1>3, <1>4 DEF Balanced

LEMMA CountersKept ==
  ASSUME Counters, Balanced, UNCHANGED <<running, tasks, reads, laneQueue, disk, incoming, queued>>
  PROVE  Counters'
BY DEF Counters, Balanced, ReadSteps, Waiting

LEMMA Spares ==
  ASSUME OnlyEntries, NEW x, entry'[x] = entry[x]
  PROVE  Spared(x)
BY DEF OnlyEntries, Spared, mapVars, waitVars, countVars, laneVars, userVars, Holders, Waiting

LEMMA EntryStep ==
  ASSUME CacheInv, NEW t \in Threads, todo[t] # <<>>, NEW p \in Seq(AllSteps), Then(t, p), OnlyEntries,
         NEW e \in Live, NEW new \in EntryType, entry' = [entry EXCEPT ![e] = new], new.life = "live",
         Follows(todo[t][1], p, Mine(t)), Calm(p), NamesOnly(todo[t][1], p, e),
         todo[t][1][1] \notin Dispatcher \cup {"dispatch", "destroyAll"},
         Balanced,
         new.count # 0 => entry[e].count # 0 \/ e \in published \cup fresh,
         \/ new.state = "Loading" => entry[e].state = "Loading"
         \/ \A u \in Threads \ {t} : At(u, "reload") => Arg(u) # e,
         todo[t][1][1] \in Waits /\ p = <<>> => entry'[Arg(t)].state # "Loading",
         CountOk(e)', LoadOk(e)', QueueOk(e)'
  PROVE  CacheInv'
<1>1. /\ Typed /\ Numbered /\ Shape /\ Accounts /\ Unknown /\ Doom /\ Counters /\ Dispatching /\ Ending
      /\ e \in Entries
  BY DEF CacheInv, Live
<1>2. UNCHANGED <<published, fresh, freshCount, allLocks, unused, incoming, queued, requests, running, tasks, reads,
                  replaced, laneQueue, lane, disk, held, calls, gone>>
  BY DEF OnlyEntries, mapVars, waitVars, countVars, laneVars, userVars
<1>3. entry \in [Entries -> EntryType] /\ entry' \in [Entries -> EntryType]
  BY <1>1 DEF Typed, TypeOK, EntryType
<1>4. entry'[e] = new /\ \A x \in Entries \ {e} : entry'[x] = entry[x]
  BY <1>1, <1>3
<1>5. todo' \in [Threads -> Seq(AllSteps)]
  BY <1>1, Moved DEF Typed
<1>6. Typed'
  BY <1>1, <1>2, <1>3, <1>5 DEF Typed, TypeOK, EntryType
<1>7. Numbered'
  <2>1. \A x \in Entries : entry'[x].life # "none" <=> entry[x].life # "none"
    BY <1>4 DEF Live
  <2>2. {x \in Entries : entry'[x].life # "none"} = {x \in Entries : entry[x].life # "none"}
    BY <2>1
  <2> QED
    BY <1>1, <2>2 DEF Numbered
<1>8. Accounts' /\ Unknown'
  <2>1. ASSUME NEW x \in Entries \ {e} PROVE Unnamed(x) /\ Spared(x)
    <3>1. Spared(x)
      BY <1>4, Spares
    <3>2. todo[t][1] \notin Naming(x) /\ \A i \in 1 .. Len(p) : p[i] \notin Naming(x)
      BY DEF NamesOnly
    <3>3. Unnamed(x)
      BY <1>1, <3>2, NotNamed
    <3> QED
      BY <3>1, <3>3
  <2> QED
    BY <1>1, <1>4, <2>1, OneEntry
<1>9. Shape' /\ Doom' /\ Dispatching' /\ Ending'
  <2>1. Mine(t)' = Mine(t)
    BY <1>2 DEF Mine
  <2>2. held' \in [Users -> SUBSET Entries] /\ \A u \in Users : held[u] \subseteq held'[u]
    BY <1>1, <1>2 DEF Typed, TypeOK
  <2>3. \A x \in Live : entry[x].count = 0 /\ x \notin published \cup fresh
                          => entry'[x].count = 0 /\ x \notin published' \cup fresh'
    BY <1>2, <1>4 DEF Live
  <2>4. ASSUME NEW u \in Threads \ {t}, At(u, "reload") PROVE entry'[Arg(u)].state # "Loading"
    <3>1. Me(u).state # "Loading"
      BY <1>1, <2>4 DEF Shape
    <3>2. Arg(u) \in Entries
      <4>1. todo[u][1] \in AllSteps
        BY <1>1, <2>4, CountTail DEF Typed, At
      <4> QED
        BY <2>4, <4>1, StepTypes DEF At, Arg, EntryKinds, Counting
    <3> QED
      BY <1>4, <2>4, <3>1, <3>2 DEF Me
  <2>5. Follows(todo[t][1], p, Mine(t)')
    BY <2>1
  <2>6. UNCHANGED <<incoming, queued, requests, running, lane, gone>> /\ held' = held /\ tasks' = tasks /\ replaced' = replaced
    BY <1>2
  <2> QED
    BY <1>1, <2>2, <2>3, <2>4, <2>5, <2>6, OrdinaryStep
<1>10. Counters'
  BY <1>1, <1>2, CountersKept
<1> QED
  BY <1>6, <1>7, <1>8, <1>9, <1>10 DEF CacheInv

\* What comes instead of a step, one by one.
Apt(h, a) ==
  /\ Suits(h, a)
  /\ a[1] \in Lasts \/ a = TaskDoneOnLane => h[1] \in Lasts
  /\ Forces(a) => Forces(h)

Covered(h, a, mine) == a[1] \in Passing => a[2] \in mine \/ (h[1] \in Passing /\ h[2] = a[2])
Backs(a, b) == b[1] \in Counting /\ b[2] = a[2]

LEMMA FollowsNone ==
  ASSUME NEW h, NEW mine
  PROVE  Follows(h, <<>>, mine) /\ Calm(<<>>) /\ <<>> \in Seq(AllSteps)
<1>1. \A i \in 1 .. Len(<<>>) : FALSE
  OBVIOUS
<1> QED
  BY <1>1 DEF Follows, Fits, Calm

LEMMA FollowsOne ==
  ASSUME NEW h, NEW mine, NEW a \in AllSteps, Apt(h, a), Covered(h, a, mine), a[1] \notin {"reload", "unpark"},
         h[1] \in Waits => a[1] \in Waits /\ a[2] = h[2],
         h[1] \in TaskEnds => a[1] \in TaskEnds
  PROVE  /\ Follows(h, <<a>>, mine) /\ <<a>> \in Seq(AllSteps)
         /\ a[1] \notin Dispatcher \cup ForSets \cup {"destroyAll"} => Calm(<<a>>)
<1>1. Len(<<a>>) = 1 /\ <<a>>[1] = a /\ <<a>> \in Seq(AllSteps) /\ \A i \in 1 .. 1 : i = 1
  OBVIOUS
<1> QED
  BY <1>1 DEF Follows, Fits, Calm, Apt, Covered

LEMMA FollowsTwo ==
  ASSUME NEW h, NEW mine, NEW a \in AllSteps, NEW b \in AllSteps, Apt(h, a), Apt(h, b),
         Covered(h, a, mine) \/ Backs(a, b), Covered(h, b, mine),
         a[1] \notin {"reload"} \cup Lasts,
         a[1] = "unpark" => b[1] \in {"wait", "claimFree"} /\ b[2] = a[2],
         b[1] \notin {"unpark"} \cup Firsts,
         b[1] = "reload" => a[1] \in Waits /\ a[2] = b[2],
         ~(a = TaskDoneOnLane /\ b = TaskDoneOnLane),
         h[1] \in Waits => b[1] \in Waits /\ b[2] = h[2],
         h[1] \in TaskEnds => b[1] \in TaskEnds
  PROVE  /\ Follows(h, <<a, b>>, mine) /\ <<a, b>> \in Seq(AllSteps)
         /\ {a[1], b[1]} \cap (Dispatcher \cup ForSets \cup {"destroyAll"}) = {} => Calm(<<a, b>>)
<1> DEFINE p == <<a, b>>
<1>1. Len(p) = 2 /\ p[1] = a /\ p[2] = b /\ p \in Seq(AllSteps) /\ \A i \in 1 .. 2 : i = 1 \/ i = 2
  OBVIOUS
<1> HIDE DEF p
<1>2. \A i \in 1 .. Len(p) : Suits(h, p[i])
  BY <1>1 DEF Apt
<1>3. ASSUME NEW i \in 1 .. Len(p), p[i][1] \in Passing
      PROVE  \/ p[i][2] \in mine
             \/ h[1] \in Passing /\ h[2] = p[i][2]
             \/ \E j \in 1 .. Len(p) : j > i /\ p[j][1] \in Counting /\ p[j][2] = p[i][2]
  BY <1>1, <1>3 DEF Covered, Backs
<1>4. \A i \in 1 .. Len(p) :
       /\ p[i][1] = "reload" => i > 1 /\ p[i - 1][1] \in Waits /\ p[i - 1][2] = p[i][2]
       /\ p[i][1] = "unpark" => i < Len(p) /\ p[i + 1][1] \in {"wait", "claimFree"} /\ p[i + 1][2] = p[i][2]
       /\ p[i][1] \in Firsts => i = 1
       /\ p[i][1] \in Lasts => i = Len(p)
       /\ p[i][1] \in Lasts \/ p[i] = TaskDoneOnLane => h[1] \in Lasts
       /\ Forces(p[i]) => Forces(h)
  BY <1>1 DEF Apt
<1>5. \A i, j \in 1 .. Len(p) : p[i] = TaskDoneOnLane /\ p[j] = TaskDoneOnLane => i = j
  BY <1>1
<1>6. Follows(h, p, mine)
  BY <1>1, <1>2, <1>3, <1>4, <1>5 DEF Follows, Fits
<1>7. {a[1], b[1]} \cap (Dispatcher \cup ForSets \cup {"destroyAll"}) = {} => Calm(p)
  BY <1>1 DEF Calm
<1> QED
  BY <1>1, <1>6, <1>7 DEF p

LEMMA FollowsThree ==
  ASSUME NEW h, NEW mine, NEW a \in AllSteps, NEW b \in AllSteps, NEW c \in AllSteps,
         Apt(h, a), Apt(h, b), Apt(h, c),
         Covered(h, a, mine) \/ Backs(a, b) \/ Backs(a, c), Covered(h, b, mine) \/ Backs(b, c), Covered(h, c, mine),
         a[1] \notin {"reload"} \cup Lasts, b[1] \notin {"reload", "unpark"} \cup Firsts \cup Lasts,
         c[1] \notin {"reload", "unpark"} \cup Firsts,
         a[1] = "unpark" => b[1] \in {"wait", "claimFree"} /\ b[2] = a[2],
         a # TaskDoneOnLane, b # TaskDoneOnLane,
         h[1] \in Waits => c[1] \in Waits /\ c[2] = h[2],
         h[1] \notin TaskEnds
  PROVE  /\ Follows(h, <<a, b, c>>, mine) /\ <<a, b, c>> \in Seq(AllSteps)
         /\ {a[1], b[1], c[1]} \cap (Dispatcher \cup ForSets \cup {"destroyAll"}) = {} => Calm(<<a, b, c>>)
<1> DEFINE p == <<a, b, c>>
<1>1. /\ Len(p) = 3 /\ p[1] = a /\ p[2] = b /\ p[3] = c /\ p \in Seq(AllSteps)
      /\ \A i \in 1 .. 3 : i = 1 \/ i = 2 \/ i = 3
  OBVIOUS
<1> HIDE DEF p
<1>2. \A i \in 1 .. Len(p) : Suits(h, p[i])
  BY <1>1 DEF Apt
<1>3. ASSUME NEW i \in 1 .. Len(p), p[i][1] \in Passing
      PROVE  \/ p[i][2] \in mine
             \/ h[1] \in Passing /\ h[2] = p[i][2]
             \/ \E j \in 1 .. Len(p) : j > i /\ p[j][1] \in Counting /\ p[j][2] = p[i][2]
  BY <1>1, <1>3 DEF Covered, Backs
<1>4. \A i \in 1 .. Len(p) :
       /\ p[i][1] = "reload" => i > 1 /\ p[i - 1][1] \in Waits /\ p[i - 1][2] = p[i][2]
       /\ p[i][1] = "unpark" => i < Len(p) /\ p[i + 1][1] \in {"wait", "claimFree"} /\ p[i + 1][2] = p[i][2]
       /\ p[i][1] \in Firsts => i = 1
       /\ p[i][1] \in Lasts => i = Len(p)
       /\ p[i][1] \in Lasts \/ p[i] = TaskDoneOnLane => h[1] \in Lasts
       /\ Forces(p[i]) => Forces(h)
  BY <1>1 DEF Apt
<1>5. \A i, j \in 1 .. Len(p) : p[i] = TaskDoneOnLane /\ p[j] = TaskDoneOnLane => i = j
  BY <1>1
<1>6. Follows(h, p, mine)
  BY <1>1, <1>2, <1>3, <1>4, <1>5 DEF Follows, Fits
<1>7. {a[1], b[1], c[1]} \cap (Dispatcher \cup ForSets \cup {"destroyAll"}) = {} => Calm(p)
  BY <1>1 DEF Calm
<1> QED
  BY <1>1, <1>6, <1>7 DEF p

LEMMA ThenFew ==
  ASSUME Typed, NEW t \in Threads, todo[t] # <<>>
  PROVE  /\ Then(t, <<>>) => \A G : StepsIn(G)' = StepsIn(G) - One(todo[t][1] \in G)
         /\ \A a \in AllSteps : Then(t, <<a>>) =>
              \A G : StepsIn(G)' = StepsIn(G) - One(todo[t][1] \in G) + One(a \in G)
         /\ \A a, b \in AllSteps : Then(t, <<a, b>>) =>
              \A G : StepsIn(G)' = StepsIn(G) - One(todo[t][1] \in G) + One(a \in G) + One(b \in G)
         /\ \A a, b, c \in AllSteps : Then(t, <<a, b, c>>) =>
              \A G : StepsIn(G)' = StepsIn(G) - One(todo[t][1] \in G) + One(a \in G) + One(b \in G) + One(c \in G)
<1>1. todo \in [Threads -> Seq(AllSteps)]
  BY DEF Typed
<1>2. ASSUME NEW p \in Seq(AllSteps), Then(t, p), NEW G
      PROVE  StepsIn(G)' = StepsIn(G) - One(todo[t][1] \in G) + Count(p, G)
  BY <1>1, <1>2, Moved
<1>3. \A G : StepsIn(G) \in Nat
  BY <1>1, Someone
<1>4. \A b : One(b) \in Nat
  BY DEF One
<1>5. ASSUME Then(t, <<>>), NEW G PROVE StepsIn(G)' = StepsIn(G) - One(todo[t][1] \in G)
  <2>1. <<>> \in Seq(AllSteps)
    OBVIOUS
  <2>2. Count(<<>>, G) = 0
    BY CountShort
  <2>3. StepsIn(G)' = StepsIn(G) - One(todo[t][1] \in G) + Count(<<>>, G)
    BY <1>2, <1>5, <2>1
  <2> QED
    BY <1>3, <1>4, <2>2, <2>3
<1>6. ASSUME NEW a \in AllSteps, Then(t, <<a>>), NEW G
      PROVE  StepsIn(G)' = StepsIn(G) - One(todo[t][1] \in G) + One(a \in G)
  <2>1. <<a>> \in Seq(AllSteps)
    OBVIOUS
  <2>2. Count(<<a>>, G) = One(a \in G)
    BY CountShort
  <2>3. StepsIn(G)' = StepsIn(G) - One(todo[t][1] \in G) + Count(<<a>>, G)
    BY <1>2, <1>6, <2>1
  <2> QED
    BY <1>3, <1>4, <2>2, <2>3
<1>7. ASSUME NEW a \in AllSteps, NEW b \in AllSteps, Then(t, <<a, b>>), NEW G
      PROVE  StepsIn(G)' = StepsIn(G) - One(todo[t][1] \in G) + One(a \in G) + One(b \in G)
  <2>1. <<a, b>> \in Seq(AllSteps)
    OBVIOUS
  <2>2. Count(<<a, b>>, G) = One(a \in G) + One(b \in G)
    BY CountTwo
  <2>3. StepsIn(G)' = StepsIn(G) - One(todo[t][1] \in G) + Count(<<a, b>>, G)
    BY <1>2, <1>7, <2>1
  <2> QED
    BY <1>3, <1>4, <2>2, <2>3
<1>8. ASSUME NEW a \in AllSteps, NEW b \in AllSteps, NEW c \in AllSteps, Then(t, <<a, b, c>>), NEW G
      PROVE  StepsIn(G)' = StepsIn(G) - One(todo[t][1] \in G) + One(a \in G) + One(b \in G) + One(c \in G)
  <2>1. <<a, b, c>> \in Seq(AllSteps)
    OBVIOUS
  <2>2. Count(<<a, b, c>>, G) = One(a \in G) + One(b \in G) + One(c \in G)
    BY CountThree
  <2>3. StepsIn(G)' = StepsIn(G) - One(todo[t][1] \in G) + Count(<<a, b, c>>, G)
    BY <1>2, <1>8, <2>1
  <2> QED
    BY <1>3, <1>4, <2>2, <2>3
<1> QED
  BY <1>5, <1>6, <1>7, <1>8

\* By how much the numbers of steps for an entry change: of those that count,
\* load, are to come to load, have its task, have its parked load, have its
\* load to decide, and have it as unused.
Shifts(x, c, l, m, k, u, w, q) ==
  /\ StepsIn(For(Counting, x))' = StepsIn(For(Counting, x)) + c
  /\ StepsIn(For(Loaders, x))' = StepsIn(For(Loaders, x)) + l
  /\ StepsIn(For(Comers, x))' = StepsIn(For(Comers, x)) + m
  /\ StepsIn(For(Tasking, x))' = StepsIn(For(Tasking, x)) + k
  /\ StepsIn(For(Unparkers, x))' = StepsIn(For(Unparkers, x)) + u
  /\ StepsIn(For(PendingKinds, x))' = StepsIn(For(PendingKinds, x)) + w
  /\ StepsIn(Unusing(x))' = StepsIn(Unusing(x)) + q

LEMMA StepsLess ==
  ASSUME Typed, NEW G, NEW H, G \subseteq H
  PROVE  StepsIn(H) = 0 => StepsIn(G) = 0
BY Someone DEF Typed

\* Three kinds of steps of the loading, one without the other.
OtherLoaders == {"load", "parkOrLoad", "startRead", "bytesRead", "readOver"}

LEMMA StepsTwo ==
  ASSUME Typed, NEW G, NEW H, G \cap H = {}
  PROVE  StepsIn(G \cup H) = StepsIn(G) + StepsIn(H)
<1> DEFINE A == UNION {StepsOf(todo, u, G) : u \in Threads}
           B == UNION {StepsOf(todo, u, H) : u \in Threads}
           C == UNION {StepsOf(todo, u, G \cup H) : u \in Threads}
<1>1. C = A \cup B
  BY DEF StepsOf
<1>2. A \cap B = {}
  BY DEF StepsOf
<1>3. todo \in [Threads -> Seq(AllSteps)]
  BY DEF Typed
<1>4. ASSUME NEW K PROVE IsFiniteSet(UNION {StepsOf(todo, u, K) : u \in Threads})
  <2> DEFINE T == {StepsOf(todo, u, K) : u \in Threads}
             h == [u \in Threads |-> StepsOf(todo, u, K)]
  <2>1. h \in Surjection(Threads, T)
    BY DEF Surjection
  <2>2. IsFiniteSet(T)
    BY ThreadsFinite, <2>1, FS_Surjection
  <2>3. \A u \in Threads : todo[u] \in Seq(AllSteps)
    BY <1>3
  <2>4. \A D \in T : IsFiniteSet(D)
    BY <2>3, StepsOfCount
  <2> HIDE DEF T
  <2>5. IsFiniteSet(UNION T)
    BY <2>2, <2>4, FS_UNION
  <2> QED
    BY <2>5 DEF T
<1>5. IsFiniteSet(A) /\ IsFiniteSet(B)
  BY <1>4
<1>6. StepsIn(G) = Cardinality(A) /\ StepsIn(H) = Cardinality(B) /\ StepsIn(G \cup H) = Cardinality(C)
  BY StepsInAll DEF StepsOfAll
<1> HIDE DEF A, B, C
<1>7. Cardinality(C) = Cardinality(A) + Cardinality(B) - Cardinality(A \cap B)
  BY <1>1, <1>5, FS_Union
<1>8. Cardinality(A \cap B) = 0
  BY <1>2, FS_EmptySet
<1>9. Cardinality(A) \in Nat /\ Cardinality(B) \in Nat
  BY <1>5, FS_CardinalityType
<1> QED
  BY <1>6, <1>7, <1>8, <1>9

LEMMA LoadersAre ==
  ASSUME Typed, NEW x \in Entries
  PROVE  /\ StepsIn(For(Loaders, x)) = StepsIn(For(Unparkers, x)) + StepsIn(For(OtherLoaders, x))
         /\ StepsIn(For(PendingKinds, x)) = StepsIn(For(Unparkers, x)) + StepsIn(For({"parkOrLoad"}, x))
<1>1. For(Loaders, x) = For(Unparkers, x) \cup For(OtherLoaders, x) /\ For(Unparkers, x) \cap For(OtherLoaders, x) = {}
  BY DEF For, Loaders, Unparkers, OtherLoaders
<1>2. For(PendingKinds, x) = For(Unparkers, x) \cup For({"parkOrLoad"}, x) /\ For(Unparkers, x) \cap For({"parkOrLoad"}, x) = {}
  BY DEF For, PendingKinds, Unparkers
<1> QED
  BY <1>1, <1>2, StepsTwo

\* The entry of the next step of a thread.
LEMMA EntryHead ==
  ASSUME CacheInv, NEW t \in Threads, NEW k \in EntryKinds, At(t, k)
  PROVE  /\ Typed /\ todo[t] # <<>> /\ todo[t][1] \in AllSteps /\ todo[t][1][1] = k /\ todo[t][1][2] = Arg(t)
         /\ Arg(t) \in Live /\ Arg(t) \in Entries
         /\ Me(t) = entry[Arg(t)] /\ Me(t) \in EntryType /\ Me(t).life = "live"
         /\ CountOk(Arg(t)) /\ LoadOk(Arg(t)) /\ QueueOk(Arg(t))
         /\ \A K : k \in K => StepsIn(For(K, Arg(t))) # 0
         /\ \A x \in Entries \ {Arg(t)} : todo[t][1] \notin Naming(x)
<1>1. Typed /\ Unknown /\ Accounts
  BY DEF CacheInv
<1>2. todo[t] # <<>> /\ todo[t] \in Seq(AllSteps) /\ todo[t][1][1] = k /\ todo[t][1][2] = Arg(t)
  BY <1>1 DEF At, Arg, Typed
<1>3. todo[t][1] \in AllSteps /\ 1 \in DOMAIN todo[t] /\ 1 \in 1 .. Len(todo[t])
  BY <1>2, CountTail
<1>4. Arg(t) \in Entries
  BY <1>2, <1>3, StepTypes
<1>5. todo[t][1] \in Naming(Arg(t)) /\ \A x \in Entries \ {Arg(t)} : todo[t][1] \notin Naming(x)
  BY <1>2, <1>3, <1>4, Belongs
<1>6. Arg(t) \in Live
  BY <1>1, <1>3, <1>4, <1>5, Named1
<1>7. CountOk(Arg(t)) /\ LoadOk(Arg(t)) /\ QueueOk(Arg(t))
  BY <1>1, <1>6 DEF Accounts
<1>8. Me(t) = entry[Arg(t)] /\ Me(t) \in EntryType /\ Me(t).life = "live"
  BY <1>1, <1>4, <1>6 DEF Me, Live, Typed, TypeOK, EntryType
<1>9. ASSUME NEW K, k \in K PROVE StepsIn(For(K, Arg(t))) # 0
  <2>1. todo[t][1] \in For(K, Arg(t))
    BY <1>2, <1>3, <1>9 DEF For
  <2> QED
    BY <1>1, <1>3, <2>1, Someone DEF Typed
<1> QED
  BY <1>1, <1>2, <1>3, <1>4, <1>5, <1>6, <1>7, <1>8, <1>9

Of(a, K, x) == One(a[1] \in K /\ a[2] = x)

LEMMA ShiftsSum ==
  ASSUME NEW h \in AllSteps, NEW x \in Entries, h[1] \notin ForSets
  PROVE  /\ \A K : One(h \in For(K, x)) = Of(h, K, x)
         /\ One(h \in Unusing(x)) = Of(h, {"enqueue"}, x)
         /\ \A K : Of(h, K, x) \in {0, 1}
BY DEF Of, One, For, Unusing, Takes, ForSets

LEMMA ShiftNone ==
  ASSUME Typed, NEW t \in Threads, todo[t] # <<>>, NEW h, h = todo[t][1], NEW x \in Entries,
         h[1] \notin ForSets, Then(t, <<>>)
  PROVE  Shifts(x, 0 - Of(h, Counting, x), 0 - Of(h, Loaders, x), 0 - Of(h, Comers, x), 0 - Of(h, Tasking, x),
                0 - Of(h, Unparkers, x), 0 - Of(h, PendingKinds, x), 0 - Of(h, {"enqueue"}, x))
<1>1. h \in AllSteps
  BY CountTail DEF Typed
<1>2. \A G : StepsIn(G)' = StepsIn(G) - One(h \in G)
  BY ThenFew
<1>3. \A G : StepsIn(G) \in Nat
  BY Someone DEF Typed
<1>4. /\ \A K : One(h \in For(K, x)) = Of(h, K, x)
      /\ One(h \in Unusing(x)) = Of(h, {"enqueue"}, x)
      /\ \A K : Of(h, K, x) \in {0, 1}
  BY <1>1, ShiftsSum
<1>5. ASSUME NEW K PROVE StepsIn(For(K, x))' = StepsIn(For(K, x)) + (0 - Of(h, K, x))
  BY <1>2, <1>3, <1>4
<1>6. StepsIn(Unusing(x))' = StepsIn(Unusing(x)) + (0 - Of(h, {"enqueue"}, x))
  BY <1>2, <1>3, <1>4
<1> QED
  BY <1>5, <1>6 DEF Shifts

LEMMA ShiftOne ==
  ASSUME Typed, NEW t \in Threads, todo[t] # <<>>, NEW h, h = todo[t][1], NEW x \in Entries,
         NEW a \in AllSteps, {h[1], a[1]} \cap ForSets = {}, Then(t, <<a>>)
  PROVE  Shifts(x, Of(a, Counting, x) - Of(h, Counting, x), Of(a, Loaders, x) - Of(h, Loaders, x),
                Of(a, Comers, x) - Of(h, Comers, x), Of(a, Tasking, x) - Of(h, Tasking, x),
                Of(a, Unparkers, x) - Of(h, Unparkers, x), Of(a, PendingKinds, x) - Of(h, PendingKinds, x),
                Of(a, {"enqueue"}, x) - Of(h, {"enqueue"}, x))
<1>1. h \in AllSteps
  BY CountTail DEF Typed
<1>2. \A G : StepsIn(G)' = StepsIn(G) - One(h \in G) + One(a \in G)
  BY ThenFew
<1>3. \A G : StepsIn(G) \in Nat
  BY Someone DEF Typed
<1>4. /\ \A K : One(h \in For(K, x)) = Of(h, K, x) /\ One(a \in For(K, x)) = Of(a, K, x)
      /\ One(h \in Unusing(x)) = Of(h, {"enqueue"}, x) /\ One(a \in Unusing(x)) = Of(a, {"enqueue"}, x)
      /\ \A K : Of(h, K, x) \in {0, 1} /\ Of(a, K, x) \in {0, 1}
  BY <1>1, ShiftsSum
<1>5. ASSUME NEW K PROVE StepsIn(For(K, x))' = StepsIn(For(K, x)) + (Of(a, K, x) - Of(h, K, x))
  BY <1>2, <1>3, <1>4
<1>6. StepsIn(Unusing(x))' = StepsIn(Unusing(x)) + (Of(a, {"enqueue"}, x) - Of(h, {"enqueue"}, x))
  BY <1>2, <1>3, <1>4
<1> QED
  BY <1>5, <1>6 DEF Shifts

LEMMA ShiftTwo ==
  ASSUME Typed, NEW t \in Threads, todo[t] # <<>>, NEW h, h = todo[t][1], NEW x \in Entries,
         NEW a \in AllSteps, NEW b \in AllSteps, {h[1], a[1], b[1]} \cap ForSets = {}, Then(t, <<a, b>>)
  PROVE  Shifts(x, Of(a, Counting, x) + Of(b, Counting, x) - Of(h, Counting, x),
                Of(a, Loaders, x) + Of(b, Loaders, x) - Of(h, Loaders, x),
                Of(a, Comers, x) + Of(b, Comers, x) - Of(h, Comers, x),
                Of(a, Tasking, x) + Of(b, Tasking, x) - Of(h, Tasking, x),
                Of(a, Unparkers, x) + Of(b, Unparkers, x) - Of(h, Unparkers, x),
                Of(a, PendingKinds, x) + Of(b, PendingKinds, x) - Of(h, PendingKinds, x),
                Of(a, {"enqueue"}, x) + Of(b, {"enqueue"}, x) - Of(h, {"enqueue"}, x))
<1>1. h \in AllSteps
  BY CountTail DEF Typed
<1>2. \A G : StepsIn(G)' = StepsIn(G) - One(h \in G) + One(a \in G) + One(b \in G)
  BY ThenFew
<1>3. \A G : StepsIn(G) \in Nat
  BY Someone DEF Typed
<1>4. /\ \A K : One(h \in For(K, x)) = Of(h, K, x) /\ One(a \in For(K, x)) = Of(a, K, x) /\ One(b \in For(K, x)) = Of(b, K, x)
      /\ One(h \in Unusing(x)) = Of(h, {"enqueue"}, x) /\ One(a \in Unusing(x)) = Of(a, {"enqueue"}, x)
      /\ One(b \in Unusing(x)) = Of(b, {"enqueue"}, x)
      /\ \A K : Of(h, K, x) \in {0, 1} /\ Of(a, K, x) \in {0, 1} /\ Of(b, K, x) \in {0, 1}
  BY <1>1, ShiftsSum
<1>5. ASSUME NEW K PROVE StepsIn(For(K, x))' = StepsIn(For(K, x)) + (Of(a, K, x) + Of(b, K, x) - Of(h, K, x))
  BY <1>2, <1>3, <1>4, SMTT(60)
<1>6. StepsIn(Unusing(x))' = StepsIn(Unusing(x)) + (Of(a, {"enqueue"}, x) + Of(b, {"enqueue"}, x) - Of(h, {"enqueue"}, x))
  BY <1>2, <1>3, <1>4
<1> QED
  BY <1>5, <1>6 DEF Shifts

LEMMA ShiftThree ==
  ASSUME Typed, NEW t \in Threads, todo[t] # <<>>, NEW h, h = todo[t][1], NEW x \in Entries,
         NEW a \in AllSteps, NEW b \in AllSteps, NEW c \in AllSteps, {h[1], a[1], b[1], c[1]} \cap ForSets = {},
         Then(t, <<a, b, c>>)
  PROVE  Shifts(x, Of(a, Counting, x) + Of(b, Counting, x) + Of(c, Counting, x) - Of(h, Counting, x),
                Of(a, Loaders, x) + Of(b, Loaders, x) + Of(c, Loaders, x) - Of(h, Loaders, x),
                Of(a, Comers, x) + Of(b, Comers, x) + Of(c, Comers, x) - Of(h, Comers, x),
                Of(a, Tasking, x) + Of(b, Tasking, x) + Of(c, Tasking, x) - Of(h, Tasking, x),
                Of(a, Unparkers, x) + Of(b, Unparkers, x) + Of(c, Unparkers, x) - Of(h, Unparkers, x),
                Of(a, PendingKinds, x) + Of(b, PendingKinds, x) + Of(c, PendingKinds, x) - Of(h, PendingKinds, x),
                Of(a, {"enqueue"}, x) + Of(b, {"enqueue"}, x) + Of(c, {"enqueue"}, x) - Of(h, {"enqueue"}, x))
<1>1. h \in AllSteps
  BY CountTail DEF Typed
<1>2. \A G : StepsIn(G)' = StepsIn(G) - One(h \in G) + One(a \in G) + One(b \in G) + One(c \in G)
  BY ThenFew
<1>3. \A G : StepsIn(G) \in Nat
  BY Someone DEF Typed
<1>4. /\ \A K : /\ One(h \in For(K, x)) = Of(h, K, x) /\ One(a \in For(K, x)) = Of(a, K, x)
                /\ One(b \in For(K, x)) = Of(b, K, x) /\ One(c \in For(K, x)) = Of(c, K, x)
      /\ One(h \in Unusing(x)) = Of(h, {"enqueue"}, x) /\ One(a \in Unusing(x)) = Of(a, {"enqueue"}, x)
      /\ One(b \in Unusing(x)) = Of(b, {"enqueue"}, x) /\ One(c \in Unusing(x)) = Of(c, {"enqueue"}, x)
      /\ \A K : Of(h, K, x) \in {0, 1} /\ Of(a, K, x) \in {0, 1} /\ Of(b, K, x) \in {0, 1} /\ Of(c, K, x) \in {0, 1}
  BY <1>1, ShiftsSum
<1>5. ASSUME NEW K PROVE StepsIn(For(K, x))' = StepsIn(For(K, x)) + (Of(a, K, x) + Of(b, K, x) + Of(c, K, x) - Of(h, K, x))
  <2>1. StepsIn(For(K, x))' = StepsIn(For(K, x)) - One(h \in For(K, x)) + One(a \in For(K, x))
                              + One(b \in For(K, x)) + One(c \in For(K, x))
    BY <1>2
  <2>2. StepsIn(For(K, x)) \in Nat
    BY <1>3
  <2>3. /\ One(h \in For(K, x)) = Of(h, K, x) /\ One(a \in For(K, x)) = Of(a, K, x)
        /\ One(b \in For(K, x)) = Of(b, K, x) /\ One(c \in For(K, x)) = Of(c, K, x)
        /\ Of(h, K, x) \in {0, 1} /\ Of(a, K, x) \in {0, 1} /\ Of(b, K, x) \in {0, 1} /\ Of(c, K, x) \in {0, 1}
    BY <1>4
  <2> QED
    BY <2>1, <2>2, <2>3
<1>6. StepsIn(Unusing(x))' = StepsIn(Unusing(x)) + (Of(a, {"enqueue"}, x) + Of(b, {"enqueue"}, x) + Of(c, {"enqueue"}, x) - Of(h, {"enqueue"}, x))
  BY <1>2, <1>3, <1>4, SMTT(60)
<1> QED
  BY <1>5, <1>6 DEF Shifts

\* The accounts of an entry after a step, from those before.
LEMMA AccountsMove ==
  ASSUME Typed, NEW x \in Entries,
         NEW c \in Int, NEW l \in Int, NEW m \in Int, NEW k \in Int, NEW u \in Int, NEW w \in Int, NEW q \in Int,
         Shifts(x, c, l, m, k, u, w, q), NEW new \in EntryType, entry'[x] = new,
         Cardinality(Holders(x))' = Cardinality(Holders(x)),
         Count(Waiting, {x})' = Count(Waiting, {x}), Count(replaced, {x})' = Count(replaced, {x}),
         disk' = disk, unused' = unused, gone' = gone,
         Having(x) + c = new.count,
         Loads(x) + l + One(new.parked) - One(entry[x].parked) = One(new.state = "Loading" /\ new.claimed),
         ~new.claimed => new.pending /\ new.state = "Loading" /\ Coming(x) + m # 0,
         TasksOf(x) + k + One(new.parked) - One(entry[x].parked) <= 1,
         new.parked \/ StepsIn(For(Unparkers, x)) + u # 0 => new.pending,
         new.pending => ~new.claimed \/ new.parked \/ StepsIn(For(PendingKinds, x)) + w # 0,
         ~gone => Queue(x) + q = One(new.queued) /\ (~new.queued => new.count # 0)
  PROVE  CountOk(x)' /\ LoadOk(x)' /\ QueueOk(x)'
<1>1. /\ Cardinality(Holders(x)) \in Nat /\ Count(Waiting, {x}) \in Nat /\ Count(replaced, {x}) \in Nat
      /\ \A G : StepsIn(G) \in Nat
  BY Amounts
<1>2. \A b : One(b) \in Nat
  BY DEF One
<1>3. CountOk(x)'
  BY <1>1, <1>2 DEF CountOk, Having, Shifts
<1>4. Loads(x)' = One(new.state = "Loading" /\ new.claimed)
  BY <1>1, <1>2 DEF Loads, Shifts
<1>5. Coming(x)' = Coming(x) + m
  BY <1>1, <1>2 DEF Coming, Shifts
<1>6. TasksOf(x)' <= 1
  BY <1>1, <1>2 DEF TasksOf, Shifts
<1>7. StepsIn(For(Unparkers, x))' = StepsIn(For(Unparkers, x)) + u /\ StepsIn(For(PendingKinds, x))' = StepsIn(For(PendingKinds, x)) + w
  BY DEF Shifts
<1>8. LoadOk(x)'
  BY <1>4, <1>5, <1>6, <1>7 DEF LoadOk, Unparkers, PendingKinds
<1>9. QueueOk(x)'
  BY <1>1, <1>2 DEF QueueOk, Queue, Shifts
<1> QED
  BY <1>3, <1>8, <1>9

LEMMA Others ==
  ASSUME OnlyEntries
  PROVE  /\ \A x : Cardinality(Holders(x))' = Cardinality(Holders(x))
         /\ Waiting' = Waiting /\ replaced' = replaced /\ disk' = disk /\ unused' = unused /\ gone' = gone
         /\ \A x : Count(Waiting, {x})' = Count(Waiting, {x}) /\ Count(replaced, {x})' = Count(replaced, {x})
<1>1. held' = held /\ incoming' = incoming /\ queued' = queued /\ laneQueue' = laneQueue /\ replaced' = replaced
      /\ disk' = disk /\ unused' = unused /\ gone' = gone
  BY DEF OnlyEntries, waitVars, laneVars, userVars
<1>2. Waiting' = Waiting
  BY <1>1 DEF Waiting
<1>3. \A x : Holders(x)' = Holders(x)
  BY <1>1 DEF Holders
<1> QED
  BY <1>1, <1>2, <1>3

\* An entry may become new when the numbers of its steps change so.
Settles(x, new, c, l, m, k, u, w, q) ==
  /\ Having(x) + c = new.count
  /\ Loads(x) + l + One(new.parked) - One(entry[x].parked) = One(new.state = "Loading" /\ new.claimed)
  /\ ~new.claimed => new.pending /\ new.state = "Loading" /\ Coming(x) + m # 0
  /\ TasksOf(x) + k + One(new.parked) - One(entry[x].parked) <= 1
  /\ new.parked \/ StepsIn(For(Unparkers, x)) + u # 0 => new.pending
  /\ new.pending => ~new.claimed \/ new.parked \/ StepsIn(For(PendingKinds, x)) + w # 0
  /\ ~gone => Queue(x) + q = One(new.queued) /\ (~new.queued => new.count # 0)

\* Steps for one entry, none of which the tasks are counted by.
Mere(p, e) == \A i \in 1 .. Len(p) : p[i][1] \in EntryKinds \ TaskSteps /\ p[i][2] = e

LEMMA EntryMoves ==
  ASSUME CacheInv, NEW t \in Threads, todo[t] # <<>>, NEW h, h = todo[t][1],
         NEW p \in Seq(AllSteps), Then(t, p), OnlyEntries,
         NEW e \in Live, NEW new \in EntryType, entry' = [entry EXCEPT ![e] = new], new.life = "live",
         Follows(h, p, Mine(t)), Calm(p), NamesOnly(h, p, e), Balanced,
         h[1] \notin Dispatcher \cup {"dispatch", "destroyAll"},
         new.count # 0 => entry[e].count # 0 \/ e \in published \cup fresh,
         \/ new.state = "Loading" => entry[e].state = "Loading"
         \/ \A u \in Threads \ {t} : At(u, "reload") => Arg(u) # e,
         h[1] \in Waits /\ p = <<>> => h[2] = e /\ new.state # "Loading",
         NEW c \in Int, NEW l \in Int, NEW m \in Int, NEW k \in Int, NEW u \in Int, NEW w \in Int, NEW q \in Int,
         Shifts(e, c, l, m, k, u, w, q), Settles(e, new, c, l, m, k, u, w, q)
  PROVE  CacheInv'
<1>1. Typed /\ e \in Entries
  BY DEF CacheInv, Live
<1>2. entry'[e] = new
  BY <1>1 DEF Typed, TypeOK
<1>3. /\ Cardinality(Holders(e))' = Cardinality(Holders(e))
      /\ Count(Waiting, {e})' = Count(Waiting, {e}) /\ Count(replaced, {e})' = Count(replaced, {e})
      /\ disk' = disk /\ unused' = unused /\ gone' = gone
  BY Others
<1>4. CountOk(e)' /\ LoadOk(e)' /\ QueueOk(e)'
  <2>1. /\ Having(e) + c = new.count
        /\ Loads(e) + l + One(new.parked) - One(entry[e].parked) = One(new.state = "Loading" /\ new.claimed)
        /\ ~new.claimed => new.pending /\ new.state = "Loading" /\ Coming(e) + m # 0
        /\ TasksOf(e) + k + One(new.parked) - One(entry[e].parked) <= 1
        /\ new.parked \/ StepsIn(For(Unparkers, e)) + u # 0 => new.pending
        /\ new.pending => ~new.claimed \/ new.parked \/ StepsIn(For(PendingKinds, e)) + w # 0
        /\ ~gone => Queue(e) + q = One(new.queued) /\ (~new.queued => new.count # 0)
    BY DEF Settles
  <2> QED
    BY <1>1, <1>2, <1>3, <2>1, AccountsMove
<1>5. h[1] \in Waits /\ p = <<>> => entry'[Arg(t)].state # "Loading"
  BY <1>2 DEF Arg
<1> QED
  BY <1>4, <1>5, EntryStep

LEMMA MereSteps ==
  ASSUME Typed, NEW t \in Threads, todo[t] # <<>>, NEW h, h = todo[t][1], h[1] \notin TaskSteps,
         NEW p \in Seq(AllSteps), Then(t, p), NEW e \in Entries, \A x \in Entries \ {e} : h \notin Naming(x), Mere(p, e)
  PROVE  NamesOnly(h, p, e) /\ Balanced
<1>1. Balanced
  BY NoTask DEF Mere
<1>2. ASSUME NEW i \in 1 .. Len(p), NEW x \in Entries \ {e} PROVE p[i] \notin Naming(x)
  <2>1. p[i] \in AllSteps /\ p[i][1] \in EntryKinds /\ p[i][2] = e
    BY DEF Mere
  <2> QED
    BY <2>1, Belongs
<1> QED
  BY <1>1, <1>2 DEF NamesOnly

LEMMA Joins ==
  ASSUME NEW a \in AllSteps, NEW b \in AllSteps, NEW c \in AllSteps
  PROVE  /\ <<>> \o <<a>> = <<a>> /\ <<a>> \o <<>> = <<a>>
         /\ <<a>> \o <<b>> = <<a, b>>
         /\ <<a, b>> \o <<c>> = <<a, b, c>> /\ <<a>> \o <<b, c>> = <<a, b, c>>
<1>1. /\ <<a>> \in Seq(AllSteps) /\ <<b>> \in Seq(AllSteps) /\ <<c>> \in Seq(AllSteps) /\ <<>> \in Seq(AllSteps)
      /\ <<a, b>> \in Seq(AllSteps) /\ <<b, c>> \in Seq(AllSteps) /\ <<a, b, c>> \in Seq(AllSteps)
  OBVIOUS
<1>2. <<>> \o <<a>> = <<a>> /\ <<a>> \o <<>> = <<a>>
  BY <1>1, ConcatEmptySeq
<1>5. <<a>> \o <<b>> = <<a, b>>
  <2> DEFINE p == <<a>>
             q == <<b>>
             r == <<a, b>>
  <2>1. p \in Seq(AllSteps) /\ q \in Seq(AllSteps) /\ r \in Seq(AllSteps)
    BY <1>1
  <2>2. /\ Len(p) = 1 /\ Len(q) = 1 /\ Len(r) = 2
        /\ p[1] = a /\ q[1] = b /\ r[1] = a /\ r[2] = b
    OBVIOUS
  <2> HIDE DEF p, q, r
  <2>3. /\ p \o q \in Seq(AllSteps) /\ Len(p \o q) = 2
        /\ (p \o q)[1] = p[1]
        /\ (p \o q)[2] = q[1]
    BY <2>1, <2>2, ConcatProperties
  <2>4. \A i \in 1 .. 2 : (p \o q)[i] = r[i]
    <3> TAKE i \in 1 .. 2
    <3>1. i = 1 \/ i = 2
      OBVIOUS
    <3> QED
      BY <2>2, <2>3, <3>1
  <2>5. p \o q = r
    BY <2>1, <2>2, <2>3, <2>4, SeqEqual
  <2> QED
    BY <2>5 DEF p, q, r
<1>6. <<a, b>> \o <<c>> = <<a, b, c>>
  <2> DEFINE p == <<a, b>>
             q == <<c>>
             r == <<a, b, c>>
  <2>1. p \in Seq(AllSteps) /\ q \in Seq(AllSteps) /\ r \in Seq(AllSteps)
    BY <1>1
  <2>2. /\ Len(p) = 2 /\ Len(q) = 1 /\ Len(r) = 3
        /\ p[1] = a /\ p[2] = b /\ q[1] = c /\ r[1] = a /\ r[2] = b /\ r[3] = c
    OBVIOUS
  <2> HIDE DEF p, q, r
  <2>3. /\ p \o q \in Seq(AllSteps) /\ Len(p \o q) = 3
        /\ (p \o q)[1] = p[1]
        /\ (p \o q)[2] = p[2]
        /\ (p \o q)[3] = q[1]
    BY <2>1, <2>2, ConcatProperties, SMTT(60)
  <2>4. \A i \in 1 .. 3 : (p \o q)[i] = r[i]
    <3> TAKE i \in 1 .. 3
    <3>1. i = 1 \/ i = 2 \/ i = 3
      OBVIOUS
    <3> QED
      BY <2>2, <2>3, <3>1
  <2>5. p \o q = r
    BY <2>1, <2>2, <2>3, <2>4, SeqEqual
  <2> QED
    BY <2>5 DEF p, q, r
<1>7. <<a>> \o <<b, c>> = <<a, b, c>>
  <2> DEFINE p == <<a>>
             q == <<b, c>>
             r == <<a, b, c>>
  <2>1. p \in Seq(AllSteps) /\ q \in Seq(AllSteps) /\ r \in Seq(AllSteps)
    BY <1>1
  <2>2. /\ Len(p) = 1 /\ Len(q) = 2 /\ Len(r) = 3
        /\ p[1] = a /\ q[1] = b /\ q[2] = c /\ r[1] = a /\ r[2] = b /\ r[3] = c
    OBVIOUS
  <2> HIDE DEF p, q, r
  <2>3. /\ p \o q \in Seq(AllSteps) /\ Len(p \o q) = 3
        /\ (p \o q)[1] = p[1]
        /\ (p \o q)[2] = q[1]
        /\ (p \o q)[3] = q[2]
    <3>1. /\ p \o q \in Seq(AllSteps) /\ Len(p \o q) = Len(p) + Len(q)
          /\ \A i \in 1 .. Len(p) + Len(q) : (p \o q)[i] = IF i <= Len(p) THEN p[i] ELSE q[i - Len(p)]
      BY <2>1, ConcatProperties
    <3>2. Len(p) = 1 /\ Len(q) = 2
      BY <2>2
    <3>3. (p \o q)[3] = q[3 - 1] /\ (p \o q)[2] = q[2 - 1] /\ (p \o q)[1] = p[1]
      BY <3>1, <3>2
    <3> QED
      BY <3>1, <3>2, <3>3
  <2>4. \A i \in 1 .. 3 : (p \o q)[i] = r[i]
    <3> TAKE i \in 1 .. 3
    <3>1. i = 1 \/ i = 2 \/ i = 3
      OBVIOUS
    <3> QED
      BY <2>2, <2>3, <3>1
  <2>5. p \o q = r
    BY <2>1, <2>2, <2>3, <2>4, SeqEqual
  <2> QED
    BY <2>5 DEF p, q, r
<1> QED
  BY <1>2, <1>5, <1>6, <1>7

\* Who is about to use an entry has it, or another step of his does.
LEMMA HeadUsed ==
  ASSUME CacheInv, NEW t \in Threads, NEW k \in EntryKinds \ {"enqueue"}, At(t, k)
  PROVE  entry[Arg(t)].count # 0
<1> DEFINE e == Arg(t)
<1>1. /\ Typed /\ todo[t] # <<>> /\ todo[t][1][1] = k /\ todo[t][1][2] = e /\ e \in Entries /\ CountOk(e)
      /\ \A K : k \in K => StepsIn(For(K, e)) # 0
  BY EntryHead
<1>2. /\ Cardinality(Holders(e)) \in Nat /\ Count(Waiting, {e}) \in Nat /\ Count(replaced, {e}) \in Nat
      /\ \A G : StepsIn(G) \in Nat
      /\ Cardinality(Holders(e)) = 0 <=> \A u \in Users : e \notin held[u]
  BY <1>1, Amounts
<1>3. SUFFICES Cardinality(Holders(e)) # 0 \/ StepsIn(For(Counting, e)) # 0
  BY <1>1, <1>2 DEF CountOk, Having, One
<1>4. CASE k \in Counting
  BY <1>1, <1>4
<1>5. CASE k \in Passing
  <2>1. Backed(todo[t], Mine(t)) /\ 1 \in 1 .. Len(todo[t]) /\ todo[t] \in Seq(AllSteps)
    BY <1>1, EmptySeq, LenProperties DEF CacheInv, Shape, Typed
  <2>2. CASE e \in Mine(t)
    BY <1>2, <2>2 DEF Mine
  <2>3. CASE \E j \in 1 .. Len(todo[t]) : j > 1 /\ todo[t][j][1] \in Counting /\ todo[t][j][2] = e
    <3>1. PICK j \in 1 .. Len(todo[t]) : todo[t][j][1] \in Counting /\ todo[t][j][2] = e
      BY <2>3
    <3>2. todo[t][j] \in For(Counting, e)
      BY <2>1, <3>1 DEF For
    <3> QED
      BY <1>1, <3>2, Someone DEF Typed
  <2> QED
    BY <1>1, <1>5, <2>1, <2>2, <2>3 DEF Backed
<1> QED
  BY <1>4, <1>5 DEF EntryKinds

-----------------------------------------------------------------------------
(* The lists of entries. *)

LEMMA ThreeLists ==
  ASSUME NEW a \in Seq(Entries), NEW b \in Seq(Entries), NEW c \in Seq(Entries)
  PROVE  /\ a \o b \o c \in Seq(Entries)
         /\ Len(a \o b \o c) = Len(a) + Len(b) + Len(c)
         /\ \A G : Count(a \o b \o c, G) = Count(a, G) + Count(b, G) + Count(c, G)
<1>1. a \o b \in Seq(Entries) /\ Len(a \o b) = Len(a) + Len(b)
  BY ConcatProperties
<1>2. (a \o b) \o c \in Seq(Entries) /\ Len((a \o b) \o c) = Len(a \o b) + Len(c)
  BY <1>1, ConcatProperties
<1>3. ASSUME NEW G PROVE Count(a \o b \o c, G) = Count(a, G) + Count(b, G) + Count(c, G)
  <2>1. Count(a \o b, G) = Count(a, G) + Count(b, G)
    BY CountConcat
  <2>2. Count((a \o b) \o c, G) = Count(a \o b, G) + Count(c, G)
    BY <1>1, CountConcat
  <2> QED
    BY <2>1, <2>2
<1> QED
  BY <1>1, <1>2, <1>3

LEMMA CountEnds ==
  ASSUME NEW s \in Seq(Entries), NEW y \in Entries
  PROVE  /\ Append(s, y) \in Seq(Entries) /\ <<y>> \o s \in Seq(Entries)
         /\ Len(Append(s, y)) = Len(s) + 1 /\ Len(<<y>> \o s) = Len(s) + 1 /\ Len(s) \in Nat
         /\ \A G : /\ Count(Append(s, y), G) = Count(s, G) + One(y \in G)
                   /\ Count(<<y>> \o s, G) = Count(s, G) + One(y \in G)
<1>1. <<y>> \in Seq(Entries) /\ Len(<<y>>) = 1 /\ Len(s) \in Nat
  OBVIOUS
<1>2. /\ s \o <<y>> \in Seq(Entries) /\ Len(s \o <<y>>) = Len(s) + 1
      /\ <<y>> \o s \in Seq(Entries) /\ Len(<<y>> \o s) = 1 + Len(s)
  BY <1>1, ConcatProperties
<1>3. Append(s, y) = s \o <<y>>
  <2>1. /\ Append(s, y) \in Seq(Entries) /\ Len(Append(s, y)) = Len(s) + 1
        /\ \A i \in 1 .. Len(s) + 1 : Append(s, y)[i] = IF i = Len(s) + 1 THEN y ELSE s[i]
    BY <1>1
  <2>2. \A i \in 1 .. Len(s) + 1 : (s \o <<y>>)[i] = IF i = Len(s) + 1 THEN y ELSE s[i]
    BY <1>1, ConcatProperties
  <2> QED
    BY <1>2, <2>1, <2>2, SeqEqual
<1>4. ASSUME NEW G
      PROVE  /\ Count(s \o <<y>>, G) = Count(s, G) + One(y \in G)
             /\ Count(<<y>> \o s, G) = Count(s, G) + One(y \in G)
  <2>1. Count(<<y>>, G) = One(y \in G) /\ Count(s, G) \in Nat
    BY CountShort, CountType
  <2>2. Count(s \o <<y>>, G) = Count(s, G) + Count(<<y>>, G) /\ Count(<<y>> \o s, G) = Count(<<y>>, G) + Count(s, G)
    BY <1>1, CountConcat, ZenonT(60)
  <2> QED
    BY <2>1, <2>2 DEF One
<1> QED
  BY <1>1, <1>2, <1>3, <1>4

LEMMA CountReverse ==
  ASSUME NEW s \in Seq(Entries)
  PROVE  /\ Reverse(s) \in Seq(Entries) /\ Len(Reverse(s)) = Len(s) /\ Len(s) \in Nat
         /\ \A G : Count(Reverse(s), G) = Count(s, G)
<1> DEFINE n == Len(s)
<1>1. n \in Nat /\ DOMAIN s = 1 .. n /\ \A i \in 1 .. n : s[i] \in Entries
  BY ElementOfSeq, LenProperties
<1>2. /\ Reverse(s) = [i \in 1 .. n |-> s[(n - i) + 1]]
      /\ \A i \in 1 .. n : (n - i) + 1 \in 1 .. n
  BY <1>1 DEF Reverse
<1>3. Reverse(s) \in Seq(Entries) /\ Len(Reverse(s)) = n /\ DOMAIN Reverse(s) = 1 .. n
  BY <1>1, <1>2
<1>4. ASSUME NEW G PROVE Count(Reverse(s), G) = Count(s, G)
  <2> DEFINE D == {i \in DOMAIN s : s[i] \in G}
             E == {i \in DOMAIN Reverse(s) : Reverse(s)[i] \in G}
             f == [i \in D |-> (n - i) + 1]
  <2>1. IsFiniteSet(D) /\ IsFiniteSet(E)
    BY <1>3, CountType, ZenonT(60)
  <2>2. \A i \in D : f[i] \in E
    <3> TAKE i \in D
    <3>1. i \in 1 .. n /\ s[i] \in G
      BY <1>1
    <3>2. (n - i) + 1 \in 1 .. n /\ (n - ((n - i) + 1)) + 1 = i
      BY <1>1, <3>1
    <3>3. Reverse(s)[(n - i) + 1] = s[i]
      BY <1>2, <3>2
    <3> QED
      BY <1>3, <3>1, <3>2, <3>3
  <2>3. \A i, j \in D : f[i] = f[j] => i = j
    BY <1>1
  <2>4. \A k \in E : \E i \in D : f[i] = k
    <3> TAKE k \in E
    <3>1. k \in 1 .. n /\ Reverse(s)[k] = s[(n - k) + 1] /\ Reverse(s)[k] \in G
      BY <1>2, <1>3
    <3>2. (n - k) + 1 \in 1 .. n /\ (n - ((n - k) + 1)) + 1 = k
      BY <1>1, <3>1
    <3> QED
      BY <1>1, <3>1, <3>2
  <2>5. f \in Bijection(D, E)
    <3>1. f \in [D -> E]
      BY <2>2
    <3>2. f \in Injection(D, E)
      BY <3>1, <2>3 DEF Injection, IsInjective
    <3>3. f \in Surjection(D, E)
      BY <3>1, <2>4 DEF Surjection
    <3> QED
      BY <3>2, <3>3 DEF Bijection
  <2>6. Cardinality(E) = Cardinality(D)
    BY <2>1, <2>5, FS_Bijection DEF ExistsBijection
  <2> QED
    BY <2>6 DEF Count
<1> QED
  BY <1>1, <1>3, <1>4

\* The first n of a list, and the releases for them.
LEMMA CountParts ==
  ASSUME NEW s \in Seq(Entries), NEW n \in 0 .. Len(s)
  PROVE  /\ SubSeq(s, n + 1, Len(s)) \in Seq(Entries)
         /\ \A G : Count(s, G) = Count(SubSeq(s, 1, n), G) + Count(SubSeq(s, n + 1, Len(s)), G)
<1>1. Len(s) \in Nat /\ \A i \in 1 .. Len(s) : s[i] \in Entries
  BY ElementOfSeq, LenProperties
<1>2. SubSeq(s, 1, n) \in Seq(Entries) /\ SubSeq(s, n + 1, Len(s)) \in Seq(Entries)
  BY <1>1, SubSeqProperties
<1>3. SubSeq(s, 1, n) \o SubSeq(s, n + 1, Len(s)) = s
  <2>1. CASE s = <<>>
    <3>1. Len(s) = 0 /\ n = 0
      BY <2>1
    <3>2. SubSeq(s, 1, 0) = <<>> /\ SubSeq(s, 1, Len(s)) = <<>>
      BY <3>1, SubSeqEmpty
    <3> QED
      BY <2>1, <3>1, <3>2, <1>2, ConcatEmptySeq
  <2>2. CASE s # <<>>
    <3>1. 1 \in 1 .. Len(s) + 1 /\ n \in 1 - 1 .. Len(s) /\ Len(s) \in n .. Len(s)
      BY <1>1
    <3> QED
      BY <3>1, ConcatAdjacentSubSeq, SubSeqFull
  <2> QED
    BY <2>1, <2>2
<1>4. ASSUME NEW G PROVE Count(s, G) = Count(SubSeq(s, 1, n), G) + Count(SubSeq(s, n + 1, Len(s)), G)
  <2>1. Count(SubSeq(s, 1, n) \o SubSeq(s, n + 1, Len(s)), G) = Count(SubSeq(s, 1, n), G) + Count(SubSeq(s, n + 1, Len(s)), G)
    BY <1>2, CountConcat
  <2> QED
    BY <1>3, <2>1
<1> QED
  BY <1>2, <1>4

LEMMA CountReleases ==
  ASSUME NEW s \in Seq(Entries), NEW n \in 0 .. Len(s)
  PROVE  LET p == [i \in 1 .. n |-> <<"release", s[i]>>] IN
         /\ p \in Seq(AllSteps) /\ Len(p) = n
         /\ \A i \in 1 .. n : p[i] = <<"release", s[i]>>
         /\ \A x \in Entries : \A K : Count(p, For(K, x)) = IF "release" \in K THEN Count(SubSeq(s, 1, n), {x}) ELSE 0
         /\ \A x \in Entries : Count(SubSeq(s, 1, n), {x}) = 0 => \A i \in 1 .. n : p[i] \notin Naming(x)
<1> DEFINE p == [i \in 1 .. n |-> <<"release", s[i]>>]
           q == SubSeq(s, 1, n)
<1>1. Len(s) \in Nat /\ n \in Nat /\ \A i \in 1 .. n : s[i] \in Entries
  BY ElementOfSeq, LenProperties
<1>2. \A i \in 1 .. n : p[i] = <<"release", s[i]>> /\ p[i] \in AllSteps
  BY <1>1, StepsAre DEF EntryKinds, Counting
<1>3. p \in Seq(AllSteps) /\ Len(p) = n /\ DOMAIN p = 1 .. n
  BY <1>1, <1>2
<1>4. q \in Seq(Entries) /\ Len(q) = n /\ \A i \in 1 .. n : q[i] = s[i]
  BY <1>1, SubSeqProperties
<1>5. DOMAIN q = 1 .. n
  BY <1>4, LenProperties
<1>6. \A x \in Entries : \A i \in 1 .. n : \A K : p[i] \in For(K, x) <=> "release" \in K /\ q[i] \in {x}
  BY <1>2, <1>4 DEF For
<1>7. ASSUME NEW x \in Entries, NEW K PROVE Count(p, For(K, x)) = IF "release" \in K THEN Count(q, {x}) ELSE 0
  <2>1. CASE "release" \in K
    <3>1. {i \in DOMAIN p : p[i] \in For(K, x)} = {i \in DOMAIN q : q[i] \in {x}}
      BY <1>3, <1>5, <1>6, <2>1
    <3> QED
      BY <2>1, <3>1 DEF Count
  <2>2. CASE "release" \notin K
    <3>1. \A i \in 1 .. Len(p) : p[i] \notin For(K, x)
      BY <1>3, <1>6, <2>2
    <3> QED
      BY <1>3, <2>2, <3>1, CountType
  <2> QED
    BY <2>1, <2>2
<1>8. ASSUME NEW x \in Entries, Count(q, {x}) = 0, NEW i \in 1 .. n PROVE p[i] \notin Naming(x)
  <2>3. \A j \in 1 .. Len(q) : q[j] \notin {x}
    <3> HIDE DEF q
    <3> QED
      BY <1>4, <1>8, CountType
  <2>1. q[i] # x
    BY <1>4, <1>8, <2>3
  <2>2. p[i] = <<"release", q[i]>>
    BY <1>2, <1>4
  <2> QED
    BY <2>1, <2>2 DEF Naming, Takes, ForSets
<1> QED
  BY <1>2, <1>3, <1>7, <1>8

-----------------------------------------------------------------------------
(* Steps that hand an entry on: who has it and who loads it changes, how many *)
(* these are does not.                                                        *)

Keeps(x) ==
  /\ entry'[x] = entry[x]
  /\ Having(x)' = Having(x)
  /\ Loads(x)' = Loads(x) /\ TasksOf(x)' = TasksOf(x)
  /\ Coming(x) # 0 => Coming(x)' # 0
  /\ StepsIn(For(Unparkers, x))' = StepsIn(For(Unparkers, x))
  /\ StepsIn(For(PendingKinds, x))' = StepsIn(For(PendingKinds, x))
  /\ ~gone' => ~gone /\ Queue(x)' = Queue(x)

LEMMA KeptAccounts ==
  ASSUME NEW x \in Entries, Keeps(x)
  PROVE  /\ x \in Live' <=> x \in Live
         /\ CountOk(x) => CountOk(x)'
         /\ LoadOk(x) => LoadOk(x)'
         /\ QueueOk(x) => QueueOk(x)'
BY DEF Keeps, Live, CountOk, LoadOk, QueueOk, Unparkers, PendingKinds

LEMMA OneKept ==
  ASSUME Accounts, Unknown, NEW e \in Live, \A x \in Entries \ {e} : Unnamed(x) /\ Spared(x), Keeps(e)
  PROVE  Accounts' /\ Unknown'
<1>1. e \in Entries /\ entry[e].life = "live" /\ CountOk(e) /\ LoadOk(e) /\ QueueOk(e)
  BY DEF Accounts, Live
<1>2. entry'[e].life = "live"
  BY <1>1 DEF Keeps
<1> QED
  BY <1>1, <1>2, KeptAccounts, OneEntry

LEMMA AllKept ==
  ASSUME Accounts, Unknown, \A x \in Live : Keeps(x), \A x \in Entries \ Live : Unnamed(x) /\ Spared(x)
  PROVE  Accounts' /\ Unknown'
<1>1. \A x \in Entries : x \in Live' <=> x \in Live
  BY KeptAccounts, SparedKept DEF Live
<1>2. Accounts'
  <2> SUFFICES ASSUME NEW x \in Live' PROVE (CountOk(x) /\ LoadOk(x) /\ QueueOk(x))'
    BY DEF Accounts
  <2>1. x \in Entries
    BY DEF Live
  <2>2. x \in Live /\ CountOk(x) /\ LoadOk(x) /\ QueueOk(x)
    BY <1>1, <2>1 DEF Accounts
  <2> QED
    BY <2>1, <2>2, KeptAccounts
<1>3. Unknown'
  <2> SUFFICES ASSUME NEW x \in Entries, x \notin Live'
               PROVE  /\ x \notin published' \cup fresh' \cup unused' \cup disk'
                      /\ Holders(x)' = {}
                      /\ Count(Waiting, {x})' = 0 /\ Count(replaced, {x})' = 0 /\ StepsIn(Naming(x))' = 0
                      /\ entry'[x].life = "freed" => ~entry'[x].pending
    BY DEF Unknown
  <2>1. x \notin Live /\ Unnamed(x) /\ Spared(x)
    BY <1>1
  <2>2. StepsIn(Naming(x))' = StepsIn(Naming(x))
    BY <2>1, SparedKept
  <2> QED
    BY <2>1, <2>2 DEF Unknown, Spared
<1> QED
  BY <1>2, <1>3

\* From how the numbers change.
LEMMA Handing ==
  ASSUME Typed, Typed', NEW x \in Entries, entry'[x] = entry[x],
         NEW c \in Int, NEW l \in Int, NEW m \in Int, NEW k \in Int, NEW q \in Int, Shifts(x, c, l, m, k, 0, 0, q),
         NEW n \in Int, Cardinality(Holders(x))' = Cardinality(Holders(x)) + n,
         NEW w \in Int, Count(Waiting, {x})' = Count(Waiting, {x}) + w,
         NEW r \in Int, Count(replaced, {x})' = Count(replaced, {x}) + r,
         NEW d \in Int, One(x \in disk') = One(x \in disk) + d,
         NEW f \in Int, One(x \in unused') = One(x \in unused) + f,
         n + w + r + c + d = 0, l + d = 0, k + w + d = 0, m + w >= 0,
         ~gone' => ~gone /\ q + f = 0
  PROVE  Keeps(x)
<1>1. /\ Cardinality(Holders(x)) \in Nat /\ Count(Waiting, {x}) \in Nat /\ Count(replaced, {x}) \in Nat
      /\ \A G : StepsIn(G) \in Nat
  BY Amounts
<1>2. \A b : One(b) \in Nat
  BY DEF One
<1>3. One(x \in disk)' = One(x \in disk') /\ One(x \in unused)' = One(x \in unused')
      /\ One(entry[x].parked)' = One(entry[x].parked)
  BY DEF One
<1>4. Having(x)' = Having(x)
  <2>1. StepsIn(For(Counting, x))' = StepsIn(For(Counting, x)) + c
    BY DEF Shifts
  <2>2. Having(x) = Cardinality(Holders(x)) + Count(Waiting, {x}) + Count(replaced, {x}) + StepsIn(For(Counting, x)) + One(x \in disk)
    BY DEF Having
  <2>3. Having(x)' = Cardinality(Holders(x))' + Count(Waiting, {x})' + Count(replaced, {x})' + StepsIn(For(Counting, x))' + One(x \in disk')
    BY <1>3 DEF Having
  <2> QED
    BY <1>1, <1>2, <2>1, <2>2, <2>3
<1>5. Loads(x)' = Loads(x)
  BY <1>1, <1>2, <1>3 DEF Loads, Shifts
<1>6. TasksOf(x)' = TasksOf(x)
  BY <1>1, <1>2, <1>3 DEF TasksOf, Shifts
<1>7. Coming(x) # 0 => Coming(x)' # 0
  <2>1. Coming(x) \in Nat /\ Coming(x)' = Coming(x) + (m + w)
    BY <1>1 DEF Coming, Shifts
  <2> QED
    BY <2>1
<1>8. /\ StepsIn(For(Unparkers, x))' = StepsIn(For(Unparkers, x))
      /\ StepsIn(For(PendingKinds, x))' = StepsIn(For(PendingKinds, x))
  BY <1>1 DEF Shifts
<1>9. ~gone' => ~gone /\ Queue(x)' = Queue(x)
  BY <1>1, <1>2, <1>3 DEF Queue, Shifts
<1> QED
  BY <1>4, <1>5, <1>6, <1>7, <1>8, <1>9 DEF Keeps

\* What such a step leaves as it is.
LEMMA HandOn ==
  ASSUME CacheInv, NEW t \in Threads, todo[t] # <<>>, NEW h, h = todo[t][1],
         NEW p \in Seq(AllSteps), Then(t, p), entry' = entry, Typed',
         Follows(h, p, Mine(t)'), Calm(p), h[1] \notin Dispatcher \cup {"dispatch", "destroyAll"},
         UNCHANGED <<incoming, queued, requests, running, lane, gone>>,
         \A u \in Users : held[u] \subseteq held'[u], gone => held' = held,
         h[1] \in {"release", "enqueue"} => tasks' = tasks /\ replaced' = replaced,
         published' \cup fresh' \subseteq published \cup fresh,
         h[1] \in Waits /\ p = <<>> => Me(t).state # "Loading"
  PROVE  Numbered' /\ Shape' /\ Doom' /\ Dispatching' /\ Ending'
<1>1. Typed /\ Numbered /\ Shape /\ Unknown /\ Doom /\ Dispatching /\ Ending
  BY DEF CacheInv
<1>2. Numbered'
  BY <1>1 DEF Numbered
<1>3. held' \in [Users -> SUBSET Entries]
  BY DEF Typed, TypeOK
<1>4. \A x \in Live : entry[x].count = 0 /\ x \notin published \cup fresh
                        => entry'[x].count = 0 /\ x \notin published' \cup fresh'
  OBVIOUS
<1>5. \A u \in Threads \ {t} : At(u, "reload") => entry'[Arg(u)].state # "Loading"
  BY <1>1 DEF Shape, Me
<1>6. h[1] \in Waits /\ p = <<>> => entry'[Arg(t)].state # "Loading"
  BY DEF Me
<1> QED
  BY <1>1, <1>2, <1>3, <1>4, <1>5, <1>6, OrdinaryStep

\* What a step leaves as it is that is of the dispatcher, or for no entry.
LEMMA RestKept ==
  ASSUME CacheInv, NEW t \in Threads, todo[t] # <<>>, NEW p \in Seq(AllSteps), Then(t, p),
         Follows(todo[t][1], p, Mine(t)'), Still(p),
         todo[t][1][1] \notin Waits \cup {"destroyAll", "release", "enqueue"},
         entry' = entry, held' = held, gone' = gone, published' \cup fresh' \subseteq published \cup fresh
  PROVE  Numbered' /\ Shape' /\ Doom' /\ Ending'
<1>1. Typed /\ Numbered /\ Shape /\ Unknown /\ Doom /\ Ending
  BY DEF CacheInv
<1>2. Numbered'
  BY <1>1 DEF Numbered
<1>3. \A u \in Threads \ {t} : At(u, "reload") => entry'[Arg(u)].state # "Loading"
  BY <1>1 DEF Shape, Me
<1>4. held' \in [Users -> SUBSET Entries] /\ \A u \in Users : held[u] \subseteq held'[u]
  BY <1>1 DEF Typed, TypeOK
<1>5. Shape'
  BY <1>1, <1>3, <1>4, ShapeKept
<1>6. NoNew(ForSets)
  BY <1>1, StillStep
<1>7. \A x \in Live : entry[x].count = 0 /\ x \notin published \cup fresh
                        => entry'[x].count = 0 /\ x \notin published' \cup fresh'
  OBVIOUS
<1>8. Doom'
  BY <1>1, <1>6, <1>7, DoomKept
<1>9. Ending'
  BY <1>1, EndingKept
<1> QED
  BY <1>2, <1>5, <1>8, <1>9

LEMMA IdleHead ==
  ASSUME CacheInv, NEW t \in Threads, NEW k, At(t, k)
  PROVE  /\ Typed /\ todo[t] # <<>> /\ todo[t] \in Seq(AllSteps) /\ todo[t][1] \in AllSteps
         /\ todo[t][1][1] = k /\ todo[t][1][2] = Arg(t) /\ todo[t][1][3] = More(t)
         /\ k \notin EntryKinds \cup ForSets => \A x \in Entries : todo[t][1] \notin Naming(x)
<1>1. Typed /\ todo[t] # <<>> /\ todo[t] \in Seq(AllSteps) /\ todo[t][1][1] = k
  BY DEF CacheInv, Typed, At
<1>2. todo[t][1] \in AllSteps
  BY <1>1, EmptySeq
<1> QED
  BY <1>1, <1>2 DEF Arg, More, Naming, Takes, EntryKinds

LEMMA NoneNamed ==
  ASSUME Accounts, Unknown, \A x \in Entries : Unnamed(x) /\ Spared(x)
  PROVE  Accounts' /\ Unknown'
<1>1. \A x \in Entries : x \in Live' <=> x \in Live
  BY SparedKept
<1>2. Accounts'
  <2> SUFFICES ASSUME NEW x \in Live' PROVE (CountOk(x) /\ LoadOk(x) /\ QueueOk(x))'
    BY DEF Accounts
  <2>1. x \in Entries
    BY DEF Live
  <2>2. x \in Live /\ CountOk(x) /\ LoadOk(x) /\ QueueOk(x)
    BY <1>1, <2>1 DEF Accounts
  <2> QED
    BY <2>1, <2>2, SparedKept
<1>3. Unknown'
  <2> SUFFICES ASSUME NEW x \in Entries, x \notin Live'
               PROVE  /\ x \notin published' \cup fresh' \cup unused' \cup disk'
                      /\ Holders(x)' = {}
                      /\ Count(Waiting, {x})' = 0 /\ Count(replaced, {x})' = 0 /\ StepsIn(Naming(x))' = 0
                      /\ entry'[x].life = "freed" => ~entry'[x].pending
    BY DEF Unknown
  <2>1. x \notin Live /\ Spared(x)
    BY <1>1
  <2>2. StepsIn(Naming(x))' = StepsIn(Naming(x))
    BY SparedKept
  <2> QED
    BY <2>1, <2>2 DEF Unknown, Spared
<1> QED
  BY <1>2, <1>3

\* Steps that are for no entry.
LEMMA IdleStep ==
  ASSUME CacheInv, NEW t \in Threads, todo[t] # <<>>, NEW p \in Seq(AllSteps), Then(t, p),
         \A x \in Entries : todo[t][1] \notin Naming(x),
         \A x \in Entries : \A i \in 1 .. Len(p) : p[i] \notin Naming(x),
         UNCHANGED <<entry, held, unused, disk, replaced, gone>>, published' \cup fresh' \subseteq published \cup fresh,
         \A x \in Entries : Count(Waiting, {x})' = Count(Waiting, {x})
  PROVE  Accounts' /\ Unknown'
<1>1. Accounts /\ Unknown /\ Typed
  BY DEF CacheInv
<1>2. ASSUME NEW x \in Entries PROVE Unnamed(x) /\ Spared(x)
  <2>1. Unnamed(x)
    BY <1>1, NotNamed
  <2>2. Holders(x)' = Holders(x)
    BY DEF Holders
  <2> QED
    BY <2>1, <2>2 DEF Spared
<1> QED
  BY <1>1, <1>2, NoneNamed

\* What lane threads do not do is for users.
LEMMA UsersDo ==
  ASSUME CacheInv, NEW t \in Threads, NEW k, At(t, k), k \notin LaneSteps
  PROVE  t \in Users
<1>1. todo[t] \in Seq(AllSteps) /\ todo[t] # <<>> /\ todo[t][1][1] = k /\ 1 \in 1 .. Len(todo[t])
  BY EmptySeq, LenProperties DEF CacheInv, Typed, At
<1> QED
  BY <1>1 DEF CacheInv, Shape, LaneLike, Threads

\* What is left is done before the cache is gone.
LEMMA NotGone ==
  ASSUME CacheInv, NEW t \in Threads, NEW k, At(t, k), k \notin LateSteps
  PROVE  ~gone
<1>1. todo[t] \in Seq(AllSteps) /\ todo[t] # <<>> /\ todo[t][1][1] = k /\ 1 \in DOMAIN todo[t]
  BY EmptySeq, LenProperties DEF CacheInv, Typed, At
<1> QED
  BY <1>1 DEF CacheInv, Ending

LEMMA DiskFinite ==
  ASSUME Typed
  PROVE  /\ IsFiniteSet(disk) /\ Cardinality(disk) \in Nat
         /\ \A x \in Entries : /\ x \notin disk => Cardinality(disk \cup {x}) = Cardinality(disk) + 1
                               /\ x \in disk => Cardinality(disk \ {x}) = Cardinality(disk) - 1
<1>1. IsFiniteSet(Entries)
  BY CacheAssumption, FS_Interval DEF Entries
<1>2. disk \in SUBSET Entries
  BY DEF Typed, TypeOK
<1>3. IsFiniteSet(disk)
  BY <1>1, <1>2, FS_Subset
<1> QED
  BY <1>3, FS_CardinalityType, FS_AddElement, FS_RemoveElement

LEMMA Zeros ==
  ASSUME Typed, NEW x \in Entries
  PROVE  /\ Cardinality(Holders(x)) = Cardinality(Holders(x)) + 0
         /\ Count(Waiting, {x}) = Count(Waiting, {x}) + 0 /\ Count(replaced, {x}) = Count(replaced, {x}) + 0
         /\ One(x \in disk) = One(x \in disk) + 0 /\ One(x \in unused) = One(x \in unused) + 0
<1>1. Cardinality(Holders(x)) \in Nat /\ Count(Waiting, {x}) \in Nat /\ Count(replaced, {x}) \in Nat
  BY Amounts
<1>2. One(x \in disk) \in Nat /\ One(x \in unused) \in Nat
  BY DEF One
<1> QED
  BY <1>1, <1>2

-----------------------------------------------------------------------------
(* The steps for one entry. *)

LEMMA ReleaseLast ==
  ASSUME CacheInv, NEW t \in Threads, Release(t), Me(t).count = 1, ~Me(t).queued
  PROVE  CacheInv'
<1>1. PICK e : e = Arg(t) /\ "release" \in EntryKinds /\ At(t, "release")
  BY DEF Release, EntryKinds, Counting, Passing, Waits
<1> DEFINE h == todo[t][1]
           new == [Me(t) EXCEPT !.count = @ - 1, !.queued = @ \/ Me(t).count = 1]
           a == <<"enqueue", e>>
           p == <<a>>
<1>2. /\ Typed /\ todo[t] # <<>> /\ h \in AllSteps /\ h[1] = "release" /\ h[2] = e /\ h[3] = More(t)
      /\ e \in Live /\ e \in Entries
      /\ Me(t) = entry[e] /\ Me(t) \in EntryType /\ Me(t).life = "live"
      /\ CountOk(e) /\ LoadOk(e) /\ QueueOk(e)
      /\ \A K : "release" \in K => StepsIn(For(K, e)) # 0
      /\ \A x \in Entries \ {e} : h \notin Naming(x)
  BY <1>1, EntryHead DEF More
<1>3. entry[e].count = 1 /\ ~entry[e].queued
  BY <1>2
<1>4. entry[e].count # 0
  BY <1>1, HeadUsed DEF EntryKinds, Counting, Passing, Waits
<1>5. /\ a \in AllSteps /\ a[1] = "enqueue" /\ a[2] = e
  BY <1>2, StepsAre DEF EntryKinds, Counting, Passing, Waits, Ops
<1>6. Then(t, p) /\ entry' = [entry EXCEPT ![e] = new] /\ OnlyEntries
  BY <1>1, <1>2 DEF Release, Change, Pass
<1>7. Shifts(e, -1, 0, 0, 0, 0, 0, 1)
  <2>1. /\ Of(h, Counting, e) = 1 /\ Of(h, Loaders, e) = 0 /\ Of(h, Comers, e) = 0 /\ Of(h, Tasking, e) = 0 /\ Of(h, Unparkers, e) = 0 /\ Of(h, PendingKinds, e) = 0 /\ Of(h, {"enqueue"}, e) = 0
        /\ Of(a, Counting, e) = 0 /\ Of(a, Loaders, e) = 0 /\ Of(a, Comers, e) = 0 /\ Of(a, Tasking, e) = 0 /\ Of(a, Unparkers, e) = 0 /\ Of(a, PendingKinds, e) = 0 /\ Of(a, {"enqueue"}, e) = 1
    BY <1>2, <1>5 DEF Of, One, Counting, Loaders, Comers, Tasking, Unparkers, PendingKinds
  <2>2. {h[1], a[1]} \cap ForSets = {}
    BY <1>2, <1>5 DEF ForSets
  <2> HIDE DEF h, a
  <2>3. h = todo[t][1] /\ Then(t, <<a>>)
    BY <1>6 DEF h
  <2> QED
    BY <1>2, <1>5, <2>1, <2>2, <2>3, ShiftOne
<1>8. Follows(h, p, Mine(t)) /\ Calm(p) /\ p \in Seq(AllSteps)
  <2>1. Apt(h, a)
    BY <1>2, <1>5 DEF Apt, Suits, Lasts, TaskDoneOnLane, Forces, EndOfForce, LaneSteps, Dispatcher, LateSteps
  <2>2. /\ Covered(h, a, Mine(t))
    BY <1>2, <1>5 DEF Covered, Backs, Passing, Waits, Counting
  <2>3. /\ a[1] \notin {"reload", "unpark"}
        /\ h[1] \in Waits => a[1] \in Waits /\ a[2] = h[2]
        /\ h[1] \in TaskEnds => a[1] \in TaskEnds
        /\ a[1] \notin Dispatcher \cup ForSets \cup {"destroyAll"}
    BY <1>2, <1>5 DEF Waits, TaskEnds, Lasts, Firsts, Dispatcher, ForSets, TaskDoneOnLane
  <2> HIDE DEF h, a
  <2>4. Follows(h, <<a>>, Mine(t)) /\ Calm(<<a>>) /\ <<a>> \in Seq(AllSteps)
    BY <1>5, <2>1, <2>2, <2>3, FollowsOne
  <2> QED
    BY <2>4
<1>9. /\ \A G : StepsIn(G) \in Nat
      /\ entry[e].count \in Nat /\ entry[e].state \in {"Loading", "Ready", "Failed"}
      /\ Cardinality(Holders(e)) \in Nat /\ Count(Waiting, {e}) \in Nat /\ Count(replaced, {e}) \in Nat
  BY <1>2, Amounts
<1>10. /\ StepsIn(For(Loaders, e)) = StepsIn(For(Unparkers, e)) + StepsIn(For(OtherLoaders, e))
      /\ StepsIn(For(PendingKinds, e)) = StepsIn(For(Unparkers, e)) + StepsIn(For({"parkOrLoad"}, e))
      /\ StepsIn(For(Counting, e)) # 0
  BY <1>2, LoadersAre DEF Counting, Loaders, Comers, Tasking, Unparkers, PendingKinds, OtherLoaders
<1>11. /\ new \in EntryType /\ new.life = "live"
      /\ new.count = (entry[e].count - 1)
      /\ new.queued = TRUE
      /\ new.parked = entry[e].parked
      /\ new.claimed = entry[e].claimed
      /\ new.state = entry[e].state
      /\ new.pending = entry[e].pending
  <2>1. /\ new.life = "live"
        /\ new.count = (entry[e].count - 1)
        /\ new.queued = TRUE
        /\ new.parked = entry[e].parked
        /\ new.claimed = entry[e].claimed
        /\ new.state = entry[e].state
        /\ new.pending = entry[e].pending
    BY <1>2 DEF EntryType
  <2>2. /\ entry[e].count - 1 \in Nat /\ (Me(t).queued \/ Me(t).count = 1) \in BOOLEAN /\ Me(t).count = entry[e].count
    BY <1>2, <1>9, <1>4
  <2>3. new \in EntryType
    BY <1>2, <1>9, <1>4, <2>2 DEF EntryType
  <2> QED
    BY <2>1, <2>3
<1> HIDE DEF new, p, h, a
<1>12. Settles(e, new, -1, 0, 0, 0, 0, 0, 1)
  <2>1. Queue(e) \in Nat /\ (~gone => Queue(e) = One(entry[e].queued) /\ (~entry[e].queued => entry[e].count # 0))
    BY <1>2, <1>9 DEF Queue, QueueOk, One
  <2>2. Having(e) - 1 = new.count
    BY <1>2, <1>9, <1>10, <1>11, <1>4, <1>3 DEF One, CountOk, Having
  <2>3. Loads(e) + 0 + One(new.parked) - One(entry[e].parked) = One(new.state = "Loading" /\ new.claimed)
    BY <1>2, <1>9, <1>10, <1>11, <1>4, <1>3 DEF One, LoadOk, Loads
  <2>4. ~new.claimed => new.pending /\ new.state = "Loading" /\ Coming(e) + 0 # 0
    BY <1>2, <1>9, <1>10, <1>11, <1>4, <1>3 DEF One, LoadOk, Coming
  <2>5. TasksOf(e) + 0 + One(new.parked) - One(entry[e].parked) <= 1
    <3>1. TasksOf(e) \in Int /\ TasksOf(e) <= 1
      BY <1>2, <1>9 DEF LoadOk, TasksOf, One
    <3> QED
      BY <1>2, <1>11, <3>1, <1>3 DEF One
  <2>6. new.parked \/ StepsIn(For(Unparkers, e)) + 0 # 0 => new.pending
    BY <1>2, <1>9, <1>10, <1>11, <1>4, <1>3 DEF One, LoadOk, Loads, Unparkers
  <2>7. new.pending => ~new.claimed \/ new.parked \/ StepsIn(For(PendingKinds, e)) + 0 # 0
    BY <1>2, <1>9, <1>10, <1>11, <1>4, <1>3 DEF One, LoadOk, Loads, PendingKinds
  <2>8. ~gone => Queue(e) + 1 = One(new.queued) /\ (~new.queued => new.count # 0)
    BY <1>2, <1>9, <1>11, <2>1, <1>4, <1>3 DEF One
  <2> QED
    BY <2>2, <2>3, <2>4, <2>5, <2>6, <2>7, <2>8 DEF Settles
<1>13. NamesOnly(h, p, e) /\ Balanced
  <2>1. Mere(p, e) /\ h[1] \notin TaskSteps
    BY <1>2, <1>5 DEF Mere, p, TaskSteps, EntryKinds, Counting, Passing, Waits
  <2> QED
    BY <1>2, <1>6, <1>8, <2>1, MereSteps DEF h
<1>14. /\ {-1, 0, 1} \subseteq Int
       /\ h[1] \notin Dispatcher \cup {"dispatch", "destroyAll"}
       /\ new.count # 0 => entry[e].count # 0 \/ e \in published \cup fresh
       /\ h[1] \notin Waits
       /\ new.state = "Loading" => entry[e].state = "Loading"
  BY <1>2, <1>9, <1>11, <1>4 DEF Dispatcher, Waits
<1> QED
  BY <1>2, <1>6, <1>7, <1>8, <1>11, <1>12, <1>13, <1>14, EntryMoves DEF h

LEMMA ReleaseOther ==
  ASSUME CacheInv, NEW t \in Threads, Release(t), ~(Me(t).count = 1 /\ ~Me(t).queued)
  PROVE  CacheInv'
<1>1. PICK e : e = Arg(t) /\ "release" \in EntryKinds /\ At(t, "release")
  BY DEF Release, EntryKinds, Counting, Passing, Waits
<1> DEFINE h == todo[t][1]
           new == [Me(t) EXCEPT !.count = @ - 1, !.queued = @ \/ Me(t).count = 1]
           p == <<>>
<1>2. /\ Typed /\ todo[t] # <<>> /\ h \in AllSteps /\ h[1] = "release" /\ h[2] = e /\ h[3] = More(t)
      /\ e \in Live /\ e \in Entries
      /\ Me(t) = entry[e] /\ Me(t) \in EntryType /\ Me(t).life = "live"
      /\ CountOk(e) /\ LoadOk(e) /\ QueueOk(e)
      /\ \A K : "release" \in K => StepsIn(For(K, e)) # 0
      /\ \A x \in Entries \ {e} : h \notin Naming(x)
  BY <1>1, EntryHead DEF More
<1>3. ~(entry[e].count = 1 /\ ~entry[e].queued)
  BY <1>2
<1>4. entry[e].count # 0
  BY <1>1, HeadUsed DEF EntryKinds, Counting, Passing, Waits
<1>5. Then(t, p) /\ entry' = [entry EXCEPT ![e] = new] /\ OnlyEntries
  BY <1>1, <1>2 DEF Release, Change, Pass
<1>6. Shifts(e, -1, 0, 0, 0, 0, 0, 0)
  <2>1. /\ Of(h, Counting, e) = 1 /\ Of(h, Loaders, e) = 0 /\ Of(h, Comers, e) = 0 /\ Of(h, Tasking, e) = 0 /\ Of(h, Unparkers, e) = 0 /\ Of(h, PendingKinds, e) = 0 /\ Of(h, {"enqueue"}, e) = 0
    BY <1>2 DEF Of, One, Counting, Loaders, Comers, Tasking, Unparkers, PendingKinds
  <2>2. {h[1]} \cap ForSets = {}
    BY <1>2 DEF ForSets
  <2> HIDE DEF h
  <2>3. h = todo[t][1] /\ Then(t, <<>>)
    BY <1>5 DEF h
  <2> QED
    BY <1>2, <2>1, <2>2, <2>3, ShiftNone
<1>7. Follows(h, p, Mine(t)) /\ Calm(p) /\ p \in Seq(AllSteps)
  BY FollowsNone
<1>8. /\ \A G : StepsIn(G) \in Nat
      /\ entry[e].count \in Nat /\ entry[e].state \in {"Loading", "Ready", "Failed"}
      /\ Cardinality(Holders(e)) \in Nat /\ Count(Waiting, {e}) \in Nat /\ Count(replaced, {e}) \in Nat
  BY <1>2, Amounts
<1>9. /\ StepsIn(For(Loaders, e)) = StepsIn(For(Unparkers, e)) + StepsIn(For(OtherLoaders, e))
      /\ StepsIn(For(PendingKinds, e)) = StepsIn(For(Unparkers, e)) + StepsIn(For({"parkOrLoad"}, e))
      /\ StepsIn(For(Counting, e)) # 0
  BY <1>2, LoadersAre DEF Counting, Loaders, Comers, Tasking, Unparkers, PendingKinds, OtherLoaders
<1>10. /\ new \in EntryType /\ new.life = "live"
      /\ new.count = (entry[e].count - 1)
      /\ new.queued = entry[e].queued
      /\ new.parked = entry[e].parked
      /\ new.claimed = entry[e].claimed
      /\ new.state = entry[e].state
      /\ new.pending = entry[e].pending
  <2>1. /\ new.life = "live"
        /\ new.count = (entry[e].count - 1)
        /\ new.queued = entry[e].queued
        /\ new.parked = entry[e].parked
        /\ new.claimed = entry[e].claimed
        /\ new.state = entry[e].state
        /\ new.pending = entry[e].pending
    BY <1>2 DEF EntryType
  <2>2. /\ entry[e].count - 1 \in Nat /\ (Me(t).queued \/ Me(t).count = 1) \in BOOLEAN /\ Me(t).count = entry[e].count
    BY <1>2, <1>8, <1>4
  <2>3. new \in EntryType
    BY <1>2, <1>8, <1>4, <2>2 DEF EntryType
  <2> QED
    BY <2>1, <2>3
<1> HIDE DEF new, p, h
<1>11. Settles(e, new, -1, 0, 0, 0, 0, 0, 0)
  <2>1. Queue(e) \in Nat /\ (~gone => Queue(e) = One(entry[e].queued) /\ (~entry[e].queued => entry[e].count # 0))
    BY <1>2, <1>8 DEF Queue, QueueOk, One
  <2>2. Having(e) - 1 = new.count
    BY <1>2, <1>8, <1>9, <1>10, <1>4, <1>3 DEF One, CountOk, Having
  <2>3. Loads(e) + 0 + One(new.parked) - One(entry[e].parked) = One(new.state = "Loading" /\ new.claimed)
    BY <1>2, <1>8, <1>9, <1>10, <1>4, <1>3 DEF One, LoadOk, Loads
  <2>4. ~new.claimed => new.pending /\ new.state = "Loading" /\ Coming(e) + 0 # 0
    BY <1>2, <1>8, <1>9, <1>10, <1>4, <1>3 DEF One, LoadOk, Coming
  <2>5. TasksOf(e) + 0 + One(new.parked) - One(entry[e].parked) <= 1
    <3>1. TasksOf(e) \in Int /\ TasksOf(e) <= 1
      BY <1>2, <1>8 DEF LoadOk, TasksOf, One
    <3> QED
      BY <1>2, <1>10, <3>1, <1>3 DEF One
  <2>6. new.parked \/ StepsIn(For(Unparkers, e)) + 0 # 0 => new.pending
    BY <1>2, <1>8, <1>9, <1>10, <1>4, <1>3 DEF One, LoadOk, Loads, Unparkers
  <2>7. new.pending => ~new.claimed \/ new.parked \/ StepsIn(For(PendingKinds, e)) + 0 # 0
    BY <1>2, <1>8, <1>9, <1>10, <1>4, <1>3 DEF One, LoadOk, Loads, PendingKinds
  <2>8. ~gone => Queue(e) + 0 = One(new.queued) /\ (~new.queued => new.count # 0)
    BY <1>2, <1>8, <1>10, <2>1, <1>4, <1>3 DEF One
  <2> QED
    BY <2>2, <2>3, <2>4, <2>5, <2>6, <2>7, <2>8 DEF Settles
<1>12. NamesOnly(h, p, e) /\ Balanced
  <2>1. Mere(p, e) /\ h[1] \notin TaskSteps
    BY <1>2 DEF Mere, p, TaskSteps, EntryKinds, Counting, Passing, Waits
  <2> QED
    BY <1>2, <1>5, <1>7, <2>1, MereSteps DEF h
<1>13. /\ {-1, 0} \subseteq Int
       /\ h[1] \notin Dispatcher \cup {"dispatch", "destroyAll"}
       /\ new.count # 0 => entry[e].count # 0 \/ e \in published \cup fresh
       /\ h[1] \notin Waits
       /\ new.state = "Loading" => entry[e].state = "Loading"
  BY <1>2, <1>8, <1>10, <1>4 DEF Dispatcher, Waits
<1> QED
  BY <1>2, <1>5, <1>6, <1>7, <1>10, <1>11, <1>12, <1>13, EntryMoves DEF h

LEMMA ThrowStep ==
  ASSUME CacheInv, NEW t \in Threads, ThrowOrKeep(t), Me(t).state = "Failed"
  PROVE  CacheInv'
<1>1. PICK e : e = Arg(t) /\ "throwOrKeep" \in EntryKinds /\ At(t, "throwOrKeep")
  BY DEF ThrowOrKeep, EntryKinds, Counting, Passing, Waits
<1> DEFINE h == todo[t][1]
           new == entry[e]
           a == <<"release", e>>
           p == <<a>>
<1>2. /\ Typed /\ todo[t] # <<>> /\ h \in AllSteps /\ h[1] = "throwOrKeep" /\ h[2] = e /\ h[3] = More(t)
      /\ e \in Live /\ e \in Entries
      /\ Me(t) = entry[e] /\ Me(t) \in EntryType /\ Me(t).life = "live"
      /\ CountOk(e) /\ LoadOk(e) /\ QueueOk(e)
      /\ \A K : "throwOrKeep" \in K => StepsIn(For(K, e)) # 0
      /\ \A x \in Entries \ {e} : h \notin Naming(x)
  BY <1>1, EntryHead DEF More
<1>3. entry[e].count # 0
  BY <1>1, HeadUsed DEF EntryKinds, Counting, Passing, Waits
<1>4. /\ a \in AllSteps /\ a[1] = "release" /\ a[2] = e
  BY <1>2, StepsAre DEF EntryKinds, Counting, Passing, Waits, Ops
<1>5. Then(t, p) /\ entry' = [entry EXCEPT ![e] = new] /\ OnlyEntries
  <2>1. Then(t, p) /\ entry' = entry /\ OnlyEntries
    BY <1>1, <1>2 DEF ThrowOrKeep, Change, Pass
  <2> QED
    BY <1>2, <2>1 DEF Typed, TypeOK
<1>6. Shifts(e, 0, 0, 0, 0, 0, 0, 0)
  <2>1. /\ Of(h, Counting, e) = 1 /\ Of(h, Loaders, e) = 0 /\ Of(h, Comers, e) = 0 /\ Of(h, Tasking, e) = 0 /\ Of(h, Unparkers, e) = 0 /\ Of(h, PendingKinds, e) = 0 /\ Of(h, {"enqueue"}, e) = 0
        /\ Of(a, Counting, e) = 1 /\ Of(a, Loaders, e) = 0 /\ Of(a, Comers, e) = 0 /\ Of(a, Tasking, e) = 0 /\ Of(a, Unparkers, e) = 0 /\ Of(a, PendingKinds, e) = 0 /\ Of(a, {"enqueue"}, e) = 0
    BY <1>2, <1>4 DEF Of, One, Counting, Loaders, Comers, Tasking, Unparkers, PendingKinds
  <2>2. {h[1], a[1]} \cap ForSets = {}
    BY <1>2, <1>4 DEF ForSets
  <2> HIDE DEF h, a
  <2>3. h = todo[t][1] /\ Then(t, <<a>>)
    BY <1>5 DEF h
  <2> QED
    BY <1>2, <1>4, <2>1, <2>2, <2>3, ShiftOne
<1>7. Follows(h, p, Mine(t)) /\ Calm(p) /\ p \in Seq(AllSteps)
  <2>1. Apt(h, a)
    BY <1>2, <1>4 DEF Apt, Suits, Lasts, TaskDoneOnLane, Forces, EndOfForce, LaneSteps, Dispatcher, LateSteps
  <2>2. /\ Covered(h, a, Mine(t))
    BY <1>2, <1>4 DEF Covered, Backs, Passing, Waits, Counting
  <2>3. /\ a[1] \notin {"reload", "unpark"}
        /\ h[1] \in Waits => a[1] \in Waits /\ a[2] = h[2]
        /\ h[1] \in TaskEnds => a[1] \in TaskEnds
        /\ a[1] \notin Dispatcher \cup ForSets \cup {"destroyAll"}
    BY <1>2, <1>4 DEF Waits, TaskEnds, Lasts, Firsts, Dispatcher, ForSets, TaskDoneOnLane
  <2> HIDE DEF h, a
  <2>4. Follows(h, <<a>>, Mine(t)) /\ Calm(<<a>>) /\ <<a>> \in Seq(AllSteps)
    BY <1>4, <2>1, <2>2, <2>3, FollowsOne
  <2> QED
    BY <2>4
<1>8. /\ \A G : StepsIn(G) \in Nat
      /\ entry[e].count \in Nat /\ entry[e].state \in {"Loading", "Ready", "Failed"}
      /\ Cardinality(Holders(e)) \in Nat /\ Count(Waiting, {e}) \in Nat /\ Count(replaced, {e}) \in Nat
  BY <1>2, Amounts
<1>9. /\ StepsIn(For(Loaders, e)) = StepsIn(For(Unparkers, e)) + StepsIn(For(OtherLoaders, e))
      /\ StepsIn(For(PendingKinds, e)) = StepsIn(For(Unparkers, e)) + StepsIn(For({"parkOrLoad"}, e))
      /\ StepsIn(For(Counting, e)) # 0
  BY <1>2, LoadersAre DEF Counting, Loaders, Comers, Tasking, Unparkers, PendingKinds, OtherLoaders
<1>10. /\ new \in EntryType /\ new.life = "live"
      /\ new.count = entry[e].count
      /\ new.queued = entry[e].queued
      /\ new.parked = entry[e].parked
      /\ new.claimed = entry[e].claimed
      /\ new.state = entry[e].state
      /\ new.pending = entry[e].pending
  BY <1>2
<1> HIDE DEF new, p, h, a
<1>11. Settles(e, new, 0, 0, 0, 0, 0, 0, 0)
  <2>1. Queue(e) \in Nat /\ (~gone => Queue(e) = One(entry[e].queued) /\ (~entry[e].queued => entry[e].count # 0))
    BY <1>2, <1>8 DEF Queue, QueueOk, One
  <2>2. Having(e) + 0 = new.count
    BY <1>2, <1>8, <1>9, <1>10, <1>3 DEF One, CountOk, Having
  <2>3. Loads(e) + 0 + One(new.parked) - One(entry[e].parked) = One(new.state = "Loading" /\ new.claimed)
    BY <1>2, <1>8, <1>9, <1>10, <1>3, SMTT(60) DEF One, LoadOk, Loads
  <2>4. ~new.claimed => new.pending /\ new.state = "Loading" /\ Coming(e) + 0 # 0
    BY <1>2, <1>8, <1>9, <1>10, <1>3 DEF One, LoadOk, Coming
  <2>5. TasksOf(e) + 0 + One(new.parked) - One(entry[e].parked) <= 1
    <3>1. TasksOf(e) \in Int /\ TasksOf(e) <= 1
      BY <1>2, <1>8 DEF LoadOk, TasksOf, One
    <3> QED
      BY <1>2, <1>10, <3>1 DEF One
  <2>6. new.parked \/ StepsIn(For(Unparkers, e)) + 0 # 0 => new.pending
    BY <1>2, <1>8, <1>9, <1>10, <1>3 DEF One, LoadOk, Loads, Unparkers
  <2>7. new.pending => ~new.claimed \/ new.parked \/ StepsIn(For(PendingKinds, e)) + 0 # 0
    BY <1>2, <1>8, <1>9, <1>10, <1>3 DEF One, LoadOk, Loads, PendingKinds
  <2>8. ~gone => Queue(e) + 0 = One(new.queued) /\ (~new.queued => new.count # 0)
    BY <1>2, <1>8, <1>10, <2>1, <1>3 DEF One
  <2> QED
    BY <2>2, <2>3, <2>4, <2>5, <2>6, <2>7, <2>8 DEF Settles
<1>12. NamesOnly(h, p, e) /\ Balanced
  <2>1. Mere(p, e) /\ h[1] \notin TaskSteps
    BY <1>2, <1>4 DEF Mere, p, TaskSteps, EntryKinds, Counting, Passing, Waits
  <2> QED
    BY <1>2, <1>5, <1>7, <2>1, MereSteps DEF h
<1>13. /\ {0} \subseteq Int
       /\ h[1] \notin Dispatcher \cup {"dispatch", "destroyAll"}
       /\ new.count # 0 => entry[e].count # 0 \/ e \in published \cup fresh
       /\ h[1] \notin Waits
       /\ new.state = "Loading" => entry[e].state = "Loading"
  BY <1>2, <1>8, <1>10, <1>3 DEF Dispatcher, Waits
<1> QED
  BY <1>2, <1>5, <1>6, <1>7, <1>10, <1>11, <1>12, <1>13, EntryMoves DEF h

LEMMA KeepStep ==
  ASSUME CacheInv, NEW t \in Threads, ThrowOrKeep(t), Me(t).state # "Failed"
  PROVE  CacheInv'
<1>1. PICK e : e = Arg(t) /\ "throwOrKeep" \in EntryKinds /\ At(t, "throwOrKeep")
  BY DEF ThrowOrKeep, EntryKinds, Counting, Passing, Waits
<1> DEFINE h == todo[t][1]
           new == entry[e]
           a == <<"keep", e>>
           p == <<a>>
<1>2. /\ Typed /\ todo[t] # <<>> /\ h \in AllSteps /\ h[1] = "throwOrKeep" /\ h[2] = e /\ h[3] = More(t)
      /\ e \in Live /\ e \in Entries
      /\ Me(t) = entry[e] /\ Me(t) \in EntryType /\ Me(t).life = "live"
      /\ CountOk(e) /\ LoadOk(e) /\ QueueOk(e)
      /\ \A K : "throwOrKeep" \in K => StepsIn(For(K, e)) # 0
      /\ \A x \in Entries \ {e} : h \notin Naming(x)
  BY <1>1, EntryHead DEF More
<1>3. entry[e].count # 0
  BY <1>1, HeadUsed DEF EntryKinds, Counting, Passing, Waits
<1>4. /\ a \in AllSteps /\ a[1] = "keep" /\ a[2] = e
  BY <1>2, StepsAre DEF EntryKinds, Counting, Passing, Waits, Ops
<1>5. Then(t, p) /\ entry' = [entry EXCEPT ![e] = new] /\ OnlyEntries
  <2>1. Then(t, p) /\ entry' = entry /\ OnlyEntries
    BY <1>1, <1>2 DEF ThrowOrKeep, Change, Pass
  <2> QED
    BY <1>2, <2>1 DEF Typed, TypeOK
<1>6. Shifts(e, 0, 0, 0, 0, 0, 0, 0)
  <2>1. /\ Of(h, Counting, e) = 1 /\ Of(h, Loaders, e) = 0 /\ Of(h, Comers, e) = 0 /\ Of(h, Tasking, e) = 0 /\ Of(h, Unparkers, e) = 0 /\ Of(h, PendingKinds, e) = 0 /\ Of(h, {"enqueue"}, e) = 0
        /\ Of(a, Counting, e) = 1 /\ Of(a, Loaders, e) = 0 /\ Of(a, Comers, e) = 0 /\ Of(a, Tasking, e) = 0 /\ Of(a, Unparkers, e) = 0 /\ Of(a, PendingKinds, e) = 0 /\ Of(a, {"enqueue"}, e) = 0
    BY <1>2, <1>4 DEF Of, One, Counting, Loaders, Comers, Tasking, Unparkers, PendingKinds
  <2>2. {h[1], a[1]} \cap ForSets = {}
    BY <1>2, <1>4 DEF ForSets
  <2> HIDE DEF h, a
  <2>3. h = todo[t][1] /\ Then(t, <<a>>)
    BY <1>5 DEF h
  <2> QED
    BY <1>2, <1>4, <2>1, <2>2, <2>3, ShiftOne
<1>7. Follows(h, p, Mine(t)) /\ Calm(p) /\ p \in Seq(AllSteps)
  <2>1. Apt(h, a)
    BY <1>2, <1>4 DEF Apt, Suits, Lasts, TaskDoneOnLane, Forces, EndOfForce, LaneSteps, Dispatcher, LateSteps
  <2>2. /\ Covered(h, a, Mine(t))
    BY <1>2, <1>4 DEF Covered, Backs, Passing, Waits, Counting
  <2>3. /\ a[1] \notin {"reload", "unpark"}
        /\ h[1] \in Waits => a[1] \in Waits /\ a[2] = h[2]
        /\ h[1] \in TaskEnds => a[1] \in TaskEnds
        /\ a[1] \notin Dispatcher \cup ForSets \cup {"destroyAll"}
    BY <1>2, <1>4 DEF Waits, TaskEnds, Lasts, Firsts, Dispatcher, ForSets, TaskDoneOnLane
  <2> HIDE DEF h, a
  <2>4. Follows(h, <<a>>, Mine(t)) /\ Calm(<<a>>) /\ <<a>> \in Seq(AllSteps)
    BY <1>4, <2>1, <2>2, <2>3, FollowsOne
  <2> QED
    BY <2>4
<1>8. /\ \A G : StepsIn(G) \in Nat
      /\ entry[e].count \in Nat /\ entry[e].state \in {"Loading", "Ready", "Failed"}
      /\ Cardinality(Holders(e)) \in Nat /\ Count(Waiting, {e}) \in Nat /\ Count(replaced, {e}) \in Nat
  BY <1>2, Amounts
<1>9. /\ StepsIn(For(Loaders, e)) = StepsIn(For(Unparkers, e)) + StepsIn(For(OtherLoaders, e))
      /\ StepsIn(For(PendingKinds, e)) = StepsIn(For(Unparkers, e)) + StepsIn(For({"parkOrLoad"}, e))
      /\ StepsIn(For(Counting, e)) # 0
  BY <1>2, LoadersAre DEF Counting, Loaders, Comers, Tasking, Unparkers, PendingKinds, OtherLoaders
<1>10. /\ new \in EntryType /\ new.life = "live"
      /\ new.count = entry[e].count
      /\ new.queued = entry[e].queued
      /\ new.parked = entry[e].parked
      /\ new.claimed = entry[e].claimed
      /\ new.state = entry[e].state
      /\ new.pending = entry[e].pending
  BY <1>2
<1> HIDE DEF new, p, h, a
<1>11. Settles(e, new, 0, 0, 0, 0, 0, 0, 0)
  <2>1. Queue(e) \in Nat /\ (~gone => Queue(e) = One(entry[e].queued) /\ (~entry[e].queued => entry[e].count # 0))
    BY <1>2, <1>8 DEF Queue, QueueOk, One
  <2>2. Having(e) + 0 = new.count
    BY <1>2, <1>8, <1>9, <1>10, <1>3 DEF One, CountOk, Having
  <2>3. Loads(e) + 0 + One(new.parked) - One(entry[e].parked) = One(new.state = "Loading" /\ new.claimed)
    BY <1>2, <1>8, <1>9, <1>10, <1>3 DEF One, LoadOk, Loads
  <2>4. ~new.claimed => new.pending /\ new.state = "Loading" /\ Coming(e) + 0 # 0
    BY <1>2, <1>8, <1>9, <1>10, <1>3 DEF One, LoadOk, Coming
  <2>5. TasksOf(e) + 0 + One(new.parked) - One(entry[e].parked) <= 1
    <3>1. TasksOf(e) \in Int /\ TasksOf(e) <= 1
      BY <1>2, <1>8 DEF LoadOk, TasksOf, One
    <3> QED
      BY <1>2, <1>10, <3>1 DEF One
  <2>6. new.parked \/ StepsIn(For(Unparkers, e)) + 0 # 0 => new.pending
    BY <1>2, <1>8, <1>9, <1>10, <1>3 DEF One, LoadOk, Loads, Unparkers
  <2>7. new.pending => ~new.claimed \/ new.parked \/ StepsIn(For(PendingKinds, e)) + 0 # 0
    BY <1>2, <1>8, <1>9, <1>10, <1>3 DEF One, LoadOk, Loads, PendingKinds
  <2>8. ~gone => Queue(e) + 0 = One(new.queued) /\ (~new.queued => new.count # 0)
    BY <1>2, <1>8, <1>10, <2>1, <1>3 DEF One
  <2> QED
    BY <2>2, <2>3, <2>4, <2>5, <2>6, <2>7, <2>8 DEF Settles
<1>12. NamesOnly(h, p, e) /\ Balanced
  <2>1. Mere(p, e) /\ h[1] \notin TaskSteps
    BY <1>2, <1>4 DEF Mere, p, TaskSteps, EntryKinds, Counting, Passing, Waits
  <2> QED
    BY <1>2, <1>5, <1>7, <2>1, MereSteps DEF h
<1>13. /\ {0} \subseteq Int
       /\ h[1] \notin Dispatcher \cup {"dispatch", "destroyAll"}
       /\ new.count # 0 => entry[e].count # 0 \/ e \in published \cup fresh
       /\ h[1] \notin Waits
       /\ new.state = "Loading" => entry[e].state = "Loading"
  BY <1>2, <1>8, <1>10, <1>3 DEF Dispatcher, Waits
<1> QED
  BY <1>2, <1>5, <1>6, <1>7, <1>10, <1>11, <1>12, <1>13, EntryMoves DEF h

LEMMA LoadStep ==
  ASSUME CacheInv, NEW t \in Threads, NEW ok \in BOOLEAN, Load(t, ok)
  PROVE  CacheInv'
<1>1. PICK e : e = Arg(t) /\ "load" \in EntryKinds /\ At(t, "load")
  BY DEF Load, EntryKinds, Counting, Passing, Waits
<1> DEFINE h == todo[t][1]
           new == [Me(t) EXCEPT !.state = IF ok THEN "Ready" ELSE "Failed"]
           p == <<>>
<1>2. /\ Typed /\ todo[t] # <<>> /\ h \in AllSteps /\ h[1] = "load" /\ h[2] = e /\ h[3] = More(t)
      /\ e \in Live /\ e \in Entries
      /\ Me(t) = entry[e] /\ Me(t) \in EntryType /\ Me(t).life = "live"
      /\ CountOk(e) /\ LoadOk(e) /\ QueueOk(e)
      /\ \A K : "load" \in K => StepsIn(For(K, e)) # 0
      /\ \A x \in Entries \ {e} : h \notin Naming(x)
  BY <1>1, EntryHead DEF More
<1>3. entry[e].count # 0
  BY <1>1, HeadUsed DEF EntryKinds, Counting, Passing, Waits
<1>4. Then(t, p) /\ entry' = [entry EXCEPT ![e] = new] /\ OnlyEntries
  BY <1>1, <1>2 DEF Load, Change, Pass
<1>5. Shifts(e, 0, -1, 0, 0, 0, 0, 0)
  <2>1. /\ Of(h, Counting, e) = 0 /\ Of(h, Loaders, e) = 1 /\ Of(h, Comers, e) = 0 /\ Of(h, Tasking, e) = 0 /\ Of(h, Unparkers, e) = 0 /\ Of(h, PendingKinds, e) = 0 /\ Of(h, {"enqueue"}, e) = 0
    BY <1>2 DEF Of, One, Counting, Loaders, Comers, Tasking, Unparkers, PendingKinds
  <2>2. {h[1]} \cap ForSets = {}
    BY <1>2 DEF ForSets
  <2> HIDE DEF h
  <2>3. h = todo[t][1] /\ Then(t, <<>>)
    BY <1>4 DEF h
  <2> QED
    BY <1>2, <2>1, <2>2, <2>3, ShiftNone
<1>6. Follows(h, p, Mine(t)) /\ Calm(p) /\ p \in Seq(AllSteps)
  BY FollowsNone
<1>7. /\ \A G : StepsIn(G) \in Nat
      /\ entry[e].count \in Nat /\ entry[e].state \in {"Loading", "Ready", "Failed"}
      /\ Cardinality(Holders(e)) \in Nat /\ Count(Waiting, {e}) \in Nat /\ Count(replaced, {e}) \in Nat
  BY <1>2, Amounts
<1>8. /\ StepsIn(For(Loaders, e)) = StepsIn(For(Unparkers, e)) + StepsIn(For(OtherLoaders, e))
      /\ StepsIn(For(PendingKinds, e)) = StepsIn(For(Unparkers, e)) + StepsIn(For({"parkOrLoad"}, e))
      /\ StepsIn(For(Loaders, e)) # 0
      /\ StepsIn(For(OtherLoaders, e)) # 0
  BY <1>2, LoadersAre DEF Counting, Loaders, Comers, Tasking, Unparkers, PendingKinds, OtherLoaders
<1>9. /\ new \in EntryType /\ new.life = "live"
      /\ new.count = entry[e].count
      /\ new.queued = entry[e].queued
      /\ new.parked = entry[e].parked
      /\ new.claimed = entry[e].claimed
      /\ new.state = (IF ok THEN "Ready" ELSE "Failed")
      /\ new.pending = entry[e].pending
  <2>1. /\ new.life = "live"
        /\ new.count = entry[e].count
        /\ new.queued = entry[e].queued
        /\ new.parked = entry[e].parked
        /\ new.claimed = entry[e].claimed
        /\ new.state = (IF ok THEN "Ready" ELSE "Failed")
        /\ new.pending = entry[e].pending
    BY <1>2 DEF EntryType
  <2>2. new \in EntryType
    BY <1>2, <1>7, <1>3 DEF EntryType
  <2> QED
    BY <2>1, <2>2
<1> HIDE DEF new, p, h
<1>10. Settles(e, new, 0, -1, 0, 0, 0, 0, 0)
  <2>1. Queue(e) \in Nat /\ (~gone => Queue(e) = One(entry[e].queued) /\ (~entry[e].queued => entry[e].count # 0))
    BY <1>2, <1>7 DEF Queue, QueueOk, One
  <2>2. entry[e].state = "Loading" /\ entry[e].claimed /\ ~entry[e].parked /\ StepsIn(For(Loaders, e)) = 1 /\ Loads(e) = 1
    <3>1. StepsIn(For(Loaders, e)) \in Nat \ {0} /\ Loads(e) = One(entry[e].state = "Loading" /\ entry[e].claimed)
      BY <1>2, <1>7, <1>8 DEF LoadOk
    <3> QED
      BY <3>1 DEF Loads, One
  <2>3. Having(e) + 0 = new.count
    BY <1>2, <1>7, <1>8, <1>9, <1>3 DEF One, CountOk, Having
  <2>4. Loads(e) - 1 + One(new.parked) - One(entry[e].parked) = One(new.state = "Loading" /\ new.claimed)
    BY <1>9, <2>2 DEF One
  <2>5. ~new.claimed => new.pending /\ new.state = "Loading" /\ Coming(e) + 0 # 0
    BY <1>2, <1>7, <1>8, <1>9, <1>3, <2>2 DEF One, LoadOk, Coming
  <2>6. TasksOf(e) + 0 + One(new.parked) - One(entry[e].parked) <= 1
    <3>1. TasksOf(e) \in Int /\ TasksOf(e) <= 1
      BY <1>2, <1>7 DEF LoadOk, TasksOf, One
    <3> QED
      BY <1>2, <1>9, <3>1, <2>2 DEF One
  <2>7. new.parked \/ StepsIn(For(Unparkers, e)) + 0 # 0 => new.pending
    BY <1>2, <1>7, <1>8, <1>9, <1>3, <2>2 DEF One, LoadOk, Loads, Unparkers
  <2>8. new.pending => ~new.claimed \/ new.parked \/ StepsIn(For(PendingKinds, e)) + 0 # 0
    BY <1>2, <1>7, <1>8, <1>9, <1>3, <2>2 DEF One, LoadOk, Loads, PendingKinds
  <2>9. ~gone => Queue(e) + 0 = One(new.queued) /\ (~new.queued => new.count # 0)
    BY <1>2, <1>7, <1>9, <2>1, <1>3 DEF One
  <2> QED
    BY <2>3, <2>4, <2>5, <2>6, <2>7, <2>8, <2>9 DEF Settles
<1>11. NamesOnly(h, p, e) /\ Balanced
  <2>1. Mere(p, e) /\ h[1] \notin TaskSteps
    BY <1>2 DEF Mere, p, TaskSteps, EntryKinds, Counting, Passing, Waits
  <2> QED
    BY <1>2, <1>4, <1>6, <2>1, MereSteps DEF h
<1>12. /\ {-1, 0} \subseteq Int
       /\ h[1] \notin Dispatcher \cup {"dispatch", "destroyAll"}
       /\ new.count # 0 => entry[e].count # 0 \/ e \in published \cup fresh
       /\ h[1] \notin Waits
       /\ new.state = "Loading" => entry[e].state = "Loading"
  BY <1>2, <1>7, <1>9, <1>3 DEF Dispatcher, Waits
<1> QED
  BY <1>2, <1>4, <1>5, <1>6, <1>9, <1>10, <1>11, <1>12, EntryMoves DEF h

LEMMA ClaimFailFirst ==
  ASSUME CacheInv, NEW t \in Threads, ClaimFail(t), ~Me(t).claimed
  PROVE  CacheInv'
<1>1. PICK e : e = Arg(t) /\ "claimFail" \in EntryKinds /\ At(t, "claimFail")
  BY DEF ClaimFail, EntryKinds, Counting, Passing, Waits
<1> DEFINE h == todo[t][1]
           new == [Me(t) EXCEPT !.claimed = TRUE, !.pending = @ /\ Me(t).claimed, !.state = IF ~Me(t).claimed THEN "Failed" ELSE @]
           p == <<>>
<1>2. /\ Typed /\ todo[t] # <<>> /\ h \in AllSteps /\ h[1] = "claimFail" /\ h[2] = e /\ h[3] = More(t)
      /\ e \in Live /\ e \in Entries
      /\ Me(t) = entry[e] /\ Me(t) \in EntryType /\ Me(t).life = "live"
      /\ CountOk(e) /\ LoadOk(e) /\ QueueOk(e)
      /\ \A K : "claimFail" \in K => StepsIn(For(K, e)) # 0
      /\ \A x \in Entries \ {e} : h \notin Naming(x)
  BY <1>1, EntryHead DEF More
<1>3. ~entry[e].claimed
  BY <1>2
<1>4. entry[e].count # 0
  BY <1>1, HeadUsed DEF EntryKinds, Counting, Passing, Waits
<1>5. Then(t, p) /\ entry' = [entry EXCEPT ![e] = new] /\ OnlyEntries
  BY <1>1, <1>2 DEF ClaimFail, Change, Pass
<1>6. Shifts(e, 0, 0, -1, -1, 0, 0, 0)
  <2>1. /\ Of(h, Counting, e) = 0 /\ Of(h, Loaders, e) = 0 /\ Of(h, Comers, e) = 1 /\ Of(h, Tasking, e) = 1 /\ Of(h, Unparkers, e) = 0 /\ Of(h, PendingKinds, e) = 0 /\ Of(h, {"enqueue"}, e) = 0
    BY <1>2 DEF Of, One, Counting, Loaders, Comers, Tasking, Unparkers, PendingKinds
  <2>2. {h[1]} \cap ForSets = {}
    BY <1>2 DEF ForSets
  <2> HIDE DEF h
  <2>3. h = todo[t][1] /\ Then(t, <<>>)
    BY <1>5 DEF h
  <2> QED
    BY <1>2, <2>1, <2>2, <2>3, ShiftNone
<1>7. Follows(h, p, Mine(t)) /\ Calm(p) /\ p \in Seq(AllSteps)
  BY FollowsNone
<1>8. /\ \A G : StepsIn(G) \in Nat
      /\ entry[e].count \in Nat /\ entry[e].state \in {"Loading", "Ready", "Failed"}
      /\ Cardinality(Holders(e)) \in Nat /\ Count(Waiting, {e}) \in Nat /\ Count(replaced, {e}) \in Nat
  BY <1>2, Amounts
<1>9. /\ StepsIn(For(Loaders, e)) = StepsIn(For(Unparkers, e)) + StepsIn(For(OtherLoaders, e))
      /\ StepsIn(For(PendingKinds, e)) = StepsIn(For(Unparkers, e)) + StepsIn(For({"parkOrLoad"}, e))
      /\ StepsIn(For(Comers, e)) # 0
      /\ StepsIn(For(Tasking, e)) # 0
  BY <1>2, LoadersAre DEF Counting, Loaders, Comers, Tasking, Unparkers, PendingKinds, OtherLoaders
<1>10. /\ new \in EntryType /\ new.life = "live"
      /\ new.count = entry[e].count
      /\ new.queued = entry[e].queued
      /\ new.parked = entry[e].parked
      /\ new.claimed = TRUE
      /\ new.state = "Failed"
      /\ new.pending = FALSE
  <2>1. /\ new.life = "live"
        /\ new.count = entry[e].count
        /\ new.queued = entry[e].queued
        /\ new.parked = entry[e].parked
        /\ new.claimed = TRUE
        /\ new.state = "Failed"
        /\ new.pending = FALSE
    BY <1>2 DEF EntryType
  <2>2. /\ (Me(t).pending /\ Me(t).claimed) \in BOOLEAN
    BY <1>2, <1>8, <1>4
  <2>3. new \in EntryType
    BY <1>2, <1>8, <1>4, <2>2 DEF EntryType
  <2> QED
    BY <2>1, <2>3
<1> HIDE DEF new, p, h
<1>11. Settles(e, new, 0, 0, -1, -1, 0, 0, 0)
  <2>1. Queue(e) \in Nat /\ (~gone => Queue(e) = One(entry[e].queued) /\ (~entry[e].queued => entry[e].count # 0))
    BY <1>2, <1>8 DEF Queue, QueueOk, One
  <2>2. Having(e) + 0 = new.count
    BY <1>2, <1>8, <1>9, <1>10, <1>4, <1>3 DEF One, CountOk, Having
  <2>3. Loads(e) + 0 + One(new.parked) - One(entry[e].parked) = One(new.state = "Loading" /\ new.claimed)
    BY <1>2, <1>8, <1>9, <1>10, <1>4, <1>3 DEF One, LoadOk, Loads
  <2>4. ~new.claimed => new.pending /\ new.state = "Loading" /\ Coming(e) - 1 # 0
    BY <1>2, <1>8, <1>9, <1>10, <1>4, <1>3 DEF One, LoadOk, Coming
  <2>5. TasksOf(e) - 1 + One(new.parked) - One(entry[e].parked) <= 1
    <3>1. TasksOf(e) \in Int /\ TasksOf(e) <= 1
      BY <1>2, <1>8 DEF LoadOk, TasksOf, One
    <3> QED
      BY <1>2, <1>10, <3>1, <1>3 DEF One
  <2>6. new.parked \/ StepsIn(For(Unparkers, e)) + 0 # 0 => new.pending
    BY <1>2, <1>8, <1>9, <1>10, <1>4, <1>3, SMTT(60) DEF One, LoadOk, Loads, Unparkers
  <2>7. new.pending => ~new.claimed \/ new.parked \/ StepsIn(For(PendingKinds, e)) + 0 # 0
    BY <1>2, <1>8, <1>9, <1>10, <1>4, <1>3 DEF One, LoadOk, Loads, PendingKinds
  <2>8. ~gone => Queue(e) + 0 = One(new.queued) /\ (~new.queued => new.count # 0)
    BY <1>2, <1>8, <1>10, <2>1, <1>4, <1>3 DEF One
  <2> QED
    BY <2>2, <2>3, <2>4, <2>5, <2>6, <2>7, <2>8 DEF Settles
<1>12. NamesOnly(h, p, e) /\ Balanced
  <2>1. Mere(p, e) /\ h[1] \notin TaskSteps
    BY <1>2 DEF Mere, p, TaskSteps, EntryKinds, Counting, Passing, Waits
  <2> QED
    BY <1>2, <1>5, <1>7, <2>1, MereSteps DEF h
<1>13. /\ {-1, 0} \subseteq Int
       /\ h[1] \notin Dispatcher \cup {"dispatch", "destroyAll"}
       /\ new.count # 0 => entry[e].count # 0 \/ e \in published \cup fresh
       /\ h[1] \notin Waits
       /\ new.state = "Loading" => entry[e].state = "Loading"
  BY <1>2, <1>8, <1>10, <1>4 DEF Dispatcher, Waits
<1> QED
  BY <1>2, <1>5, <1>6, <1>7, <1>10, <1>11, <1>12, <1>13, EntryMoves DEF h

LEMMA ClaimFailLate ==
  ASSUME CacheInv, NEW t \in Threads, ClaimFail(t), Me(t).claimed
  PROVE  CacheInv'
<1>1. PICK e : e = Arg(t) /\ "claimFail" \in EntryKinds /\ At(t, "claimFail")
  BY DEF ClaimFail, EntryKinds, Counting, Passing, Waits
<1> DEFINE h == todo[t][1]
           new == [Me(t) EXCEPT !.claimed = TRUE, !.pending = @ /\ Me(t).claimed, !.state = IF ~Me(t).claimed THEN "Failed" ELSE @]
           p == <<>>
<1>2. /\ Typed /\ todo[t] # <<>> /\ h \in AllSteps /\ h[1] = "claimFail" /\ h[2] = e /\ h[3] = More(t)
      /\ e \in Live /\ e \in Entries
      /\ Me(t) = entry[e] /\ Me(t) \in EntryType /\ Me(t).life = "live"
      /\ CountOk(e) /\ LoadOk(e) /\ QueueOk(e)
      /\ \A K : "claimFail" \in K => StepsIn(For(K, e)) # 0
      /\ \A x \in Entries \ {e} : h \notin Naming(x)
  BY <1>1, EntryHead DEF More
<1>3. entry[e].claimed
  BY <1>2
<1>4. entry[e].count # 0
  BY <1>1, HeadUsed DEF EntryKinds, Counting, Passing, Waits
<1>5. Then(t, p) /\ entry' = [entry EXCEPT ![e] = new] /\ OnlyEntries
  BY <1>1, <1>2 DEF ClaimFail, Change, Pass
<1>6. Shifts(e, 0, 0, -1, -1, 0, 0, 0)
  <2>1. /\ Of(h, Counting, e) = 0 /\ Of(h, Loaders, e) = 0 /\ Of(h, Comers, e) = 1 /\ Of(h, Tasking, e) = 1 /\ Of(h, Unparkers, e) = 0 /\ Of(h, PendingKinds, e) = 0 /\ Of(h, {"enqueue"}, e) = 0
    BY <1>2 DEF Of, One, Counting, Loaders, Comers, Tasking, Unparkers, PendingKinds
  <2>2. {h[1]} \cap ForSets = {}
    BY <1>2 DEF ForSets
  <2> HIDE DEF h
  <2>3. h = todo[t][1] /\ Then(t, <<>>)
    BY <1>5 DEF h
  <2> QED
    BY <1>2, <2>1, <2>2, <2>3, ShiftNone
<1>7. Follows(h, p, Mine(t)) /\ Calm(p) /\ p \in Seq(AllSteps)
  BY FollowsNone
<1>8. /\ \A G : StepsIn(G) \in Nat
      /\ entry[e].count \in Nat /\ entry[e].state \in {"Loading", "Ready", "Failed"}
      /\ Cardinality(Holders(e)) \in Nat /\ Count(Waiting, {e}) \in Nat /\ Count(replaced, {e}) \in Nat
  BY <1>2, Amounts
<1>9. /\ StepsIn(For(Loaders, e)) = StepsIn(For(Unparkers, e)) + StepsIn(For(OtherLoaders, e))
      /\ StepsIn(For(PendingKinds, e)) = StepsIn(For(Unparkers, e)) + StepsIn(For({"parkOrLoad"}, e))
      /\ StepsIn(For(Comers, e)) # 0
      /\ StepsIn(For(Tasking, e)) # 0
  BY <1>2, LoadersAre DEF Counting, Loaders, Comers, Tasking, Unparkers, PendingKinds, OtherLoaders
<1>10. /\ new \in EntryType /\ new.life = "live"
      /\ new.count = entry[e].count
      /\ new.queued = entry[e].queued
      /\ new.parked = entry[e].parked
      /\ new.claimed = entry[e].claimed
      /\ new.state = entry[e].state
      /\ new.pending = entry[e].pending
  <2>1. /\ new.life = "live"
        /\ new.count = entry[e].count
        /\ new.queued = entry[e].queued
        /\ new.parked = entry[e].parked
        /\ new.claimed = entry[e].claimed
        /\ new.state = entry[e].state
        /\ new.pending = entry[e].pending
    BY <1>2 DEF EntryType
  <2>2. /\ (Me(t).pending /\ Me(t).claimed) \in BOOLEAN
    BY <1>2, <1>8, <1>4
  <2>3. new \in EntryType
    BY <1>2, <1>8, <1>4, <2>2 DEF EntryType
  <2> QED
    BY <2>1, <2>3
<1> HIDE DEF new, p, h
<1>11. Settles(e, new, 0, 0, -1, -1, 0, 0, 0)
  <2>1. Queue(e) \in Nat /\ (~gone => Queue(e) = One(entry[e].queued) /\ (~entry[e].queued => entry[e].count # 0))
    BY <1>2, <1>8 DEF Queue, QueueOk, One
  <2>2. Having(e) + 0 = new.count
    BY <1>2, <1>8, <1>9, <1>10, <1>4, <1>3 DEF One, CountOk, Having
  <2>3. Loads(e) + 0 + One(new.parked) - One(entry[e].parked) = One(new.state = "Loading" /\ new.claimed)
    BY <1>2, <1>8, <1>9, <1>10, <1>4, <1>3 DEF One, LoadOk, Loads
  <2>4. ~new.claimed => new.pending /\ new.state = "Loading" /\ Coming(e) - 1 # 0
    BY <1>2, <1>8, <1>9, <1>10, <1>4, <1>3 DEF One, LoadOk, Coming
  <2>5. TasksOf(e) - 1 + One(new.parked) - One(entry[e].parked) <= 1
    <3>1. TasksOf(e) \in Int /\ TasksOf(e) <= 1
      BY <1>2, <1>8 DEF LoadOk, TasksOf, One
    <3> QED
      BY <1>2, <1>10, <3>1, <1>3 DEF One
  <2>6. new.parked \/ StepsIn(For(Unparkers, e)) + 0 # 0 => new.pending
    BY <1>2, <1>8, <1>9, <1>10, <1>4, <1>3 DEF One, LoadOk, Loads, Unparkers
  <2>7. new.pending => ~new.claimed \/ new.parked \/ StepsIn(For(PendingKinds, e)) + 0 # 0
    BY <1>2, <1>8, <1>9, <1>10, <1>4, <1>3 DEF One, LoadOk, Loads, PendingKinds
  <2>8. ~gone => Queue(e) + 0 = One(new.queued) /\ (~new.queued => new.count # 0)
    BY <1>2, <1>8, <1>10, <2>1, <1>4, <1>3 DEF One
  <2> QED
    BY <2>2, <2>3, <2>4, <2>5, <2>6, <2>7, <2>8 DEF Settles
<1>12. NamesOnly(h, p, e) /\ Balanced
  <2>1. Mere(p, e) /\ h[1] \notin TaskSteps
    BY <1>2 DEF Mere, p, TaskSteps, EntryKinds, Counting, Passing, Waits
  <2> QED
    BY <1>2, <1>5, <1>7, <2>1, MereSteps DEF h
<1>13. /\ {-1, 0} \subseteq Int
       /\ h[1] \notin Dispatcher \cup {"dispatch", "destroyAll"}
       /\ new.count # 0 => entry[e].count # 0 \/ e \in published \cup fresh
       /\ h[1] \notin Waits
       /\ new.state = "Loading" => entry[e].state = "Loading"
  BY <1>2, <1>8, <1>10, <1>4 DEF Dispatcher, Waits
<1> QED
  BY <1>2, <1>5, <1>6, <1>7, <1>10, <1>11, <1>12, <1>13, EntryMoves, ZenonT(60) DEF h

LEMMA ClaimOrParkLate ==
  ASSUME CacheInv, NEW t \in Threads, ClaimOrPark(t), Me(t).claimed
  PROVE  CacheInv'
<1>1. PICK e : e = Arg(t) /\ "claimOrPark" \in EntryKinds /\ At(t, "claimOrPark")
  BY DEF ClaimOrPark, EntryKinds, Counting, Passing, Waits
<1> DEFINE h == todo[t][1]
           new == [Me(t) EXCEPT !.claimed = TRUE]
           p == <<>>
<1>2. /\ Typed /\ todo[t] # <<>> /\ h \in AllSteps /\ h[1] = "claimOrPark" /\ h[2] = e /\ h[3] = More(t)
      /\ e \in Live /\ e \in Entries
      /\ Me(t) = entry[e] /\ Me(t) \in EntryType /\ Me(t).life = "live"
      /\ CountOk(e) /\ LoadOk(e) /\ QueueOk(e)
      /\ \A K : "claimOrPark" \in K => StepsIn(For(K, e)) # 0
      /\ \A x \in Entries \ {e} : h \notin Naming(x)
  BY <1>1, EntryHead DEF More
<1>3. entry[e].claimed
  BY <1>2
<1>4. entry[e].count # 0
  BY <1>1, HeadUsed DEF EntryKinds, Counting, Passing, Waits
<1>5. Then(t, p) /\ entry' = [entry EXCEPT ![e] = new] /\ OnlyEntries
  BY <1>1, <1>2 DEF ClaimOrPark, Change, Pass
<1>6. Shifts(e, 0, 0, -1, -1, 0, 0, 0)
  <2>1. /\ Of(h, Counting, e) = 0 /\ Of(h, Loaders, e) = 0 /\ Of(h, Comers, e) = 1 /\ Of(h, Tasking, e) = 1 /\ Of(h, Unparkers, e) = 0 /\ Of(h, PendingKinds, e) = 0 /\ Of(h, {"enqueue"}, e) = 0
    BY <1>2 DEF Of, One, Counting, Loaders, Comers, Tasking, Unparkers, PendingKinds
  <2>2. {h[1]} \cap ForSets = {}
    BY <1>2 DEF ForSets
  <2> HIDE DEF h
  <2>3. h = todo[t][1] /\ Then(t, <<>>)
    BY <1>5 DEF h
  <2> QED
    BY <1>2, <2>1, <2>2, <2>3, ShiftNone
<1>7. Follows(h, p, Mine(t)) /\ Calm(p) /\ p \in Seq(AllSteps)
  BY FollowsNone
<1>8. /\ \A G : StepsIn(G) \in Nat
      /\ entry[e].count \in Nat /\ entry[e].state \in {"Loading", "Ready", "Failed"}
      /\ Cardinality(Holders(e)) \in Nat /\ Count(Waiting, {e}) \in Nat /\ Count(replaced, {e}) \in Nat
  BY <1>2, Amounts
<1>9. /\ StepsIn(For(Loaders, e)) = StepsIn(For(Unparkers, e)) + StepsIn(For(OtherLoaders, e))
      /\ StepsIn(For(PendingKinds, e)) = StepsIn(For(Unparkers, e)) + StepsIn(For({"parkOrLoad"}, e))
      /\ StepsIn(For(Comers, e)) # 0
      /\ StepsIn(For(Tasking, e)) # 0
  BY <1>2, LoadersAre DEF Counting, Loaders, Comers, Tasking, Unparkers, PendingKinds, OtherLoaders
<1>10. /\ new \in EntryType /\ new.life = "live"
      /\ new.count = entry[e].count
      /\ new.queued = entry[e].queued
      /\ new.parked = entry[e].parked
      /\ new.claimed = entry[e].claimed
      /\ new.state = entry[e].state
      /\ new.pending = entry[e].pending
  <2>1. /\ new.life = "live"
        /\ new.count = entry[e].count
        /\ new.queued = entry[e].queued
        /\ new.parked = entry[e].parked
        /\ new.claimed = entry[e].claimed
        /\ new.state = entry[e].state
        /\ new.pending = entry[e].pending
    BY <1>2 DEF EntryType
  <2>2. new \in EntryType
    BY <1>2, <1>8, <1>4 DEF EntryType
  <2> QED
    BY <2>1, <2>2
<1> HIDE DEF new, p, h
<1>11. Settles(e, new, 0, 0, -1, -1, 0, 0, 0)
  <2>1. Queue(e) \in Nat /\ (~gone => Queue(e) = One(entry[e].queued) /\ (~entry[e].queued => entry[e].count # 0))
    BY <1>2, <1>8 DEF Queue, QueueOk, One
  <2>2. Having(e) + 0 = new.count
    BY <1>2, <1>8, <1>9, <1>10, <1>4, <1>3 DEF One, CountOk, Having
  <2>3. Loads(e) + 0 + One(new.parked) - One(entry[e].parked) = One(new.state = "Loading" /\ new.claimed)
    BY <1>2, <1>8, <1>9, <1>10, <1>4, <1>3 DEF One, LoadOk, Loads
  <2>4. ~new.claimed => new.pending /\ new.state = "Loading" /\ Coming(e) - 1 # 0
    BY <1>2, <1>8, <1>9, <1>10, <1>4, <1>3 DEF One, LoadOk, Coming
  <2>5. TasksOf(e) - 1 + One(new.parked) - One(entry[e].parked) <= 1
    <3>1. TasksOf(e) \in Int /\ TasksOf(e) <= 1
      BY <1>2, <1>8 DEF LoadOk, TasksOf, One
    <3> QED
      BY <1>2, <1>10, <3>1, <1>3 DEF One
  <2>6. new.parked \/ StepsIn(For(Unparkers, e)) + 0 # 0 => new.pending
    BY <1>2, <1>8, <1>9, <1>10, <1>4, <1>3 DEF One, LoadOk, Loads, Unparkers
  <2>7. new.pending => ~new.claimed \/ new.parked \/ StepsIn(For(PendingKinds, e)) + 0 # 0
    BY <1>2, <1>8, <1>9, <1>10, <1>4, <1>3 DEF One, LoadOk, Loads, PendingKinds
  <2>8. ~gone => Queue(e) + 0 = One(new.queued) /\ (~new.queued => new.count # 0)
    BY <1>2, <1>8, <1>10, <2>1, <1>4, <1>3 DEF One
  <2> QED
    BY <2>2, <2>3, <2>4, <2>5, <2>6, <2>7, <2>8 DEF Settles
<1>12. NamesOnly(h, p, e) /\ Balanced
  <2>1. Mere(p, e) /\ h[1] \notin TaskSteps
    BY <1>2 DEF Mere, p, TaskSteps, EntryKinds, Counting, Passing, Waits
  <2> QED
    BY <1>2, <1>5, <1>7, <2>1, MereSteps DEF h
<1>13. /\ {-1, 0} \subseteq Int
       /\ h[1] \notin Dispatcher \cup {"dispatch", "destroyAll"}
       /\ new.count # 0 => entry[e].count # 0 \/ e \in published \cup fresh
       /\ h[1] \notin Waits
       /\ new.state = "Loading" => entry[e].state = "Loading"
  BY <1>2, <1>8, <1>10, <1>4 DEF Dispatcher, Waits
<1> QED
  BY <1>2, <1>5, <1>6, <1>7, <1>10, <1>11, <1>12, <1>13, EntryMoves, ZenonT(60) DEF h

LEMMA ClaimOrParkFirst ==
  ASSUME CacheInv, NEW t \in Threads, ClaimOrPark(t), ~Me(t).claimed
  PROVE  CacheInv'
<1>1. PICK e : e = Arg(t) /\ "claimOrPark" \in EntryKinds /\ At(t, "claimOrPark")
  BY DEF ClaimOrPark, EntryKinds, Counting, Passing, Waits
<1> DEFINE h == todo[t][1]
           new == [Me(t) EXCEPT !.claimed = TRUE]
           a == <<"parkOrLoad", e>>
           p == <<a>>
<1>2. /\ Typed /\ todo[t] # <<>> /\ h \in AllSteps /\ h[1] = "claimOrPark" /\ h[2] = e /\ h[3] = More(t)
      /\ e \in Live /\ e \in Entries
      /\ Me(t) = entry[e] /\ Me(t) \in EntryType /\ Me(t).life = "live"
      /\ CountOk(e) /\ LoadOk(e) /\ QueueOk(e)
      /\ \A K : "claimOrPark" \in K => StepsIn(For(K, e)) # 0
      /\ \A x \in Entries \ {e} : h \notin Naming(x)
  BY <1>1, EntryHead DEF More
<1>3. ~entry[e].claimed
  BY <1>2
<1>4. entry[e].count # 0
  BY <1>1, HeadUsed DEF EntryKinds, Counting, Passing, Waits
<1>5. /\ a \in AllSteps /\ a[1] = "parkOrLoad" /\ a[2] = e
  BY <1>2, StepsAre DEF EntryKinds, Counting, Passing, Waits, Ops
<1>6. Then(t, p) /\ entry' = [entry EXCEPT ![e] = new] /\ OnlyEntries
  BY <1>1, <1>2 DEF ClaimOrPark, Change, Pass
<1>7. Shifts(e, 0, 1, -1, 0, 0, 1, 0)
  <2>1. /\ Of(h, Counting, e) = 0 /\ Of(h, Loaders, e) = 0 /\ Of(h, Comers, e) = 1 /\ Of(h, Tasking, e) = 1 /\ Of(h, Unparkers, e) = 0 /\ Of(h, PendingKinds, e) = 0 /\ Of(h, {"enqueue"}, e) = 0
        /\ Of(a, Counting, e) = 0 /\ Of(a, Loaders, e) = 1 /\ Of(a, Comers, e) = 0 /\ Of(a, Tasking, e) = 1 /\ Of(a, Unparkers, e) = 0 /\ Of(a, PendingKinds, e) = 1 /\ Of(a, {"enqueue"}, e) = 0
    BY <1>2, <1>5 DEF Of, One, Counting, Loaders, Comers, Tasking, Unparkers, PendingKinds
  <2>2. {h[1], a[1]} \cap ForSets = {}
    BY <1>2, <1>5 DEF ForSets
  <2> HIDE DEF h, a
  <2>3. h = todo[t][1] /\ Then(t, <<a>>)
    BY <1>6 DEF h
  <2> QED
    BY <1>2, <1>5, <2>1, <2>2, <2>3, ShiftOne
<1>8. Follows(h, p, Mine(t)) /\ Calm(p) /\ p \in Seq(AllSteps)
  <2>1. Apt(h, a)
    BY <1>2, <1>5 DEF Apt, Suits, Lasts, TaskDoneOnLane, Forces, EndOfForce, LaneSteps, Dispatcher, LateSteps
  <2>2. /\ Covered(h, a, Mine(t))
    BY <1>2, <1>5 DEF Covered, Backs, Passing, Waits, Counting
  <2>3. /\ a[1] \notin {"reload", "unpark"}
        /\ h[1] \in Waits => a[1] \in Waits /\ a[2] = h[2]
        /\ h[1] \in TaskEnds => a[1] \in TaskEnds
        /\ a[1] \notin Dispatcher \cup ForSets \cup {"destroyAll"}
    BY <1>2, <1>5 DEF Waits, TaskEnds, Lasts, Firsts, Dispatcher, ForSets, TaskDoneOnLane
  <2> HIDE DEF h, a
  <2>4. Follows(h, <<a>>, Mine(t)) /\ Calm(<<a>>) /\ <<a>> \in Seq(AllSteps)
    BY <1>5, <2>1, <2>2, <2>3, FollowsOne
  <2> QED
    BY <2>4
<1>9. /\ \A G : StepsIn(G) \in Nat
      /\ entry[e].count \in Nat /\ entry[e].state \in {"Loading", "Ready", "Failed"}
      /\ Cardinality(Holders(e)) \in Nat /\ Count(Waiting, {e}) \in Nat /\ Count(replaced, {e}) \in Nat
  BY <1>2, Amounts
<1>10. /\ StepsIn(For(Loaders, e)) = StepsIn(For(Unparkers, e)) + StepsIn(For(OtherLoaders, e))
      /\ StepsIn(For(PendingKinds, e)) = StepsIn(For(Unparkers, e)) + StepsIn(For({"parkOrLoad"}, e))
      /\ StepsIn(For(Comers, e)) # 0
      /\ StepsIn(For(Tasking, e)) # 0
  BY <1>2, LoadersAre DEF Counting, Loaders, Comers, Tasking, Unparkers, PendingKinds, OtherLoaders
<1>11. /\ new \in EntryType /\ new.life = "live"
      /\ new.count = entry[e].count
      /\ new.queued = entry[e].queued
      /\ new.parked = entry[e].parked
      /\ new.claimed = TRUE
      /\ new.state = entry[e].state
      /\ new.pending = entry[e].pending
  <2>1. /\ new.life = "live"
        /\ new.count = entry[e].count
        /\ new.queued = entry[e].queued
        /\ new.parked = entry[e].parked
        /\ new.claimed = TRUE
        /\ new.state = entry[e].state
        /\ new.pending = entry[e].pending
    BY <1>2 DEF EntryType
  <2>2. new \in EntryType
    BY <1>2, <1>9, <1>4 DEF EntryType
  <2> QED
    BY <2>1, <2>2
<1> HIDE DEF new, p, h, a
<1>12. Settles(e, new, 0, 1, -1, 0, 0, 1, 0)
  <2>1. Queue(e) \in Nat /\ (~gone => Queue(e) = One(entry[e].queued) /\ (~entry[e].queued => entry[e].count # 0))
    BY <1>2, <1>9 DEF Queue, QueueOk, One
  <2>2. Having(e) + 0 = new.count
    BY <1>2, <1>9, <1>10, <1>11, <1>4, <1>3 DEF One, CountOk, Having
  <2>3. Loads(e) + 1 + One(new.parked) - One(entry[e].parked) = One(new.state = "Loading" /\ new.claimed)
    BY <1>2, <1>9, <1>10, <1>11, <1>4, <1>3 DEF One, LoadOk, Loads
  <2>4. ~new.claimed => new.pending /\ new.state = "Loading" /\ Coming(e) - 1 # 0
    BY <1>2, <1>9, <1>10, <1>11, <1>4, <1>3 DEF One, LoadOk, Coming
  <2>5. TasksOf(e) + 0 + One(new.parked) - One(entry[e].parked) <= 1
    <3>1. TasksOf(e) \in Int /\ TasksOf(e) <= 1
      BY <1>2, <1>9 DEF LoadOk, TasksOf, One
    <3> QED
      BY <1>2, <1>11, <3>1, <1>3 DEF One
  <2>6. new.parked \/ StepsIn(For(Unparkers, e)) + 0 # 0 => new.pending
    BY <1>2, <1>9, <1>10, <1>11, <1>4, <1>3 DEF One, LoadOk, Loads, Unparkers
  <2>7. new.pending => ~new.claimed \/ new.parked \/ StepsIn(For(PendingKinds, e)) + 1 # 0
    BY <1>2, <1>9, <1>10, <1>11, <1>4, <1>3 DEF One, LoadOk, Loads, PendingKinds
  <2>8. ~gone => Queue(e) + 0 = One(new.queued) /\ (~new.queued => new.count # 0)
    BY <1>2, <1>9, <1>11, <2>1, <1>4, <1>3 DEF One
  <2> QED
    BY <2>2, <2>3, <2>4, <2>5, <2>6, <2>7, <2>8 DEF Settles
<1>13. NamesOnly(h, p, e) /\ Balanced
  <2>1. Mere(p, e) /\ h[1] \notin TaskSteps
    BY <1>2, <1>5 DEF Mere, p, TaskSteps, EntryKinds, Counting, Passing, Waits
  <2> QED
    BY <1>2, <1>6, <1>8, <2>1, MereSteps DEF h
<1>14. /\ {-1, 0, 1} \subseteq Int
       /\ h[1] \notin Dispatcher \cup {"dispatch", "destroyAll"}
       /\ new.count # 0 => entry[e].count # 0 \/ e \in published \cup fresh
       /\ h[1] \notin Waits
       /\ new.state = "Loading" => entry[e].state = "Loading"
  BY <1>2, <1>9, <1>11, <1>4 DEF Dispatcher, Waits
<1> QED
  BY <1>2, <1>6, <1>7, <1>8, <1>11, <1>12, <1>13, <1>14, EntryMoves DEF h

LEMMA ParkAlone ==
  ASSUME CacheInv, NEW t \in Threads, ParkOrLoad(t), Me(t).count = 1
  PROVE  CacheInv'
<1>1. PICK e : e = Arg(t) /\ "parkOrLoad" \in EntryKinds /\ At(t, "parkOrLoad")
  BY DEF ParkOrLoad, EntryKinds, Counting, Passing, Waits
<1> DEFINE h == todo[t][1]
           new == [Me(t) EXCEPT !.parked = Me(t).count = 1, !.pending = Me(t).count = 1, !.count = IF Me(t).count = 1 THEN @ ELSE @ + 1]
           p == <<>>
<1>2. /\ Typed /\ todo[t] # <<>> /\ h \in AllSteps /\ h[1] = "parkOrLoad" /\ h[2] = e /\ h[3] = More(t)
      /\ e \in Live /\ e \in Entries
      /\ Me(t) = entry[e] /\ Me(t) \in EntryType /\ Me(t).life = "live"
      /\ CountOk(e) /\ LoadOk(e) /\ QueueOk(e)
      /\ \A K : "parkOrLoad" \in K => StepsIn(For(K, e)) # 0
      /\ \A x \in Entries \ {e} : h \notin Naming(x)
  BY <1>1, EntryHead DEF More
<1>3. entry[e].count = 1
  BY <1>2
<1>4. entry[e].count # 0
  BY <1>1, HeadUsed DEF EntryKinds, Counting, Passing, Waits
<1>5. Then(t, p) /\ entry' = [entry EXCEPT ![e] = new] /\ OnlyEntries
  BY <1>1, <1>2 DEF ParkOrLoad, Change, Pass, LoadAndRelease
<1>6. Shifts(e, 0, -1, 0, -1, 0, -1, 0)
  <2>1. /\ Of(h, Counting, e) = 0 /\ Of(h, Loaders, e) = 1 /\ Of(h, Comers, e) = 0 /\ Of(h, Tasking, e) = 1 /\ Of(h, Unparkers, e) = 0 /\ Of(h, PendingKinds, e) = 1 /\ Of(h, {"enqueue"}, e) = 0
    BY <1>2 DEF Of, One, Counting, Loaders, Comers, Tasking, Unparkers, PendingKinds
  <2>2. {h[1]} \cap ForSets = {}
    BY <1>2 DEF ForSets
  <2> HIDE DEF h
  <2>3. h = todo[t][1] /\ Then(t, <<>>)
    BY <1>5 DEF h
  <2> QED
    BY <1>2, <2>1, <2>2, <2>3, ShiftNone
<1>7. Follows(h, p, Mine(t)) /\ Calm(p) /\ p \in Seq(AllSteps)
  BY FollowsNone
<1>8. /\ \A G : StepsIn(G) \in Nat
      /\ entry[e].count \in Nat /\ entry[e].state \in {"Loading", "Ready", "Failed"}
      /\ Cardinality(Holders(e)) \in Nat /\ Count(Waiting, {e}) \in Nat /\ Count(replaced, {e}) \in Nat
  BY <1>2, Amounts
<1>9. /\ StepsIn(For(Loaders, e)) = StepsIn(For(Unparkers, e)) + StepsIn(For(OtherLoaders, e))
      /\ StepsIn(For(PendingKinds, e)) = StepsIn(For(Unparkers, e)) + StepsIn(For({"parkOrLoad"}, e))
      /\ StepsIn(For(Loaders, e)) # 0
      /\ StepsIn(For(Tasking, e)) # 0
      /\ StepsIn(For(PendingKinds, e)) # 0
      /\ StepsIn(For(OtherLoaders, e)) # 0
      /\ StepsIn(For({"parkOrLoad"}, e)) # 0
  BY <1>2, LoadersAre DEF Counting, Loaders, Comers, Tasking, Unparkers, PendingKinds, OtherLoaders
<1>10. /\ new \in EntryType /\ new.life = "live"
      /\ new.count = entry[e].count
      /\ new.queued = entry[e].queued
      /\ new.parked = TRUE
      /\ new.claimed = entry[e].claimed
      /\ new.state = entry[e].state
      /\ new.pending = TRUE
  <2>1. /\ new.life = "live"
        /\ new.count = entry[e].count
        /\ new.queued = entry[e].queued
        /\ new.parked = TRUE
        /\ new.claimed = entry[e].claimed
        /\ new.state = entry[e].state
        /\ new.pending = TRUE
    BY <1>2 DEF EntryType
  <2>2. /\ entry[e].count + 1 \in Nat /\ Me(t).count = entry[e].count /\ (Me(t).count = 1) \in BOOLEAN
    BY <1>2, <1>8, <1>4
  <2>3. new \in EntryType
    BY <1>2, <1>8, <1>4, <2>2 DEF EntryType
  <2> QED
    BY <2>1, <2>3
<1> HIDE DEF new, p, h
<1>11. Settles(e, new, 0, -1, 0, -1, 0, -1, 0)
  <2>1. Queue(e) \in Nat /\ (~gone => Queue(e) = One(entry[e].queued) /\ (~entry[e].queued => entry[e].count # 0))
    BY <1>2, <1>8 DEF Queue, QueueOk, One
  <2>2. entry[e].state = "Loading" /\ entry[e].claimed /\ ~entry[e].parked /\ StepsIn(For(Loaders, e)) = 1 /\ Loads(e) = 1
    <3>1. StepsIn(For(Loaders, e)) \in Nat \ {0} /\ Loads(e) = One(entry[e].state = "Loading" /\ entry[e].claimed)
      BY <1>2, <1>8, <1>9 DEF LoadOk
    <3> QED
      BY <3>1 DEF Loads, One
  <2>3. Having(e) + 0 = new.count
    BY <1>2, <1>8, <1>9, <1>10, <1>4, <1>3 DEF One, CountOk, Having
  <2>4. Loads(e) - 1 + One(new.parked) - One(entry[e].parked) = One(new.state = "Loading" /\ new.claimed)
    BY <1>10, <2>2, <1>3 DEF One
  <2>5. ~new.claimed => new.pending /\ new.state = "Loading" /\ Coming(e) + 0 # 0
    BY <1>2, <1>8, <1>9, <1>10, <1>4, <1>3, <2>2 DEF One, LoadOk, Coming
  <2>6. TasksOf(e) - 1 + One(new.parked) - One(entry[e].parked) <= 1
    <3>1. TasksOf(e) \in Int /\ TasksOf(e) <= 1
      BY <1>2, <1>8 DEF LoadOk, TasksOf, One
    <3> QED
      BY <1>2, <1>10, <3>1, <1>3, <2>2 DEF One
  <2>7. new.parked \/ StepsIn(For(Unparkers, e)) + 0 # 0 => new.pending
    BY <1>2, <1>8, <1>9, <1>10, <1>4, <1>3, <2>2 DEF One, LoadOk, Loads, Unparkers
  <2>8. new.pending => ~new.claimed \/ new.parked \/ StepsIn(For(PendingKinds, e)) - 1 # 0
    BY <1>2, <1>8, <1>9, <1>10, <1>4, <1>3, <2>2 DEF One, LoadOk, Loads, PendingKinds
  <2>9. ~gone => Queue(e) + 0 = One(new.queued) /\ (~new.queued => new.count # 0)
    BY <1>2, <1>8, <1>10, <2>1, <1>4, <1>3 DEF One
  <2> QED
    BY <2>3, <2>4, <2>5, <2>6, <2>7, <2>8, <2>9 DEF Settles
<1>12. NamesOnly(h, p, e) /\ Balanced
  <2>1. Mere(p, e) /\ h[1] \notin TaskSteps
    BY <1>2 DEF Mere, p, TaskSteps, EntryKinds, Counting, Passing, Waits
  <2> QED
    BY <1>2, <1>5, <1>7, <2>1, MereSteps DEF h
<1>13. /\ {-1, 0} \subseteq Int
       /\ h[1] \notin Dispatcher \cup {"dispatch", "destroyAll"}
       /\ new.count # 0 => entry[e].count # 0 \/ e \in published \cup fresh
       /\ h[1] \notin Waits
       /\ new.state = "Loading" => entry[e].state = "Loading"
  BY <1>2, <1>8, <1>10, <1>4 DEF Dispatcher, Waits
<1> QED
  BY <1>2, <1>5, <1>6, <1>7, <1>10, <1>11, <1>12, <1>13, EntryMoves, ZenonT(60) DEF h

LEMMA ParkNot ==
  ASSUME CacheInv, NEW t \in Threads, ParkOrLoad(t), Me(t).count # 1
  PROVE  CacheInv'
<1>1. PICK e : e = Arg(t) /\ "parkOrLoad" \in EntryKinds /\ At(t, "parkOrLoad")
  BY DEF ParkOrLoad, EntryKinds, Counting, Passing, Waits
<1> DEFINE h == todo[t][1]
           new == [Me(t) EXCEPT !.parked = Me(t).count = 1, !.pending = Me(t).count = 1, !.count = IF Me(t).count = 1 THEN @ ELSE @ + 1]
           a == <<"load", e>>
           b == <<"release", e>>
           p == <<a, b>>
<1>2. /\ Typed /\ todo[t] # <<>> /\ h \in AllSteps /\ h[1] = "parkOrLoad" /\ h[2] = e /\ h[3] = More(t)
      /\ e \in Live /\ e \in Entries
      /\ Me(t) = entry[e] /\ Me(t) \in EntryType /\ Me(t).life = "live"
      /\ CountOk(e) /\ LoadOk(e) /\ QueueOk(e)
      /\ \A K : "parkOrLoad" \in K => StepsIn(For(K, e)) # 0
      /\ \A x \in Entries \ {e} : h \notin Naming(x)
  BY <1>1, EntryHead DEF More
<1>3. entry[e].count # 1
  BY <1>2
<1>4. entry[e].count # 0
  BY <1>1, HeadUsed DEF EntryKinds, Counting, Passing, Waits
<1>5. /\ a \in AllSteps /\ a[1] = "load" /\ a[2] = e
      /\ b \in AllSteps /\ b[1] = "release" /\ b[2] = e
  BY <1>2, StepsAre DEF EntryKinds, Counting, Passing, Waits, Ops
<1>6. Then(t, p) /\ entry' = [entry EXCEPT ![e] = new] /\ OnlyEntries
  BY <1>1, <1>2 DEF ParkOrLoad, Change, Pass, LoadAndRelease
<1>7. Shifts(e, 1, 0, 0, -1, 0, -1, 0)
  <2>1. /\ Of(h, Counting, e) = 0 /\ Of(h, Loaders, e) = 1 /\ Of(h, Comers, e) = 0 /\ Of(h, Tasking, e) = 1 /\ Of(h, Unparkers, e) = 0 /\ Of(h, PendingKinds, e) = 1 /\ Of(h, {"enqueue"}, e) = 0
        /\ Of(a, Counting, e) = 0 /\ Of(a, Loaders, e) = 1 /\ Of(a, Comers, e) = 0 /\ Of(a, Tasking, e) = 0 /\ Of(a, Unparkers, e) = 0 /\ Of(a, PendingKinds, e) = 0 /\ Of(a, {"enqueue"}, e) = 0
        /\ Of(b, Counting, e) = 1 /\ Of(b, Loaders, e) = 0 /\ Of(b, Comers, e) = 0 /\ Of(b, Tasking, e) = 0 /\ Of(b, Unparkers, e) = 0 /\ Of(b, PendingKinds, e) = 0 /\ Of(b, {"enqueue"}, e) = 0
    BY <1>2, <1>5 DEF Of, One, Counting, Loaders, Comers, Tasking, Unparkers, PendingKinds
  <2>2. {h[1], a[1], b[1]} \cap ForSets = {}
    BY <1>2, <1>5 DEF ForSets
  <2> HIDE DEF h, a, b
  <2>3. h = todo[t][1] /\ Then(t, <<a, b>>)
    BY <1>6 DEF h
  <2> QED
    BY <1>2, <1>5, <2>1, <2>2, <2>3, ShiftTwo
<1>8. Follows(h, p, Mine(t)) /\ Calm(p) /\ p \in Seq(AllSteps)
  <2>1. Apt(h, a) /\ Apt(h, b)
    BY <1>2, <1>5 DEF Apt, Suits, Lasts, TaskDoneOnLane, Forces, EndOfForce, LaneSteps, Dispatcher, LateSteps
  <2>2. /\ (Covered(h, a, Mine(t)) \/ Backs(a, b))
        /\ Covered(h, b, Mine(t))
    BY <1>2, <1>5 DEF Covered, Backs, Passing, Waits, Counting
  <2>3. /\ a[1] \notin {"reload"} \cup Lasts
        /\ (a[1] = "unpark" => b[1] \in {"wait", "claimFree"} /\ b[2] = a[2])
        /\ b[1] \notin {"unpark"} \cup Firsts
        /\ (b[1] = "reload" => a[1] \in Waits /\ a[2] = b[2])
        /\ ~(a = TaskDoneOnLane /\ b = TaskDoneOnLane)
        /\ (h[1] \in Waits => b[1] \in Waits /\ b[2] = h[2])
        /\ (h[1] \in TaskEnds => b[1] \in TaskEnds)
        /\ {a[1], b[1]} \cap (Dispatcher \cup ForSets \cup {"destroyAll"}) = {}
    BY <1>2, <1>5 DEF Waits, TaskEnds, Lasts, Firsts, Dispatcher, ForSets, TaskDoneOnLane
  <2> HIDE DEF h, a, b
  <2>4. Follows(h, <<a, b>>, Mine(t)) /\ Calm(<<a, b>>) /\ <<a, b>> \in Seq(AllSteps)
    BY <1>5, <2>1, <2>2, <2>3, FollowsTwo
  <2> QED
    BY <2>4
<1>9. /\ \A G : StepsIn(G) \in Nat
      /\ entry[e].count \in Nat /\ entry[e].state \in {"Loading", "Ready", "Failed"}
      /\ Cardinality(Holders(e)) \in Nat /\ Count(Waiting, {e}) \in Nat /\ Count(replaced, {e}) \in Nat
  BY <1>2, Amounts
<1>10. /\ StepsIn(For(Loaders, e)) = StepsIn(For(Unparkers, e)) + StepsIn(For(OtherLoaders, e))
      /\ StepsIn(For(PendingKinds, e)) = StepsIn(For(Unparkers, e)) + StepsIn(For({"parkOrLoad"}, e))
      /\ StepsIn(For(Loaders, e)) # 0
      /\ StepsIn(For(Tasking, e)) # 0
      /\ StepsIn(For(PendingKinds, e)) # 0
      /\ StepsIn(For(OtherLoaders, e)) # 0
      /\ StepsIn(For({"parkOrLoad"}, e)) # 0
  BY <1>2, LoadersAre DEF Counting, Loaders, Comers, Tasking, Unparkers, PendingKinds, OtherLoaders
<1>11. /\ new \in EntryType /\ new.life = "live"
      /\ new.count = (entry[e].count + 1)
      /\ new.queued = entry[e].queued
      /\ new.parked = FALSE
      /\ new.claimed = entry[e].claimed
      /\ new.state = entry[e].state
      /\ new.pending = FALSE
  <2>1. /\ new.life = "live"
        /\ new.count = (entry[e].count + 1)
        /\ new.queued = entry[e].queued
        /\ new.parked = FALSE
        /\ new.claimed = entry[e].claimed
        /\ new.state = entry[e].state
        /\ new.pending = FALSE
    BY <1>2 DEF EntryType
  <2>2. /\ entry[e].count + 1 \in Nat /\ Me(t).count = entry[e].count /\ (Me(t).count = 1) \in BOOLEAN
    BY <1>2, <1>9, <1>4
  <2>3. new \in EntryType
    BY <1>2, <1>9, <1>4, <2>2 DEF EntryType
  <2> QED
    BY <2>1, <2>3
<1> HIDE DEF new, p, h, a, b
<1>12. Settles(e, new, 1, 0, 0, -1, 0, -1, 0)
  <2>1. Queue(e) \in Nat /\ (~gone => Queue(e) = One(entry[e].queued) /\ (~entry[e].queued => entry[e].count # 0))
    BY <1>2, <1>9 DEF Queue, QueueOk, One
  <2>2. entry[e].state = "Loading" /\ entry[e].claimed /\ ~entry[e].parked /\ StepsIn(For(Loaders, e)) = 1 /\ Loads(e) = 1
    <3>1. StepsIn(For(Loaders, e)) \in Nat \ {0} /\ Loads(e) = One(entry[e].state = "Loading" /\ entry[e].claimed)
      BY <1>2, <1>9, <1>10 DEF LoadOk
    <3> QED
      BY <3>1 DEF Loads, One
  <2>3. Having(e) + 1 = new.count
    BY <1>2, <1>9, <1>10, <1>11, <1>4, <1>3 DEF One, CountOk, Having
  <2>4. Loads(e) + 0 + One(new.parked) - One(entry[e].parked) = One(new.state = "Loading" /\ new.claimed)
    BY <1>11, <2>2, <1>3 DEF One
  <2>5. ~new.claimed => new.pending /\ new.state = "Loading" /\ Coming(e) + 0 # 0
    BY <1>2, <1>9, <1>10, <1>11, <1>4, <1>3, <2>2 DEF One, LoadOk, Coming
  <2>6. TasksOf(e) - 1 + One(new.parked) - One(entry[e].parked) <= 1
    <3>1. TasksOf(e) \in Int /\ TasksOf(e) <= 1
      BY <1>2, <1>9 DEF LoadOk, TasksOf, One
    <3> QED
      BY <1>2, <1>11, <3>1, <1>3, <2>2 DEF One
  <2>7. new.parked \/ StepsIn(For(Unparkers, e)) + 0 # 0 => new.pending
    BY <1>2, <1>9, <1>10, <1>11, <1>4, <1>3, <2>2 DEF One, LoadOk, Loads, Unparkers
  <2>8. new.pending => ~new.claimed \/ new.parked \/ StepsIn(For(PendingKinds, e)) - 1 # 0
    BY <1>2, <1>9, <1>10, <1>11, <1>4, <1>3, <2>2 DEF One, LoadOk, Loads, PendingKinds
  <2>9. ~gone => Queue(e) + 0 = One(new.queued) /\ (~new.queued => new.count # 0)
    BY <1>2, <1>9, <1>11, <2>1, <1>4, <1>3 DEF One
  <2> QED
    BY <2>3, <2>4, <2>5, <2>6, <2>7, <2>8, <2>9 DEF Settles
<1>13. NamesOnly(h, p, e) /\ Balanced
  <2>1. Mere(p, e) /\ h[1] \notin TaskSteps
    BY <1>2, <1>5 DEF Mere, p, TaskSteps, EntryKinds, Counting, Passing, Waits
  <2> QED
    BY <1>2, <1>6, <1>8, <2>1, MereSteps DEF h
<1>14. /\ {-1, 0, 1} \subseteq Int
       /\ h[1] \notin Dispatcher \cup {"dispatch", "destroyAll"}
       /\ new.count # 0 => entry[e].count # 0 \/ e \in published \cup fresh
       /\ h[1] \notin Waits
       /\ new.state = "Loading" => entry[e].state = "Loading"
  BY <1>2, <1>9, <1>11, <1>4 DEF Dispatcher, Waits
<1> QED
  BY <1>2, <1>6, <1>7, <1>8, <1>11, <1>12, <1>13, <1>14, EntryMoves DEF h

LEMMA ReadingOverStep ==
  ASSUME CacheInv, NEW t \in Threads, ReadingOver(t)
  PROVE  CacheInv'
<1>1. PICK e : e = Arg(t) /\ "readingOver" \in EntryKinds /\ At(t, "readingOver")
  BY DEF ReadingOver, EntryKinds, Counting, Passing, Waits
<1> DEFINE h == todo[t][1]
           new == [Me(t) EXCEPT !.reading = FALSE]
           p == <<>>
<1>2. /\ Typed /\ todo[t] # <<>> /\ h \in AllSteps /\ h[1] = "readingOver" /\ h[2] = e /\ h[3] = More(t)
      /\ e \in Live /\ e \in Entries
      /\ Me(t) = entry[e] /\ Me(t) \in EntryType /\ Me(t).life = "live"
      /\ CountOk(e) /\ LoadOk(e) /\ QueueOk(e)
      /\ \A K : "readingOver" \in K => StepsIn(For(K, e)) # 0
      /\ \A x \in Entries \ {e} : h \notin Naming(x)
  BY <1>1, EntryHead DEF More
<1>3. entry[e].count # 0
  BY <1>1, HeadUsed DEF EntryKinds, Counting, Passing, Waits
<1>4. Then(t, p) /\ entry' = [entry EXCEPT ![e] = new] /\ OnlyEntries
  BY <1>1, <1>2 DEF ReadingOver, Change, Pass
<1>5. Shifts(e, 0, 0, 0, 0, 0, 0, 0)
  <2>1. /\ Of(h, Counting, e) = 0 /\ Of(h, Loaders, e) = 0 /\ Of(h, Comers, e) = 0 /\ Of(h, Tasking, e) = 0 /\ Of(h, Unparkers, e) = 0 /\ Of(h, PendingKinds, e) = 0 /\ Of(h, {"enqueue"}, e) = 0
    BY <1>2 DEF Of, One, Counting, Loaders, Comers, Tasking, Unparkers, PendingKinds
  <2>2. {h[1]} \cap ForSets = {}
    BY <1>2 DEF ForSets
  <2> HIDE DEF h
  <2>3. h = todo[t][1] /\ Then(t, <<>>)
    BY <1>4 DEF h
  <2> QED
    BY <1>2, <2>1, <2>2, <2>3, ShiftNone
<1>6. Follows(h, p, Mine(t)) /\ Calm(p) /\ p \in Seq(AllSteps)
  BY FollowsNone
<1>7. /\ \A G : StepsIn(G) \in Nat
      /\ entry[e].count \in Nat /\ entry[e].state \in {"Loading", "Ready", "Failed"}
      /\ Cardinality(Holders(e)) \in Nat /\ Count(Waiting, {e}) \in Nat /\ Count(replaced, {e}) \in Nat
  BY <1>2, Amounts
<1>8. /\ StepsIn(For(Loaders, e)) = StepsIn(For(Unparkers, e)) + StepsIn(For(OtherLoaders, e))
      /\ StepsIn(For(PendingKinds, e)) = StepsIn(For(Unparkers, e)) + StepsIn(For({"parkOrLoad"}, e))
  BY <1>2, LoadersAre DEF Counting, Loaders, Comers, Tasking, Unparkers, PendingKinds, OtherLoaders
<1>9. /\ new \in EntryType /\ new.life = "live"
      /\ new.count = entry[e].count
      /\ new.queued = entry[e].queued
      /\ new.parked = entry[e].parked
      /\ new.claimed = entry[e].claimed
      /\ new.state = entry[e].state
      /\ new.pending = entry[e].pending
  <2>1. /\ new.life = "live"
        /\ new.count = entry[e].count
        /\ new.queued = entry[e].queued
        /\ new.parked = entry[e].parked
        /\ new.claimed = entry[e].claimed
        /\ new.state = entry[e].state
        /\ new.pending = entry[e].pending
    BY <1>2 DEF EntryType
  <2>2. new \in EntryType
    BY <1>2, <1>7, <1>3 DEF EntryType
  <2> QED
    BY <2>1, <2>2
<1> HIDE DEF new, p, h
<1>10. Settles(e, new, 0, 0, 0, 0, 0, 0, 0)
  <2>1. Queue(e) \in Nat /\ (~gone => Queue(e) = One(entry[e].queued) /\ (~entry[e].queued => entry[e].count # 0))
    BY <1>2, <1>7 DEF Queue, QueueOk, One
  <2>2. Having(e) + 0 = new.count
    BY <1>2, <1>7, <1>8, <1>9, <1>3 DEF One, CountOk, Having
  <2>3. Loads(e) + 0 + One(new.parked) - One(entry[e].parked) = One(new.state = "Loading" /\ new.claimed)
    BY <1>2, <1>7, <1>8, <1>9, <1>3 DEF One, LoadOk, Loads
  <2>4. ~new.claimed => new.pending /\ new.state = "Loading" /\ Coming(e) + 0 # 0
    BY <1>2, <1>7, <1>8, <1>9, <1>3 DEF One, LoadOk, Coming
  <2>5. TasksOf(e) + 0 + One(new.parked) - One(entry[e].parked) <= 1
    <3>1. TasksOf(e) \in Int /\ TasksOf(e) <= 1
      BY <1>2, <1>7 DEF LoadOk, TasksOf, One
    <3> QED
      BY <1>2, <1>9, <3>1 DEF One
  <2>6. new.parked \/ StepsIn(For(Unparkers, e)) + 0 # 0 => new.pending
    BY <1>2, <1>7, <1>8, <1>9, <1>3 DEF One, LoadOk, Loads, Unparkers
  <2>7. new.pending => ~new.claimed \/ new.parked \/ StepsIn(For(PendingKinds, e)) + 0 # 0
    BY <1>2, <1>7, <1>8, <1>9, <1>3 DEF One, LoadOk, Loads, PendingKinds
  <2>8. ~gone => Queue(e) + 0 = One(new.queued) /\ (~new.queued => new.count # 0)
    BY <1>2, <1>7, <1>9, <2>1, <1>3 DEF One
  <2> QED
    BY <2>2, <2>3, <2>4, <2>5, <2>6, <2>7, <2>8 DEF Settles
<1>11. NamesOnly(h, p, e) /\ Balanced
  <2>1. Mere(p, e) /\ h[1] \notin TaskSteps
    BY <1>2 DEF Mere, p, TaskSteps, EntryKinds, Counting, Passing, Waits
  <2> QED
    BY <1>2, <1>4, <1>6, <2>1, MereSteps DEF h
<1>12. /\ {0} \subseteq Int
       /\ h[1] \notin Dispatcher \cup {"dispatch", "destroyAll"}
       /\ new.count # 0 => entry[e].count # 0 \/ e \in published \cup fresh
       /\ h[1] \notin Waits
       /\ new.state = "Loading" => entry[e].state = "Loading"
  BY <1>2, <1>7, <1>9, <1>3 DEF Dispatcher, Waits
<1> QED
  BY <1>2, <1>4, <1>5, <1>6, <1>9, <1>10, <1>11, <1>12, EntryMoves DEF h

LEMMA WaitClaimed ==
  ASSUME CacheInv, NEW t \in Threads, Wait(t), Me(t).claimed
  PROVE  CacheInv'
<1>1. PICK e : e = Arg(t) /\ "wait" \in EntryKinds /\ At(t, "wait")
  BY DEF Wait, EntryKinds, Counting, Passing, Waits
<1> DEFINE h == todo[t][1]
           new == entry[e]
           a == <<"waitState", e>>
           p == <<a>>
<1>2. /\ Typed /\ todo[t] # <<>> /\ h \in AllSteps /\ h[1] = "wait" /\ h[2] = e /\ h[3] = More(t)
      /\ e \in Live /\ e \in Entries
      /\ Me(t) = entry[e] /\ Me(t) \in EntryType /\ Me(t).life = "live"
      /\ CountOk(e) /\ LoadOk(e) /\ QueueOk(e)
      /\ \A K : "wait" \in K => StepsIn(For(K, e)) # 0
      /\ \A x \in Entries \ {e} : h \notin Naming(x)
  BY <1>1, EntryHead DEF More
<1>3. entry[e].claimed
  BY <1>2
<1>4. entry[e].count # 0
  BY <1>1, HeadUsed DEF EntryKinds, Counting, Passing, Waits
<1>5. /\ a \in AllSteps /\ a[1] = "waitState" /\ a[2] = e
  BY <1>2, StepsAre DEF EntryKinds, Counting, Passing, Waits, Ops
<1>6. p = <<>> \o <<a>>
  BY <1>5, Joins
<1>7. Then(t, p) /\ entry' = [entry EXCEPT ![e] = new] /\ OnlyEntries
  BY <1>1, <1>2, <1>6 DEF Wait, Change, Pass, ClaimedBy, Me
<1>8. Shifts(e, 0, 0, -1, 0, 0, 0, 0)
  <2>1. /\ Of(h, Counting, e) = 0 /\ Of(h, Loaders, e) = 0 /\ Of(h, Comers, e) = 1 /\ Of(h, Tasking, e) = 0 /\ Of(h, Unparkers, e) = 0 /\ Of(h, PendingKinds, e) = 0 /\ Of(h, {"enqueue"}, e) = 0
        /\ Of(a, Counting, e) = 0 /\ Of(a, Loaders, e) = 0 /\ Of(a, Comers, e) = 0 /\ Of(a, Tasking, e) = 0 /\ Of(a, Unparkers, e) = 0 /\ Of(a, PendingKinds, e) = 0 /\ Of(a, {"enqueue"}, e) = 0
    BY <1>2, <1>5 DEF Of, One, Counting, Loaders, Comers, Tasking, Unparkers, PendingKinds
  <2>2. {h[1], a[1]} \cap ForSets = {}
    BY <1>2, <1>5 DEF ForSets
  <2> HIDE DEF h, a
  <2>3. h = todo[t][1] /\ Then(t, <<a>>)
    BY <1>7 DEF h
  <2> QED
    BY <1>2, <1>5, <2>1, <2>2, <2>3, ShiftOne
<1>9. Follows(h, p, Mine(t)) /\ Calm(p) /\ p \in Seq(AllSteps)
  <2>1. Apt(h, a)
    BY <1>2, <1>5 DEF Apt, Suits, Lasts, TaskDoneOnLane, Forces, EndOfForce, LaneSteps, Dispatcher, LateSteps
  <2>2. /\ Covered(h, a, Mine(t))
    BY <1>2, <1>5 DEF Covered, Backs, Passing, Waits, Counting
  <2>3. /\ a[1] \notin {"reload", "unpark"}
        /\ h[1] \in Waits => a[1] \in Waits /\ a[2] = h[2]
        /\ h[1] \in TaskEnds => a[1] \in TaskEnds
        /\ a[1] \notin Dispatcher \cup ForSets \cup {"destroyAll"}
    BY <1>2, <1>5 DEF Waits, TaskEnds, Lasts, Firsts, Dispatcher, ForSets, TaskDoneOnLane
  <2> HIDE DEF h, a
  <2>4. Follows(h, <<a>>, Mine(t)) /\ Calm(<<a>>) /\ <<a>> \in Seq(AllSteps)
    BY <1>5, <2>1, <2>2, <2>3, FollowsOne
  <2> QED
    BY <2>4
<1>10. /\ \A G : StepsIn(G) \in Nat
      /\ entry[e].count \in Nat /\ entry[e].state \in {"Loading", "Ready", "Failed"}
      /\ Cardinality(Holders(e)) \in Nat /\ Count(Waiting, {e}) \in Nat /\ Count(replaced, {e}) \in Nat
  BY <1>2, Amounts
<1>11. /\ StepsIn(For(Loaders, e)) = StepsIn(For(Unparkers, e)) + StepsIn(For(OtherLoaders, e))
      /\ StepsIn(For(PendingKinds, e)) = StepsIn(For(Unparkers, e)) + StepsIn(For({"parkOrLoad"}, e))
      /\ StepsIn(For(Comers, e)) # 0
  BY <1>2, LoadersAre DEF Counting, Loaders, Comers, Tasking, Unparkers, PendingKinds, OtherLoaders
<1>12. /\ new \in EntryType /\ new.life = "live"
      /\ new.count = entry[e].count
      /\ new.queued = entry[e].queued
      /\ new.parked = entry[e].parked
      /\ new.claimed = entry[e].claimed
      /\ new.state = entry[e].state
      /\ new.pending = entry[e].pending
  BY <1>2
<1> HIDE DEF new, p, h, a
<1>13. Settles(e, new, 0, 0, -1, 0, 0, 0, 0)
  <2>1. Queue(e) \in Nat /\ (~gone => Queue(e) = One(entry[e].queued) /\ (~entry[e].queued => entry[e].count # 0))
    BY <1>2, <1>10 DEF Queue, QueueOk, One
  <2>2. Having(e) + 0 = new.count
    BY <1>2, <1>10, <1>11, <1>12, <1>4, <1>3 DEF One, CountOk, Having
  <2>3. Loads(e) + 0 + One(new.parked) - One(entry[e].parked) = One(new.state = "Loading" /\ new.claimed)
    BY <1>2, <1>10, <1>11, <1>12, <1>4, <1>3 DEF One, LoadOk, Loads
  <2>4. ~new.claimed => new.pending /\ new.state = "Loading" /\ Coming(e) - 1 # 0
    BY <1>2, <1>10, <1>11, <1>12, <1>4, <1>3 DEF One, LoadOk, Coming
  <2>5. TasksOf(e) + 0 + One(new.parked) - One(entry[e].parked) <= 1
    <3>1. TasksOf(e) \in Int /\ TasksOf(e) <= 1
      BY <1>2, <1>10 DEF LoadOk, TasksOf, One
    <3> QED
      BY <1>2, <1>12, <3>1, <1>3 DEF One
  <2>6. new.parked \/ StepsIn(For(Unparkers, e)) + 0 # 0 => new.pending
    BY <1>2, <1>10, <1>11, <1>12, <1>4, <1>3 DEF One, LoadOk, Loads, Unparkers
  <2>7. new.pending => ~new.claimed \/ new.parked \/ StepsIn(For(PendingKinds, e)) + 0 # 0
    BY <1>2, <1>10, <1>11, <1>12, <1>4, <1>3 DEF One, LoadOk, Loads, PendingKinds
  <2>8. ~gone => Queue(e) + 0 = One(new.queued) /\ (~new.queued => new.count # 0)
    BY <1>2, <1>10, <1>12, <2>1, <1>4, <1>3 DEF One
  <2> QED
    BY <2>2, <2>3, <2>4, <2>5, <2>6, <2>7, <2>8 DEF Settles
<1>14. NamesOnly(h, p, e) /\ Balanced
  <2>1. Mere(p, e) /\ h[1] \notin TaskSteps
    BY <1>2, <1>5 DEF Mere, p, TaskSteps, EntryKinds, Counting, Passing, Waits
  <2> QED
    BY <1>2, <1>7, <1>9, <2>1, MereSteps DEF h
<1>15. /\ {-1, 0} \subseteq Int
       /\ h[1] \notin Dispatcher \cup {"dispatch", "destroyAll"}
       /\ new.count # 0 => entry[e].count # 0 \/ e \in published \cup fresh
       /\ h[1] \in Waits /\ p = <<>> => h[2] = e /\ new.state # "Loading"
       /\ new.state = "Loading" => entry[e].state = "Loading"
  BY <1>2, <1>10, <1>12, <1>4 DEF Dispatcher, Waits, p
<1> QED
  BY <1>2, <1>7, <1>8, <1>9, <1>12, <1>13, <1>14, <1>15, EntryMoves, ZenonT(60) DEF h

LEMMA WaitClaims ==
  ASSUME CacheInv, NEW t \in Threads, Wait(t), ~Me(t).claimed
  PROVE  CacheInv'
<1>1. PICK e : e = Arg(t) /\ "wait" \in EntryKinds /\ At(t, "wait")
  BY DEF Wait, EntryKinds, Counting, Passing, Waits
<1> DEFINE h == todo[t][1]
           new == [Me(t) EXCEPT !.claimed = TRUE, !.pending = FALSE, !.count = @ + 1]
           a == <<"load", e>>
           b == <<"release", e>>
           c == <<"waitState", e>>
           p == <<a, b, c>>
<1>2. /\ Typed /\ todo[t] # <<>> /\ h \in AllSteps /\ h[1] = "wait" /\ h[2] = e /\ h[3] = More(t)
      /\ e \in Live /\ e \in Entries
      /\ Me(t) = entry[e] /\ Me(t) \in EntryType /\ Me(t).life = "live"
      /\ CountOk(e) /\ LoadOk(e) /\ QueueOk(e)
      /\ \A K : "wait" \in K => StepsIn(For(K, e)) # 0
      /\ \A x \in Entries \ {e} : h \notin Naming(x)
  BY <1>1, EntryHead DEF More
<1>3. ~entry[e].claimed
  BY <1>2
<1>4. entry[e].count # 0
  BY <1>1, HeadUsed DEF EntryKinds, Counting, Passing, Waits
<1>5. /\ a \in AllSteps /\ a[1] = "load" /\ a[2] = e
      /\ b \in AllSteps /\ b[1] = "release" /\ b[2] = e
      /\ c \in AllSteps /\ c[1] = "waitState" /\ c[2] = e
  BY <1>2, StepsAre DEF EntryKinds, Counting, Passing, Waits, Ops
<1>6. p = <<a, b>> \o <<c>>
  BY <1>5, Joins
<1>7. Then(t, p) /\ entry' = [entry EXCEPT ![e] = new] /\ OnlyEntries
  BY <1>1, <1>2, <1>6 DEF Wait, Change, Pass, ClaimedBy, LoadAndRelease
<1>8. Shifts(e, 1, 1, -1, 0, 0, 0, 0)
  <2>1. /\ Of(h, Counting, e) = 0 /\ Of(h, Loaders, e) = 0 /\ Of(h, Comers, e) = 1 /\ Of(h, Tasking, e) = 0 /\ Of(h, Unparkers, e) = 0 /\ Of(h, PendingKinds, e) = 0 /\ Of(h, {"enqueue"}, e) = 0
        /\ Of(a, Counting, e) = 0 /\ Of(a, Loaders, e) = 1 /\ Of(a, Comers, e) = 0 /\ Of(a, Tasking, e) = 0 /\ Of(a, Unparkers, e) = 0 /\ Of(a, PendingKinds, e) = 0 /\ Of(a, {"enqueue"}, e) = 0
        /\ Of(b, Counting, e) = 1 /\ Of(b, Loaders, e) = 0 /\ Of(b, Comers, e) = 0 /\ Of(b, Tasking, e) = 0 /\ Of(b, Unparkers, e) = 0 /\ Of(b, PendingKinds, e) = 0 /\ Of(b, {"enqueue"}, e) = 0
        /\ Of(c, Counting, e) = 0 /\ Of(c, Loaders, e) = 0 /\ Of(c, Comers, e) = 0 /\ Of(c, Tasking, e) = 0 /\ Of(c, Unparkers, e) = 0 /\ Of(c, PendingKinds, e) = 0 /\ Of(c, {"enqueue"}, e) = 0
    BY <1>2, <1>5 DEF Of, One, Counting, Loaders, Comers, Tasking, Unparkers, PendingKinds
  <2>2. {h[1], a[1], b[1], c[1]} \cap ForSets = {}
    BY <1>2, <1>5 DEF ForSets
  <2> HIDE DEF h, a, b, c
  <2>3. h = todo[t][1] /\ Then(t, <<a, b, c>>)
    BY <1>7 DEF h
  <2> QED
    BY <1>2, <1>5, <2>1, <2>2, <2>3, ShiftThree
<1>9. Follows(h, p, Mine(t)) /\ Calm(p) /\ p \in Seq(AllSteps)
  <2>1. Apt(h, a) /\ Apt(h, b) /\ Apt(h, c)
    BY <1>2, <1>5 DEF Apt, Suits, Lasts, TaskDoneOnLane, Forces, EndOfForce, LaneSteps, Dispatcher, LateSteps
  <2>2. /\ (Covered(h, a, Mine(t)) \/ Backs(a, b) \/ Backs(a, c))
        /\ (Covered(h, b, Mine(t)) \/ Backs(b, c))
        /\ Covered(h, c, Mine(t))
    BY <1>2, <1>5 DEF Covered, Backs, Passing, Waits, Counting
  <2>3. /\ a[1] \notin {"reload"} \cup Lasts
        /\ b[1] \notin {"reload", "unpark"} \cup Firsts \cup Lasts
        /\ c[1] \notin {"reload", "unpark"} \cup Firsts
        /\ (a[1] = "unpark" => b[1] \in {"wait", "claimFree"} /\ b[2] = a[2])
        /\ a # TaskDoneOnLane
        /\ b # TaskDoneOnLane
        /\ (h[1] \in Waits => c[1] \in Waits /\ c[2] = h[2])
        /\ h[1] \notin TaskEnds
        /\ {a[1], b[1], c[1]} \cap (Dispatcher \cup ForSets \cup {"destroyAll"}) = {}
    BY <1>2, <1>5 DEF Waits, TaskEnds, Lasts, Firsts, Dispatcher, ForSets, TaskDoneOnLane
  <2> HIDE DEF h, a, b, c
  <2>4. Follows(h, <<a, b, c>>, Mine(t)) /\ Calm(<<a, b, c>>) /\ <<a, b, c>> \in Seq(AllSteps)
    BY <1>5, <2>1, <2>2, <2>3, FollowsThree
  <2> QED
    BY <2>4
<1>10. /\ \A G : StepsIn(G) \in Nat
      /\ entry[e].count \in Nat /\ entry[e].state \in {"Loading", "Ready", "Failed"}
      /\ Cardinality(Holders(e)) \in Nat /\ Count(Waiting, {e}) \in Nat /\ Count(replaced, {e}) \in Nat
  BY <1>2, Amounts
<1>11. /\ StepsIn(For(Loaders, e)) = StepsIn(For(Unparkers, e)) + StepsIn(For(OtherLoaders, e))
      /\ StepsIn(For(PendingKinds, e)) = StepsIn(For(Unparkers, e)) + StepsIn(For({"parkOrLoad"}, e))
      /\ StepsIn(For(Comers, e)) # 0
  BY <1>2, LoadersAre DEF Counting, Loaders, Comers, Tasking, Unparkers, PendingKinds, OtherLoaders
<1>12. /\ new \in EntryType /\ new.life = "live"
      /\ new.count = (entry[e].count + 1)
      /\ new.queued = entry[e].queued
      /\ new.parked = entry[e].parked
      /\ new.claimed = TRUE
      /\ new.state = entry[e].state
      /\ new.pending = FALSE
  <2>1. /\ new.life = "live"
        /\ new.count = (entry[e].count + 1)
        /\ new.queued = entry[e].queued
        /\ new.parked = entry[e].parked
        /\ new.claimed = TRUE
        /\ new.state = entry[e].state
        /\ new.pending = FALSE
    BY <1>2 DEF EntryType
  <2>2. /\ entry[e].count + 1 \in Nat /\ Me(t).count = entry[e].count
    BY <1>2, <1>10, <1>4
  <2>3. new \in EntryType
    BY <1>2, <1>10, <1>4, <2>2 DEF EntryType
  <2> QED
    BY <2>1, <2>3
<1> HIDE DEF new, p, h, a, b, c
<1>13. Settles(e, new, 1, 1, -1, 0, 0, 0, 0)
  <2>1. Queue(e) \in Nat /\ (~gone => Queue(e) = One(entry[e].queued) /\ (~entry[e].queued => entry[e].count # 0))
    BY <1>2, <1>10 DEF Queue, QueueOk, One
  <2>2. Having(e) + 1 = new.count
    BY <1>2, <1>10, <1>11, <1>12, <1>4, <1>3 DEF One, CountOk, Having
  <2>3. Loads(e) + 1 + One(new.parked) - One(entry[e].parked) = One(new.state = "Loading" /\ new.claimed)
    BY <1>2, <1>10, <1>11, <1>12, <1>4, <1>3 DEF One, LoadOk, Loads
  <2>4. ~new.claimed => new.pending /\ new.state = "Loading" /\ Coming(e) - 1 # 0
    BY <1>2, <1>10, <1>11, <1>12, <1>4, <1>3 DEF One, LoadOk, Coming
  <2>5. TasksOf(e) + 0 + One(new.parked) - One(entry[e].parked) <= 1
    <3>1. TasksOf(e) \in Int /\ TasksOf(e) <= 1
      BY <1>2, <1>10 DEF LoadOk, TasksOf, One
    <3> QED
      BY <1>2, <1>12, <3>1, <1>3 DEF One
  <2>6. new.parked \/ StepsIn(For(Unparkers, e)) + 0 # 0 => new.pending
    BY <1>2, <1>10, <1>11, <1>12, <1>4, <1>3, SMTT(60) DEF One, LoadOk, Loads, Unparkers
  <2>7. new.pending => ~new.claimed \/ new.parked \/ StepsIn(For(PendingKinds, e)) + 0 # 0
    BY <1>2, <1>10, <1>11, <1>12, <1>4, <1>3 DEF One, LoadOk, Loads, PendingKinds
  <2>8. ~gone => Queue(e) + 0 = One(new.queued) /\ (~new.queued => new.count # 0)
    BY <1>2, <1>10, <1>12, <2>1, <1>4, <1>3 DEF One
  <2> QED
    BY <2>2, <2>3, <2>4, <2>5, <2>6, <2>7, <2>8 DEF Settles
<1>14. NamesOnly(h, p, e) /\ Balanced
  <2>1. Mere(p, e) /\ h[1] \notin TaskSteps
    BY <1>2, <1>5 DEF Mere, p, TaskSteps, EntryKinds, Counting, Passing, Waits
  <2> QED
    BY <1>2, <1>7, <1>9, <2>1, MereSteps DEF h
<1>15. /\ {-1, 0, 1} \subseteq Int
       /\ h[1] \notin Dispatcher \cup {"dispatch", "destroyAll"}
       /\ new.count # 0 => entry[e].count # 0 \/ e \in published \cup fresh
       /\ h[1] \in Waits /\ p = <<>> => h[2] = e /\ new.state # "Loading"
       /\ new.state = "Loading" => entry[e].state = "Loading"
  BY <1>2, <1>10, <1>12, <1>4 DEF Dispatcher, Waits, p
<1> QED
  BY <1>2, <1>7, <1>8, <1>9, <1>12, <1>13, <1>14, <1>15, EntryMoves DEF h

LEMMA WaitStateLoading ==
  ASSUME CacheInv, NEW t \in Threads, WaitState(t), Me(t).state = "Loading"
  PROVE  CacheInv'
<1>1. PICK e : e = Arg(t) /\ "waitState" \in EntryKinds /\ At(t, "waitState")
  BY DEF WaitState, EntryKinds, Counting, Passing, Waits
<1> DEFINE h == todo[t][1]
           new == entry[e]
           a == <<"waitReading", e>>
           p == <<a>>
<1>2. /\ Typed /\ todo[t] # <<>> /\ h \in AllSteps /\ h[1] = "waitState" /\ h[2] = e /\ h[3] = More(t)
      /\ e \in Live /\ e \in Entries
      /\ Me(t) = entry[e] /\ Me(t) \in EntryType /\ Me(t).life = "live"
      /\ CountOk(e) /\ LoadOk(e) /\ QueueOk(e)
      /\ \A K : "waitState" \in K => StepsIn(For(K, e)) # 0
      /\ \A x \in Entries \ {e} : h \notin Naming(x)
  BY <1>1, EntryHead DEF More
<1>3. entry[e].count # 0
  BY <1>1, HeadUsed DEF EntryKinds, Counting, Passing, Waits
<1>4. /\ a \in AllSteps /\ a[1] = "waitReading" /\ a[2] = e
  BY <1>2, StepsAre DEF EntryKinds, Counting, Passing, Waits, Ops
<1>5. Then(t, p) /\ entry' = [entry EXCEPT ![e] = new] /\ OnlyEntries
  <2>1. Then(t, p) /\ entry' = entry /\ OnlyEntries
    BY <1>1, <1>2 DEF WaitState, Change, Pass
  <2> QED
    BY <1>2, <2>1 DEF Typed, TypeOK
<1>6. Shifts(e, 0, 0, 0, 0, 0, 0, 0)
  <2>1. /\ Of(h, Counting, e) = 0 /\ Of(h, Loaders, e) = 0 /\ Of(h, Comers, e) = 0 /\ Of(h, Tasking, e) = 0 /\ Of(h, Unparkers, e) = 0 /\ Of(h, PendingKinds, e) = 0 /\ Of(h, {"enqueue"}, e) = 0
        /\ Of(a, Counting, e) = 0 /\ Of(a, Loaders, e) = 0 /\ Of(a, Comers, e) = 0 /\ Of(a, Tasking, e) = 0 /\ Of(a, Unparkers, e) = 0 /\ Of(a, PendingKinds, e) = 0 /\ Of(a, {"enqueue"}, e) = 0
    BY <1>2, <1>4 DEF Of, One, Counting, Loaders, Comers, Tasking, Unparkers, PendingKinds
  <2>2. {h[1], a[1]} \cap ForSets = {}
    BY <1>2, <1>4 DEF ForSets
  <2> HIDE DEF h, a
  <2>3. h = todo[t][1] /\ Then(t, <<a>>)
    BY <1>5 DEF h
  <2> QED
    BY <1>2, <1>4, <2>1, <2>2, <2>3, ShiftOne
<1>7. Follows(h, p, Mine(t)) /\ Calm(p) /\ p \in Seq(AllSteps)
  <2>1. Apt(h, a)
    BY <1>2, <1>4 DEF Apt, Suits, Lasts, TaskDoneOnLane, Forces, EndOfForce, LaneSteps, Dispatcher, LateSteps
  <2>2. /\ Covered(h, a, Mine(t))
    BY <1>2, <1>4 DEF Covered, Backs, Passing, Waits, Counting
  <2>3. /\ a[1] \notin {"reload", "unpark"}
        /\ h[1] \in Waits => a[1] \in Waits /\ a[2] = h[2]
        /\ h[1] \in TaskEnds => a[1] \in TaskEnds
        /\ a[1] \notin Dispatcher \cup ForSets \cup {"destroyAll"}
    BY <1>2, <1>4 DEF Waits, TaskEnds, Lasts, Firsts, Dispatcher, ForSets, TaskDoneOnLane
  <2> HIDE DEF h, a
  <2>4. Follows(h, <<a>>, Mine(t)) /\ Calm(<<a>>) /\ <<a>> \in Seq(AllSteps)
    BY <1>4, <2>1, <2>2, <2>3, FollowsOne
  <2> QED
    BY <2>4
<1>8. /\ \A G : StepsIn(G) \in Nat
      /\ entry[e].count \in Nat /\ entry[e].state \in {"Loading", "Ready", "Failed"}
      /\ Cardinality(Holders(e)) \in Nat /\ Count(Waiting, {e}) \in Nat /\ Count(replaced, {e}) \in Nat
  BY <1>2, Amounts
<1>9. /\ StepsIn(For(Loaders, e)) = StepsIn(For(Unparkers, e)) + StepsIn(For(OtherLoaders, e))
      /\ StepsIn(For(PendingKinds, e)) = StepsIn(For(Unparkers, e)) + StepsIn(For({"parkOrLoad"}, e))
  BY <1>2, LoadersAre DEF Counting, Loaders, Comers, Tasking, Unparkers, PendingKinds, OtherLoaders
<1>10. /\ new \in EntryType /\ new.life = "live"
      /\ new.count = entry[e].count
      /\ new.queued = entry[e].queued
      /\ new.parked = entry[e].parked
      /\ new.claimed = entry[e].claimed
      /\ new.state = entry[e].state
      /\ new.pending = entry[e].pending
  BY <1>2
<1> HIDE DEF new, p, h, a
<1>11. Settles(e, new, 0, 0, 0, 0, 0, 0, 0)
  <2>1. Queue(e) \in Nat /\ (~gone => Queue(e) = One(entry[e].queued) /\ (~entry[e].queued => entry[e].count # 0))
    BY <1>2, <1>8 DEF Queue, QueueOk, One
  <2>2. Having(e) + 0 = new.count
    BY <1>2, <1>8, <1>9, <1>10, <1>3 DEF One, CountOk, Having
  <2>3. Loads(e) + 0 + One(new.parked) - One(entry[e].parked) = One(new.state = "Loading" /\ new.claimed)
    BY <1>2, <1>8, <1>9, <1>10, <1>3 DEF One, LoadOk, Loads
  <2>4. ~new.claimed => new.pending /\ new.state = "Loading" /\ Coming(e) + 0 # 0
    BY <1>2, <1>8, <1>9, <1>10, <1>3 DEF One, LoadOk, Coming
  <2>5. TasksOf(e) + 0 + One(new.parked) - One(entry[e].parked) <= 1
    <3>1. TasksOf(e) \in Int /\ TasksOf(e) <= 1
      BY <1>2, <1>8 DEF LoadOk, TasksOf, One
    <3> QED
      BY <1>2, <1>10, <3>1 DEF One
  <2>6. new.parked \/ StepsIn(For(Unparkers, e)) + 0 # 0 => new.pending
    BY <1>2, <1>8, <1>9, <1>10, <1>3 DEF One, LoadOk, Loads, Unparkers
  <2>7. new.pending => ~new.claimed \/ new.parked \/ StepsIn(For(PendingKinds, e)) + 0 # 0
    BY <1>2, <1>8, <1>9, <1>10, <1>3 DEF One, LoadOk, Loads, PendingKinds
  <2>8. ~gone => Queue(e) + 0 = One(new.queued) /\ (~new.queued => new.count # 0)
    BY <1>2, <1>8, <1>10, <2>1, <1>3 DEF One
  <2> QED
    BY <2>2, <2>3, <2>4, <2>5, <2>6, <2>7, <2>8 DEF Settles
<1>12. NamesOnly(h, p, e) /\ Balanced
  <2>1. Mere(p, e) /\ h[1] \notin TaskSteps
    BY <1>2, <1>4 DEF Mere, p, TaskSteps, EntryKinds, Counting, Passing, Waits
  <2> QED
    BY <1>2, <1>5, <1>7, <2>1, MereSteps DEF h
<1>13. /\ {0} \subseteq Int
       /\ h[1] \notin Dispatcher \cup {"dispatch", "destroyAll"}
       /\ new.count # 0 => entry[e].count # 0 \/ e \in published \cup fresh
       /\ h[1] \in Waits /\ p = <<>> => h[2] = e /\ new.state # "Loading"
       /\ new.state = "Loading" => entry[e].state = "Loading"
  BY <1>2, <1>8, <1>10, <1>3 DEF Dispatcher, Waits, p
<1> QED
  BY <1>2, <1>5, <1>6, <1>7, <1>10, <1>11, <1>12, <1>13, EntryMoves, ZenonT(60) DEF h

LEMMA WaitStateOver ==
  ASSUME CacheInv, NEW t \in Threads, WaitState(t), Me(t).state # "Loading"
  PROVE  CacheInv'
<1>1. PICK e : e = Arg(t) /\ "waitState" \in EntryKinds /\ At(t, "waitState")
  BY DEF WaitState, EntryKinds, Counting, Passing, Waits
<1> DEFINE h == todo[t][1]
           new == entry[e]
           p == <<>>
<1>2. /\ Typed /\ todo[t] # <<>> /\ h \in AllSteps /\ h[1] = "waitState" /\ h[2] = e /\ h[3] = More(t)
      /\ e \in Live /\ e \in Entries
      /\ Me(t) = entry[e] /\ Me(t) \in EntryType /\ Me(t).life = "live"
      /\ CountOk(e) /\ LoadOk(e) /\ QueueOk(e)
      /\ \A K : "waitState" \in K => StepsIn(For(K, e)) # 0
      /\ \A x \in Entries \ {e} : h \notin Naming(x)
  BY <1>1, EntryHead DEF More
<1>3. entry[e].count # 0
  BY <1>1, HeadUsed DEF EntryKinds, Counting, Passing, Waits
<1>4. Then(t, p) /\ entry' = [entry EXCEPT ![e] = new] /\ OnlyEntries
  <2>1. Then(t, p) /\ entry' = entry /\ OnlyEntries
    BY <1>1, <1>2 DEF WaitState, Change, Pass
  <2> QED
    BY <1>2, <2>1 DEF Typed, TypeOK
<1>5. Shifts(e, 0, 0, 0, 0, 0, 0, 0)
  <2>1. /\ Of(h, Counting, e) = 0 /\ Of(h, Loaders, e) = 0 /\ Of(h, Comers, e) = 0 /\ Of(h, Tasking, e) = 0 /\ Of(h, Unparkers, e) = 0 /\ Of(h, PendingKinds, e) = 0 /\ Of(h, {"enqueue"}, e) = 0
    BY <1>2 DEF Of, One, Counting, Loaders, Comers, Tasking, Unparkers, PendingKinds
  <2>2. {h[1]} \cap ForSets = {}
    BY <1>2 DEF ForSets
  <2> HIDE DEF h
  <2>3. h = todo[t][1] /\ Then(t, <<>>)
    BY <1>4 DEF h
  <2> QED
    BY <1>2, <2>1, <2>2, <2>3, ShiftNone
<1>6. Follows(h, p, Mine(t)) /\ Calm(p) /\ p \in Seq(AllSteps)
  BY FollowsNone
<1>7. /\ \A G : StepsIn(G) \in Nat
      /\ entry[e].count \in Nat /\ entry[e].state \in {"Loading", "Ready", "Failed"}
      /\ Cardinality(Holders(e)) \in Nat /\ Count(Waiting, {e}) \in Nat /\ Count(replaced, {e}) \in Nat
  BY <1>2, Amounts
<1>8. /\ StepsIn(For(Loaders, e)) = StepsIn(For(Unparkers, e)) + StepsIn(For(OtherLoaders, e))
      /\ StepsIn(For(PendingKinds, e)) = StepsIn(For(Unparkers, e)) + StepsIn(For({"parkOrLoad"}, e))
  BY <1>2, LoadersAre DEF Counting, Loaders, Comers, Tasking, Unparkers, PendingKinds, OtherLoaders
<1>9. /\ new \in EntryType /\ new.life = "live"
      /\ new.count = entry[e].count
      /\ new.queued = entry[e].queued
      /\ new.parked = entry[e].parked
      /\ new.claimed = entry[e].claimed
      /\ new.state = entry[e].state
      /\ new.pending = entry[e].pending
  BY <1>2
<1> HIDE DEF new, p, h
<1>10. Settles(e, new, 0, 0, 0, 0, 0, 0, 0)
  <2>1. Queue(e) \in Nat /\ (~gone => Queue(e) = One(entry[e].queued) /\ (~entry[e].queued => entry[e].count # 0))
    BY <1>2, <1>7 DEF Queue, QueueOk, One
  <2>2. Having(e) + 0 = new.count
    BY <1>2, <1>7, <1>8, <1>9, <1>3 DEF One, CountOk, Having
  <2>3. Loads(e) + 0 + One(new.parked) - One(entry[e].parked) = One(new.state = "Loading" /\ new.claimed)
    BY <1>2, <1>7, <1>8, <1>9, <1>3 DEF One, LoadOk, Loads
  <2>4. ~new.claimed => new.pending /\ new.state = "Loading" /\ Coming(e) + 0 # 0
    BY <1>2, <1>7, <1>8, <1>9, <1>3 DEF One, LoadOk, Coming
  <2>5. TasksOf(e) + 0 + One(new.parked) - One(entry[e].parked) <= 1
    <3>1. TasksOf(e) \in Int /\ TasksOf(e) <= 1
      BY <1>2, <1>7 DEF LoadOk, TasksOf, One
    <3> QED
      BY <1>2, <1>9, <3>1 DEF One
  <2>6. new.parked \/ StepsIn(For(Unparkers, e)) + 0 # 0 => new.pending
    BY <1>2, <1>7, <1>8, <1>9, <1>3 DEF One, LoadOk, Loads, Unparkers
  <2>7. new.pending => ~new.claimed \/ new.parked \/ StepsIn(For(PendingKinds, e)) + 0 # 0
    BY <1>2, <1>7, <1>8, <1>9, <1>3 DEF One, LoadOk, Loads, PendingKinds
  <2>8. ~gone => Queue(e) + 0 = One(new.queued) /\ (~new.queued => new.count # 0)
    BY <1>2, <1>7, <1>9, <2>1, <1>3 DEF One
  <2> QED
    BY <2>2, <2>3, <2>4, <2>5, <2>6, <2>7, <2>8 DEF Settles
<1>11. NamesOnly(h, p, e) /\ Balanced
  <2>1. Mere(p, e) /\ h[1] \notin TaskSteps
    BY <1>2 DEF Mere, p, TaskSteps, EntryKinds, Counting, Passing, Waits
  <2> QED
    BY <1>2, <1>4, <1>6, <2>1, MereSteps DEF h
<1>12. /\ {0} \subseteq Int
       /\ h[1] \notin Dispatcher \cup {"dispatch", "destroyAll"}
       /\ new.count # 0 => entry[e].count # 0 \/ e \in published \cup fresh
       /\ h[1] \in Waits /\ p = <<>> => h[2] = e /\ new.state # "Loading"
       /\ new.state = "Loading" => entry[e].state = "Loading"
  BY <1>2, <1>7, <1>9, <1>3 DEF Dispatcher, Waits, p
<1> QED
  BY <1>2, <1>4, <1>5, <1>6, <1>9, <1>10, <1>11, <1>12, EntryMoves DEF h

LEMMA WaitAsleepStep ==
  ASSUME CacheInv, NEW t \in Threads, WaitAsleep(t)
  PROVE  CacheInv'
<1>1. PICK e : e = Arg(t) /\ "waitReading" \in EntryKinds /\ At(t, "waitReading")
  BY DEF WaitAsleep, EntryKinds, Counting, Passing, Waits
<1> DEFINE h == todo[t][1]
           new == entry[e]
           a == <<"asleep", e>>
           p == <<a>>
<1>2. /\ Typed /\ todo[t] # <<>> /\ h \in AllSteps /\ h[1] = "waitReading" /\ h[2] = e /\ h[3] = More(t)
      /\ e \in Live /\ e \in Entries
      /\ Me(t) = entry[e] /\ Me(t) \in EntryType /\ Me(t).life = "live"
      /\ CountOk(e) /\ LoadOk(e) /\ QueueOk(e)
      /\ \A K : "waitReading" \in K => StepsIn(For(K, e)) # 0
      /\ \A x \in Entries \ {e} : h \notin Naming(x)
  BY <1>1, EntryHead DEF More
<1>3. entry[e].count # 0
  BY <1>1, HeadUsed DEF EntryKinds, Counting, Passing, Waits
<1>4. /\ a \in AllSteps /\ a[1] = "asleep" /\ a[2] = e
  BY <1>2, StepsAre DEF EntryKinds, Counting, Passing, Waits, Ops
<1>5. Then(t, p) /\ entry' = [entry EXCEPT ![e] = new] /\ OnlyEntries
  <2>1. Then(t, p) /\ entry' = entry /\ OnlyEntries
    BY <1>1, <1>2 DEF WaitAsleep, Change, Pass
  <2> QED
    BY <1>2, <2>1 DEF Typed, TypeOK
<1>6. Shifts(e, 0, 0, 0, 0, 0, 0, 0)
  <2>1. /\ Of(h, Counting, e) = 0 /\ Of(h, Loaders, e) = 0 /\ Of(h, Comers, e) = 0 /\ Of(h, Tasking, e) = 0 /\ Of(h, Unparkers, e) = 0 /\ Of(h, PendingKinds, e) = 0 /\ Of(h, {"enqueue"}, e) = 0
        /\ Of(a, Counting, e) = 0 /\ Of(a, Loaders, e) = 0 /\ Of(a, Comers, e) = 0 /\ Of(a, Tasking, e) = 0 /\ Of(a, Unparkers, e) = 0 /\ Of(a, PendingKinds, e) = 0 /\ Of(a, {"enqueue"}, e) = 0
    BY <1>2, <1>4 DEF Of, One, Counting, Loaders, Comers, Tasking, Unparkers, PendingKinds
  <2>2. {h[1], a[1]} \cap ForSets = {}
    BY <1>2, <1>4 DEF ForSets
  <2> HIDE DEF h, a
  <2>3. h = todo[t][1] /\ Then(t, <<a>>)
    BY <1>5 DEF h
  <2> QED
    BY <1>2, <1>4, <2>1, <2>2, <2>3, ShiftOne
<1>7. Follows(h, p, Mine(t)) /\ Calm(p) /\ p \in Seq(AllSteps)
  <2>1. Apt(h, a)
    BY <1>2, <1>4 DEF Apt, Suits, Lasts, TaskDoneOnLane, Forces, EndOfForce, LaneSteps, Dispatcher, LateSteps
  <2>2. /\ Covered(h, a, Mine(t))
    BY <1>2, <1>4 DEF Covered, Backs, Passing, Waits, Counting
  <2>3. /\ a[1] \notin {"reload", "unpark"}
        /\ h[1] \in Waits => a[1] \in Waits /\ a[2] = h[2]
        /\ h[1] \in TaskEnds => a[1] \in TaskEnds
        /\ a[1] \notin Dispatcher \cup ForSets \cup {"destroyAll"}
    BY <1>2, <1>4 DEF Waits, TaskEnds, Lasts, Firsts, Dispatcher, ForSets, TaskDoneOnLane
  <2> HIDE DEF h, a
  <2>4. Follows(h, <<a>>, Mine(t)) /\ Calm(<<a>>) /\ <<a>> \in Seq(AllSteps)
    BY <1>4, <2>1, <2>2, <2>3, FollowsOne
  <2> QED
    BY <2>4
<1>8. /\ \A G : StepsIn(G) \in Nat
      /\ entry[e].count \in Nat /\ entry[e].state \in {"Loading", "Ready", "Failed"}
      /\ Cardinality(Holders(e)) \in Nat /\ Count(Waiting, {e}) \in Nat /\ Count(replaced, {e}) \in Nat
  BY <1>2, Amounts
<1>9. /\ StepsIn(For(Loaders, e)) = StepsIn(For(Unparkers, e)) + StepsIn(For(OtherLoaders, e))
      /\ StepsIn(For(PendingKinds, e)) = StepsIn(For(Unparkers, e)) + StepsIn(For({"parkOrLoad"}, e))
  BY <1>2, LoadersAre DEF Counting, Loaders, Comers, Tasking, Unparkers, PendingKinds, OtherLoaders
<1>10. /\ new \in EntryType /\ new.life = "live"
      /\ new.count = entry[e].count
      /\ new.queued = entry[e].queued
      /\ new.parked = entry[e].parked
      /\ new.claimed = entry[e].claimed
      /\ new.state = entry[e].state
      /\ new.pending = entry[e].pending
  BY <1>2
<1> HIDE DEF new, p, h, a
<1>11. Settles(e, new, 0, 0, 0, 0, 0, 0, 0)
  <2>1. Queue(e) \in Nat /\ (~gone => Queue(e) = One(entry[e].queued) /\ (~entry[e].queued => entry[e].count # 0))
    BY <1>2, <1>8 DEF Queue, QueueOk, One
  <2>2. Having(e) + 0 = new.count
    BY <1>2, <1>8, <1>9, <1>10, <1>3 DEF One, CountOk, Having
  <2>3. Loads(e) + 0 + One(new.parked) - One(entry[e].parked) = One(new.state = "Loading" /\ new.claimed)
    BY <1>2, <1>8, <1>9, <1>10, <1>3 DEF One, LoadOk, Loads
  <2>4. ~new.claimed => new.pending /\ new.state = "Loading" /\ Coming(e) + 0 # 0
    BY <1>2, <1>8, <1>9, <1>10, <1>3 DEF One, LoadOk, Coming
  <2>5. TasksOf(e) + 0 + One(new.parked) - One(entry[e].parked) <= 1
    <3>1. TasksOf(e) \in Int /\ TasksOf(e) <= 1
      BY <1>2, <1>8 DEF LoadOk, TasksOf, One
    <3> QED
      BY <1>2, <1>10, <3>1 DEF One
  <2>6. new.parked \/ StepsIn(For(Unparkers, e)) + 0 # 0 => new.pending
    BY <1>2, <1>8, <1>9, <1>10, <1>3 DEF One, LoadOk, Loads, Unparkers
  <2>7. new.pending => ~new.claimed \/ new.parked \/ StepsIn(For(PendingKinds, e)) + 0 # 0
    BY <1>2, <1>8, <1>9, <1>10, <1>3 DEF One, LoadOk, Loads, PendingKinds
  <2>8. ~gone => Queue(e) + 0 = One(new.queued) /\ (~new.queued => new.count # 0)
    BY <1>2, <1>8, <1>10, <2>1, <1>3 DEF One
  <2> QED
    BY <2>2, <2>3, <2>4, <2>5, <2>6, <2>7, <2>8 DEF Settles
<1>12. NamesOnly(h, p, e) /\ Balanced
  <2>1. Mere(p, e) /\ h[1] \notin TaskSteps
    BY <1>2, <1>4 DEF Mere, p, TaskSteps, EntryKinds, Counting, Passing, Waits
  <2> QED
    BY <1>2, <1>5, <1>7, <2>1, MereSteps DEF h
<1>13. /\ {0} \subseteq Int
       /\ h[1] \notin Dispatcher \cup {"dispatch", "destroyAll"}
       /\ new.count # 0 => entry[e].count # 0 \/ e \in published \cup fresh
       /\ h[1] \in Waits /\ p = <<>> => h[2] = e /\ new.state # "Loading"
       /\ new.state = "Loading" => entry[e].state = "Loading"
  BY <1>2, <1>8, <1>10, <1>3 DEF Dispatcher, Waits, p
<1> QED
  BY <1>2, <1>5, <1>6, <1>7, <1>10, <1>11, <1>12, <1>13, EntryMoves DEF h

LEMMA WakeUpStep ==
  ASSUME CacheInv, NEW t \in Threads, WakeUp(t)
  PROVE  CacheInv'
<1>1. PICK e : e = Arg(t) /\ "asleep" \in EntryKinds /\ At(t, "asleep")
  BY DEF WakeUp, EntryKinds, Counting, Passing, Waits
<1> DEFINE h == todo[t][1]
           new == entry[e]
           a == <<"wait", e>>
           p == <<a>>
<1>2. /\ Typed /\ todo[t] # <<>> /\ h \in AllSteps /\ h[1] = "asleep" /\ h[2] = e /\ h[3] = More(t)
      /\ e \in Live /\ e \in Entries
      /\ Me(t) = entry[e] /\ Me(t) \in EntryType /\ Me(t).life = "live"
      /\ CountOk(e) /\ LoadOk(e) /\ QueueOk(e)
      /\ \A K : "asleep" \in K => StepsIn(For(K, e)) # 0
      /\ \A x \in Entries \ {e} : h \notin Naming(x)
  BY <1>1, EntryHead DEF More
<1>3. entry[e].count # 0
  BY <1>1, HeadUsed DEF EntryKinds, Counting, Passing, Waits
<1>4. /\ a \in AllSteps /\ a[1] = "wait" /\ a[2] = e
  BY <1>2, StepsAre DEF EntryKinds, Counting, Passing, Waits, Ops
<1>5. Then(t, p) /\ entry' = [entry EXCEPT ![e] = new] /\ OnlyEntries
  <2>1. Then(t, p) /\ entry' = entry /\ OnlyEntries
    BY <1>1, <1>2 DEF WakeUp, Change, Pass
  <2> QED
    BY <1>2, <2>1 DEF Typed, TypeOK
<1>6. Shifts(e, 0, 0, 1, 0, 0, 0, 0)
  <2>1. /\ Of(h, Counting, e) = 0 /\ Of(h, Loaders, e) = 0 /\ Of(h, Comers, e) = 0 /\ Of(h, Tasking, e) = 0 /\ Of(h, Unparkers, e) = 0 /\ Of(h, PendingKinds, e) = 0 /\ Of(h, {"enqueue"}, e) = 0
        /\ Of(a, Counting, e) = 0 /\ Of(a, Loaders, e) = 0 /\ Of(a, Comers, e) = 1 /\ Of(a, Tasking, e) = 0 /\ Of(a, Unparkers, e) = 0 /\ Of(a, PendingKinds, e) = 0 /\ Of(a, {"enqueue"}, e) = 0
    BY <1>2, <1>4 DEF Of, One, Counting, Loaders, Comers, Tasking, Unparkers, PendingKinds
  <2>2. {h[1], a[1]} \cap ForSets = {}
    BY <1>2, <1>4 DEF ForSets
  <2> HIDE DEF h, a
  <2>3. h = todo[t][1] /\ Then(t, <<a>>)
    BY <1>5 DEF h
  <2> QED
    BY <1>2, <1>4, <2>1, <2>2, <2>3, ShiftOne
<1>7. Follows(h, p, Mine(t)) /\ Calm(p) /\ p \in Seq(AllSteps)
  <2>1. Apt(h, a)
    BY <1>2, <1>4 DEF Apt, Suits, Lasts, TaskDoneOnLane, Forces, EndOfForce, LaneSteps, Dispatcher, LateSteps
  <2>2. /\ Covered(h, a, Mine(t))
    BY <1>2, <1>4 DEF Covered, Backs, Passing, Waits, Counting
  <2>3. /\ a[1] \notin {"reload", "unpark"}
        /\ h[1] \in Waits => a[1] \in Waits /\ a[2] = h[2]
        /\ h[1] \in TaskEnds => a[1] \in TaskEnds
        /\ a[1] \notin Dispatcher \cup ForSets \cup {"destroyAll"}
    BY <1>2, <1>4 DEF Waits, TaskEnds, Lasts, Firsts, Dispatcher, ForSets, TaskDoneOnLane
  <2> HIDE DEF h, a
  <2>4. Follows(h, <<a>>, Mine(t)) /\ Calm(<<a>>) /\ <<a>> \in Seq(AllSteps)
    BY <1>4, <2>1, <2>2, <2>3, FollowsOne
  <2> QED
    BY <2>4
<1>8. /\ \A G : StepsIn(G) \in Nat
      /\ entry[e].count \in Nat /\ entry[e].state \in {"Loading", "Ready", "Failed"}
      /\ Cardinality(Holders(e)) \in Nat /\ Count(Waiting, {e}) \in Nat /\ Count(replaced, {e}) \in Nat
  BY <1>2, Amounts
<1>9. /\ StepsIn(For(Loaders, e)) = StepsIn(For(Unparkers, e)) + StepsIn(For(OtherLoaders, e))
      /\ StepsIn(For(PendingKinds, e)) = StepsIn(For(Unparkers, e)) + StepsIn(For({"parkOrLoad"}, e))
  BY <1>2, LoadersAre DEF Counting, Loaders, Comers, Tasking, Unparkers, PendingKinds, OtherLoaders
<1>10. /\ new \in EntryType /\ new.life = "live"
      /\ new.count = entry[e].count
      /\ new.queued = entry[e].queued
      /\ new.parked = entry[e].parked
      /\ new.claimed = entry[e].claimed
      /\ new.state = entry[e].state
      /\ new.pending = entry[e].pending
  BY <1>2
<1> HIDE DEF new, p, h, a
<1>11. Settles(e, new, 0, 0, 1, 0, 0, 0, 0)
  <2>1. Queue(e) \in Nat /\ (~gone => Queue(e) = One(entry[e].queued) /\ (~entry[e].queued => entry[e].count # 0))
    BY <1>2, <1>8 DEF Queue, QueueOk, One
  <2>2. Having(e) + 0 = new.count
    BY <1>2, <1>8, <1>9, <1>10, <1>3 DEF One, CountOk, Having
  <2>3. Loads(e) + 0 + One(new.parked) - One(entry[e].parked) = One(new.state = "Loading" /\ new.claimed)
    BY <1>2, <1>8, <1>9, <1>10, <1>3 DEF One, LoadOk, Loads
  <2>4. ~new.claimed => new.pending /\ new.state = "Loading" /\ Coming(e) + 1 # 0
    BY <1>2, <1>8, <1>9, <1>10, <1>3 DEF One, LoadOk, Coming
  <2>5. TasksOf(e) + 0 + One(new.parked) - One(entry[e].parked) <= 1
    <3>1. TasksOf(e) \in Int /\ TasksOf(e) <= 1
      BY <1>2, <1>8 DEF LoadOk, TasksOf, One
    <3> QED
      BY <1>2, <1>10, <3>1 DEF One
  <2>6. new.parked \/ StepsIn(For(Unparkers, e)) + 0 # 0 => new.pending
    BY <1>2, <1>8, <1>9, <1>10, <1>3 DEF One, LoadOk, Loads, Unparkers
  <2>7. new.pending => ~new.claimed \/ new.parked \/ StepsIn(For(PendingKinds, e)) + 0 # 0
    BY <1>2, <1>8, <1>9, <1>10, <1>3 DEF One, LoadOk, Loads, PendingKinds
  <2>8. ~gone => Queue(e) + 0 = One(new.queued) /\ (~new.queued => new.count # 0)
    BY <1>2, <1>8, <1>10, <2>1, <1>3 DEF One
  <2> QED
    BY <2>2, <2>3, <2>4, <2>5, <2>6, <2>7, <2>8 DEF Settles
<1>12. NamesOnly(h, p, e) /\ Balanced
  <2>1. Mere(p, e) /\ h[1] \notin TaskSteps
    BY <1>2, <1>4 DEF Mere, p, TaskSteps, EntryKinds, Counting, Passing, Waits
  <2> QED
    BY <1>2, <1>5, <1>7, <2>1, MereSteps DEF h
<1>13. /\ {0, 1} \subseteq Int
       /\ h[1] \notin Dispatcher \cup {"dispatch", "destroyAll"}
       /\ new.count # 0 => entry[e].count # 0 \/ e \in published \cup fresh
       /\ h[1] \in Waits /\ p = <<>> => h[2] = e /\ new.state # "Loading"
       /\ new.state = "Loading" => entry[e].state = "Loading"
  BY <1>2, <1>8, <1>10, <1>3 DEF Dispatcher, Waits, p
<1> QED
  BY <1>2, <1>5, <1>6, <1>7, <1>10, <1>11, <1>12, <1>13, EntryMoves, ZenonT(60) DEF h

LEMMA StartParkedStep ==
  ASSUME CacheInv, NEW t \in Threads, StartParked(t)
  PROVE  CacheInv'
<1>1. PICK e : e = Arg(t) /\ "startParked" \in EntryKinds /\ At(t, "startParked")
  BY DEF StartParked, EntryKinds, Counting, Passing, Waits
<1> DEFINE h == todo[t][1]
           new == [Me(t) EXCEPT !.count = @ + 1, !.claimed = FALSE]
           a == <<"startTask", e>>
           p == <<a>>
<1>2. /\ Typed /\ todo[t] # <<>> /\ h \in AllSteps /\ h[1] = "startParked" /\ h[2] = e /\ h[3] = More(t)
      /\ e \in Live /\ e \in Entries
      /\ Me(t) = entry[e] /\ Me(t) \in EntryType /\ Me(t).life = "live"
      /\ CountOk(e) /\ LoadOk(e) /\ QueueOk(e)
      /\ \A K : "startParked" \in K => StepsIn(For(K, e)) # 0
      /\ \A x \in Entries \ {e} : h \notin Naming(x)
  BY <1>1, EntryHead DEF More
<1>3. entry[e].count # 0
  BY <1>1, HeadUsed DEF EntryKinds, Counting, Passing, Waits
<1>4. /\ a \in AllSteps /\ a[1] = "startTask" /\ a[2] = e
  BY <1>2, StepsAre DEF EntryKinds, Counting, Passing, Waits, Ops
<1>5. Then(t, p) /\ entry' = [entry EXCEPT ![e] = new] /\ OnlyEntries
  BY <1>1, <1>2 DEF StartParked, Change, Pass
<1>6. Shifts(e, 1, -1, 1, 0, -1, -1, 0)
  <2>1. /\ Of(h, Counting, e) = 0 /\ Of(h, Loaders, e) = 1 /\ Of(h, Comers, e) = 0 /\ Of(h, Tasking, e) = 1 /\ Of(h, Unparkers, e) = 1 /\ Of(h, PendingKinds, e) = 1 /\ Of(h, {"enqueue"}, e) = 0
        /\ Of(a, Counting, e) = 1 /\ Of(a, Loaders, e) = 0 /\ Of(a, Comers, e) = 1 /\ Of(a, Tasking, e) = 1 /\ Of(a, Unparkers, e) = 0 /\ Of(a, PendingKinds, e) = 0 /\ Of(a, {"enqueue"}, e) = 0
    BY <1>2, <1>4 DEF Of, One, Counting, Loaders, Comers, Tasking, Unparkers, PendingKinds
  <2>2. {h[1], a[1]} \cap ForSets = {}
    BY <1>2, <1>4 DEF ForSets
  <2> HIDE DEF h, a
  <2>3. h = todo[t][1] /\ Then(t, <<a>>)
    BY <1>5 DEF h
  <2> QED
    BY <1>2, <1>4, <2>1, <2>2, <2>3, ShiftOne
<1>7. Follows(h, p, Mine(t)) /\ Calm(p) /\ p \in Seq(AllSteps)
  <2>1. Apt(h, a)
    BY <1>2, <1>4 DEF Apt, Suits, Lasts, TaskDoneOnLane, Forces, EndOfForce, LaneSteps, Dispatcher, LateSteps
  <2>2. /\ Covered(h, a, Mine(t))
    BY <1>2, <1>4 DEF Covered, Backs, Passing, Waits, Counting
  <2>3. /\ a[1] \notin {"reload", "unpark"}
        /\ h[1] \in Waits => a[1] \in Waits /\ a[2] = h[2]
        /\ h[1] \in TaskEnds => a[1] \in TaskEnds
        /\ a[1] \notin Dispatcher \cup ForSets \cup {"destroyAll"}
    BY <1>2, <1>4 DEF Waits, TaskEnds, Lasts, Firsts, Dispatcher, ForSets, TaskDoneOnLane
  <2> HIDE DEF h, a
  <2>4. Follows(h, <<a>>, Mine(t)) /\ Calm(<<a>>) /\ <<a>> \in Seq(AllSteps)
    BY <1>4, <2>1, <2>2, <2>3, FollowsOne
  <2> QED
    BY <2>4
<1>8. /\ \A G : StepsIn(G) \in Nat
      /\ entry[e].count \in Nat /\ entry[e].state \in {"Loading", "Ready", "Failed"}
      /\ Cardinality(Holders(e)) \in Nat /\ Count(Waiting, {e}) \in Nat /\ Count(replaced, {e}) \in Nat
  BY <1>2, Amounts
<1>9. /\ StepsIn(For(Loaders, e)) = StepsIn(For(Unparkers, e)) + StepsIn(For(OtherLoaders, e))
      /\ StepsIn(For(PendingKinds, e)) = StepsIn(For(Unparkers, e)) + StepsIn(For({"parkOrLoad"}, e))
      /\ StepsIn(For(Loaders, e)) # 0
      /\ StepsIn(For(Tasking, e)) # 0
      /\ StepsIn(For(Unparkers, e)) # 0
      /\ StepsIn(For(PendingKinds, e)) # 0
  BY <1>2, LoadersAre DEF Counting, Loaders, Comers, Tasking, Unparkers, PendingKinds, OtherLoaders
<1>10. /\ new \in EntryType /\ new.life = "live"
      /\ new.count = (entry[e].count + 1)
      /\ new.queued = entry[e].queued
      /\ new.parked = entry[e].parked
      /\ new.claimed = FALSE
      /\ new.state = entry[e].state
      /\ new.pending = entry[e].pending
  <2>1. /\ new.life = "live"
        /\ new.count = (entry[e].count + 1)
        /\ new.queued = entry[e].queued
        /\ new.parked = entry[e].parked
        /\ new.claimed = FALSE
        /\ new.state = entry[e].state
        /\ new.pending = entry[e].pending
    BY <1>2 DEF EntryType
  <2>2. /\ entry[e].count + 1 \in Nat /\ Me(t).count = entry[e].count
    BY <1>2, <1>8, <1>3
  <2>3. new \in EntryType
    BY <1>2, <1>8, <1>3, <2>2 DEF EntryType
  <2> QED
    BY <2>1, <2>3
<1> HIDE DEF new, p, h, a
<1>11. Settles(e, new, 1, -1, 1, 0, -1, -1, 0)
  <2>1. Queue(e) \in Nat /\ (~gone => Queue(e) = One(entry[e].queued) /\ (~entry[e].queued => entry[e].count # 0))
    BY <1>2, <1>8 DEF Queue, QueueOk, One
  <2>2. entry[e].state = "Loading" /\ entry[e].claimed /\ ~entry[e].parked /\ StepsIn(For(Loaders, e)) = 1 /\ Loads(e) = 1
    <3>1. StepsIn(For(Loaders, e)) \in Nat \ {0} /\ Loads(e) = One(entry[e].state = "Loading" /\ entry[e].claimed)
      BY <1>2, <1>8, <1>9 DEF LoadOk
    <3> QED
      BY <3>1 DEF Loads, One
  <2>3. Having(e) + 1 = new.count
    BY <1>2, <1>8, <1>9, <1>10, <1>3 DEF One, CountOk, Having
  <2>4. Loads(e) - 1 + One(new.parked) - One(entry[e].parked) = One(new.state = "Loading" /\ new.claimed)
    BY <1>10, <2>2 DEF One
  <2>5. ~new.claimed => new.pending /\ new.state = "Loading" /\ Coming(e) + 1 # 0
    BY <1>2, <1>8, <1>9, <1>10, <1>3, <2>2, SMTT(60) DEF One, LoadOk, Coming
  <2>6. TasksOf(e) + 0 + One(new.parked) - One(entry[e].parked) <= 1
    <3>1. TasksOf(e) \in Int /\ TasksOf(e) <= 1
      BY <1>2, <1>8 DEF LoadOk, TasksOf, One
    <3> QED
      BY <1>2, <1>10, <3>1, <2>2 DEF One
  <2>7. new.parked \/ StepsIn(For(Unparkers, e)) - 1 # 0 => new.pending
    BY <1>2, <1>8, <1>9, <1>10, <1>3, <2>2 DEF One, LoadOk, Loads, Unparkers
  <2>8. new.pending => ~new.claimed \/ new.parked \/ StepsIn(For(PendingKinds, e)) - 1 # 0
    BY <1>2, <1>8, <1>9, <1>10, <1>3, <2>2 DEF One, LoadOk, Loads, PendingKinds
  <2>9. ~gone => Queue(e) + 0 = One(new.queued) /\ (~new.queued => new.count # 0)
    BY <1>2, <1>8, <1>10, <2>1, <1>3 DEF One
  <2> QED
    BY <2>3, <2>4, <2>5, <2>6, <2>7, <2>8, <2>9 DEF Settles
<1>12. NamesOnly(h, p, e) /\ Balanced
  <2>1. Mere(p, e) /\ h[1] \notin TaskSteps
    BY <1>2, <1>4 DEF Mere, p, TaskSteps, EntryKinds, Counting, Passing, Waits
  <2> QED
    BY <1>2, <1>5, <1>7, <2>1, MereSteps DEF h
<1>13. /\ {-1, 0, 1} \subseteq Int
       /\ h[1] \notin Dispatcher \cup {"dispatch", "destroyAll"}
       /\ new.count # 0 => entry[e].count # 0 \/ e \in published \cup fresh
       /\ h[1] \notin Waits
       /\ new.state = "Loading" => entry[e].state = "Loading"
  BY <1>2, <1>8, <1>10, <1>3 DEF Dispatcher, Waits
<1> QED
  BY <1>2, <1>5, <1>6, <1>7, <1>10, <1>11, <1>12, <1>13, EntryMoves DEF h

LEMMA ClaimFreeClaimed ==
  ASSUME CacheInv, NEW t \in Threads, ClaimFree(t), Me(t).claimed
  PROVE  CacheInv'
<1>1. PICK e : e = Arg(t) /\ "claimFree" \in EntryKinds /\ At(t, "claimFree")
  BY DEF ClaimFree, EntryKinds, Counting, Passing, Waits
<1> DEFINE h == todo[t][1]
           new == entry[e]
           a == <<"wait", e>>
           b == <<"reload", e>>
           p == <<a, b>>
<1>2. /\ Typed /\ todo[t] # <<>> /\ h \in AllSteps /\ h[1] = "claimFree" /\ h[2] = e /\ h[3] = More(t)
      /\ e \in Live /\ e \in Entries
      /\ Me(t) = entry[e] /\ Me(t) \in EntryType /\ Me(t).life = "live"
      /\ CountOk(e) /\ LoadOk(e) /\ QueueOk(e)
      /\ \A K : "claimFree" \in K => StepsIn(For(K, e)) # 0
      /\ \A x \in Entries \ {e} : h \notin Naming(x)
  BY <1>1, EntryHead DEF More
<1>3. entry[e].claimed
  BY <1>2
<1>4. entry[e].count # 0
  BY <1>1, HeadUsed DEF EntryKinds, Counting, Passing, Waits
<1>5. /\ a \in AllSteps /\ a[1] = "wait" /\ a[2] = e
      /\ b \in AllSteps /\ b[1] = "reload" /\ b[2] = e
  BY <1>2, StepsAre DEF EntryKinds, Counting, Passing, Waits, Ops
<1>6. Then(t, p) /\ entry' = [entry EXCEPT ![e] = new] /\ OnlyEntries
  BY <1>1, <1>2 DEF ClaimFree, Change, Pass, ClaimedBy, Found, Me
<1>7. Shifts(e, 0, 0, 0, 0, 0, 0, 0)
  <2>1. /\ Of(h, Counting, e) = 1 /\ Of(h, Loaders, e) = 0 /\ Of(h, Comers, e) = 1 /\ Of(h, Tasking, e) = 0 /\ Of(h, Unparkers, e) = 0 /\ Of(h, PendingKinds, e) = 0 /\ Of(h, {"enqueue"}, e) = 0
        /\ Of(a, Counting, e) = 0 /\ Of(a, Loaders, e) = 0 /\ Of(a, Comers, e) = 1 /\ Of(a, Tasking, e) = 0 /\ Of(a, Unparkers, e) = 0 /\ Of(a, PendingKinds, e) = 0 /\ Of(a, {"enqueue"}, e) = 0
        /\ Of(b, Counting, e) = 1 /\ Of(b, Loaders, e) = 0 /\ Of(b, Comers, e) = 0 /\ Of(b, Tasking, e) = 0 /\ Of(b, Unparkers, e) = 0 /\ Of(b, PendingKinds, e) = 0 /\ Of(b, {"enqueue"}, e) = 0
    BY <1>2, <1>5 DEF Of, One, Counting, Loaders, Comers, Tasking, Unparkers, PendingKinds
  <2>2. {h[1], a[1], b[1]} \cap ForSets = {}
    BY <1>2, <1>5 DEF ForSets
  <2> HIDE DEF h, a, b
  <2>3. h = todo[t][1] /\ Then(t, <<a, b>>)
    BY <1>6 DEF h
  <2> QED
    BY <1>2, <1>5, <2>1, <2>2, <2>3, ShiftTwo
<1>8. Follows(h, p, Mine(t)) /\ Calm(p) /\ p \in Seq(AllSteps)
  <2>1. Apt(h, a) /\ Apt(h, b)
    BY <1>2, <1>5 DEF Apt, Suits, Lasts, TaskDoneOnLane, Forces, EndOfForce, LaneSteps, Dispatcher, LateSteps
  <2>2. /\ (Covered(h, a, Mine(t)) \/ Backs(a, b))
        /\ Covered(h, b, Mine(t))
    BY <1>2, <1>5 DEF Covered, Backs, Passing, Waits, Counting
  <2>3. /\ a[1] \notin {"reload"} \cup Lasts
        /\ (a[1] = "unpark" => b[1] \in {"wait", "claimFree"} /\ b[2] = a[2])
        /\ b[1] \notin {"unpark"} \cup Firsts
        /\ (b[1] = "reload" => a[1] \in Waits /\ a[2] = b[2])
        /\ ~(a = TaskDoneOnLane /\ b = TaskDoneOnLane)
        /\ (h[1] \in Waits => b[1] \in Waits /\ b[2] = h[2])
        /\ (h[1] \in TaskEnds => b[1] \in TaskEnds)
        /\ {a[1], b[1]} \cap (Dispatcher \cup ForSets \cup {"destroyAll"}) = {}
    BY <1>2, <1>5 DEF Waits, TaskEnds, Lasts, Firsts, Dispatcher, ForSets, TaskDoneOnLane
  <2> HIDE DEF h, a, b
  <2>4. Follows(h, <<a, b>>, Mine(t)) /\ Calm(<<a, b>>) /\ <<a, b>> \in Seq(AllSteps)
    BY <1>5, <2>1, <2>2, <2>3, FollowsTwo
  <2> QED
    BY <2>4
<1>9. /\ \A G : StepsIn(G) \in Nat
      /\ entry[e].count \in Nat /\ entry[e].state \in {"Loading", "Ready", "Failed"}
      /\ Cardinality(Holders(e)) \in Nat /\ Count(Waiting, {e}) \in Nat /\ Count(replaced, {e}) \in Nat
  BY <1>2, Amounts
<1>10. /\ StepsIn(For(Loaders, e)) = StepsIn(For(Unparkers, e)) + StepsIn(For(OtherLoaders, e))
      /\ StepsIn(For(PendingKinds, e)) = StepsIn(For(Unparkers, e)) + StepsIn(For({"parkOrLoad"}, e))
      /\ StepsIn(For(Counting, e)) # 0
      /\ StepsIn(For(Comers, e)) # 0
  BY <1>2, LoadersAre DEF Counting, Loaders, Comers, Tasking, Unparkers, PendingKinds, OtherLoaders
<1>11. /\ new \in EntryType /\ new.life = "live"
      /\ new.count = entry[e].count
      /\ new.queued = entry[e].queued
      /\ new.parked = entry[e].parked
      /\ new.claimed = entry[e].claimed
      /\ new.state = entry[e].state
      /\ new.pending = entry[e].pending
  BY <1>2
<1> HIDE DEF new, p, h, a, b
<1>12. Settles(e, new, 0, 0, 0, 0, 0, 0, 0)
  <2>1. Queue(e) \in Nat /\ (~gone => Queue(e) = One(entry[e].queued) /\ (~entry[e].queued => entry[e].count # 0))
    BY <1>2, <1>9 DEF Queue, QueueOk, One
  <2>2. Having(e) + 0 = new.count
    BY <1>2, <1>9, <1>10, <1>11, <1>4, <1>3 DEF One, CountOk, Having
  <2>3. Loads(e) + 0 + One(new.parked) - One(entry[e].parked) = One(new.state = "Loading" /\ new.claimed)
    BY <1>2, <1>9, <1>10, <1>11, <1>4, <1>3 DEF One, LoadOk, Loads
  <2>4. ~new.claimed => new.pending /\ new.state = "Loading" /\ Coming(e) + 0 # 0
    BY <1>2, <1>9, <1>10, <1>11, <1>4, <1>3 DEF One, LoadOk, Coming
  <2>5. TasksOf(e) + 0 + One(new.parked) - One(entry[e].parked) <= 1
    <3>1. TasksOf(e) \in Int /\ TasksOf(e) <= 1
      BY <1>2, <1>9 DEF LoadOk, TasksOf, One
    <3> QED
      BY <1>2, <1>11, <3>1, <1>3 DEF One
  <2>6. new.parked \/ StepsIn(For(Unparkers, e)) + 0 # 0 => new.pending
    BY <1>2, <1>9, <1>10, <1>11, <1>4, <1>3 DEF One, LoadOk, Loads, Unparkers
  <2>7. new.pending => ~new.claimed \/ new.parked \/ StepsIn(For(PendingKinds, e)) + 0 # 0
    BY <1>2, <1>9, <1>10, <1>11, <1>4, <1>3 DEF One, LoadOk, Loads, PendingKinds
  <2>8. ~gone => Queue(e) + 0 = One(new.queued) /\ (~new.queued => new.count # 0)
    BY <1>2, <1>9, <1>11, <2>1, <1>4, <1>3 DEF One
  <2> QED
    BY <2>2, <2>3, <2>4, <2>5, <2>6, <2>7, <2>8 DEF Settles
<1>13. NamesOnly(h, p, e) /\ Balanced
  <2>1. Mere(p, e) /\ h[1] \notin TaskSteps
    BY <1>2, <1>5 DEF Mere, p, TaskSteps, EntryKinds, Counting, Passing, Waits
  <2> QED
    BY <1>2, <1>6, <1>8, <2>1, MereSteps DEF h
<1>14. /\ {0} \subseteq Int
       /\ h[1] \notin Dispatcher \cup {"dispatch", "destroyAll"}
       /\ new.count # 0 => entry[e].count # 0 \/ e \in published \cup fresh
       /\ h[1] \notin Waits
       /\ new.state = "Loading" => entry[e].state = "Loading"
  BY <1>2, <1>9, <1>11, <1>4 DEF Dispatcher, Waits
<1> QED
  BY <1>2, <1>6, <1>7, <1>8, <1>11, <1>12, <1>13, <1>14, EntryMoves, ZenonT(60) DEF h

LEMMA ClaimFreeClaims ==
  ASSUME CacheInv, NEW t \in Threads, ClaimFree(t), ~Me(t).claimed
  PROVE  CacheInv'
<1>1. PICK e : e = Arg(t) /\ "claimFree" \in EntryKinds /\ At(t, "claimFree")
  BY DEF ClaimFree, EntryKinds, Counting, Passing, Waits
<1> DEFINE h == todo[t][1]
           new == [Me(t) EXCEPT !.claimed = TRUE, !.pending = FALSE, !.count = @ + 1]
           a == <<"load", e>>
           b == <<"release", e>>
           c == <<"throwOrKeep", e>>
           p == <<a, b, c>>
<1>2. /\ Typed /\ todo[t] # <<>> /\ h \in AllSteps /\ h[1] = "claimFree" /\ h[2] = e /\ h[3] = More(t)
      /\ e \in Live /\ e \in Entries
      /\ Me(t) = entry[e] /\ Me(t) \in EntryType /\ Me(t).life = "live"
      /\ CountOk(e) /\ LoadOk(e) /\ QueueOk(e)
      /\ \A K : "claimFree" \in K => StepsIn(For(K, e)) # 0
      /\ \A x \in Entries \ {e} : h \notin Naming(x)
  BY <1>1, EntryHead DEF More
<1>3. ~entry[e].claimed
  BY <1>2
<1>4. entry[e].count # 0
  BY <1>1, HeadUsed DEF EntryKinds, Counting, Passing, Waits
<1>5. /\ a \in AllSteps /\ a[1] = "load" /\ a[2] = e
      /\ b \in AllSteps /\ b[1] = "release" /\ b[2] = e
      /\ c \in AllSteps /\ c[1] = "throwOrKeep" /\ c[2] = e
  BY <1>2, StepsAre DEF EntryKinds, Counting, Passing, Waits, Ops
<1>6. p = <<a, b>> \o <<c>>
  BY <1>5, Joins
<1>7. Then(t, p) /\ entry' = [entry EXCEPT ![e] = new] /\ OnlyEntries
  BY <1>1, <1>2, <1>6 DEF ClaimFree, Change, Pass, ClaimedBy, LoadAndThrow, LoadAndRelease
<1>8. Shifts(e, 1, 1, -1, 0, 0, 0, 0)
  <2>1. /\ Of(h, Counting, e) = 1 /\ Of(h, Loaders, e) = 0 /\ Of(h, Comers, e) = 1 /\ Of(h, Tasking, e) = 0 /\ Of(h, Unparkers, e) = 0 /\ Of(h, PendingKinds, e) = 0 /\ Of(h, {"enqueue"}, e) = 0
        /\ Of(a, Counting, e) = 0 /\ Of(a, Loaders, e) = 1 /\ Of(a, Comers, e) = 0 /\ Of(a, Tasking, e) = 0 /\ Of(a, Unparkers, e) = 0 /\ Of(a, PendingKinds, e) = 0 /\ Of(a, {"enqueue"}, e) = 0
        /\ Of(b, Counting, e) = 1 /\ Of(b, Loaders, e) = 0 /\ Of(b, Comers, e) = 0 /\ Of(b, Tasking, e) = 0 /\ Of(b, Unparkers, e) = 0 /\ Of(b, PendingKinds, e) = 0 /\ Of(b, {"enqueue"}, e) = 0
        /\ Of(c, Counting, e) = 1 /\ Of(c, Loaders, e) = 0 /\ Of(c, Comers, e) = 0 /\ Of(c, Tasking, e) = 0 /\ Of(c, Unparkers, e) = 0 /\ Of(c, PendingKinds, e) = 0 /\ Of(c, {"enqueue"}, e) = 0
    BY <1>2, <1>5 DEF Of, One, Counting, Loaders, Comers, Tasking, Unparkers, PendingKinds
  <2>2. {h[1], a[1], b[1], c[1]} \cap ForSets = {}
    BY <1>2, <1>5 DEF ForSets
  <2> HIDE DEF h, a, b, c
  <2>3. h = todo[t][1] /\ Then(t, <<a, b, c>>)
    BY <1>7 DEF h
  <2> QED
    BY <1>2, <1>5, <2>1, <2>2, <2>3, ShiftThree
<1>9. Follows(h, p, Mine(t)) /\ Calm(p) /\ p \in Seq(AllSteps)
  <2>1. Apt(h, a) /\ Apt(h, b) /\ Apt(h, c)
    BY <1>2, <1>5 DEF Apt, Suits, Lasts, TaskDoneOnLane, Forces, EndOfForce, LaneSteps, Dispatcher, LateSteps
  <2>2. /\ (Covered(h, a, Mine(t)) \/ Backs(a, b) \/ Backs(a, c))
        /\ (Covered(h, b, Mine(t)) \/ Backs(b, c))
        /\ Covered(h, c, Mine(t))
    BY <1>2, <1>5 DEF Covered, Backs, Passing, Waits, Counting
  <2>3. /\ a[1] \notin {"reload"} \cup Lasts
        /\ b[1] \notin {"reload", "unpark"} \cup Firsts \cup Lasts
        /\ c[1] \notin {"reload", "unpark"} \cup Firsts
        /\ (a[1] = "unpark" => b[1] \in {"wait", "claimFree"} /\ b[2] = a[2])
        /\ a # TaskDoneOnLane
        /\ b # TaskDoneOnLane
        /\ (h[1] \in Waits => c[1] \in Waits /\ c[2] = h[2])
        /\ h[1] \notin TaskEnds
        /\ {a[1], b[1], c[1]} \cap (Dispatcher \cup ForSets \cup {"destroyAll"}) = {}
    BY <1>2, <1>5 DEF Waits, TaskEnds, Lasts, Firsts, Dispatcher, ForSets, TaskDoneOnLane
  <2> HIDE DEF h, a, b, c
  <2>4. Follows(h, <<a, b, c>>, Mine(t)) /\ Calm(<<a, b, c>>) /\ <<a, b, c>> \in Seq(AllSteps)
    BY <1>5, <2>1, <2>2, <2>3, FollowsThree
  <2> QED
    BY <2>4
<1>10. /\ \A G : StepsIn(G) \in Nat
      /\ entry[e].count \in Nat /\ entry[e].state \in {"Loading", "Ready", "Failed"}
      /\ Cardinality(Holders(e)) \in Nat /\ Count(Waiting, {e}) \in Nat /\ Count(replaced, {e}) \in Nat
  BY <1>2, Amounts
<1>11. /\ StepsIn(For(Loaders, e)) = StepsIn(For(Unparkers, e)) + StepsIn(For(OtherLoaders, e))
      /\ StepsIn(For(PendingKinds, e)) = StepsIn(For(Unparkers, e)) + StepsIn(For({"parkOrLoad"}, e))
      /\ StepsIn(For(Counting, e)) # 0
      /\ StepsIn(For(Comers, e)) # 0
  BY <1>2, LoadersAre DEF Counting, Loaders, Comers, Tasking, Unparkers, PendingKinds, OtherLoaders
<1>12. /\ new \in EntryType /\ new.life = "live"
      /\ new.count = (entry[e].count + 1)
      /\ new.queued = entry[e].queued
      /\ new.parked = entry[e].parked
      /\ new.claimed = TRUE
      /\ new.state = entry[e].state
      /\ new.pending = FALSE
  <2>1. /\ new.life = "live"
        /\ new.count = (entry[e].count + 1)
        /\ new.queued = entry[e].queued
        /\ new.parked = entry[e].parked
        /\ new.claimed = TRUE
        /\ new.state = entry[e].state
        /\ new.pending = FALSE
    BY <1>2 DEF EntryType
  <2>2. /\ entry[e].count + 1 \in Nat /\ Me(t).count = entry[e].count
    BY <1>2, <1>10, <1>4
  <2>3. new \in EntryType
    BY <1>2, <1>10, <1>4, <2>2 DEF EntryType
  <2> QED
    BY <2>1, <2>3
<1> HIDE DEF new, p, h, a, b, c
<1>13. Settles(e, new, 1, 1, -1, 0, 0, 0, 0)
  <2>1. Queue(e) \in Nat /\ (~gone => Queue(e) = One(entry[e].queued) /\ (~entry[e].queued => entry[e].count # 0))
    BY <1>2, <1>10 DEF Queue, QueueOk, One
  <2>2. Having(e) + 1 = new.count
    BY <1>2, <1>10, <1>11, <1>12, <1>4, <1>3 DEF One, CountOk, Having
  <2>3. Loads(e) + 1 + One(new.parked) - One(entry[e].parked) = One(new.state = "Loading" /\ new.claimed)
    BY <1>2, <1>10, <1>11, <1>12, <1>4, <1>3 DEF One, LoadOk, Loads
  <2>4. ~new.claimed => new.pending /\ new.state = "Loading" /\ Coming(e) - 1 # 0
    BY <1>2, <1>10, <1>11, <1>12, <1>4, <1>3 DEF One, LoadOk, Coming
  <2>5. TasksOf(e) + 0 + One(new.parked) - One(entry[e].parked) <= 1
    <3>1. TasksOf(e) \in Int /\ TasksOf(e) <= 1
      BY <1>2, <1>10 DEF LoadOk, TasksOf, One
    <3> QED
      BY <1>2, <1>12, <3>1, <1>3 DEF One
  <2>6. new.parked \/ StepsIn(For(Unparkers, e)) + 0 # 0 => new.pending
    BY <1>2, <1>10, <1>11, <1>12, <1>4, <1>3, SMTT(60) DEF One, LoadOk, Loads, Unparkers
  <2>7. new.pending => ~new.claimed \/ new.parked \/ StepsIn(For(PendingKinds, e)) + 0 # 0
    BY <1>2, <1>10, <1>11, <1>12, <1>4, <1>3 DEF One, LoadOk, Loads, PendingKinds
  <2>8. ~gone => Queue(e) + 0 = One(new.queued) /\ (~new.queued => new.count # 0)
    BY <1>2, <1>10, <1>12, <2>1, <1>4, <1>3 DEF One
  <2> QED
    BY <2>2, <2>3, <2>4, <2>5, <2>6, <2>7, <2>8 DEF Settles
<1>14. NamesOnly(h, p, e) /\ Balanced
  <2>1. Mere(p, e) /\ h[1] \notin TaskSteps
    BY <1>2, <1>5 DEF Mere, p, TaskSteps, EntryKinds, Counting, Passing, Waits
  <2> QED
    BY <1>2, <1>7, <1>9, <2>1, MereSteps DEF h
<1>15. /\ {-1, 0, 1} \subseteq Int
       /\ h[1] \notin Dispatcher \cup {"dispatch", "destroyAll"}
       /\ new.count # 0 => entry[e].count # 0 \/ e \in published \cup fresh
       /\ h[1] \notin Waits
       /\ new.state = "Loading" => entry[e].state = "Loading"
  BY <1>2, <1>10, <1>12, <1>4 DEF Dispatcher, Waits
<1> QED
  BY <1>2, <1>7, <1>8, <1>9, <1>12, <1>13, <1>14, <1>15, EntryMoves DEF h

LEMMA TakeParkedBind ==
  ASSUME CacheInv, NEW t \in Threads, TakeParked(t), Me(t).parked, More(t) \in {"bind", "find"}
  PROVE  CacheInv'
<1>1. PICK e : e = Arg(t) /\ "takeParked" \in EntryKinds /\ At(t, "takeParked")
  BY DEF TakeParked, EntryKinds, Counting, Passing, Waits
<1> DEFINE h == todo[t][1]
           new == [Me(t) EXCEPT !.parked = FALSE]
           a == <<"startParked", e>>
           b == <<"keep", e>>
           p == <<a, b>>
<1>2. /\ Typed /\ todo[t] # <<>> /\ h \in AllSteps /\ h[1] = "takeParked" /\ h[2] = e /\ h[3] = More(t)
      /\ e \in Live /\ e \in Entries
      /\ Me(t) = entry[e] /\ Me(t) \in EntryType /\ Me(t).life = "live"
      /\ CountOk(e) /\ LoadOk(e) /\ QueueOk(e)
      /\ \A K : "takeParked" \in K => StepsIn(For(K, e)) # 0
      /\ \A x \in Entries \ {e} : h \notin Naming(x)
  BY <1>1, EntryHead DEF More
<1>3. entry[e].parked
  BY <1>2
<1>4. entry[e].count # 0
  BY <1>1, HeadUsed DEF EntryKinds, Counting, Passing, Waits
<1>5. /\ a \in AllSteps /\ a[1] = "startParked" /\ a[2] = e
      /\ b \in AllSteps /\ b[1] = "keep" /\ b[2] = e
  BY <1>2, StepsAre DEF EntryKinds, Counting, Passing, Waits, Ops
<1>6. p = <<a>> \o <<b>>
  BY <1>5, Joins
<1>7. Then(t, p) /\ entry' = [entry EXCEPT ![e] = new] /\ OnlyEntries
  BY <1>1, <1>2, <1>6 DEF TakeParked, Change, Pass, Restart, Found
<1>8. Shifts(e, 0, 1, 0, 1, 1, 1, 0)
  <2>1. /\ Of(h, Counting, e) = 1 /\ Of(h, Loaders, e) = 0 /\ Of(h, Comers, e) = 0 /\ Of(h, Tasking, e) = 0 /\ Of(h, Unparkers, e) = 0 /\ Of(h, PendingKinds, e) = 0 /\ Of(h, {"enqueue"}, e) = 0
        /\ Of(a, Counting, e) = 0 /\ Of(a, Loaders, e) = 1 /\ Of(a, Comers, e) = 0 /\ Of(a, Tasking, e) = 1 /\ Of(a, Unparkers, e) = 1 /\ Of(a, PendingKinds, e) = 1 /\ Of(a, {"enqueue"}, e) = 0
        /\ Of(b, Counting, e) = 1 /\ Of(b, Loaders, e) = 0 /\ Of(b, Comers, e) = 0 /\ Of(b, Tasking, e) = 0 /\ Of(b, Unparkers, e) = 0 /\ Of(b, PendingKinds, e) = 0 /\ Of(b, {"enqueue"}, e) = 0
    BY <1>2, <1>5 DEF Of, One, Counting, Loaders, Comers, Tasking, Unparkers, PendingKinds
  <2>2. {h[1], a[1], b[1]} \cap ForSets = {}
    BY <1>2, <1>5 DEF ForSets
  <2> HIDE DEF h, a, b
  <2>3. h = todo[t][1] /\ Then(t, <<a, b>>)
    BY <1>7 DEF h
  <2> QED
    BY <1>2, <1>5, <2>1, <2>2, <2>3, ShiftTwo
<1>9. Follows(h, p, Mine(t)) /\ Calm(p) /\ p \in Seq(AllSteps)
  <2>1. Apt(h, a) /\ Apt(h, b)
    BY <1>2, <1>5 DEF Apt, Suits, Lasts, TaskDoneOnLane, Forces, EndOfForce, LaneSteps, Dispatcher, LateSteps
  <2>2. /\ (Covered(h, a, Mine(t)) \/ Backs(a, b))
        /\ Covered(h, b, Mine(t))
    BY <1>2, <1>5 DEF Covered, Backs, Passing, Waits, Counting
  <2>3. /\ a[1] \notin {"reload"} \cup Lasts
        /\ (a[1] = "unpark" => b[1] \in {"wait", "claimFree"} /\ b[2] = a[2])
        /\ b[1] \notin {"unpark"} \cup Firsts
        /\ (b[1] = "reload" => a[1] \in Waits /\ a[2] = b[2])
        /\ ~(a = TaskDoneOnLane /\ b = TaskDoneOnLane)
        /\ (h[1] \in Waits => b[1] \in Waits /\ b[2] = h[2])
        /\ (h[1] \in TaskEnds => b[1] \in TaskEnds)
        /\ {a[1], b[1]} \cap (Dispatcher \cup ForSets \cup {"destroyAll"}) = {}
    BY <1>2, <1>5 DEF Waits, TaskEnds, Lasts, Firsts, Dispatcher, ForSets, TaskDoneOnLane
  <2> HIDE DEF h, a, b
  <2>4. Follows(h, <<a, b>>, Mine(t)) /\ Calm(<<a, b>>) /\ <<a, b>> \in Seq(AllSteps)
    BY <1>5, <2>1, <2>2, <2>3, FollowsTwo
  <2> QED
    BY <2>4
<1>10. /\ \A G : StepsIn(G) \in Nat
      /\ entry[e].count \in Nat /\ entry[e].state \in {"Loading", "Ready", "Failed"}
      /\ Cardinality(Holders(e)) \in Nat /\ Count(Waiting, {e}) \in Nat /\ Count(replaced, {e}) \in Nat
  BY <1>2, Amounts
<1>11. /\ StepsIn(For(Loaders, e)) = StepsIn(For(Unparkers, e)) + StepsIn(For(OtherLoaders, e))
      /\ StepsIn(For(PendingKinds, e)) = StepsIn(For(Unparkers, e)) + StepsIn(For({"parkOrLoad"}, e))
      /\ StepsIn(For(Counting, e)) # 0
  BY <1>2, LoadersAre DEF Counting, Loaders, Comers, Tasking, Unparkers, PendingKinds, OtherLoaders
<1>12. /\ new \in EntryType /\ new.life = "live"
      /\ new.count = entry[e].count
      /\ new.queued = entry[e].queued
      /\ new.parked = FALSE
      /\ new.claimed = entry[e].claimed
      /\ new.state = entry[e].state
      /\ new.pending = entry[e].pending
  <2>1. /\ new.life = "live"
        /\ new.count = entry[e].count
        /\ new.queued = entry[e].queued
        /\ new.parked = FALSE
        /\ new.claimed = entry[e].claimed
        /\ new.state = entry[e].state
        /\ new.pending = entry[e].pending
    BY <1>2 DEF EntryType
  <2>2. new \in EntryType
    BY <1>2, <1>10, <1>4 DEF EntryType
  <2> QED
    BY <2>1, <2>2
<1> HIDE DEF new, p, h, a, b
<1>13. Settles(e, new, 0, 1, 0, 1, 1, 1, 0)
  <2>1. Queue(e) \in Nat /\ (~gone => Queue(e) = One(entry[e].queued) /\ (~entry[e].queued => entry[e].count # 0))
    BY <1>2, <1>10 DEF Queue, QueueOk, One
  <2>2. Having(e) + 0 = new.count
    BY <1>2, <1>10, <1>11, <1>12, <1>4, <1>3 DEF One, CountOk, Having
  <2>3. Loads(e) + 1 + One(new.parked) - One(entry[e].parked) = One(new.state = "Loading" /\ new.claimed)
    BY <1>2, <1>10, <1>11, <1>12, <1>4, <1>3, SMTT(60) DEF One, LoadOk, Loads
  <2>4. ~new.claimed => new.pending /\ new.state = "Loading" /\ Coming(e) + 0 # 0
    BY <1>2, <1>10, <1>11, <1>12, <1>4, <1>3 DEF One, LoadOk, Coming
  <2>5. TasksOf(e) + 1 + One(new.parked) - One(entry[e].parked) <= 1
    <3>1. TasksOf(e) \in Int /\ TasksOf(e) <= 1
      BY <1>2, <1>10 DEF LoadOk, TasksOf, One
    <3> QED
      BY <1>2, <1>12, <3>1, <1>3 DEF One
  <2>6. new.parked \/ StepsIn(For(Unparkers, e)) + 1 # 0 => new.pending
    BY <1>2, <1>10, <1>11, <1>12, <1>4, <1>3 DEF One, LoadOk, Loads, Unparkers
  <2>7. new.pending => ~new.claimed \/ new.parked \/ StepsIn(For(PendingKinds, e)) + 1 # 0
    <3>1. entry[e].pending => ~entry[e].claimed \/ entry[e].parked \/ StepsIn(For(PendingKinds, e)) # 0
      BY <1>2 DEF LoadOk, PendingKinds
    <3> QED
      BY <1>10, <1>12, <3>1, <1>3
  <2>8. ~gone => Queue(e) + 0 = One(new.queued) /\ (~new.queued => new.count # 0)
    BY <1>2, <1>10, <1>12, <2>1, <1>4, <1>3 DEF One
  <2> QED
    BY <2>2, <2>3, <2>4, <2>5, <2>6, <2>7, <2>8 DEF Settles
<1>14. NamesOnly(h, p, e) /\ Balanced
  <2>1. Mere(p, e) /\ h[1] \notin TaskSteps
    BY <1>2, <1>5 DEF Mere, p, TaskSteps, EntryKinds, Counting, Passing, Waits
  <2> QED
    BY <1>2, <1>7, <1>9, <2>1, MereSteps DEF h
<1>15. /\ {0, 1} \subseteq Int
       /\ h[1] \notin Dispatcher \cup {"dispatch", "destroyAll"}
       /\ new.count # 0 => entry[e].count # 0 \/ e \in published \cup fresh
       /\ h[1] \notin Waits
       /\ new.state = "Loading" => entry[e].state = "Loading"
  BY <1>2, <1>10, <1>12, <1>4 DEF Dispatcher, Waits
<1> QED
  BY <1>2, <1>7, <1>8, <1>9, <1>12, <1>13, <1>14, <1>15, EntryMoves, ZenonT(60) DEF h

LEMMA TakeParkedLoad ==
  ASSUME CacheInv, NEW t \in Threads, TakeParked(t), Me(t).parked, More(t) = "load"
  PROVE  CacheInv'
<1>1. PICK e : e = Arg(t) /\ "takeParked" \in EntryKinds /\ At(t, "takeParked")
  BY DEF TakeParked, EntryKinds, Counting, Passing, Waits
<1> DEFINE h == todo[t][1]
           new == [Me(t) EXCEPT !.parked = FALSE]
           a == <<"unpark", e>>
           b == <<"wait", e>>
           c == <<"throwOrKeep", e>>
           p == <<a, b, c>>
<1>2. /\ Typed /\ todo[t] # <<>> /\ h \in AllSteps /\ h[1] = "takeParked" /\ h[2] = e /\ h[3] = More(t)
      /\ e \in Live /\ e \in Entries
      /\ Me(t) = entry[e] /\ Me(t) \in EntryType /\ Me(t).life = "live"
      /\ CountOk(e) /\ LoadOk(e) /\ QueueOk(e)
      /\ \A K : "takeParked" \in K => StepsIn(For(K, e)) # 0
      /\ \A x \in Entries \ {e} : h \notin Naming(x)
  BY <1>1, EntryHead DEF More
<1>3. entry[e].parked
  BY <1>2
<1>4. entry[e].count # 0
  BY <1>1, HeadUsed DEF EntryKinds, Counting, Passing, Waits
<1>5. /\ a \in AllSteps /\ a[1] = "unpark" /\ a[2] = e
      /\ b \in AllSteps /\ b[1] = "wait" /\ b[2] = e
      /\ c \in AllSteps /\ c[1] = "throwOrKeep" /\ c[2] = e
  BY <1>2, StepsAre DEF EntryKinds, Counting, Passing, Waits, Ops
<1>6. p = <<a>> \o <<b, c>>
  BY <1>5, Joins
<1>7. Then(t, p) /\ entry' = [entry EXCEPT ![e] = new] /\ OnlyEntries
  BY <1>1, <1>2, <1>6 DEF TakeParked, Change, Pass, Restart, Found
<1>8. Shifts(e, 0, 1, 1, 0, 1, 1, 0)
  <2>1. /\ Of(h, Counting, e) = 1 /\ Of(h, Loaders, e) = 0 /\ Of(h, Comers, e) = 0 /\ Of(h, Tasking, e) = 0 /\ Of(h, Unparkers, e) = 0 /\ Of(h, PendingKinds, e) = 0 /\ Of(h, {"enqueue"}, e) = 0
        /\ Of(a, Counting, e) = 0 /\ Of(a, Loaders, e) = 1 /\ Of(a, Comers, e) = 0 /\ Of(a, Tasking, e) = 0 /\ Of(a, Unparkers, e) = 1 /\ Of(a, PendingKinds, e) = 1 /\ Of(a, {"enqueue"}, e) = 0
        /\ Of(b, Counting, e) = 0 /\ Of(b, Loaders, e) = 0 /\ Of(b, Comers, e) = 1 /\ Of(b, Tasking, e) = 0 /\ Of(b, Unparkers, e) = 0 /\ Of(b, PendingKinds, e) = 0 /\ Of(b, {"enqueue"}, e) = 0
        /\ Of(c, Counting, e) = 1 /\ Of(c, Loaders, e) = 0 /\ Of(c, Comers, e) = 0 /\ Of(c, Tasking, e) = 0 /\ Of(c, Unparkers, e) = 0 /\ Of(c, PendingKinds, e) = 0 /\ Of(c, {"enqueue"}, e) = 0
    BY <1>2, <1>5 DEF Of, One, Counting, Loaders, Comers, Tasking, Unparkers, PendingKinds
  <2>2. {h[1], a[1], b[1], c[1]} \cap ForSets = {}
    BY <1>2, <1>5 DEF ForSets
  <2> HIDE DEF h, a, b, c
  <2>3. h = todo[t][1] /\ Then(t, <<a, b, c>>)
    BY <1>7 DEF h
  <2> QED
    BY <1>2, <1>5, <2>1, <2>2, <2>3, ShiftThree
<1>9. Follows(h, p, Mine(t)) /\ Calm(p) /\ p \in Seq(AllSteps)
  <2>1. Apt(h, a) /\ Apt(h, b) /\ Apt(h, c)
    BY <1>2, <1>5 DEF Apt, Suits, Lasts, TaskDoneOnLane, Forces, EndOfForce, LaneSteps, Dispatcher, LateSteps
  <2>2. /\ (Covered(h, a, Mine(t)) \/ Backs(a, b) \/ Backs(a, c))
        /\ (Covered(h, b, Mine(t)) \/ Backs(b, c))
        /\ Covered(h, c, Mine(t))
    BY <1>2, <1>5 DEF Covered, Backs, Passing, Waits, Counting
  <2>3. /\ a[1] \notin {"reload"} \cup Lasts
        /\ b[1] \notin {"reload", "unpark"} \cup Firsts \cup Lasts
        /\ c[1] \notin {"reload", "unpark"} \cup Firsts
        /\ (a[1] = "unpark" => b[1] \in {"wait", "claimFree"} /\ b[2] = a[2])
        /\ a # TaskDoneOnLane
        /\ b # TaskDoneOnLane
        /\ (h[1] \in Waits => c[1] \in Waits /\ c[2] = h[2])
        /\ h[1] \notin TaskEnds
        /\ {a[1], b[1], c[1]} \cap (Dispatcher \cup ForSets \cup {"destroyAll"}) = {}
    BY <1>2, <1>5 DEF Waits, TaskEnds, Lasts, Firsts, Dispatcher, ForSets, TaskDoneOnLane
  <2> HIDE DEF h, a, b, c
  <2>4. Follows(h, <<a, b, c>>, Mine(t)) /\ Calm(<<a, b, c>>) /\ <<a, b, c>> \in Seq(AllSteps)
    BY <1>5, <2>1, <2>2, <2>3, FollowsThree
  <2> QED
    BY <2>4
<1>10. /\ \A G : StepsIn(G) \in Nat
      /\ entry[e].count \in Nat /\ entry[e].state \in {"Loading", "Ready", "Failed"}
      /\ Cardinality(Holders(e)) \in Nat /\ Count(Waiting, {e}) \in Nat /\ Count(replaced, {e}) \in Nat
  BY <1>2, Amounts
<1>11. /\ StepsIn(For(Loaders, e)) = StepsIn(For(Unparkers, e)) + StepsIn(For(OtherLoaders, e))
      /\ StepsIn(For(PendingKinds, e)) = StepsIn(For(Unparkers, e)) + StepsIn(For({"parkOrLoad"}, e))
      /\ StepsIn(For(Counting, e)) # 0
  BY <1>2, LoadersAre DEF Counting, Loaders, Comers, Tasking, Unparkers, PendingKinds, OtherLoaders
<1>12. /\ new \in EntryType /\ new.life = "live"
      /\ new.count = entry[e].count
      /\ new.queued = entry[e].queued
      /\ new.parked = FALSE
      /\ new.claimed = entry[e].claimed
      /\ new.state = entry[e].state
      /\ new.pending = entry[e].pending
  <2>1. /\ new.life = "live"
        /\ new.count = entry[e].count
        /\ new.queued = entry[e].queued
        /\ new.parked = FALSE
        /\ new.claimed = entry[e].claimed
        /\ new.state = entry[e].state
        /\ new.pending = entry[e].pending
    BY <1>2 DEF EntryType
  <2>2. new \in EntryType
    BY <1>2, <1>10, <1>4 DEF EntryType
  <2> QED
    BY <2>1, <2>2
<1> HIDE DEF new, p, h, a, b, c
<1>13. Settles(e, new, 0, 1, 1, 0, 1, 1, 0)
  <2>1. Queue(e) \in Nat /\ (~gone => Queue(e) = One(entry[e].queued) /\ (~entry[e].queued => entry[e].count # 0))
    BY <1>2, <1>10 DEF Queue, QueueOk, One
  <2>2. Having(e) + 0 = new.count
    BY <1>2, <1>10, <1>11, <1>12, <1>4, <1>3 DEF One, CountOk, Having
  <2>3. Loads(e) + 1 + One(new.parked) - One(entry[e].parked) = One(new.state = "Loading" /\ new.claimed)
    BY <1>2, <1>10, <1>11, <1>12, <1>4, <1>3, SMTT(60) DEF One, LoadOk, Loads
  <2>4. ~new.claimed => new.pending /\ new.state = "Loading" /\ Coming(e) + 1 # 0
    BY <1>2, <1>10, <1>11, <1>12, <1>4, <1>3 DEF One, LoadOk, Coming
  <2>5. TasksOf(e) + 0 + One(new.parked) - One(entry[e].parked) <= 1
    <3>1. TasksOf(e) \in Int /\ TasksOf(e) <= 1
      BY <1>2, <1>10 DEF LoadOk, TasksOf, One
    <3> QED
      BY <1>2, <1>12, <3>1, <1>3 DEF One
  <2>6. new.parked \/ StepsIn(For(Unparkers, e)) + 1 # 0 => new.pending
    BY <1>2, <1>10, <1>11, <1>12, <1>4, <1>3 DEF One, LoadOk, Loads, Unparkers
  <2>7. new.pending => ~new.claimed \/ new.parked \/ StepsIn(For(PendingKinds, e)) + 1 # 0
    <3>1. entry[e].pending => ~entry[e].claimed \/ entry[e].parked \/ StepsIn(For(PendingKinds, e)) # 0
      BY <1>2 DEF LoadOk, PendingKinds
    <3> QED
      BY <1>10, <1>12, <3>1, <1>3
  <2>8. ~gone => Queue(e) + 0 = One(new.queued) /\ (~new.queued => new.count # 0)
    BY <1>2, <1>10, <1>12, <2>1, <1>4, <1>3 DEF One
  <2> QED
    BY <2>2, <2>3, <2>4, <2>5, <2>6, <2>7, <2>8 DEF Settles
<1>14. NamesOnly(h, p, e) /\ Balanced
  <2>1. Mere(p, e) /\ h[1] \notin TaskSteps
    BY <1>2, <1>5 DEF Mere, p, TaskSteps, EntryKinds, Counting, Passing, Waits
  <2> QED
    BY <1>2, <1>7, <1>9, <2>1, MereSteps DEF h
<1>15. /\ {0, 1} \subseteq Int
       /\ h[1] \notin Dispatcher \cup {"dispatch", "destroyAll"}
       /\ new.count # 0 => entry[e].count # 0 \/ e \in published \cup fresh
       /\ h[1] \notin Waits
       /\ new.state = "Loading" => entry[e].state = "Loading"
  BY <1>2, <1>10, <1>12, <1>4 DEF Dispatcher, Waits
<1> QED
  BY <1>2, <1>7, <1>8, <1>9, <1>12, <1>13, <1>14, <1>15, EntryMoves, ZenonT(60) DEF h

LEMMA TakeParkedForce ==
  ASSUME CacheInv, NEW t \in Threads, TakeParked(t), Me(t).parked, More(t) = "forceLoad"
  PROVE  CacheInv'
<1>1. PICK e : e = Arg(t) /\ "takeParked" \in EntryKinds /\ At(t, "takeParked")
  BY DEF TakeParked, EntryKinds, Counting, Passing, Waits
<1> DEFINE h == todo[t][1]
           new == [Me(t) EXCEPT !.parked = FALSE]
           a == <<"unpark", e>>
           b == <<"claimFree", e>>
           p == <<a, b>>
<1>2. /\ Typed /\ todo[t] # <<>> /\ h \in AllSteps /\ h[1] = "takeParked" /\ h[2] = e /\ h[3] = More(t)
      /\ e \in Live /\ e \in Entries
      /\ Me(t) = entry[e] /\ Me(t) \in EntryType /\ Me(t).life = "live"
      /\ CountOk(e) /\ LoadOk(e) /\ QueueOk(e)
      /\ \A K : "takeParked" \in K => StepsIn(For(K, e)) # 0
      /\ \A x \in Entries \ {e} : h \notin Naming(x)
  BY <1>1, EntryHead DEF More
<1>3. entry[e].parked
  BY <1>2
<1>4. entry[e].count # 0
  BY <1>1, HeadUsed DEF EntryKinds, Counting, Passing, Waits
<1>5. /\ a \in AllSteps /\ a[1] = "unpark" /\ a[2] = e
      /\ b \in AllSteps /\ b[1] = "claimFree" /\ b[2] = e
  BY <1>2, StepsAre DEF EntryKinds, Counting, Passing, Waits, Ops
<1>6. Then(t, p) /\ entry' = [entry EXCEPT ![e] = new] /\ OnlyEntries
  BY <1>1, <1>2 DEF TakeParked, Change, Pass, Restart, Found
<1>7. Shifts(e, 0, 1, 1, 0, 1, 1, 0)
  <2>1. /\ Of(h, Counting, e) = 1 /\ Of(h, Loaders, e) = 0 /\ Of(h, Comers, e) = 0 /\ Of(h, Tasking, e) = 0 /\ Of(h, Unparkers, e) = 0 /\ Of(h, PendingKinds, e) = 0 /\ Of(h, {"enqueue"}, e) = 0
        /\ Of(a, Counting, e) = 0 /\ Of(a, Loaders, e) = 1 /\ Of(a, Comers, e) = 0 /\ Of(a, Tasking, e) = 0 /\ Of(a, Unparkers, e) = 1 /\ Of(a, PendingKinds, e) = 1 /\ Of(a, {"enqueue"}, e) = 0
        /\ Of(b, Counting, e) = 1 /\ Of(b, Loaders, e) = 0 /\ Of(b, Comers, e) = 1 /\ Of(b, Tasking, e) = 0 /\ Of(b, Unparkers, e) = 0 /\ Of(b, PendingKinds, e) = 0 /\ Of(b, {"enqueue"}, e) = 0
    BY <1>2, <1>5 DEF Of, One, Counting, Loaders, Comers, Tasking, Unparkers, PendingKinds
  <2>2. {h[1], a[1], b[1]} \cap ForSets = {}
    BY <1>2, <1>5 DEF ForSets
  <2> HIDE DEF h, a, b
  <2>3. h = todo[t][1] /\ Then(t, <<a, b>>)
    BY <1>6 DEF h
  <2> QED
    BY <1>2, <1>5, <2>1, <2>2, <2>3, ShiftTwo
<1>8. Follows(h, p, Mine(t)) /\ Calm(p) /\ p \in Seq(AllSteps)
  <2>1. Apt(h, a) /\ Apt(h, b)
    BY <1>2, <1>5 DEF Apt, Suits, Lasts, TaskDoneOnLane, Forces, EndOfForce, LaneSteps, Dispatcher, LateSteps
  <2>2. /\ (Covered(h, a, Mine(t)) \/ Backs(a, b))
        /\ Covered(h, b, Mine(t))
    BY <1>2, <1>5 DEF Covered, Backs, Passing, Waits, Counting
  <2>3. /\ a[1] \notin {"reload"} \cup Lasts
        /\ (a[1] = "unpark" => b[1] \in {"wait", "claimFree"} /\ b[2] = a[2])
        /\ b[1] \notin {"unpark"} \cup Firsts
        /\ (b[1] = "reload" => a[1] \in Waits /\ a[2] = b[2])
        /\ ~(a = TaskDoneOnLane /\ b = TaskDoneOnLane)
        /\ (h[1] \in Waits => b[1] \in Waits /\ b[2] = h[2])
        /\ (h[1] \in TaskEnds => b[1] \in TaskEnds)
        /\ {a[1], b[1]} \cap (Dispatcher \cup ForSets \cup {"destroyAll"}) = {}
    BY <1>2, <1>5 DEF Waits, TaskEnds, Lasts, Firsts, Dispatcher, ForSets, TaskDoneOnLane
  <2> HIDE DEF h, a, b
  <2>4. Follows(h, <<a, b>>, Mine(t)) /\ Calm(<<a, b>>) /\ <<a, b>> \in Seq(AllSteps)
    BY <1>5, <2>1, <2>2, <2>3, FollowsTwo
  <2> QED
    BY <2>4
<1>9. /\ \A G : StepsIn(G) \in Nat
      /\ entry[e].count \in Nat /\ entry[e].state \in {"Loading", "Ready", "Failed"}
      /\ Cardinality(Holders(e)) \in Nat /\ Count(Waiting, {e}) \in Nat /\ Count(replaced, {e}) \in Nat
  BY <1>2, Amounts
<1>10. /\ StepsIn(For(Loaders, e)) = StepsIn(For(Unparkers, e)) + StepsIn(For(OtherLoaders, e))
      /\ StepsIn(For(PendingKinds, e)) = StepsIn(For(Unparkers, e)) + StepsIn(For({"parkOrLoad"}, e))
      /\ StepsIn(For(Counting, e)) # 0
  BY <1>2, LoadersAre DEF Counting, Loaders, Comers, Tasking, Unparkers, PendingKinds, OtherLoaders
<1>11. /\ new \in EntryType /\ new.life = "live"
      /\ new.count = entry[e].count
      /\ new.queued = entry[e].queued
      /\ new.parked = FALSE
      /\ new.claimed = entry[e].claimed
      /\ new.state = entry[e].state
      /\ new.pending = entry[e].pending
  <2>1. /\ new.life = "live"
        /\ new.count = entry[e].count
        /\ new.queued = entry[e].queued
        /\ new.parked = FALSE
        /\ new.claimed = entry[e].claimed
        /\ new.state = entry[e].state
        /\ new.pending = entry[e].pending
    BY <1>2 DEF EntryType
  <2>2. new \in EntryType
    BY <1>2, <1>9, <1>4 DEF EntryType
  <2> QED
    BY <2>1, <2>2
<1> HIDE DEF new, p, h, a, b
<1>12. Settles(e, new, 0, 1, 1, 0, 1, 1, 0)
  <2>1. Queue(e) \in Nat /\ (~gone => Queue(e) = One(entry[e].queued) /\ (~entry[e].queued => entry[e].count # 0))
    BY <1>2, <1>9 DEF Queue, QueueOk, One
  <2>2. Having(e) + 0 = new.count
    BY <1>2, <1>9, <1>10, <1>11, <1>4, <1>3 DEF One, CountOk, Having
  <2>3. Loads(e) + 1 + One(new.parked) - One(entry[e].parked) = One(new.state = "Loading" /\ new.claimed)
    BY <1>2, <1>9, <1>10, <1>11, <1>4, <1>3, SMTT(60) DEF One, LoadOk, Loads
  <2>4. ~new.claimed => new.pending /\ new.state = "Loading" /\ Coming(e) + 1 # 0
    BY <1>2, <1>9, <1>10, <1>11, <1>4, <1>3, SMTT(60) DEF One, LoadOk, Coming
  <2>5. TasksOf(e) + 0 + One(new.parked) - One(entry[e].parked) <= 1
    <3>1. TasksOf(e) \in Int /\ TasksOf(e) <= 1
      BY <1>2, <1>9 DEF LoadOk, TasksOf, One
    <3> QED
      BY <1>2, <1>11, <3>1, <1>3 DEF One
  <2>6. new.parked \/ StepsIn(For(Unparkers, e)) + 1 # 0 => new.pending
    BY <1>2, <1>9, <1>10, <1>11, <1>4, <1>3 DEF One, LoadOk, Loads, Unparkers
  <2>7. new.pending => ~new.claimed \/ new.parked \/ StepsIn(For(PendingKinds, e)) + 1 # 0
    <3>1. entry[e].pending => ~entry[e].claimed \/ entry[e].parked \/ StepsIn(For(PendingKinds, e)) # 0
      BY <1>2 DEF LoadOk, PendingKinds
    <3> QED
      BY <1>9, <1>11, <3>1, <1>3
  <2>8. ~gone => Queue(e) + 0 = One(new.queued) /\ (~new.queued => new.count # 0)
    BY <1>2, <1>9, <1>11, <2>1, <1>4, <1>3 DEF One
  <2> QED
    BY <2>2, <2>3, <2>4, <2>5, <2>6, <2>7, <2>8 DEF Settles
<1>13. NamesOnly(h, p, e) /\ Balanced
  <2>1. Mere(p, e) /\ h[1] \notin TaskSteps
    BY <1>2, <1>5 DEF Mere, p, TaskSteps, EntryKinds, Counting, Passing, Waits
  <2> QED
    BY <1>2, <1>6, <1>8, <2>1, MereSteps DEF h
<1>14. /\ {0, 1} \subseteq Int
       /\ h[1] \notin Dispatcher \cup {"dispatch", "destroyAll"}
       /\ new.count # 0 => entry[e].count # 0 \/ e \in published \cup fresh
       /\ h[1] \notin Waits
       /\ new.state = "Loading" => entry[e].state = "Loading"
  BY <1>2, <1>9, <1>11, <1>4 DEF Dispatcher, Waits
<1> QED
  BY <1>2, <1>6, <1>7, <1>8, <1>11, <1>12, <1>13, <1>14, EntryMoves, ZenonT(60) DEF h

LEMMA TakenBind ==
  ASSUME CacheInv, NEW t \in Threads, TakeParked(t), ~Me(t).parked, More(t) \in {"bind", "find"}
  PROVE  CacheInv'
<1>1. PICK e : e = Arg(t) /\ "takeParked" \in EntryKinds /\ At(t, "takeParked")
  BY DEF TakeParked, EntryKinds, Counting, Passing, Waits
<1> DEFINE h == todo[t][1]
           new == [Me(t) EXCEPT !.parked = FALSE]
           a == <<"keep", e>>
           p == <<a>>
<1>2. /\ Typed /\ todo[t] # <<>> /\ h \in AllSteps /\ h[1] = "takeParked" /\ h[2] = e /\ h[3] = More(t)
      /\ e \in Live /\ e \in Entries
      /\ Me(t) = entry[e] /\ Me(t) \in EntryType /\ Me(t).life = "live"
      /\ CountOk(e) /\ LoadOk(e) /\ QueueOk(e)
      /\ \A K : "takeParked" \in K => StepsIn(For(K, e)) # 0
      /\ \A x \in Entries \ {e} : h \notin Naming(x)
  BY <1>1, EntryHead DEF More
<1>3. ~entry[e].parked
  BY <1>2
<1>4. entry[e].count # 0
  BY <1>1, HeadUsed DEF EntryKinds, Counting, Passing, Waits
<1>5. /\ a \in AllSteps /\ a[1] = "keep" /\ a[2] = e
  BY <1>2, StepsAre DEF EntryKinds, Counting, Passing, Waits, Ops
<1>6. Then(t, p) /\ entry' = [entry EXCEPT ![e] = new] /\ OnlyEntries
  BY <1>1, <1>2 DEF TakeParked, Change, Pass, Found
<1>7. Shifts(e, 0, 0, 0, 0, 0, 0, 0)
  <2>1. /\ Of(h, Counting, e) = 1 /\ Of(h, Loaders, e) = 0 /\ Of(h, Comers, e) = 0 /\ Of(h, Tasking, e) = 0 /\ Of(h, Unparkers, e) = 0 /\ Of(h, PendingKinds, e) = 0 /\ Of(h, {"enqueue"}, e) = 0
        /\ Of(a, Counting, e) = 1 /\ Of(a, Loaders, e) = 0 /\ Of(a, Comers, e) = 0 /\ Of(a, Tasking, e) = 0 /\ Of(a, Unparkers, e) = 0 /\ Of(a, PendingKinds, e) = 0 /\ Of(a, {"enqueue"}, e) = 0
    BY <1>2, <1>5 DEF Of, One, Counting, Loaders, Comers, Tasking, Unparkers, PendingKinds
  <2>2. {h[1], a[1]} \cap ForSets = {}
    BY <1>2, <1>5 DEF ForSets
  <2> HIDE DEF h, a
  <2>3. h = todo[t][1] /\ Then(t, <<a>>)
    BY <1>6 DEF h
  <2> QED
    BY <1>2, <1>5, <2>1, <2>2, <2>3, ShiftOne
<1>8. Follows(h, p, Mine(t)) /\ Calm(p) /\ p \in Seq(AllSteps)
  <2>1. Apt(h, a)
    BY <1>2, <1>5 DEF Apt, Suits, Lasts, TaskDoneOnLane, Forces, EndOfForce, LaneSteps, Dispatcher, LateSteps
  <2>2. /\ Covered(h, a, Mine(t))
    BY <1>2, <1>5 DEF Covered, Backs, Passing, Waits, Counting
  <2>3. /\ a[1] \notin {"reload", "unpark"}
        /\ h[1] \in Waits => a[1] \in Waits /\ a[2] = h[2]
        /\ h[1] \in TaskEnds => a[1] \in TaskEnds
        /\ a[1] \notin Dispatcher \cup ForSets \cup {"destroyAll"}
    BY <1>2, <1>5 DEF Waits, TaskEnds, Lasts, Firsts, Dispatcher, ForSets, TaskDoneOnLane
  <2> HIDE DEF h, a
  <2>4. Follows(h, <<a>>, Mine(t)) /\ Calm(<<a>>) /\ <<a>> \in Seq(AllSteps)
    BY <1>5, <2>1, <2>2, <2>3, FollowsOne
  <2> QED
    BY <2>4
<1>9. /\ \A G : StepsIn(G) \in Nat
      /\ entry[e].count \in Nat /\ entry[e].state \in {"Loading", "Ready", "Failed"}
      /\ Cardinality(Holders(e)) \in Nat /\ Count(Waiting, {e}) \in Nat /\ Count(replaced, {e}) \in Nat
  BY <1>2, Amounts
<1>10. /\ StepsIn(For(Loaders, e)) = StepsIn(For(Unparkers, e)) + StepsIn(For(OtherLoaders, e))
      /\ StepsIn(For(PendingKinds, e)) = StepsIn(For(Unparkers, e)) + StepsIn(For({"parkOrLoad"}, e))
      /\ StepsIn(For(Counting, e)) # 0
  BY <1>2, LoadersAre DEF Counting, Loaders, Comers, Tasking, Unparkers, PendingKinds, OtherLoaders
<1>11. /\ new \in EntryType /\ new.life = "live"
      /\ new.count = entry[e].count
      /\ new.queued = entry[e].queued
      /\ new.parked = FALSE
      /\ new.claimed = entry[e].claimed
      /\ new.state = entry[e].state
      /\ new.pending = entry[e].pending
  <2>1. /\ new.life = "live"
        /\ new.count = entry[e].count
        /\ new.queued = entry[e].queued
        /\ new.parked = FALSE
        /\ new.claimed = entry[e].claimed
        /\ new.state = entry[e].state
        /\ new.pending = entry[e].pending
    BY <1>2 DEF EntryType
  <2>2. new \in EntryType
    BY <1>2, <1>9, <1>4 DEF EntryType
  <2> QED
    BY <2>1, <2>2
<1> HIDE DEF new, p, h, a
<1>12. Settles(e, new, 0, 0, 0, 0, 0, 0, 0)
  <2>1. Queue(e) \in Nat /\ (~gone => Queue(e) = One(entry[e].queued) /\ (~entry[e].queued => entry[e].count # 0))
    BY <1>2, <1>9 DEF Queue, QueueOk, One
  <2>2. Having(e) + 0 = new.count
    BY <1>2, <1>9, <1>10, <1>11, <1>4, <1>3 DEF One, CountOk, Having
  <2>3. Loads(e) + 0 + One(new.parked) - One(entry[e].parked) = One(new.state = "Loading" /\ new.claimed)
    BY <1>2, <1>9, <1>10, <1>11, <1>4, <1>3, SMTT(60) DEF One, LoadOk, Loads
  <2>4. ~new.claimed => new.pending /\ new.state = "Loading" /\ Coming(e) + 0 # 0
    BY <1>2, <1>9, <1>10, <1>11, <1>4, <1>3 DEF One, LoadOk, Coming
  <2>5. TasksOf(e) + 0 + One(new.parked) - One(entry[e].parked) <= 1
    <3>1. TasksOf(e) \in Int /\ TasksOf(e) <= 1
      BY <1>2, <1>9 DEF LoadOk, TasksOf, One
    <3> QED
      BY <1>2, <1>11, <3>1, <1>3 DEF One
  <2>6. new.parked \/ StepsIn(For(Unparkers, e)) + 0 # 0 => new.pending
    BY <1>2, <1>9, <1>10, <1>11, <1>4, <1>3 DEF One, LoadOk, Loads, Unparkers
  <2>7. new.pending => ~new.claimed \/ new.parked \/ StepsIn(For(PendingKinds, e)) + 0 # 0
    <3>1. entry[e].pending => ~entry[e].claimed \/ entry[e].parked \/ StepsIn(For(PendingKinds, e)) # 0
      BY <1>2 DEF LoadOk, PendingKinds
    <3> QED
      BY <1>9, <1>11, <3>1, <1>3
  <2>8. ~gone => Queue(e) + 0 = One(new.queued) /\ (~new.queued => new.count # 0)
    BY <1>2, <1>9, <1>11, <2>1, <1>4, <1>3 DEF One
  <2> QED
    BY <2>2, <2>3, <2>4, <2>5, <2>6, <2>7, <2>8 DEF Settles
<1>13. NamesOnly(h, p, e) /\ Balanced
  <2>1. Mere(p, e) /\ h[1] \notin TaskSteps
    BY <1>2, <1>5 DEF Mere, p, TaskSteps, EntryKinds, Counting, Passing, Waits
  <2> QED
    BY <1>2, <1>6, <1>8, <2>1, MereSteps DEF h
<1>14. /\ {0} \subseteq Int
       /\ h[1] \notin Dispatcher \cup {"dispatch", "destroyAll"}
       /\ new.count # 0 => entry[e].count # 0 \/ e \in published \cup fresh
       /\ h[1] \notin Waits
       /\ new.state = "Loading" => entry[e].state = "Loading"
  BY <1>2, <1>9, <1>11, <1>4 DEF Dispatcher, Waits
<1> QED
  BY <1>2, <1>6, <1>7, <1>8, <1>11, <1>12, <1>13, <1>14, EntryMoves DEF h

LEMMA TakenLoad ==
  ASSUME CacheInv, NEW t \in Threads, TakeParked(t), ~Me(t).parked, More(t) = "load"
  PROVE  CacheInv'
<1>1. PICK e : e = Arg(t) /\ "takeParked" \in EntryKinds /\ At(t, "takeParked")
  BY DEF TakeParked, EntryKinds, Counting, Passing, Waits
<1> DEFINE h == todo[t][1]
           new == [Me(t) EXCEPT !.parked = FALSE]
           a == <<"wait", e>>
           b == <<"throwOrKeep", e>>
           p == <<a, b>>
<1>2. /\ Typed /\ todo[t] # <<>> /\ h \in AllSteps /\ h[1] = "takeParked" /\ h[2] = e /\ h[3] = More(t)
      /\ e \in Live /\ e \in Entries
      /\ Me(t) = entry[e] /\ Me(t) \in EntryType /\ Me(t).life = "live"
      /\ CountOk(e) /\ LoadOk(e) /\ QueueOk(e)
      /\ \A K : "takeParked" \in K => StepsIn(For(K, e)) # 0
      /\ \A x \in Entries \ {e} : h \notin Naming(x)
  BY <1>1, EntryHead DEF More
<1>3. ~entry[e].parked
  BY <1>2
<1>4. entry[e].count # 0
  BY <1>1, HeadUsed DEF EntryKinds, Counting, Passing, Waits
<1>5. /\ a \in AllSteps /\ a[1] = "wait" /\ a[2] = e
      /\ b \in AllSteps /\ b[1] = "throwOrKeep" /\ b[2] = e
  BY <1>2, StepsAre DEF EntryKinds, Counting, Passing, Waits, Ops
<1>6. Then(t, p) /\ entry' = [entry EXCEPT ![e] = new] /\ OnlyEntries
  BY <1>1, <1>2 DEF TakeParked, Change, Pass, Found
<1>7. Shifts(e, 0, 0, 1, 0, 0, 0, 0)
  <2>1. /\ Of(h, Counting, e) = 1 /\ Of(h, Loaders, e) = 0 /\ Of(h, Comers, e) = 0 /\ Of(h, Tasking, e) = 0 /\ Of(h, Unparkers, e) = 0 /\ Of(h, PendingKinds, e) = 0 /\ Of(h, {"enqueue"}, e) = 0
        /\ Of(a, Counting, e) = 0 /\ Of(a, Loaders, e) = 0 /\ Of(a, Comers, e) = 1 /\ Of(a, Tasking, e) = 0 /\ Of(a, Unparkers, e) = 0 /\ Of(a, PendingKinds, e) = 0 /\ Of(a, {"enqueue"}, e) = 0
        /\ Of(b, Counting, e) = 1 /\ Of(b, Loaders, e) = 0 /\ Of(b, Comers, e) = 0 /\ Of(b, Tasking, e) = 0 /\ Of(b, Unparkers, e) = 0 /\ Of(b, PendingKinds, e) = 0 /\ Of(b, {"enqueue"}, e) = 0
    BY <1>2, <1>5 DEF Of, One, Counting, Loaders, Comers, Tasking, Unparkers, PendingKinds
  <2>2. {h[1], a[1], b[1]} \cap ForSets = {}
    BY <1>2, <1>5 DEF ForSets
  <2> HIDE DEF h, a, b
  <2>3. h = todo[t][1] /\ Then(t, <<a, b>>)
    BY <1>6 DEF h
  <2> QED
    BY <1>2, <1>5, <2>1, <2>2, <2>3, ShiftTwo
<1>8. Follows(h, p, Mine(t)) /\ Calm(p) /\ p \in Seq(AllSteps)
  <2>1. Apt(h, a) /\ Apt(h, b)
    BY <1>2, <1>5 DEF Apt, Suits, Lasts, TaskDoneOnLane, Forces, EndOfForce, LaneSteps, Dispatcher, LateSteps
  <2>2. /\ (Covered(h, a, Mine(t)) \/ Backs(a, b))
        /\ Covered(h, b, Mine(t))
    BY <1>2, <1>5 DEF Covered, Backs, Passing, Waits, Counting
  <2>3. /\ a[1] \notin {"reload"} \cup Lasts
        /\ (a[1] = "unpark" => b[1] \in {"wait", "claimFree"} /\ b[2] = a[2])
        /\ b[1] \notin {"unpark"} \cup Firsts
        /\ (b[1] = "reload" => a[1] \in Waits /\ a[2] = b[2])
        /\ ~(a = TaskDoneOnLane /\ b = TaskDoneOnLane)
        /\ (h[1] \in Waits => b[1] \in Waits /\ b[2] = h[2])
        /\ (h[1] \in TaskEnds => b[1] \in TaskEnds)
        /\ {a[1], b[1]} \cap (Dispatcher \cup ForSets \cup {"destroyAll"}) = {}
    BY <1>2, <1>5 DEF Waits, TaskEnds, Lasts, Firsts, Dispatcher, ForSets, TaskDoneOnLane
  <2> HIDE DEF h, a, b
  <2>4. Follows(h, <<a, b>>, Mine(t)) /\ Calm(<<a, b>>) /\ <<a, b>> \in Seq(AllSteps)
    BY <1>5, <2>1, <2>2, <2>3, FollowsTwo
  <2> QED
    BY <2>4
<1>9. /\ \A G : StepsIn(G) \in Nat
      /\ entry[e].count \in Nat /\ entry[e].state \in {"Loading", "Ready", "Failed"}
      /\ Cardinality(Holders(e)) \in Nat /\ Count(Waiting, {e}) \in Nat /\ Count(replaced, {e}) \in Nat
  BY <1>2, Amounts
<1>10. /\ StepsIn(For(Loaders, e)) = StepsIn(For(Unparkers, e)) + StepsIn(For(OtherLoaders, e))
      /\ StepsIn(For(PendingKinds, e)) = StepsIn(For(Unparkers, e)) + StepsIn(For({"parkOrLoad"}, e))
      /\ StepsIn(For(Counting, e)) # 0
  BY <1>2, LoadersAre DEF Counting, Loaders, Comers, Tasking, Unparkers, PendingKinds, OtherLoaders
<1>11. /\ new \in EntryType /\ new.life = "live"
      /\ new.count = entry[e].count
      /\ new.queued = entry[e].queued
      /\ new.parked = FALSE
      /\ new.claimed = entry[e].claimed
      /\ new.state = entry[e].state
      /\ new.pending = entry[e].pending
  <2>1. /\ new.life = "live"
        /\ new.count = entry[e].count
        /\ new.queued = entry[e].queued
        /\ new.parked = FALSE
        /\ new.claimed = entry[e].claimed
        /\ new.state = entry[e].state
        /\ new.pending = entry[e].pending
    BY <1>2 DEF EntryType
  <2>2. new \in EntryType
    BY <1>2, <1>9, <1>4 DEF EntryType
  <2> QED
    BY <2>1, <2>2
<1> HIDE DEF new, p, h, a, b
<1>12. Settles(e, new, 0, 0, 1, 0, 0, 0, 0)
  <2>1. Queue(e) \in Nat /\ (~gone => Queue(e) = One(entry[e].queued) /\ (~entry[e].queued => entry[e].count # 0))
    BY <1>2, <1>9 DEF Queue, QueueOk, One
  <2>2. Having(e) + 0 = new.count
    BY <1>2, <1>9, <1>10, <1>11, <1>4, <1>3 DEF One, CountOk, Having
  <2>3. Loads(e) + 0 + One(new.parked) - One(entry[e].parked) = One(new.state = "Loading" /\ new.claimed)
    BY <1>2, <1>9, <1>10, <1>11, <1>4, <1>3, SMTT(60) DEF One, LoadOk, Loads
  <2>4. ~new.claimed => new.pending /\ new.state = "Loading" /\ Coming(e) + 1 # 0
    BY <1>2, <1>9, <1>10, <1>11, <1>4, <1>3, SMTT(60) DEF One, LoadOk, Coming
  <2>5. TasksOf(e) + 0 + One(new.parked) - One(entry[e].parked) <= 1
    <3>1. TasksOf(e) \in Int /\ TasksOf(e) <= 1
      BY <1>2, <1>9 DEF LoadOk, TasksOf, One
    <3> QED
      BY <1>2, <1>11, <3>1, <1>3 DEF One
  <2>6. new.parked \/ StepsIn(For(Unparkers, e)) + 0 # 0 => new.pending
    BY <1>2, <1>9, <1>10, <1>11, <1>4, <1>3 DEF One, LoadOk, Loads, Unparkers
  <2>7. new.pending => ~new.claimed \/ new.parked \/ StepsIn(For(PendingKinds, e)) + 0 # 0
    <3>1. entry[e].pending => ~entry[e].claimed \/ entry[e].parked \/ StepsIn(For(PendingKinds, e)) # 0
      BY <1>2 DEF LoadOk, PendingKinds
    <3> QED
      BY <1>9, <1>11, <3>1, <1>3
  <2>8. ~gone => Queue(e) + 0 = One(new.queued) /\ (~new.queued => new.count # 0)
    BY <1>2, <1>9, <1>11, <2>1, <1>4, <1>3 DEF One
  <2> QED
    BY <2>2, <2>3, <2>4, <2>5, <2>6, <2>7, <2>8 DEF Settles
<1>13. NamesOnly(h, p, e) /\ Balanced
  <2>1. Mere(p, e) /\ h[1] \notin TaskSteps
    BY <1>2, <1>5 DEF Mere, p, TaskSteps, EntryKinds, Counting, Passing, Waits
  <2> QED
    BY <1>2, <1>6, <1>8, <2>1, MereSteps DEF h
<1>14. /\ {0, 1} \subseteq Int
       /\ h[1] \notin Dispatcher \cup {"dispatch", "destroyAll"}
       /\ new.count # 0 => entry[e].count # 0 \/ e \in published \cup fresh
       /\ h[1] \notin Waits
       /\ new.state = "Loading" => entry[e].state = "Loading"
  BY <1>2, <1>9, <1>11, <1>4 DEF Dispatcher, Waits
<1> QED
  BY <1>2, <1>6, <1>7, <1>8, <1>11, <1>12, <1>13, <1>14, EntryMoves DEF h

LEMMA TakenForce ==
  ASSUME CacheInv, NEW t \in Threads, TakeParked(t), ~Me(t).parked, More(t) = "forceLoad"
  PROVE  CacheInv'
<1>1. PICK e : e = Arg(t) /\ "takeParked" \in EntryKinds /\ At(t, "takeParked")
  BY DEF TakeParked, EntryKinds, Counting, Passing, Waits
<1> DEFINE h == todo[t][1]
           new == [Me(t) EXCEPT !.parked = FALSE]
           a == <<"wait", e>>
           b == <<"reload", e>>
           p == <<a, b>>
<1>2. /\ Typed /\ todo[t] # <<>> /\ h \in AllSteps /\ h[1] = "takeParked" /\ h[2] = e /\ h[3] = More(t)
      /\ e \in Live /\ e \in Entries
      /\ Me(t) = entry[e] /\ Me(t) \in EntryType /\ Me(t).life = "live"
      /\ CountOk(e) /\ LoadOk(e) /\ QueueOk(e)
      /\ \A K : "takeParked" \in K => StepsIn(For(K, e)) # 0
      /\ \A x \in Entries \ {e} : h \notin Naming(x)
  BY <1>1, EntryHead DEF More
<1>3. ~entry[e].parked
  BY <1>2
<1>4. entry[e].count # 0
  BY <1>1, HeadUsed DEF EntryKinds, Counting, Passing, Waits
<1>5. /\ a \in AllSteps /\ a[1] = "wait" /\ a[2] = e
      /\ b \in AllSteps /\ b[1] = "reload" /\ b[2] = e
  BY <1>2, StepsAre DEF EntryKinds, Counting, Passing, Waits, Ops
<1>6. Then(t, p) /\ entry' = [entry EXCEPT ![e] = new] /\ OnlyEntries
  BY <1>1, <1>2 DEF TakeParked, Change, Pass, Found
<1>7. Shifts(e, 0, 0, 1, 0, 0, 0, 0)
  <2>1. /\ Of(h, Counting, e) = 1 /\ Of(h, Loaders, e) = 0 /\ Of(h, Comers, e) = 0 /\ Of(h, Tasking, e) = 0 /\ Of(h, Unparkers, e) = 0 /\ Of(h, PendingKinds, e) = 0 /\ Of(h, {"enqueue"}, e) = 0
        /\ Of(a, Counting, e) = 0 /\ Of(a, Loaders, e) = 0 /\ Of(a, Comers, e) = 1 /\ Of(a, Tasking, e) = 0 /\ Of(a, Unparkers, e) = 0 /\ Of(a, PendingKinds, e) = 0 /\ Of(a, {"enqueue"}, e) = 0
        /\ Of(b, Counting, e) = 1 /\ Of(b, Loaders, e) = 0 /\ Of(b, Comers, e) = 0 /\ Of(b, Tasking, e) = 0 /\ Of(b, Unparkers, e) = 0 /\ Of(b, PendingKinds, e) = 0 /\ Of(b, {"enqueue"}, e) = 0
    BY <1>2, <1>5 DEF Of, One, Counting, Loaders, Comers, Tasking, Unparkers, PendingKinds
  <2>2. {h[1], a[1], b[1]} \cap ForSets = {}
    BY <1>2, <1>5 DEF ForSets
  <2> HIDE DEF h, a, b
  <2>3. h = todo[t][1] /\ Then(t, <<a, b>>)
    BY <1>6 DEF h
  <2> QED
    BY <1>2, <1>5, <2>1, <2>2, <2>3, ShiftTwo
<1>8. Follows(h, p, Mine(t)) /\ Calm(p) /\ p \in Seq(AllSteps)
  <2>1. Apt(h, a) /\ Apt(h, b)
    BY <1>2, <1>5 DEF Apt, Suits, Lasts, TaskDoneOnLane, Forces, EndOfForce, LaneSteps, Dispatcher, LateSteps
  <2>2. /\ (Covered(h, a, Mine(t)) \/ Backs(a, b))
        /\ Covered(h, b, Mine(t))
    BY <1>2, <1>5 DEF Covered, Backs, Passing, Waits, Counting
  <2>3. /\ a[1] \notin {"reload"} \cup Lasts
        /\ (a[1] = "unpark" => b[1] \in {"wait", "claimFree"} /\ b[2] = a[2])
        /\ b[1] \notin {"unpark"} \cup Firsts
        /\ (b[1] = "reload" => a[1] \in Waits /\ a[2] = b[2])
        /\ ~(a = TaskDoneOnLane /\ b = TaskDoneOnLane)
        /\ (h[1] \in Waits => b[1] \in Waits /\ b[2] = h[2])
        /\ (h[1] \in TaskEnds => b[1] \in TaskEnds)
        /\ {a[1], b[1]} \cap (Dispatcher \cup ForSets \cup {"destroyAll"}) = {}
    BY <1>2, <1>5 DEF Waits, TaskEnds, Lasts, Firsts, Dispatcher, ForSets, TaskDoneOnLane
  <2> HIDE DEF h, a, b
  <2>4. Follows(h, <<a, b>>, Mine(t)) /\ Calm(<<a, b>>) /\ <<a, b>> \in Seq(AllSteps)
    BY <1>5, <2>1, <2>2, <2>3, FollowsTwo
  <2> QED
    BY <2>4
<1>9. /\ \A G : StepsIn(G) \in Nat
      /\ entry[e].count \in Nat /\ entry[e].state \in {"Loading", "Ready", "Failed"}
      /\ Cardinality(Holders(e)) \in Nat /\ Count(Waiting, {e}) \in Nat /\ Count(replaced, {e}) \in Nat
  BY <1>2, Amounts
<1>10. /\ StepsIn(For(Loaders, e)) = StepsIn(For(Unparkers, e)) + StepsIn(For(OtherLoaders, e))
      /\ StepsIn(For(PendingKinds, e)) = StepsIn(For(Unparkers, e)) + StepsIn(For({"parkOrLoad"}, e))
      /\ StepsIn(For(Counting, e)) # 0
  BY <1>2, LoadersAre DEF Counting, Loaders, Comers, Tasking, Unparkers, PendingKinds, OtherLoaders
<1>11. /\ new \in EntryType /\ new.life = "live"
      /\ new.count = entry[e].count
      /\ new.queued = entry[e].queued
      /\ new.parked = FALSE
      /\ new.claimed = entry[e].claimed
      /\ new.state = entry[e].state
      /\ new.pending = entry[e].pending
  <2>1. /\ new.life = "live"
        /\ new.count = entry[e].count
        /\ new.queued = entry[e].queued
        /\ new.parked = FALSE
        /\ new.claimed = entry[e].claimed
        /\ new.state = entry[e].state
        /\ new.pending = entry[e].pending
    BY <1>2 DEF EntryType
  <2>2. new \in EntryType
    BY <1>2, <1>9, <1>4 DEF EntryType
  <2> QED
    BY <2>1, <2>2
<1> HIDE DEF new, p, h, a, b
<1>12. Settles(e, new, 0, 0, 1, 0, 0, 0, 0)
  <2>1. Queue(e) \in Nat /\ (~gone => Queue(e) = One(entry[e].queued) /\ (~entry[e].queued => entry[e].count # 0))
    BY <1>2, <1>9 DEF Queue, QueueOk, One
  <2>2. Having(e) + 0 = new.count
    BY <1>2, <1>9, <1>10, <1>11, <1>4, <1>3 DEF One, CountOk, Having
  <2>3. Loads(e) + 0 + One(new.parked) - One(entry[e].parked) = One(new.state = "Loading" /\ new.claimed)
    BY <1>2, <1>9, <1>10, <1>11, <1>4, <1>3, SMTT(60) DEF One, LoadOk, Loads
  <2>4. ~new.claimed => new.pending /\ new.state = "Loading" /\ Coming(e) + 1 # 0
    BY <1>2, <1>9, <1>10, <1>11, <1>4, <1>3 DEF One, LoadOk, Coming
  <2>5. TasksOf(e) + 0 + One(new.parked) - One(entry[e].parked) <= 1
    <3>1. TasksOf(e) \in Int /\ TasksOf(e) <= 1
      BY <1>2, <1>9 DEF LoadOk, TasksOf, One
    <3> QED
      BY <1>2, <1>11, <3>1, <1>3 DEF One
  <2>6. new.parked \/ StepsIn(For(Unparkers, e)) + 0 # 0 => new.pending
    BY <1>2, <1>9, <1>10, <1>11, <1>4, <1>3 DEF One, LoadOk, Loads, Unparkers
  <2>7. new.pending => ~new.claimed \/ new.parked \/ StepsIn(For(PendingKinds, e)) + 0 # 0
    <3>1. entry[e].pending => ~entry[e].claimed \/ entry[e].parked \/ StepsIn(For(PendingKinds, e)) # 0
      BY <1>2 DEF LoadOk, PendingKinds
    <3> QED
      BY <1>9, <1>11, <3>1, <1>3
  <2>8. ~gone => Queue(e) + 0 = One(new.queued) /\ (~new.queued => new.count # 0)
    BY <1>2, <1>9, <1>11, <2>1, <1>4, <1>3 DEF One
  <2> QED
    BY <2>2, <2>3, <2>4, <2>5, <2>6, <2>7, <2>8 DEF Settles
<1>13. NamesOnly(h, p, e) /\ Balanced
  <2>1. Mere(p, e) /\ h[1] \notin TaskSteps
    BY <1>2, <1>5 DEF Mere, p, TaskSteps, EntryKinds, Counting, Passing, Waits
  <2> QED
    BY <1>2, <1>6, <1>8, <2>1, MereSteps DEF h
<1>14. /\ {0, 1} \subseteq Int
       /\ h[1] \notin Dispatcher \cup {"dispatch", "destroyAll"}
       /\ new.count # 0 => entry[e].count # 0 \/ e \in published \cup fresh
       /\ h[1] \notin Waits
       /\ new.state = "Loading" => entry[e].state = "Loading"
  BY <1>2, <1>9, <1>11, <1>4 DEF Dispatcher, Waits
<1> QED
  BY <1>2, <1>6, <1>7, <1>8, <1>11, <1>12, <1>13, <1>14, EntryMoves, ZenonT(60) DEF h

-----------------------------------------------------------------------------
(* Finding entries, reads that are over and loading anew. *)

LEMMA AcquireParked ==
  ASSUME CacheInv, NEW t \in Threads, At(t, "lookup") \/ At(t, "bindPublished"), NEW op, op = More(t),
         NEW e \in published \cup fresh, AcquireFound(t, op, e), OnlyEntries, entry[e].parked
  PROVE  CacheInv'
<1> DEFINE h == todo[t][1]
           new == [entry[e] EXCEPT !.count = @ + 1]
           a == <<"takeParked", e, op>>
           p == <<a>>
<1>1. /\ Typed /\ todo[t] # <<>> /\ h \in AllSteps /\ h[1] \in {"lookup", "bindPublished"} /\ op \in Ops /\ e \in Entries
      /\ h[1] = "bindPublished" => op \in {"bind", "find"}
  <2>1. Typed /\ todo[t] # <<>> /\ h[1] \in {"lookup", "bindPublished"}
    BY DEF CacheInv, At
  <2>2. h \in AllSteps
    BY <2>1, EmptySeq DEF Typed
  <2> QED
    BY <2>1, <2>2, StepTypes DEF More, Ops, Typed, TypeOK
<1>2. /\ e \in Live /\ entry[e] \in EntryType /\ entry[e].life = "live"
      /\ CountOk(e) /\ LoadOk(e) /\ QueueOk(e)
  <2>1. e \in Live
    BY <1>1 DEF CacheInv, Unknown
  <2> QED
    BY <1>1, <2>1 DEF CacheInv, Accounts, Live, Typed, TypeOK, EntryType
<1>3. /\ h[1] \in {"lookup", "bindPublished"} /\ h[3] = op /\ h \in AllSteps
      /\ \A x \in Entries : h \notin Naming(x)
  BY <1>1 DEF More, Naming, Takes, ForSets, Counting, Passing, Waits
<1>4. /\ a \in AllSteps /\ a[1] = "takeParked" /\ a[2] = e /\ a[3] = op
  BY <1>1, StepsAre DEF EntryKinds, Counting, Passing, Waits, Ops
<1>5. Then(t, p) /\ entry' = [entry EXCEPT ![e] = new] /\ OnlyEntries
  BY <1>1, <1>2 DEF AcquireFound, Change, Pass
<1>6. Shifts(e, 1, 0, 0, 0, 0, 0, 0)
  <2>1. /\ Of(h, Counting, e) = 0 /\ Of(h, Loaders, e) = 0 /\ Of(h, Comers, e) = 0 /\ Of(h, Tasking, e) = 0 /\ Of(h, Unparkers, e) = 0 /\ Of(h, PendingKinds, e) = 0 /\ Of(h, {"enqueue"}, e) = 0
        /\ Of(a, Counting, e) = 1 /\ Of(a, Loaders, e) = 0 /\ Of(a, Comers, e) = 0 /\ Of(a, Tasking, e) = 0 /\ Of(a, Unparkers, e) = 0 /\ Of(a, PendingKinds, e) = 0 /\ Of(a, {"enqueue"}, e) = 0
    BY <1>1, <1>2, <1>3, <1>4 DEF Of, One, Counting, Loaders, Comers, Tasking, Unparkers, PendingKinds
  <2>2. {h[1], a[1]} \cap ForSets = {}
    BY <1>1, <1>2, <1>3, <1>4 DEF ForSets
  <2> HIDE DEF h, a
  <2>3. h = todo[t][1] /\ Then(t, <<a>>)
    BY <1>5 DEF h
  <2> QED
    BY <1>1, <1>2, <1>3, <1>4, <2>1, <2>2, <2>3, ShiftOne
<1>7. Follows(h, p, Mine(t)) /\ Calm(p) /\ p \in Seq(AllSteps)
  <2>1. Apt(h, a)
    BY <1>1, <1>2, <1>3, <1>4 DEF Apt, Suits, Lasts, TaskDoneOnLane, Forces, EndOfForce, LaneSteps, Dispatcher, LateSteps
  <2>2. /\ Covered(h, a, Mine(t))
    BY <1>1, <1>2, <1>3, <1>4 DEF Covered, Backs, Passing, Waits, Counting
  <2>3. /\ a[1] \notin {"reload", "unpark"}
        /\ h[1] \in Waits => a[1] \in Waits /\ a[2] = h[2]
        /\ h[1] \in TaskEnds => a[1] \in TaskEnds
        /\ a[1] \notin Dispatcher \cup ForSets \cup {"destroyAll"}
    BY <1>1, <1>2, <1>3, <1>4 DEF Waits, TaskEnds, Lasts, Firsts, Dispatcher, ForSets, TaskDoneOnLane
  <2> HIDE DEF h, a
  <2>4. Follows(h, <<a>>, Mine(t)) /\ Calm(<<a>>) /\ <<a>> \in Seq(AllSteps)
    BY <1>4, <2>1, <2>2, <2>3, FollowsOne
  <2> QED
    BY <2>4
<1>8. /\ \A G : StepsIn(G) \in Nat
      /\ entry[e].count \in Nat /\ entry[e].state \in {"Loading", "Ready", "Failed"}
      /\ Cardinality(Holders(e)) \in Nat /\ Count(Waiting, {e}) \in Nat /\ Count(replaced, {e}) \in Nat
  BY <1>1, <1>2, <1>3, Amounts
<1>9. /\ StepsIn(For(Loaders, e)) = StepsIn(For(Unparkers, e)) + StepsIn(For(OtherLoaders, e))
      /\ StepsIn(For(PendingKinds, e)) = StepsIn(For(Unparkers, e)) + StepsIn(For({"parkOrLoad"}, e))
  BY <1>1, <1>2, <1>3, LoadersAre DEF Counting, Loaders, Comers, Tasking, Unparkers, PendingKinds, OtherLoaders
<1>10. /\ new \in EntryType /\ new.life = "live"
      /\ new.count = (entry[e].count + 1)
      /\ new.queued = entry[e].queued
      /\ new.parked = entry[e].parked
      /\ new.claimed = entry[e].claimed
      /\ new.state = entry[e].state
      /\ new.pending = entry[e].pending
  <2>1. /\ new.life = "live"
        /\ new.count = (entry[e].count + 1)
        /\ new.queued = entry[e].queued
        /\ new.parked = entry[e].parked
        /\ new.claimed = entry[e].claimed
        /\ new.state = entry[e].state
        /\ new.pending = entry[e].pending
    BY <1>1, <1>2, <1>3 DEF EntryType
  <2>2. /\ entry[e].count + 1 \in Nat
    BY <1>1, <1>2, <1>3, <1>8
  <2>3. new \in EntryType
    BY <1>1, <1>2, <1>3, <1>8, <2>2 DEF EntryType
  <2> QED
    BY <2>1, <2>3
<1> HIDE DEF new, p, h, a
<1>11. Settles(e, new, 1, 0, 0, 0, 0, 0, 0)
  <2>1. Queue(e) \in Nat /\ (~gone => Queue(e) = One(entry[e].queued) /\ (~entry[e].queued => entry[e].count # 0))
    BY <1>1, <1>2, <1>3, <1>8 DEF Queue, QueueOk, One
  <2>2. Having(e) + 1 = new.count
    BY <1>1, <1>2, <1>3, <1>8, <1>9, <1>10 DEF One, CountOk, Having
  <2>3. Loads(e) + 0 + One(new.parked) - One(entry[e].parked) = One(new.state = "Loading" /\ new.claimed)
    BY <1>1, <1>2, <1>3, <1>8, <1>9, <1>10 DEF One, LoadOk, Loads
  <2>4. ~new.claimed => new.pending /\ new.state = "Loading" /\ Coming(e) + 0 # 0
    BY <1>1, <1>2, <1>3, <1>8, <1>9, <1>10 DEF One, LoadOk, Coming
  <2>5. TasksOf(e) + 0 + One(new.parked) - One(entry[e].parked) <= 1
    <3>1. TasksOf(e) \in Int /\ TasksOf(e) <= 1
      BY <1>1, <1>2, <1>3, <1>8 DEF LoadOk, TasksOf, One
    <3> QED
      BY <1>1, <1>2, <1>3, <1>10, <3>1 DEF One
  <2>6. new.parked \/ StepsIn(For(Unparkers, e)) + 0 # 0 => new.pending
    BY <1>1, <1>2, <1>3, <1>8, <1>9, <1>10 DEF One, LoadOk, Loads, Unparkers
  <2>7. new.pending => ~new.claimed \/ new.parked \/ StepsIn(For(PendingKinds, e)) + 0 # 0
    BY <1>1, <1>2, <1>3, <1>8, <1>9, <1>10 DEF One, LoadOk, Loads, PendingKinds
  <2>8. ~gone => Queue(e) + 0 = One(new.queued) /\ (~new.queued => new.count # 0)
    BY <1>1, <1>2, <1>3, <1>8, <1>10, <2>1 DEF One
  <2> QED
    BY <2>2, <2>3, <2>4, <2>5, <2>6, <2>7, <2>8 DEF Settles
<1>12. NamesOnly(h, p, e) /\ Balanced
  <2>1. Mere(p, e) /\ h[1] \notin TaskSteps
    BY <1>1, <1>2, <1>3, <1>4 DEF Mere, p, TaskSteps, EntryKinds, Counting, Passing, Waits
  <2> QED
    BY <1>1, <1>2, <1>3, <1>5, <1>7, <2>1, MereSteps DEF h
<1>13. /\ {0, 1} \subseteq Int
       /\ h[1] \notin Dispatcher \cup {"dispatch", "destroyAll"}
       /\ new.count # 0 => entry[e].count # 0 \/ e \in published \cup fresh
       /\ h[1] \notin Waits
       /\ new.state = "Loading" => entry[e].state = "Loading"
  BY <1>1, <1>2, <1>3, <1>8, <1>10 DEF Dispatcher, Waits
<1> QED
  BY <1>1, <1>2, <1>3, <1>5, <1>6, <1>7, <1>10, <1>11, <1>12, <1>13, EntryMoves DEF h

LEMMA AcquireBind ==
  ASSUME CacheInv, NEW t \in Threads, At(t, "lookup") \/ At(t, "bindPublished"), NEW op, op = More(t),
         NEW e \in published \cup fresh, AcquireFound(t, op, e), OnlyEntries, ~entry[e].parked, op \in {"bind", "find"}
  PROVE  CacheInv'
<1> DEFINE h == todo[t][1]
           new == [entry[e] EXCEPT !.count = @ + 1]
           a == <<"keep", e>>
           p == <<a>>
<1>1. /\ Typed /\ todo[t] # <<>> /\ h \in AllSteps /\ h[1] \in {"lookup", "bindPublished"} /\ op \in Ops /\ e \in Entries
      /\ h[1] = "bindPublished" => op \in {"bind", "find"}
  <2>1. Typed /\ todo[t] # <<>> /\ h[1] \in {"lookup", "bindPublished"}
    BY DEF CacheInv, At
  <2>2. h \in AllSteps
    BY <2>1, EmptySeq DEF Typed
  <2> QED
    BY <2>1, <2>2, StepTypes DEF More, Ops, Typed, TypeOK
<1>2. /\ e \in Live /\ entry[e] \in EntryType /\ entry[e].life = "live"
      /\ CountOk(e) /\ LoadOk(e) /\ QueueOk(e)
  <2>1. e \in Live
    BY <1>1 DEF CacheInv, Unknown
  <2> QED
    BY <1>1, <2>1 DEF CacheInv, Accounts, Live, Typed, TypeOK, EntryType
<1>3. /\ h[1] \in {"lookup", "bindPublished"} /\ h[3] = op /\ h \in AllSteps
      /\ \A x \in Entries : h \notin Naming(x)
  BY <1>1 DEF More, Naming, Takes, ForSets, Counting, Passing, Waits
<1>4. /\ a \in AllSteps /\ a[1] = "keep" /\ a[2] = e
  BY <1>1, StepsAre DEF EntryKinds, Counting, Passing, Waits, Ops
<1>5. Then(t, p) /\ entry' = [entry EXCEPT ![e] = new] /\ OnlyEntries
  BY <1>1, <1>2 DEF AcquireFound, Change, Pass, Found
<1>6. Shifts(e, 1, 0, 0, 0, 0, 0, 0)
  <2>1. /\ Of(h, Counting, e) = 0 /\ Of(h, Loaders, e) = 0 /\ Of(h, Comers, e) = 0 /\ Of(h, Tasking, e) = 0 /\ Of(h, Unparkers, e) = 0 /\ Of(h, PendingKinds, e) = 0 /\ Of(h, {"enqueue"}, e) = 0
        /\ Of(a, Counting, e) = 1 /\ Of(a, Loaders, e) = 0 /\ Of(a, Comers, e) = 0 /\ Of(a, Tasking, e) = 0 /\ Of(a, Unparkers, e) = 0 /\ Of(a, PendingKinds, e) = 0 /\ Of(a, {"enqueue"}, e) = 0
    BY <1>1, <1>2, <1>3, <1>4 DEF Of, One, Counting, Loaders, Comers, Tasking, Unparkers, PendingKinds
  <2>2. {h[1], a[1]} \cap ForSets = {}
    BY <1>1, <1>2, <1>3, <1>4 DEF ForSets
  <2> HIDE DEF h, a
  <2>3. h = todo[t][1] /\ Then(t, <<a>>)
    BY <1>5 DEF h
  <2> QED
    BY <1>1, <1>2, <1>3, <1>4, <2>1, <2>2, <2>3, ShiftOne
<1>7. Follows(h, p, Mine(t)) /\ Calm(p) /\ p \in Seq(AllSteps)
  <2>1. Apt(h, a)
    BY <1>1, <1>2, <1>3, <1>4 DEF Apt, Suits, Lasts, TaskDoneOnLane, Forces, EndOfForce, LaneSteps, Dispatcher, LateSteps
  <2>2. /\ Covered(h, a, Mine(t))
    BY <1>1, <1>2, <1>3, <1>4 DEF Covered, Backs, Passing, Waits, Counting
  <2>3. /\ a[1] \notin {"reload", "unpark"}
        /\ h[1] \in Waits => a[1] \in Waits /\ a[2] = h[2]
        /\ h[1] \in TaskEnds => a[1] \in TaskEnds
        /\ a[1] \notin Dispatcher \cup ForSets \cup {"destroyAll"}
    BY <1>1, <1>2, <1>3, <1>4 DEF Waits, TaskEnds, Lasts, Firsts, Dispatcher, ForSets, TaskDoneOnLane
  <2> HIDE DEF h, a
  <2>4. Follows(h, <<a>>, Mine(t)) /\ Calm(<<a>>) /\ <<a>> \in Seq(AllSteps)
    BY <1>4, <2>1, <2>2, <2>3, FollowsOne
  <2> QED
    BY <2>4
<1>8. /\ \A G : StepsIn(G) \in Nat
      /\ entry[e].count \in Nat /\ entry[e].state \in {"Loading", "Ready", "Failed"}
      /\ Cardinality(Holders(e)) \in Nat /\ Count(Waiting, {e}) \in Nat /\ Count(replaced, {e}) \in Nat
  BY <1>1, <1>2, <1>3, Amounts
<1>9. /\ StepsIn(For(Loaders, e)) = StepsIn(For(Unparkers, e)) + StepsIn(For(OtherLoaders, e))
      /\ StepsIn(For(PendingKinds, e)) = StepsIn(For(Unparkers, e)) + StepsIn(For({"parkOrLoad"}, e))
  BY <1>1, <1>2, <1>3, LoadersAre DEF Counting, Loaders, Comers, Tasking, Unparkers, PendingKinds, OtherLoaders
<1>10. /\ new \in EntryType /\ new.life = "live"
      /\ new.count = (entry[e].count + 1)
      /\ new.queued = entry[e].queued
      /\ new.parked = entry[e].parked
      /\ new.claimed = entry[e].claimed
      /\ new.state = entry[e].state
      /\ new.pending = entry[e].pending
  <2>1. /\ new.life = "live"
        /\ new.count = (entry[e].count + 1)
        /\ new.queued = entry[e].queued
        /\ new.parked = entry[e].parked
        /\ new.claimed = entry[e].claimed
        /\ new.state = entry[e].state
        /\ new.pending = entry[e].pending
    BY <1>1, <1>2, <1>3 DEF EntryType
  <2>2. /\ entry[e].count + 1 \in Nat
    BY <1>1, <1>2, <1>3, <1>8
  <2>3. new \in EntryType
    BY <1>1, <1>2, <1>3, <1>8, <2>2 DEF EntryType
  <2> QED
    BY <2>1, <2>3
<1> HIDE DEF new, p, h, a
<1>11. Settles(e, new, 1, 0, 0, 0, 0, 0, 0)
  <2>1. Queue(e) \in Nat /\ (~gone => Queue(e) = One(entry[e].queued) /\ (~entry[e].queued => entry[e].count # 0))
    BY <1>1, <1>2, <1>3, <1>8 DEF Queue, QueueOk, One
  <2>2. Having(e) + 1 = new.count
    BY <1>1, <1>2, <1>3, <1>8, <1>9, <1>10 DEF One, CountOk, Having
  <2>3. Loads(e) + 0 + One(new.parked) - One(entry[e].parked) = One(new.state = "Loading" /\ new.claimed)
    BY <1>1, <1>2, <1>3, <1>8, <1>9, <1>10 DEF One, LoadOk, Loads
  <2>4. ~new.claimed => new.pending /\ new.state = "Loading" /\ Coming(e) + 0 # 0
    BY <1>1, <1>2, <1>3, <1>8, <1>9, <1>10 DEF One, LoadOk, Coming
  <2>5. TasksOf(e) + 0 + One(new.parked) - One(entry[e].parked) <= 1
    <3>1. TasksOf(e) \in Int /\ TasksOf(e) <= 1
      BY <1>1, <1>2, <1>3, <1>8 DEF LoadOk, TasksOf, One
    <3> QED
      BY <1>1, <1>2, <1>3, <1>10, <3>1 DEF One
  <2>6. new.parked \/ StepsIn(For(Unparkers, e)) + 0 # 0 => new.pending
    BY <1>1, <1>2, <1>3, <1>8, <1>9, <1>10 DEF One, LoadOk, Loads, Unparkers
  <2>7. new.pending => ~new.claimed \/ new.parked \/ StepsIn(For(PendingKinds, e)) + 0 # 0
    BY <1>1, <1>2, <1>3, <1>8, <1>9, <1>10 DEF One, LoadOk, Loads, PendingKinds
  <2>8. ~gone => Queue(e) + 0 = One(new.queued) /\ (~new.queued => new.count # 0)
    BY <1>1, <1>2, <1>3, <1>8, <1>10, <2>1 DEF One
  <2> QED
    BY <2>2, <2>3, <2>4, <2>5, <2>6, <2>7, <2>8 DEF Settles
<1>12. NamesOnly(h, p, e) /\ Balanced
  <2>1. Mere(p, e) /\ h[1] \notin TaskSteps
    BY <1>1, <1>2, <1>3, <1>4 DEF Mere, p, TaskSteps, EntryKinds, Counting, Passing, Waits
  <2> QED
    BY <1>1, <1>2, <1>3, <1>5, <1>7, <2>1, MereSteps DEF h
<1>13. /\ {0, 1} \subseteq Int
       /\ h[1] \notin Dispatcher \cup {"dispatch", "destroyAll"}
       /\ new.count # 0 => entry[e].count # 0 \/ e \in published \cup fresh
       /\ h[1] \notin Waits
       /\ new.state = "Loading" => entry[e].state = "Loading"
  BY <1>1, <1>2, <1>3, <1>8, <1>10 DEF Dispatcher, Waits
<1> QED
  BY <1>1, <1>2, <1>3, <1>5, <1>6, <1>7, <1>10, <1>11, <1>12, <1>13, EntryMoves DEF h

LEMMA AcquireLoad ==
  ASSUME CacheInv, NEW t \in Threads, At(t, "lookup") \/ At(t, "bindPublished"), NEW op, op = More(t),
         NEW e \in published \cup fresh, AcquireFound(t, op, e), OnlyEntries, ~entry[e].parked, op = "load"
  PROVE  CacheInv'
<1> DEFINE h == todo[t][1]
           new == [entry[e] EXCEPT !.count = @ + 1]
           a == <<"wait", e>>
           b == <<"throwOrKeep", e>>
           p == <<a, b>>
<1>1. /\ Typed /\ todo[t] # <<>> /\ h \in AllSteps /\ h[1] \in {"lookup", "bindPublished"} /\ op \in Ops /\ e \in Entries
      /\ h[1] = "bindPublished" => op \in {"bind", "find"}
  <2>1. Typed /\ todo[t] # <<>> /\ h[1] \in {"lookup", "bindPublished"}
    BY DEF CacheInv, At
  <2>2. h \in AllSteps
    BY <2>1, EmptySeq DEF Typed
  <2> QED
    BY <2>1, <2>2, StepTypes DEF More, Ops, Typed, TypeOK
<1>2. /\ e \in Live /\ entry[e] \in EntryType /\ entry[e].life = "live"
      /\ CountOk(e) /\ LoadOk(e) /\ QueueOk(e)
  <2>1. e \in Live
    BY <1>1 DEF CacheInv, Unknown
  <2> QED
    BY <1>1, <2>1 DEF CacheInv, Accounts, Live, Typed, TypeOK, EntryType
<1>3. /\ h[1] \in {"lookup", "bindPublished"} /\ h[3] = op /\ h \in AllSteps
      /\ \A x \in Entries : h \notin Naming(x)
  BY <1>1 DEF More, Naming, Takes, ForSets, Counting, Passing, Waits
<1>4. /\ a \in AllSteps /\ a[1] = "wait" /\ a[2] = e
      /\ b \in AllSteps /\ b[1] = "throwOrKeep" /\ b[2] = e
  BY <1>1, StepsAre DEF EntryKinds, Counting, Passing, Waits, Ops
<1>5. Then(t, p) /\ entry' = [entry EXCEPT ![e] = new] /\ OnlyEntries
  BY <1>1, <1>2 DEF AcquireFound, Change, Pass, Found
<1>6. Shifts(e, 1, 0, 1, 0, 0, 0, 0)
  <2>1. /\ Of(h, Counting, e) = 0 /\ Of(h, Loaders, e) = 0 /\ Of(h, Comers, e) = 0 /\ Of(h, Tasking, e) = 0 /\ Of(h, Unparkers, e) = 0 /\ Of(h, PendingKinds, e) = 0 /\ Of(h, {"enqueue"}, e) = 0
        /\ Of(a, Counting, e) = 0 /\ Of(a, Loaders, e) = 0 /\ Of(a, Comers, e) = 1 /\ Of(a, Tasking, e) = 0 /\ Of(a, Unparkers, e) = 0 /\ Of(a, PendingKinds, e) = 0 /\ Of(a, {"enqueue"}, e) = 0
        /\ Of(b, Counting, e) = 1 /\ Of(b, Loaders, e) = 0 /\ Of(b, Comers, e) = 0 /\ Of(b, Tasking, e) = 0 /\ Of(b, Unparkers, e) = 0 /\ Of(b, PendingKinds, e) = 0 /\ Of(b, {"enqueue"}, e) = 0
    BY <1>1, <1>2, <1>3, <1>4 DEF Of, One, Counting, Loaders, Comers, Tasking, Unparkers, PendingKinds
  <2>2. {h[1], a[1], b[1]} \cap ForSets = {}
    BY <1>1, <1>2, <1>3, <1>4 DEF ForSets
  <2> HIDE DEF h, a, b
  <2>3. h = todo[t][1] /\ Then(t, <<a, b>>)
    BY <1>5 DEF h
  <2> QED
    BY <1>1, <1>2, <1>3, <1>4, <2>1, <2>2, <2>3, ShiftTwo
<1>7. Follows(h, p, Mine(t)) /\ Calm(p) /\ p \in Seq(AllSteps)
  <2>1. Apt(h, a) /\ Apt(h, b)
    BY <1>1, <1>2, <1>3, <1>4 DEF Apt, Suits, Lasts, TaskDoneOnLane, Forces, EndOfForce, LaneSteps, Dispatcher, LateSteps
  <2>2. /\ (Covered(h, a, Mine(t)) \/ Backs(a, b))
        /\ Covered(h, b, Mine(t))
    BY <1>1, <1>2, <1>3, <1>4 DEF Covered, Backs, Passing, Waits, Counting
  <2>3. /\ a[1] \notin {"reload"} \cup Lasts
        /\ (a[1] = "unpark" => b[1] \in {"wait", "claimFree"} /\ b[2] = a[2])
        /\ b[1] \notin {"unpark"} \cup Firsts
        /\ (b[1] = "reload" => a[1] \in Waits /\ a[2] = b[2])
        /\ ~(a = TaskDoneOnLane /\ b = TaskDoneOnLane)
        /\ (h[1] \in Waits => b[1] \in Waits /\ b[2] = h[2])
        /\ (h[1] \in TaskEnds => b[1] \in TaskEnds)
        /\ {a[1], b[1]} \cap (Dispatcher \cup ForSets \cup {"destroyAll"}) = {}
    BY <1>1, <1>2, <1>3, <1>4 DEF Waits, TaskEnds, Lasts, Firsts, Dispatcher, ForSets, TaskDoneOnLane
  <2> HIDE DEF h, a, b
  <2>4. Follows(h, <<a, b>>, Mine(t)) /\ Calm(<<a, b>>) /\ <<a, b>> \in Seq(AllSteps)
    BY <1>4, <2>1, <2>2, <2>3, FollowsTwo
  <2> QED
    BY <2>4
<1>8. /\ \A G : StepsIn(G) \in Nat
      /\ entry[e].count \in Nat /\ entry[e].state \in {"Loading", "Ready", "Failed"}
      /\ Cardinality(Holders(e)) \in Nat /\ Count(Waiting, {e}) \in Nat /\ Count(replaced, {e}) \in Nat
  BY <1>1, <1>2, <1>3, Amounts
<1>9. /\ StepsIn(For(Loaders, e)) = StepsIn(For(Unparkers, e)) + StepsIn(For(OtherLoaders, e))
      /\ StepsIn(For(PendingKinds, e)) = StepsIn(For(Unparkers, e)) + StepsIn(For({"parkOrLoad"}, e))
  BY <1>1, <1>2, <1>3, LoadersAre DEF Counting, Loaders, Comers, Tasking, Unparkers, PendingKinds, OtherLoaders
<1>10. /\ new \in EntryType /\ new.life = "live"
      /\ new.count = (entry[e].count + 1)
      /\ new.queued = entry[e].queued
      /\ new.parked = entry[e].parked
      /\ new.claimed = entry[e].claimed
      /\ new.state = entry[e].state
      /\ new.pending = entry[e].pending
  <2>1. /\ new.life = "live"
        /\ new.count = (entry[e].count + 1)
        /\ new.queued = entry[e].queued
        /\ new.parked = entry[e].parked
        /\ new.claimed = entry[e].claimed
        /\ new.state = entry[e].state
        /\ new.pending = entry[e].pending
    BY <1>1, <1>2, <1>3 DEF EntryType
  <2>2. /\ entry[e].count + 1 \in Nat
    BY <1>1, <1>2, <1>3, <1>8
  <2>3. new \in EntryType
    BY <1>1, <1>2, <1>3, <1>8, <2>2 DEF EntryType
  <2> QED
    BY <2>1, <2>3
<1> HIDE DEF new, p, h, a, b
<1>11. Settles(e, new, 1, 0, 1, 0, 0, 0, 0)
  <2>1. Queue(e) \in Nat /\ (~gone => Queue(e) = One(entry[e].queued) /\ (~entry[e].queued => entry[e].count # 0))
    BY <1>1, <1>2, <1>3, <1>8 DEF Queue, QueueOk, One
  <2>2. Having(e) + 1 = new.count
    BY <1>1, <1>2, <1>3, <1>8, <1>9, <1>10 DEF One, CountOk, Having
  <2>3. Loads(e) + 0 + One(new.parked) - One(entry[e].parked) = One(new.state = "Loading" /\ new.claimed)
    BY <1>1, <1>2, <1>3, <1>8, <1>9, <1>10 DEF One, LoadOk, Loads
  <2>4. ~new.claimed => new.pending /\ new.state = "Loading" /\ Coming(e) + 1 # 0
    BY <1>1, <1>2, <1>3, <1>8, <1>9, <1>10 DEF One, LoadOk, Coming
  <2>5. TasksOf(e) + 0 + One(new.parked) - One(entry[e].parked) <= 1
    <3>1. TasksOf(e) \in Int /\ TasksOf(e) <= 1
      BY <1>1, <1>2, <1>3, <1>8 DEF LoadOk, TasksOf, One
    <3> QED
      BY <1>1, <1>2, <1>3, <1>10, <3>1 DEF One
  <2>6. new.parked \/ StepsIn(For(Unparkers, e)) + 0 # 0 => new.pending
    BY <1>1, <1>2, <1>3, <1>8, <1>9, <1>10 DEF One, LoadOk, Loads, Unparkers
  <2>7. new.pending => ~new.claimed \/ new.parked \/ StepsIn(For(PendingKinds, e)) + 0 # 0
    BY <1>1, <1>2, <1>3, <1>8, <1>9, <1>10 DEF One, LoadOk, Loads, PendingKinds
  <2>8. ~gone => Queue(e) + 0 = One(new.queued) /\ (~new.queued => new.count # 0)
    BY <1>1, <1>2, <1>3, <1>8, <1>10, <2>1 DEF One
  <2> QED
    BY <2>2, <2>3, <2>4, <2>5, <2>6, <2>7, <2>8 DEF Settles
<1>12. NamesOnly(h, p, e) /\ Balanced
  <2>1. Mere(p, e) /\ h[1] \notin TaskSteps
    BY <1>1, <1>2, <1>3, <1>4 DEF Mere, p, TaskSteps, EntryKinds, Counting, Passing, Waits
  <2> QED
    BY <1>1, <1>2, <1>3, <1>5, <1>7, <2>1, MereSteps DEF h
<1>13. /\ {0, 1} \subseteq Int
       /\ h[1] \notin Dispatcher \cup {"dispatch", "destroyAll"}
       /\ new.count # 0 => entry[e].count # 0 \/ e \in published \cup fresh
       /\ h[1] \notin Waits
       /\ new.state = "Loading" => entry[e].state = "Loading"
  BY <1>1, <1>2, <1>3, <1>8, <1>10 DEF Dispatcher, Waits
<1> QED
  BY <1>1, <1>2, <1>3, <1>5, <1>6, <1>7, <1>10, <1>11, <1>12, <1>13, EntryMoves DEF h

LEMMA AcquireForce ==
  ASSUME CacheInv, NEW t \in Threads, At(t, "lookup") \/ At(t, "bindPublished"), NEW op, op = More(t),
         NEW e \in published \cup fresh, AcquireFound(t, op, e), OnlyEntries, ~entry[e].parked, op = "forceLoad"
  PROVE  CacheInv'
<1> DEFINE h == todo[t][1]
           new == [entry[e] EXCEPT !.count = @ + 1]
           a == <<"wait", e>>
           b == <<"reload", e>>
           p == <<a, b>>
<1>1. /\ Typed /\ todo[t] # <<>> /\ h \in AllSteps /\ h[1] \in {"lookup", "bindPublished"} /\ op \in Ops /\ e \in Entries
      /\ h[1] = "bindPublished" => op \in {"bind", "find"}
  <2>1. Typed /\ todo[t] # <<>> /\ h[1] \in {"lookup", "bindPublished"}
    BY DEF CacheInv, At
  <2>2. h \in AllSteps
    BY <2>1, EmptySeq DEF Typed
  <2> QED
    BY <2>1, <2>2, StepTypes DEF More, Ops, Typed, TypeOK
<1>2. /\ e \in Live /\ entry[e] \in EntryType /\ entry[e].life = "live"
      /\ CountOk(e) /\ LoadOk(e) /\ QueueOk(e)
  <2>1. e \in Live
    BY <1>1 DEF CacheInv, Unknown
  <2> QED
    BY <1>1, <2>1 DEF CacheInv, Accounts, Live, Typed, TypeOK, EntryType
<1>3. /\ h[1] \in {"lookup", "bindPublished"} /\ h[3] = op /\ h \in AllSteps
      /\ \A x \in Entries : h \notin Naming(x)
  BY <1>1 DEF More, Naming, Takes, ForSets, Counting, Passing, Waits
<1>4. /\ a \in AllSteps /\ a[1] = "wait" /\ a[2] = e
      /\ b \in AllSteps /\ b[1] = "reload" /\ b[2] = e
  BY <1>1, StepsAre DEF EntryKinds, Counting, Passing, Waits, Ops
<1>5. Then(t, p) /\ entry' = [entry EXCEPT ![e] = new] /\ OnlyEntries
  BY <1>1, <1>2 DEF AcquireFound, Change, Pass, Found
<1>6. Shifts(e, 1, 0, 1, 0, 0, 0, 0)
  <2>1. /\ Of(h, Counting, e) = 0 /\ Of(h, Loaders, e) = 0 /\ Of(h, Comers, e) = 0 /\ Of(h, Tasking, e) = 0 /\ Of(h, Unparkers, e) = 0 /\ Of(h, PendingKinds, e) = 0 /\ Of(h, {"enqueue"}, e) = 0
        /\ Of(a, Counting, e) = 0 /\ Of(a, Loaders, e) = 0 /\ Of(a, Comers, e) = 1 /\ Of(a, Tasking, e) = 0 /\ Of(a, Unparkers, e) = 0 /\ Of(a, PendingKinds, e) = 0 /\ Of(a, {"enqueue"}, e) = 0
        /\ Of(b, Counting, e) = 1 /\ Of(b, Loaders, e) = 0 /\ Of(b, Comers, e) = 0 /\ Of(b, Tasking, e) = 0 /\ Of(b, Unparkers, e) = 0 /\ Of(b, PendingKinds, e) = 0 /\ Of(b, {"enqueue"}, e) = 0
    BY <1>1, <1>2, <1>3, <1>4 DEF Of, One, Counting, Loaders, Comers, Tasking, Unparkers, PendingKinds
  <2>2. {h[1], a[1], b[1]} \cap ForSets = {}
    BY <1>1, <1>2, <1>3, <1>4 DEF ForSets
  <2> HIDE DEF h, a, b
  <2>3. h = todo[t][1] /\ Then(t, <<a, b>>)
    BY <1>5 DEF h
  <2> QED
    BY <1>1, <1>2, <1>3, <1>4, <2>1, <2>2, <2>3, ShiftTwo
<1>7. Follows(h, p, Mine(t)) /\ Calm(p) /\ p \in Seq(AllSteps)
  <2>1. Apt(h, a) /\ Apt(h, b)
    BY <1>1, <1>2, <1>3, <1>4 DEF Apt, Suits, Lasts, TaskDoneOnLane, Forces, EndOfForce, LaneSteps, Dispatcher, LateSteps
  <2>2. /\ (Covered(h, a, Mine(t)) \/ Backs(a, b))
        /\ Covered(h, b, Mine(t))
    BY <1>1, <1>2, <1>3, <1>4 DEF Covered, Backs, Passing, Waits, Counting
  <2>3. /\ a[1] \notin {"reload"} \cup Lasts
        /\ (a[1] = "unpark" => b[1] \in {"wait", "claimFree"} /\ b[2] = a[2])
        /\ b[1] \notin {"unpark"} \cup Firsts
        /\ (b[1] = "reload" => a[1] \in Waits /\ a[2] = b[2])
        /\ ~(a = TaskDoneOnLane /\ b = TaskDoneOnLane)
        /\ (h[1] \in Waits => b[1] \in Waits /\ b[2] = h[2])
        /\ (h[1] \in TaskEnds => b[1] \in TaskEnds)
        /\ {a[1], b[1]} \cap (Dispatcher \cup ForSets \cup {"destroyAll"}) = {}
    BY <1>1, <1>2, <1>3, <1>4 DEF Waits, TaskEnds, Lasts, Firsts, Dispatcher, ForSets, TaskDoneOnLane
  <2> HIDE DEF h, a, b
  <2>4. Follows(h, <<a, b>>, Mine(t)) /\ Calm(<<a, b>>) /\ <<a, b>> \in Seq(AllSteps)
    BY <1>4, <2>1, <2>2, <2>3, FollowsTwo
  <2> QED
    BY <2>4
<1>8. /\ \A G : StepsIn(G) \in Nat
      /\ entry[e].count \in Nat /\ entry[e].state \in {"Loading", "Ready", "Failed"}
      /\ Cardinality(Holders(e)) \in Nat /\ Count(Waiting, {e}) \in Nat /\ Count(replaced, {e}) \in Nat
  BY <1>1, <1>2, <1>3, Amounts
<1>9. /\ StepsIn(For(Loaders, e)) = StepsIn(For(Unparkers, e)) + StepsIn(For(OtherLoaders, e))
      /\ StepsIn(For(PendingKinds, e)) = StepsIn(For(Unparkers, e)) + StepsIn(For({"parkOrLoad"}, e))
  BY <1>1, <1>2, <1>3, LoadersAre DEF Counting, Loaders, Comers, Tasking, Unparkers, PendingKinds, OtherLoaders
<1>10. /\ new \in EntryType /\ new.life = "live"
      /\ new.count = (entry[e].count + 1)
      /\ new.queued = entry[e].queued
      /\ new.parked = entry[e].parked
      /\ new.claimed = entry[e].claimed
      /\ new.state = entry[e].state
      /\ new.pending = entry[e].pending
  <2>1. /\ new.life = "live"
        /\ new.count = (entry[e].count + 1)
        /\ new.queued = entry[e].queued
        /\ new.parked = entry[e].parked
        /\ new.claimed = entry[e].claimed
        /\ new.state = entry[e].state
        /\ new.pending = entry[e].pending
    BY <1>1, <1>2, <1>3 DEF EntryType
  <2>2. /\ entry[e].count + 1 \in Nat
    BY <1>1, <1>2, <1>3, <1>8
  <2>3. new \in EntryType
    BY <1>1, <1>2, <1>3, <1>8, <2>2 DEF EntryType
  <2> QED
    BY <2>1, <2>3
<1> HIDE DEF new, p, h, a, b
<1>11. Settles(e, new, 1, 0, 1, 0, 0, 0, 0)
  <2>1. Queue(e) \in Nat /\ (~gone => Queue(e) = One(entry[e].queued) /\ (~entry[e].queued => entry[e].count # 0))
    BY <1>1, <1>2, <1>3, <1>8 DEF Queue, QueueOk, One
  <2>2. Having(e) + 1 = new.count
    BY <1>1, <1>2, <1>3, <1>8, <1>9, <1>10 DEF One, CountOk, Having
  <2>3. Loads(e) + 0 + One(new.parked) - One(entry[e].parked) = One(new.state = "Loading" /\ new.claimed)
    BY <1>1, <1>2, <1>3, <1>8, <1>9, <1>10 DEF One, LoadOk, Loads
  <2>4. ~new.claimed => new.pending /\ new.state = "Loading" /\ Coming(e) + 1 # 0
    BY <1>1, <1>2, <1>3, <1>8, <1>9, <1>10 DEF One, LoadOk, Coming
  <2>5. TasksOf(e) + 0 + One(new.parked) - One(entry[e].parked) <= 1
    <3>1. TasksOf(e) \in Int /\ TasksOf(e) <= 1
      BY <1>1, <1>2, <1>3, <1>8 DEF LoadOk, TasksOf, One
    <3> QED
      BY <1>1, <1>2, <1>3, <1>10, <3>1 DEF One
  <2>6. new.parked \/ StepsIn(For(Unparkers, e)) + 0 # 0 => new.pending
    BY <1>1, <1>2, <1>3, <1>8, <1>9, <1>10 DEF One, LoadOk, Loads, Unparkers
  <2>7. new.pending => ~new.claimed \/ new.parked \/ StepsIn(For(PendingKinds, e)) + 0 # 0
    BY <1>1, <1>2, <1>3, <1>8, <1>9, <1>10 DEF One, LoadOk, Loads, PendingKinds
  <2>8. ~gone => Queue(e) + 0 = One(new.queued) /\ (~new.queued => new.count # 0)
    BY <1>1, <1>2, <1>3, <1>8, <1>10, <2>1 DEF One
  <2> QED
    BY <2>2, <2>3, <2>4, <2>5, <2>6, <2>7, <2>8 DEF Settles
<1>12. NamesOnly(h, p, e) /\ Balanced
  <2>1. Mere(p, e) /\ h[1] \notin TaskSteps
    BY <1>1, <1>2, <1>3, <1>4 DEF Mere, p, TaskSteps, EntryKinds, Counting, Passing, Waits
  <2> QED
    BY <1>1, <1>2, <1>3, <1>5, <1>7, <2>1, MereSteps DEF h
<1>13. /\ {0, 1} \subseteq Int
       /\ h[1] \notin Dispatcher \cup {"dispatch", "destroyAll"}
       /\ new.count # 0 => entry[e].count # 0 \/ e \in published \cup fresh
       /\ h[1] \notin Waits
       /\ new.state = "Loading" => entry[e].state = "Loading"
  BY <1>1, <1>2, <1>3, <1>8, <1>10 DEF Dispatcher, Waits
<1> QED
  BY <1>1, <1>2, <1>3, <1>5, <1>6, <1>7, <1>10, <1>11, <1>12, <1>13, EntryMoves DEF h

LEMMA BytesReadStep ==
  ASSUME CacheInv, NEW t \in Threads, BytesRead(t)
  PROVE  CacheInv'
<1>1. PICK e : e = Arg(t) /\ "bytesRead" \in EntryKinds /\ At(t, "bytesRead")
  BY DEF BytesRead, EntryKinds, Counting, Passing, Waits
<1> DEFINE h == todo[t][1]
           new == [Me(t) EXCEPT !.pending = TRUE, !.claimed = FALSE]
           a == <<"readingOver", e>>
           b == <<"startTask", e>>
           c == <<"readDone", None>>
           p == <<a, b, c>>
<1>2. /\ Typed /\ todo[t] # <<>> /\ h \in AllSteps /\ h[1] = "bytesRead" /\ h[2] = e /\ h[3] = More(t)
      /\ e \in Live /\ e \in Entries
      /\ Me(t) = entry[e] /\ Me(t) \in EntryType /\ Me(t).life = "live"
      /\ CountOk(e) /\ LoadOk(e) /\ QueueOk(e)
      /\ \A K : "bytesRead" \in K => StepsIn(For(K, e)) # 0
      /\ \A x \in Entries \ {e} : h \notin Naming(x)
  BY <1>1, EntryHead DEF More
<1>3. entry[e].count # 0
  BY <1>1, HeadUsed DEF EntryKinds, Counting, Passing, Waits
<1>4. /\ a \in AllSteps /\ a[1] = "readingOver" /\ a[2] = e
      /\ b \in AllSteps /\ b[1] = "startTask" /\ b[2] = e
      /\ c \in AllSteps /\ c[1] = "readDone" /\ c[2] = None
  BY <1>2, StepsAre DEF EntryKinds, Counting, Passing, Waits, Ops, ForNobody
<1>5. Then(t, p) /\ entry' = [entry EXCEPT ![e] = new] /\ OnlyEntries
  BY <1>1, <1>2 DEF BytesRead, Change, Pass
<1>6. Shifts(e, 0, -1, 1, 0, 0, 0, 0)
  <2>1. /\ Of(h, Counting, e) = 1 /\ Of(h, Loaders, e) = 1 /\ Of(h, Comers, e) = 0 /\ Of(h, Tasking, e) = 1 /\ Of(h, Unparkers, e) = 0 /\ Of(h, PendingKinds, e) = 0 /\ Of(h, {"enqueue"}, e) = 0
        /\ Of(a, Counting, e) = 0 /\ Of(a, Loaders, e) = 0 /\ Of(a, Comers, e) = 0 /\ Of(a, Tasking, e) = 0 /\ Of(a, Unparkers, e) = 0 /\ Of(a, PendingKinds, e) = 0 /\ Of(a, {"enqueue"}, e) = 0
        /\ Of(b, Counting, e) = 1 /\ Of(b, Loaders, e) = 0 /\ Of(b, Comers, e) = 1 /\ Of(b, Tasking, e) = 1 /\ Of(b, Unparkers, e) = 0 /\ Of(b, PendingKinds, e) = 0 /\ Of(b, {"enqueue"}, e) = 0
        /\ Of(c, Counting, e) = 0 /\ Of(c, Loaders, e) = 0 /\ Of(c, Comers, e) = 0 /\ Of(c, Tasking, e) = 0 /\ Of(c, Unparkers, e) = 0 /\ Of(c, PendingKinds, e) = 0 /\ Of(c, {"enqueue"}, e) = 0
    BY <1>2, <1>4 DEF Of, One, Counting, Loaders, Comers, Tasking, Unparkers, PendingKinds
  <2>2. {h[1], a[1], b[1], c[1]} \cap ForSets = {}
    BY <1>2, <1>4 DEF ForSets
  <2> HIDE DEF h, a, b, c
  <2>3. h = todo[t][1] /\ Then(t, <<a, b, c>>)
    BY <1>5 DEF h
  <2> QED
    BY <1>2, <1>4, <2>1, <2>2, <2>3, ShiftThree
<1>7. Follows(h, p, Mine(t)) /\ Calm(p) /\ p \in Seq(AllSteps)
  <2>1. Apt(h, a) /\ Apt(h, b) /\ Apt(h, c)
    BY <1>2, <1>4 DEF Apt, Suits, Lasts, TaskDoneOnLane, Forces, EndOfForce, LaneSteps, Dispatcher, LateSteps
  <2>2. /\ (Covered(h, a, Mine(t)) \/ Backs(a, b) \/ Backs(a, c))
        /\ (Covered(h, b, Mine(t)) \/ Backs(b, c))
        /\ Covered(h, c, Mine(t))
    BY <1>2, <1>4 DEF Covered, Backs, Passing, Waits, Counting
  <2>3. /\ a[1] \notin {"reload"} \cup Lasts
        /\ b[1] \notin {"reload", "unpark"} \cup Firsts \cup Lasts
        /\ c[1] \notin {"reload", "unpark"} \cup Firsts
        /\ (a[1] = "unpark" => b[1] \in {"wait", "claimFree"} /\ b[2] = a[2])
        /\ a # TaskDoneOnLane
        /\ b # TaskDoneOnLane
        /\ (h[1] \in Waits => c[1] \in Waits /\ c[2] = h[2])
        /\ h[1] \notin TaskEnds
        /\ {a[1], b[1], c[1]} \cap (Dispatcher \cup ForSets \cup {"destroyAll"}) = {}
    BY <1>2, <1>4 DEF Waits, TaskEnds, Lasts, Firsts, Dispatcher, ForSets, TaskDoneOnLane
  <2> HIDE DEF h, a, b, c
  <2>4. Follows(h, <<a, b, c>>, Mine(t)) /\ Calm(<<a, b, c>>) /\ <<a, b, c>> \in Seq(AllSteps)
    BY <1>4, <2>1, <2>2, <2>3, FollowsThree
  <2> QED
    BY <2>4
<1>8. /\ \A G : StepsIn(G) \in Nat
      /\ entry[e].count \in Nat /\ entry[e].state \in {"Loading", "Ready", "Failed"}
      /\ Cardinality(Holders(e)) \in Nat /\ Count(Waiting, {e}) \in Nat /\ Count(replaced, {e}) \in Nat
  BY <1>2, Amounts
<1>9. /\ StepsIn(For(Loaders, e)) = StepsIn(For(Unparkers, e)) + StepsIn(For(OtherLoaders, e))
      /\ StepsIn(For(PendingKinds, e)) = StepsIn(For(Unparkers, e)) + StepsIn(For({"parkOrLoad"}, e))
      /\ StepsIn(For(Counting, e)) # 0
      /\ StepsIn(For(Loaders, e)) # 0
      /\ StepsIn(For(Tasking, e)) # 0
      /\ StepsIn(For(OtherLoaders, e)) # 0
  BY <1>2, LoadersAre DEF Counting, Loaders, Comers, Tasking, Unparkers, PendingKinds, OtherLoaders
<1>10. /\ new \in EntryType /\ new.life = "live"
      /\ new.count = entry[e].count
      /\ new.queued = entry[e].queued
      /\ new.parked = entry[e].parked
      /\ new.claimed = FALSE
      /\ new.state = entry[e].state
      /\ new.pending = TRUE
  <2>1. /\ new.life = "live"
        /\ new.count = entry[e].count
        /\ new.queued = entry[e].queued
        /\ new.parked = entry[e].parked
        /\ new.claimed = FALSE
        /\ new.state = entry[e].state
        /\ new.pending = TRUE
    BY <1>2 DEF EntryType
  <2>2. new \in EntryType
    BY <1>2, <1>8, <1>3 DEF EntryType
  <2> QED
    BY <2>1, <2>2
<1> HIDE DEF new, p, h, a, b, c
<1>11. Settles(e, new, 0, -1, 1, 0, 0, 0, 0)
  <2>1. Queue(e) \in Nat /\ (~gone => Queue(e) = One(entry[e].queued) /\ (~entry[e].queued => entry[e].count # 0))
    BY <1>2, <1>8 DEF Queue, QueueOk, One
  <2>2. entry[e].state = "Loading" /\ entry[e].claimed /\ ~entry[e].parked /\ StepsIn(For(Loaders, e)) = 1 /\ Loads(e) = 1
    <3>1. StepsIn(For(Loaders, e)) \in Nat \ {0} /\ Loads(e) = One(entry[e].state = "Loading" /\ entry[e].claimed)
      BY <1>2, <1>8, <1>9 DEF LoadOk
    <3> QED
      BY <3>1 DEF Loads, One
  <2>3. Having(e) + 0 = new.count
    BY <1>2, <1>8, <1>9, <1>10, <1>3 DEF One, CountOk, Having
  <2>4. Loads(e) - 1 + One(new.parked) - One(entry[e].parked) = One(new.state = "Loading" /\ new.claimed)
    BY <1>10, <2>2 DEF One
  <2>5. ~new.claimed => new.pending /\ new.state = "Loading" /\ Coming(e) + 1 # 0
    BY <1>2, <1>8, <1>9, <1>10, <1>3, <2>2, SMTT(60) DEF One, LoadOk, Coming
  <2>6. TasksOf(e) + 0 + One(new.parked) - One(entry[e].parked) <= 1
    <3>1. TasksOf(e) \in Int /\ TasksOf(e) <= 1
      BY <1>2, <1>8 DEF LoadOk, TasksOf, One
    <3> QED
      BY <1>2, <1>10, <3>1, <2>2 DEF One
  <2>7. new.parked \/ StepsIn(For(Unparkers, e)) + 0 # 0 => new.pending
    BY <1>2, <1>8, <1>9, <1>10, <1>3, <2>2 DEF One, LoadOk, Loads, Unparkers
  <2>8. new.pending => ~new.claimed \/ new.parked \/ StepsIn(For(PendingKinds, e)) + 0 # 0
    BY <1>2, <1>8, <1>9, <1>10, <1>3, <2>2 DEF One, LoadOk, Loads, PendingKinds
  <2>9. ~gone => Queue(e) + 0 = One(new.queued) /\ (~new.queued => new.count # 0)
    BY <1>2, <1>8, <1>10, <2>1, <1>3 DEF One
  <2> QED
    BY <2>3, <2>4, <2>5, <2>6, <2>7, <2>8, <2>9 DEF Settles
<1>12. NamesOnly(h, p, e) /\ Balanced
  <2>1. NamesOnly(h, p, e)
    <3>1. \A x \in Entries \ {e} : a \notin Naming(x) /\ b \notin Naming(x) /\ c \notin Naming(x)
      BY <1>4 DEF Naming, Takes, ForSets, Counting, Passing, Waits
    <3> QED
      BY <1>2, <3>1 DEF NamesOnly, p
  <2>2. /\ a \notin Named(TaskSteps) /\ b \notin Named(TaskSteps) /\ c \in Named(TaskSteps) /\ h \in Named(TaskSteps)
        /\ a \notin Named(ReadSteps) /\ b \notin Named(ReadSteps) /\ c \in Named(ReadSteps) /\ h \in Named(ReadSteps)
        /\ {a, b, c, h} \cap {TaskDoneOnLane} = {}
    BY <1>2, <1>4 DEF Named, TaskSteps, ReadSteps, TaskDoneOnLane
  <2>3. \A G : StepsIn(G)' = StepsIn(G) - One(h \in G) + One(a \in G) + One(b \in G) + One(c \in G)
    BY <1>2, <1>4, <1>5, ThenFew DEF h, p
  <2>4. Balanced
    <3>1. \A G : StepsIn(G) \in Nat
      BY <1>2, Amounts
    <3>2. /\ StepsIn(Named(TaskSteps))' = StepsIn(Named(TaskSteps)) - 1 + 0 + 0 + 1
          /\ StepsIn(Named(ReadSteps))' = StepsIn(Named(ReadSteps)) - 1 + 0 + 0 + 1
          /\ StepsIn({TaskDoneOnLane})' = StepsIn({TaskDoneOnLane}) - 0 + 0 + 0 + 0
      BY <2>2, <2>3 DEF One
    <3> QED
      BY <3>1, <3>2 DEF Balanced
  <2> QED
    BY <2>1, <2>4
<1>13. /\ {-1, 0, 1} \subseteq Int
       /\ h[1] \notin Dispatcher \cup {"dispatch", "destroyAll"}
       /\ new.count # 0 => entry[e].count # 0 \/ e \in published \cup fresh
       /\ h[1] \notin Waits
       /\ new.state = "Loading" => entry[e].state = "Loading"
  BY <1>2, <1>8, <1>10, <1>3 DEF Dispatcher, Waits
<1> QED
  BY <1>2, <1>5, <1>6, <1>7, <1>10, <1>11, <1>12, <1>13, EntryMoves DEF h

LEMMA ReadOverStep ==
  ASSUME CacheInv, NEW t \in Threads, ReadOver(t)
  PROVE  CacheInv'
<1>1. PICK e : e = Arg(t) /\ "readOver" \in EntryKinds /\ At(t, "readOver")
  BY DEF ReadOver, EntryKinds, Counting, Passing, Waits
<1> DEFINE h == todo[t][1]
           new == [Me(t) EXCEPT !.state = "Failed"]
           a == <<"readingOver", e>>
           b == <<"release", e>>
           c == <<"readDone", None>>
           p == <<a, b, c>>
<1>2. /\ Typed /\ todo[t] # <<>> /\ h \in AllSteps /\ h[1] = "readOver" /\ h[2] = e /\ h[3] = More(t)
      /\ e \in Live /\ e \in Entries
      /\ Me(t) = entry[e] /\ Me(t) \in EntryType /\ Me(t).life = "live"
      /\ CountOk(e) /\ LoadOk(e) /\ QueueOk(e)
      /\ \A K : "readOver" \in K => StepsIn(For(K, e)) # 0
      /\ \A x \in Entries \ {e} : h \notin Naming(x)
  BY <1>1, EntryHead DEF More
<1>3. entry[e].count # 0
  BY <1>1, HeadUsed DEF EntryKinds, Counting, Passing, Waits
<1>4. /\ a \in AllSteps /\ a[1] = "readingOver" /\ a[2] = e
      /\ b \in AllSteps /\ b[1] = "release" /\ b[2] = e
      /\ c \in AllSteps /\ c[1] = "readDone" /\ c[2] = None
  BY <1>2, StepsAre DEF EntryKinds, Counting, Passing, Waits, Ops, ForNobody
<1>5. Then(t, p) /\ entry' = [entry EXCEPT ![e] = new] /\ OnlyEntries
  BY <1>1, <1>2 DEF ReadOver, Change, Pass
<1>6. Shifts(e, 0, -1, 0, -1, 0, 0, 0)
  <2>1. /\ Of(h, Counting, e) = 1 /\ Of(h, Loaders, e) = 1 /\ Of(h, Comers, e) = 0 /\ Of(h, Tasking, e) = 1 /\ Of(h, Unparkers, e) = 0 /\ Of(h, PendingKinds, e) = 0 /\ Of(h, {"enqueue"}, e) = 0
        /\ Of(a, Counting, e) = 0 /\ Of(a, Loaders, e) = 0 /\ Of(a, Comers, e) = 0 /\ Of(a, Tasking, e) = 0 /\ Of(a, Unparkers, e) = 0 /\ Of(a, PendingKinds, e) = 0 /\ Of(a, {"enqueue"}, e) = 0
        /\ Of(b, Counting, e) = 1 /\ Of(b, Loaders, e) = 0 /\ Of(b, Comers, e) = 0 /\ Of(b, Tasking, e) = 0 /\ Of(b, Unparkers, e) = 0 /\ Of(b, PendingKinds, e) = 0 /\ Of(b, {"enqueue"}, e) = 0
        /\ Of(c, Counting, e) = 0 /\ Of(c, Loaders, e) = 0 /\ Of(c, Comers, e) = 0 /\ Of(c, Tasking, e) = 0 /\ Of(c, Unparkers, e) = 0 /\ Of(c, PendingKinds, e) = 0 /\ Of(c, {"enqueue"}, e) = 0
    BY <1>2, <1>4 DEF Of, One, Counting, Loaders, Comers, Tasking, Unparkers, PendingKinds
  <2>2. {h[1], a[1], b[1], c[1]} \cap ForSets = {}
    BY <1>2, <1>4 DEF ForSets
  <2> HIDE DEF h, a, b, c
  <2>3. h = todo[t][1] /\ Then(t, <<a, b, c>>)
    BY <1>5 DEF h
  <2> QED
    BY <1>2, <1>4, <2>1, <2>2, <2>3, ShiftThree
<1>7. Follows(h, p, Mine(t)) /\ Calm(p) /\ p \in Seq(AllSteps)
  <2>1. Apt(h, a) /\ Apt(h, b) /\ Apt(h, c)
    BY <1>2, <1>4 DEF Apt, Suits, Lasts, TaskDoneOnLane, Forces, EndOfForce, LaneSteps, Dispatcher, LateSteps
  <2>2. /\ (Covered(h, a, Mine(t)) \/ Backs(a, b) \/ Backs(a, c))
        /\ (Covered(h, b, Mine(t)) \/ Backs(b, c))
        /\ Covered(h, c, Mine(t))
    BY <1>2, <1>4 DEF Covered, Backs, Passing, Waits, Counting
  <2>3. /\ a[1] \notin {"reload"} \cup Lasts
        /\ b[1] \notin {"reload", "unpark"} \cup Firsts \cup Lasts
        /\ c[1] \notin {"reload", "unpark"} \cup Firsts
        /\ (a[1] = "unpark" => b[1] \in {"wait", "claimFree"} /\ b[2] = a[2])
        /\ a # TaskDoneOnLane
        /\ b # TaskDoneOnLane
        /\ (h[1] \in Waits => c[1] \in Waits /\ c[2] = h[2])
        /\ h[1] \notin TaskEnds
        /\ {a[1], b[1], c[1]} \cap (Dispatcher \cup ForSets \cup {"destroyAll"}) = {}
    BY <1>2, <1>4 DEF Waits, TaskEnds, Lasts, Firsts, Dispatcher, ForSets, TaskDoneOnLane
  <2> HIDE DEF h, a, b, c
  <2>4. Follows(h, <<a, b, c>>, Mine(t)) /\ Calm(<<a, b, c>>) /\ <<a, b, c>> \in Seq(AllSteps)
    BY <1>4, <2>1, <2>2, <2>3, FollowsThree
  <2> QED
    BY <2>4
<1>8. /\ \A G : StepsIn(G) \in Nat
      /\ entry[e].count \in Nat /\ entry[e].state \in {"Loading", "Ready", "Failed"}
      /\ Cardinality(Holders(e)) \in Nat /\ Count(Waiting, {e}) \in Nat /\ Count(replaced, {e}) \in Nat
  BY <1>2, Amounts
<1>9. /\ StepsIn(For(Loaders, e)) = StepsIn(For(Unparkers, e)) + StepsIn(For(OtherLoaders, e))
      /\ StepsIn(For(PendingKinds, e)) = StepsIn(For(Unparkers, e)) + StepsIn(For({"parkOrLoad"}, e))
      /\ StepsIn(For(Counting, e)) # 0
      /\ StepsIn(For(Loaders, e)) # 0
      /\ StepsIn(For(Tasking, e)) # 0
      /\ StepsIn(For(OtherLoaders, e)) # 0
  BY <1>2, LoadersAre DEF Counting, Loaders, Comers, Tasking, Unparkers, PendingKinds, OtherLoaders
<1>10. /\ new \in EntryType /\ new.life = "live"
      /\ new.count = entry[e].count
      /\ new.queued = entry[e].queued
      /\ new.parked = entry[e].parked
      /\ new.claimed = entry[e].claimed
      /\ new.state = "Failed"
      /\ new.pending = entry[e].pending
  <2>1. /\ new.life = "live"
        /\ new.count = entry[e].count
        /\ new.queued = entry[e].queued
        /\ new.parked = entry[e].parked
        /\ new.claimed = entry[e].claimed
        /\ new.state = "Failed"
        /\ new.pending = entry[e].pending
    BY <1>2 DEF EntryType
  <2>2. new \in EntryType
    BY <1>2, <1>8, <1>3 DEF EntryType
  <2> QED
    BY <2>1, <2>2
<1> HIDE DEF new, p, h, a, b, c
<1>11. Settles(e, new, 0, -1, 0, -1, 0, 0, 0)
  <2>1. Queue(e) \in Nat /\ (~gone => Queue(e) = One(entry[e].queued) /\ (~entry[e].queued => entry[e].count # 0))
    BY <1>2, <1>8 DEF Queue, QueueOk, One
  <2>2. entry[e].state = "Loading" /\ entry[e].claimed /\ ~entry[e].parked /\ StepsIn(For(Loaders, e)) = 1 /\ Loads(e) = 1
    <3>1. StepsIn(For(Loaders, e)) \in Nat \ {0} /\ Loads(e) = One(entry[e].state = "Loading" /\ entry[e].claimed)
      BY <1>2, <1>8, <1>9 DEF LoadOk
    <3> QED
      BY <3>1 DEF Loads, One
  <2>3. Having(e) + 0 = new.count
    BY <1>2, <1>8, <1>9, <1>10, <1>3 DEF One, CountOk, Having
  <2>4. Loads(e) - 1 + One(new.parked) - One(entry[e].parked) = One(new.state = "Loading" /\ new.claimed)
    BY <1>10, <2>2 DEF One
  <2>5. ~new.claimed => new.pending /\ new.state = "Loading" /\ Coming(e) + 0 # 0
    BY <1>2, <1>8, <1>9, <1>10, <1>3, <2>2 DEF One, LoadOk, Coming
  <2>6. TasksOf(e) - 1 + One(new.parked) - One(entry[e].parked) <= 1
    <3>1. TasksOf(e) \in Int /\ TasksOf(e) <= 1
      BY <1>2, <1>8 DEF LoadOk, TasksOf, One
    <3> QED
      BY <1>2, <1>10, <3>1, <2>2 DEF One
  <2>7. new.parked \/ StepsIn(For(Unparkers, e)) + 0 # 0 => new.pending
    BY <1>2, <1>8, <1>9, <1>10, <1>3, <2>2 DEF One, LoadOk, Loads, Unparkers
  <2>8. new.pending => ~new.claimed \/ new.parked \/ StepsIn(For(PendingKinds, e)) + 0 # 0
    BY <1>2, <1>8, <1>9, <1>10, <1>3, <2>2 DEF One, LoadOk, Loads, PendingKinds
  <2>9. ~gone => Queue(e) + 0 = One(new.queued) /\ (~new.queued => new.count # 0)
    BY <1>2, <1>8, <1>10, <2>1, <1>3 DEF One
  <2> QED
    BY <2>3, <2>4, <2>5, <2>6, <2>7, <2>8, <2>9 DEF Settles
<1>12. NamesOnly(h, p, e) /\ Balanced
  <2>1. NamesOnly(h, p, e)
    <3>1. \A x \in Entries \ {e} : a \notin Naming(x) /\ b \notin Naming(x) /\ c \notin Naming(x)
      BY <1>4 DEF Naming, Takes, ForSets, Counting, Passing, Waits
    <3> QED
      BY <1>2, <3>1 DEF NamesOnly, p
  <2>2. /\ a \notin Named(TaskSteps) /\ b \notin Named(TaskSteps) /\ c \in Named(TaskSteps) /\ h \in Named(TaskSteps)
        /\ a \notin Named(ReadSteps) /\ b \notin Named(ReadSteps) /\ c \in Named(ReadSteps) /\ h \in Named(ReadSteps)
        /\ {a, b, c, h} \cap {TaskDoneOnLane} = {}
    BY <1>2, <1>4 DEF Named, TaskSteps, ReadSteps, TaskDoneOnLane
  <2>3. \A G : StepsIn(G)' = StepsIn(G) - One(h \in G) + One(a \in G) + One(b \in G) + One(c \in G)
    BY <1>2, <1>4, <1>5, ThenFew DEF h, p
  <2>4. Balanced
    <3>1. \A G : StepsIn(G) \in Nat
      BY <1>2, Amounts
    <3>2. /\ StepsIn(Named(TaskSteps))' = StepsIn(Named(TaskSteps)) - 1 + 0 + 0 + 1
          /\ StepsIn(Named(ReadSteps))' = StepsIn(Named(ReadSteps)) - 1 + 0 + 0 + 1
          /\ StepsIn({TaskDoneOnLane})' = StepsIn({TaskDoneOnLane}) - 0 + 0 + 0 + 0
      BY <2>2, <2>3 DEF One
    <3> QED
      BY <3>1, <3>2 DEF Balanced
  <2> QED
    BY <2>1, <2>4
<1>13. /\ {-1, 0} \subseteq Int
       /\ h[1] \notin Dispatcher \cup {"dispatch", "destroyAll"}
       /\ new.count # 0 => entry[e].count # 0 \/ e \in published \cup fresh
       /\ h[1] \notin Waits
       /\ new.state = "Loading" => entry[e].state = "Loading"
  BY <1>2, <1>8, <1>10, <1>3 DEF Dispatcher, Waits
<1> QED
  BY <1>2, <1>5, <1>6, <1>7, <1>10, <1>11, <1>12, <1>13, EntryMoves DEF h

LEMMA LoadAnewStep ==
  ASSUME CacheInv, NEW t \in Threads, LoadAnew(t)
  PROVE  CacheInv'
<1>1. PICK e : e = Arg(t) /\ "reload" \in EntryKinds /\ At(t, "reload")
  BY DEF LoadAnew, EntryKinds, Counting, Passing, Waits
<1> DEFINE h == todo[t][1]
           new == [Me(t) EXCEPT !.state = "Loading", !.count = @ + 1]
           a == <<"load", e>>
           b == <<"release", e>>
           c == <<"throwOrKeep", e>>
           p == <<a, b, c>>
<1>2. /\ Typed /\ todo[t] # <<>> /\ h \in AllSteps /\ h[1] = "reload" /\ h[2] = e /\ h[3] = More(t)
      /\ e \in Live /\ e \in Entries
      /\ Me(t) = entry[e] /\ Me(t) \in EntryType /\ Me(t).life = "live"
      /\ CountOk(e) /\ LoadOk(e) /\ QueueOk(e)
      /\ \A K : "reload" \in K => StepsIn(For(K, e)) # 0
      /\ \A x \in Entries \ {e} : h \notin Naming(x)
  BY <1>1, EntryHead DEF More
<1>3. /\ entry[e].state = "Failed"
      /\ \A u \in Threads \ {t} : ~At(u, "reload")
  <2>1. Me(t).state # "Loading"
    BY <1>1 DEF CacheInv, Shape
  <2>2. Me(t).state \in {"Loading", "Ready", "Failed"} /\ Me(t).state # "Ready"
    BY <1>2 DEF EntryType, LoadAnew
  <2>3. ASSUME NEW u \in Threads, At(u, "reload") PROVE u \in Inside("forceLoad")
    <3>1. todo[u] \in Seq(AllSteps) /\ todo[u] # <<>> /\ 1 \in 1 .. Len(todo[u]) /\ Forces(todo[u][1])
      BY <1>2, <2>3, EmptySeq, LenProperties DEF Typed, At, Forces
    <3>2. todo[u][Len(todo[u])] = EndOfForce /\ Len(todo[u]) \in DOMAIN todo[u]
      BY <3>1 DEF CacheInv, Shape, ForceEnds
    <3>3. u \in Users
      BY <3>1, <2>3 DEF CacheInv, Shape, LaneLike, LaneSteps, Dispatcher, At, Threads
    <3> QED
      BY <3>2, <3>3 DEF Inside, Steps, EndOfForce
  <2>4. \A u \in Threads \ {t} : ~At(u, "reload")
    BY <1>1, <2>3 DEF CacheInv, Shape
  <2> QED
    BY <1>2, <2>1, <2>2, <2>4
<1>4. /\ StepsIn(For(Loaders, e)) = 0 /\ StepsIn(For(PendingKinds, e)) = 0 /\ StepsIn(For(Unparkers, e)) = 0
      /\ ~entry[e].parked /\ entry[e].claimed /\ ~entry[e].pending /\ e \notin disk
  <2>1. StepsIn(For(Loaders, e)) \in Nat
    BY <1>2, Amounts
  <2>2. Loads(e) = 0 /\ entry[e].claimed
    BY <1>2, <1>3 DEF LoadOk, One
  <2>3. StepsIn(For(Loaders, e)) = 0 /\ ~entry[e].parked /\ e \notin disk
    BY <2>1, <2>2 DEF Loads, One
  <2>4. For(PendingKinds, e) \subseteq For(Loaders, e) /\ For(Unparkers, e) \subseteq For(Loaders, e)
    BY DEF For, PendingKinds, Unparkers, Loaders
  <2>5. StepsIn(For(PendingKinds, e)) = 0 /\ StepsIn(For(Unparkers, e)) = 0
    BY <1>2, <2>3, <2>4, StepsLess
  <2> QED
    BY <1>2, <2>2, <2>3, <2>5 DEF LoadOk, PendingKinds
<1>5. entry[e].count # 0
  BY <1>1, HeadUsed DEF EntryKinds, Counting, Passing, Waits
<1>6. /\ a \in AllSteps /\ a[1] = "load" /\ a[2] = e
      /\ b \in AllSteps /\ b[1] = "release" /\ b[2] = e
      /\ c \in AllSteps /\ c[1] = "throwOrKeep" /\ c[2] = e
  BY <1>2, StepsAre DEF EntryKinds, Counting, Passing, Waits, Ops
<1>7. p = <<a, b>> \o <<c>>
  BY <1>6, Joins
<1>8. Then(t, p) /\ entry' = [entry EXCEPT ![e] = new] /\ OnlyEntries
  BY <1>1, <1>2, <1>7 DEF LoadAnew, Change, Pass, LoadAndThrow, LoadAndRelease
<1>9. Shifts(e, 1, 1, 0, 0, 0, 0, 0)
  <2>1. /\ Of(h, Counting, e) = 1 /\ Of(h, Loaders, e) = 0 /\ Of(h, Comers, e) = 0 /\ Of(h, Tasking, e) = 0 /\ Of(h, Unparkers, e) = 0 /\ Of(h, PendingKinds, e) = 0 /\ Of(h, {"enqueue"}, e) = 0
        /\ Of(a, Counting, e) = 0 /\ Of(a, Loaders, e) = 1 /\ Of(a, Comers, e) = 0 /\ Of(a, Tasking, e) = 0 /\ Of(a, Unparkers, e) = 0 /\ Of(a, PendingKinds, e) = 0 /\ Of(a, {"enqueue"}, e) = 0
        /\ Of(b, Counting, e) = 1 /\ Of(b, Loaders, e) = 0 /\ Of(b, Comers, e) = 0 /\ Of(b, Tasking, e) = 0 /\ Of(b, Unparkers, e) = 0 /\ Of(b, PendingKinds, e) = 0 /\ Of(b, {"enqueue"}, e) = 0
        /\ Of(c, Counting, e) = 1 /\ Of(c, Loaders, e) = 0 /\ Of(c, Comers, e) = 0 /\ Of(c, Tasking, e) = 0 /\ Of(c, Unparkers, e) = 0 /\ Of(c, PendingKinds, e) = 0 /\ Of(c, {"enqueue"}, e) = 0
    BY <1>2, <1>6 DEF Of, One, Counting, Loaders, Comers, Tasking, Unparkers, PendingKinds
  <2>2. {h[1], a[1], b[1], c[1]} \cap ForSets = {}
    BY <1>2, <1>6 DEF ForSets
  <2> HIDE DEF h, a, b, c
  <2>3. h = todo[t][1] /\ Then(t, <<a, b, c>>)
    BY <1>8 DEF h
  <2> QED
    BY <1>2, <1>6, <2>1, <2>2, <2>3, ShiftThree
<1>10. Follows(h, p, Mine(t)) /\ Calm(p) /\ p \in Seq(AllSteps)
  <2>1. Apt(h, a) /\ Apt(h, b) /\ Apt(h, c)
    BY <1>2, <1>6 DEF Apt, Suits, Lasts, TaskDoneOnLane, Forces, EndOfForce, LaneSteps, Dispatcher, LateSteps
  <2>2. /\ (Covered(h, a, Mine(t)) \/ Backs(a, b) \/ Backs(a, c))
        /\ (Covered(h, b, Mine(t)) \/ Backs(b, c))
        /\ Covered(h, c, Mine(t))
    BY <1>2, <1>6 DEF Covered, Backs, Passing, Waits, Counting
  <2>3. /\ a[1] \notin {"reload"} \cup Lasts
        /\ b[1] \notin {"reload", "unpark"} \cup Firsts \cup Lasts
        /\ c[1] \notin {"reload", "unpark"} \cup Firsts
        /\ (a[1] = "unpark" => b[1] \in {"wait", "claimFree"} /\ b[2] = a[2])
        /\ a # TaskDoneOnLane
        /\ b # TaskDoneOnLane
        /\ (h[1] \in Waits => c[1] \in Waits /\ c[2] = h[2])
        /\ h[1] \notin TaskEnds
        /\ {a[1], b[1], c[1]} \cap (Dispatcher \cup ForSets \cup {"destroyAll"}) = {}
    BY <1>2, <1>6 DEF Waits, TaskEnds, Lasts, Firsts, Dispatcher, ForSets, TaskDoneOnLane
  <2> HIDE DEF h, a, b, c
  <2>4. Follows(h, <<a, b, c>>, Mine(t)) /\ Calm(<<a, b, c>>) /\ <<a, b, c>> \in Seq(AllSteps)
    BY <1>6, <2>1, <2>2, <2>3, FollowsThree
  <2> QED
    BY <2>4
<1>11. /\ \A G : StepsIn(G) \in Nat
      /\ entry[e].count \in Nat /\ entry[e].state \in {"Loading", "Ready", "Failed"}
      /\ Cardinality(Holders(e)) \in Nat /\ Count(Waiting, {e}) \in Nat /\ Count(replaced, {e}) \in Nat
  BY <1>2, Amounts
<1>12. /\ StepsIn(For(Loaders, e)) = StepsIn(For(Unparkers, e)) + StepsIn(For(OtherLoaders, e))
      /\ StepsIn(For(PendingKinds, e)) = StepsIn(For(Unparkers, e)) + StepsIn(For({"parkOrLoad"}, e))
      /\ StepsIn(For(Counting, e)) # 0
  BY <1>2, LoadersAre DEF Counting, Loaders, Comers, Tasking, Unparkers, PendingKinds, OtherLoaders
<1>13. /\ new \in EntryType /\ new.life = "live"
      /\ new.count = (entry[e].count + 1)
      /\ new.queued = entry[e].queued
      /\ new.parked = entry[e].parked
      /\ new.claimed = entry[e].claimed
      /\ new.state = "Loading"
      /\ new.pending = entry[e].pending
  <2>1. /\ new.life = "live"
        /\ new.count = (entry[e].count + 1)
        /\ new.queued = entry[e].queued
        /\ new.parked = entry[e].parked
        /\ new.claimed = entry[e].claimed
        /\ new.state = "Loading"
        /\ new.pending = entry[e].pending
    BY <1>2 DEF EntryType
  <2>2. /\ entry[e].count + 1 \in Nat /\ Me(t).count = entry[e].count
    BY <1>2, <1>11, <1>5
  <2>3. new \in EntryType
    BY <1>2, <1>11, <1>5, <2>2 DEF EntryType
  <2> QED
    BY <2>1, <2>3
<1> HIDE DEF new, p, h, a, b, c
<1>14. Settles(e, new, 1, 1, 0, 0, 0, 0, 0)
  <2>1. Queue(e) \in Nat /\ (~gone => Queue(e) = One(entry[e].queued) /\ (~entry[e].queued => entry[e].count # 0))
    BY <1>2, <1>11 DEF Queue, QueueOk, One
  <2>2. Having(e) + 1 = new.count
    BY <1>2, <1>11, <1>12, <1>13, <1>5, <1>3 DEF One, CountOk, Having
  <2>3. Loads(e) + 1 + One(new.parked) - One(entry[e].parked) = One(new.state = "Loading" /\ new.claimed)
    BY <1>2, <1>11, <1>12, <1>13, <1>5, <1>3, <1>8 DEF One, LoadOk, Loads
  <2>4. ~new.claimed => new.pending /\ new.state = "Loading" /\ Coming(e) + 0 # 0
    BY <1>2, <1>11, <1>12, <1>13, <1>5, <1>3, <1>8 DEF One, LoadOk, Coming
  <2>5. TasksOf(e) + 0 + One(new.parked) - One(entry[e].parked) <= 1
    <3>1. TasksOf(e) \in Int /\ TasksOf(e) <= 1
      BY <1>2, <1>11 DEF LoadOk, TasksOf, One
    <3> QED
      BY <1>2, <1>13, <3>1, <1>3, <1>8 DEF One
  <2>6. new.parked \/ StepsIn(For(Unparkers, e)) + 0 # 0 => new.pending
    BY <1>2, <1>11, <1>12, <1>13, <1>5, <1>3, <1>8 DEF One, LoadOk, Loads, Unparkers
  <2>7. new.pending => ~new.claimed \/ new.parked \/ StepsIn(For(PendingKinds, e)) + 0 # 0
    BY <1>2, <1>11, <1>12, <1>13, <1>5, <1>3, <1>8 DEF One, LoadOk, Loads, PendingKinds
  <2>8. ~gone => Queue(e) + 0 = One(new.queued) /\ (~new.queued => new.count # 0)
    BY <1>2, <1>11, <1>13, <2>1, <1>5, <1>3 DEF One
  <2> QED
    BY <2>2, <2>3, <2>4, <2>5, <2>6, <2>7, <2>8 DEF Settles
<1>15. NamesOnly(h, p, e) /\ Balanced
  <2>1. Mere(p, e) /\ h[1] \notin TaskSteps
    BY <1>2, <1>6 DEF Mere, p, TaskSteps, EntryKinds, Counting, Passing, Waits
  <2> QED
    BY <1>2, <1>8, <1>10, <2>1, MereSteps DEF h
<1>16. /\ {0, 1} \subseteq Int
       /\ h[1] \notin Dispatcher \cup {"dispatch", "destroyAll"}
       /\ new.count # 0 => entry[e].count # 0 \/ e \in published \cup fresh
       /\ h[1] \notin Waits
       /\ \A u \in Threads \ {t} : At(u, "reload") => Arg(u) # e
  BY <1>2, <1>3, <1>11, <1>13, <1>5 DEF Dispatcher, Waits
<1> QED
  BY <1>2, <1>8, <1>9, <1>10, <1>13, <1>14, <1>15, <1>16, EntryMoves DEF h

=============================================================================
