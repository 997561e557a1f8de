--------------------------- MODULE EntityAllocator ---------------------------
(***************************************************************************)
(* sc::ecs::internal::EntityAllocator (ecs/entity.hpp): hands out the      *)
(* indices of entities and knows which entities exist.                     *)
(*                                                                         *)
(* The indices come in pages.  An area owns pages, and every thread has in *)
(* every area a Share: the rest of a page nobody else hands out, and what  *)
(* is left of a chunk of indices that destroy gave back.  Threads of the   *)
(* pool use their Share without a lock, the guests (threads the pool does  *)
(* not know) use one together under m_sharedMutex.  Chunks are taken from  *)
(* the FreeList of the area with a load and a fetch_sub, emptied chunks    *)
(* are put on a stack with a compare-exchange, new pages and areas are     *)
(* made under m_pageMutex.                                                 *)
(*                                                                         *)
(* create runs on all threads at once.  What destroys entities has nothing *)
(* running next to it, which is its documented precondition: those actions *)
(* are whole calls and need every thread to be idle.                       *)
(***************************************************************************)
EXTENDS Integers, Sequences, FiniteSets, FiniteSetsExt, SequencesExt

CONSTANTS
    PoolThreads,  \* the threads with a Share of their own
    Guests,       \* the threads without one
    NAreas,       \* areas 0 .. NAreas - 1, 0 is COMMON_AREA
    PageBits,     \* bits of a page number
    PageLimit,    \* m_pageLimit
    PageSize,     \* PAGE_SIZE
    ChunkCap,     \* Chunk::CAPACITY
    GenLimit,     \* generations an index has before they start again, 2^32
    MaxSpan,      \* bound: the longest span for create and destroyMany
    MaxEnded,     \* bound: entities that are destroyed in a behaviour
    MayThrow,     \* whether the function given to create may throw
    None

Threads == PoolThreads \union Guests
Areas == 0 .. NAreas - 1
Pages == 0 .. PageLimit - 1
Indices == 0 .. PageLimit * PageSize - 1
Handles == Indices \X (0 .. GenLimit - 1)

\* Whose Share a thread uses: the guests have the last one together.
Owners == PoolThreads \union {None}
\* Bound: no area makes more chunks than there are indices, see TypeOK.
ChunkIds == 1 .. PageLimit * PageSize

ASSUME AllocatorAssumption ==
    /\ PoolThreads \intersect Guests = {} /\ None \notin Threads \union Int
    /\ {PageBits, PageSize, ChunkCap, NAreas, GenLimit} \subseteq Nat \ {0}
    /\ PageLimit \in 1 .. 2 ^ PageBits
    /\ {MaxSpan, MaxEnded} \subseteq Nat /\ MayThrow \in BOOLEAN

VARIABLES
    owners,       \* [Pages -> the area of the page plus one, 0 for none]
    order,        \* the pages in the order they were handed out
    pageCount,    \* m_pageCount: how much of order is published
    generation,   \* [Indices -> generation]
    areas,        \* the areas that are made (areaTable, m_areaCount)
    cursor,       \* [Areas -> the page to look at first]
    free,         \* [Areas -> FreeList]
    share,        \* [Areas -> [Owners -> Share]]
    pageMutex,    \* m_pageMutex: who holds it
    sharedMutex,  \* m_sharedMutex: who holds it
    pc, job,      \* where a thread is in create, and the locals of the call
    killed,       \* [Pages -> what kill ended and giveMany did not give back]
    live, ended   \* history: the entities that exist, and those that did

vars == <<owners, order, pageCount, generation, areas, cursor, free, share,
          pageMutex, sharedMutex, pc, job, killed, live, ended>>
tables == <<owners, order, pageCount, generation, areas, cursor>>

PageOf(i) == i \div PageSize
ShareOf(t) == IF t \in PoolThreads THEN t ELSE None

----------------------------------------------------------------------------
\* FreeList.  A list is a record: left, the chunks that are published, the
\* place fill in the last of them (ChunkCap without one, as fill = fillEnd),
\* the stack of emptied chunks and, per chunk, count, indices and next.

NewList == [left |-> 0, chunks |-> <<>>, published |-> 0, fill |-> ChunkCap,
            empty |-> None, all |-> 0,
            count |-> [c \in ChunkIds |-> 0],
            indices |-> [c \in ChunkIds |-> [k \in 0 .. ChunkCap - 1 |-> None]],
            next |-> [c \in ChunkIds |-> None]]

Kept(list) == Max({list.left, 0})

\* fill and published for the last chunk as its count has it.
refill(list) ==
    [list EXCEPT !.published = Len(list.chunks),
                 !.fill = IF list.chunks = <<>> THEN ChunkCap ELSE list.count[Last(list.chunks)]]

\* Another chunk at the end: one a thread emptied, or else a new one.
fresh(list) ==
    IF list.empty # None
    THEN [list EXCEPT !.chunks = Append(@, list.empty), !.empty = list.next[list.empty],
                      !.count[list.empty] = 0]
    ELSE [list EXCEPT !.chunks = Append(@, list.all + 1), !.all = @ + 1]

extend(list) ==
    refill(fresh(IF list.chunks = <<>> THEN list
                 ELSE [list EXCEPT !.count[Last(list.chunks)] = ChunkCap]))

\* The chunks taken since the last time belong to their threads.
open(list) ==
    IF Kept(list) < list.published
    THEN refill([list EXCEPT !.chunks = SubSeq(@, 1, Kept(list))])
    ELSE list

add(list, i) ==
    LET roomy == IF list.fill = ChunkCap THEN extend(list) ELSE list
    IN  [roomy EXCEPT !.indices[Last(roomy.chunks)][roomy.fill] = i, !.fill = @ + 1]

close(list) ==
    [list EXCEPT !.count = IF list.chunks = <<>> THEN @
                           ELSE [@ EXCEPT ![Last(list.chunks)] = list.fill],
                 !.left = list.published]

filled(list) ==
    IF list.chunks = <<>> THEN 0
    ELSE (Len(list.chunks) - 1) * ChunkCap + list.count[Last(list.chunks)]

\* grow: one round of its loop fills the last chunk up or adds one, so it is
\* done after at most n + 1 rounds.
growRound(list, n) ==
    LET roomy == IF list.chunks = <<>> \/ list.count[Last(list.chunks)] = ChunkCap
                 THEN fresh(list) ELSE list
    IN  IF filled(list) >= n THEN list
        ELSE [roomy EXCEPT !.count[Last(roomy.chunks)] =
                               Min({ChunkCap, @ + n - filled(roomy)})]

grow(list, n) ==
    refill(FoldLeft(LAMBDA l, k : growRound(l, n), list, [k \in 1 .. n + 1 |-> k]))

\* Writes the indices s to the places of the list from place on.
copy(list, s, place) ==
    FoldLeft(LAMBDA l, k : [l EXCEPT !.indices[l.chunks[(place + k - 1) \div ChunkCap + 1]]
                                              [(place + k - 1) % ChunkCap] = s[k]],
             list, [k \in 1 .. Len(s) |-> k])

size(list) == FoldLeft(LAMBDA n, c : n + list.count[c], 0, SubSeq(list.chunks, 1, Kept(list)))

----------------------------------------------------------------------------
\* The page an area starts at: its number with the bits in reverse order.
startOf(a) ==
    LET page == MapThenSumSet(LAMBDA bit : ((a \div 2 ^ bit) % 2) * 2 ^ (PageBits - 1 - bit),
                              0 .. PageBits - 1)
    IN  IF page < PageLimit THEN page ELSE 0

NewShare == [next |-> 0, end |-> 0, chunk |-> None, left |-> 0]
NoJob == [kind |-> "none", area |-> 0, want |-> 0, made |-> 0, part |-> <<>>,
          emptied |-> None, head |-> None, page |-> None, failed |-> FALSE]

Init ==
    /\ owners = [p \in Pages |-> 0]
    /\ order = <<>>
    /\ pageCount = 0
    /\ generation = [i \in Indices |-> 0]
    /\ areas = {0}
    /\ cursor = [a \in Areas |-> startOf(a)]
    /\ free = [a \in Areas |-> NewList]
    /\ share = [a \in Areas |-> [o \in Owners |-> NewShare]]
    /\ pageMutex = None
    /\ sharedMutex = None
    /\ pc = [t \in Threads |-> "idle"]
    /\ job = [t \in Threads |-> NoJob]
    /\ killed = [p \in Pages |-> <<>>]
    /\ live = {}
    /\ ended = {}

Quiet == \A t \in Threads : pc[t] = "idle"
NothingKilled == \A p \in Pages : killed[p] = <<>>

\* The Share and the list the call of t works on.
Mine(t) == share[job[t].area][ShareOf(t)]
List(t) == free[job[t].area]

Goto(t, from, to) == pc[t] = from /\ pc' = [pc EXCEPT ![t] = to]
SetMine(t, s) == share' = [share EXCEPT ![job[t].area][ShareOf(t)] = s]
SetJob(t, j) == job' = [job EXCEPT ![t] = j]

\* withShare: the guests hold m_sharedMutex while the function runs.
Lock(t) ==
    IF t \in Guests
    THEN sharedMutex = None /\ sharedMutex' = t
    ELSE UNCHANGED sharedMutex
Unlock(t) == sharedMutex' = IF t \in Guests THEN None ELSE sharedMutex

----------------------------------------------------------------------------
\* create(area) for one entity, and create(span, area, function).

create(t, a, kind, n) ==
    /\ Goto(t, "idle", "area")
    /\ NothingKilled
    /\ SetJob(t, [NoJob EXCEPT !.kind = kind, !.area = a, !.want = n])
    /\ UNCHANGED <<tables, free, share, pageMutex, sharedMutex, killed, live, ended>>

area(t) ==
    /\ Goto(t, "area", IF job[t].area \in areas THEN "withShare" ELSE "makeArea")
    /\ UNCHANGED <<tables, free, share, pageMutex, sharedMutex, job, killed, live, ended>>

\* Two threads may get here for the same area: the second finds it made.
\* An area that is not made yet is still as in Init, as a new one is.
makeArea(t) ==
    /\ Goto(t, "makeArea", "withShare")
    /\ pageMutex = None
    /\ areas' = areas \union {job[t].area}
    /\ UNCHANGED <<owners, order, pageCount, generation, cursor, free, share, pageMutex,
                   sharedMutex, job, killed, live, ended>>

withShare(t) ==
    /\ Goto(t, "withShare", IF Mine(t).left # 0 THEN "reuse" ELSE "take")
    /\ Lock(t)
    /\ UNCHANGED <<tables, free, share, pageMutex, job, killed, live, ended>>

\* Nothing to reuse: the lambda of the span ends, that of one goes on.
NoneLeft(t) == IF job[t].kind = "one" THEN "page" ELSE "unlock"

\* FreeList::take, the load that comes first.
LoadLeft(t) ==
    /\ pc[t] = "take"
    /\ Goto(t, "take", IF List(t).left <= 0 THEN NoneLeft(t) ELSE "fetchSub")
    /\ UNCHANGED <<tables, free, share, pageMutex, sharedMutex, job, killed, live, ended>>

\* A mistake in take: the result of the fetch_sub is not looked at.
FetchSubBlind(t) ==
    /\ Goto(t, "fetchSub", "reuse")
    /\ LET chunk == List(t).chunks[Max({List(t).left, 1})]
       IN  /\ SetMine(t, [Mine(t) EXCEPT !.chunk = chunk, !.left = List(t).count[chunk]])
           /\ free' = [free EXCEPT ![job[t].area].left = @ - 1]
    /\ UNCHANGED <<tables, pageMutex, sharedMutex, job, killed, live, ended>>

\* FreeList::take, the fetch_sub and what it decides.
FetchSub(t) ==
    /\ pc[t] = "fetchSub"
    /\ free' = [free EXCEPT ![job[t].area].left = @ - 1]
    /\ \/ /\ List(t).left <= 0
          /\ Goto(t, "fetchSub", NoneLeft(t))
          /\ UNCHANGED share
       \/ /\ List(t).left > 0
          /\ Goto(t, "fetchSub", "reuse")
          /\ LET chunk == List(t).chunks[List(t).left]
             IN  SetMine(t, [Mine(t) EXCEPT !.chunk = chunk, !.left = List(t).count[chunk]])
    /\ UNCHANGED <<tables, pageMutex, sharedMutex, job, killed, live, ended>>

\* The last indices of the chunk.  An emptied chunk leaves the share.  One
\* entity is made in the lambda, the part of a span after it.
TakePart(t) ==
    /\ pc[t] = "reuse"
    /\ LET taken == Min({job[t].want - job[t].made, Mine(t).left})
           rest == Mine(t).left - taken
           emptied == IF rest = 0 THEN Mine(t).chunk ELSE None
       IN  /\ SetMine(t, [Mine(t) EXCEPT !.left = rest,
                                         !.chunk = IF rest = 0 THEN None ELSE @])
           /\ SetJob(t, [job[t] EXCEPT
                           !.part = [k \in 1 .. taken |->
                                       List(t).indices[Mine(t).chunk][rest + k - 1]],
                           !.emptied = emptied])
           /\ Goto(t, "reuse", IF job[t].kind = "one" /\ emptied # None THEN "recycle" ELSE "make")
    /\ IF job[t].kind = "one" THEN UNCHANGED sharedMutex ELSE Unlock(t)
    /\ UNCHANGED <<tables, free, pageMutex, killed, live, ended>>

\* FreeList::recycle: load the head, then compare-exchange until it is the
\* same.
recycle(t) ==
    /\ Goto(t, "recycle", "exchange")
    /\ free' = [free EXCEPT ![job[t].area].next[job[t].emptied] = List(t).empty]
    /\ SetJob(t, [job[t] EXCEPT !.head = List(t).empty])
    /\ UNCHANGED <<tables, share, pageMutex, sharedMutex, killed, live, ended>>

Exchange(t) ==
    /\ pc[t] = "exchange"
    /\ \/ /\ List(t).empty = job[t].head
          /\ Goto(t, "exchange", IF job[t].kind = "one" THEN "make" ELSE "again")
          /\ free' = [free EXCEPT ![job[t].area].empty = job[t].emptied]
          /\ SetJob(t, [job[t] EXCEPT !.emptied = None, !.head = None])
       \/ /\ List(t).empty # job[t].head
          /\ free' = [free EXCEPT ![job[t].area].next[job[t].emptied] = List(t).empty]
          /\ SetJob(t, [job[t] EXCEPT !.head = List(t).empty])
          /\ UNCHANGED pc
    /\ UNCHANGED <<tables, share, pageMutex, sharedMutex, killed, live, ended>>

\* Whether the function given to create has thrown after it was called, or
\* not called any more, for another run of indices.
Called(t) == IF MayThrow /\ job[t].kind = "span" THEN {job[t].failed, TRUE} ELSE {job[t].failed}

\* The entities of the part, with the generations their indices have.
MakePart(t) ==
    /\ pc[t] = "make"
    /\ live' = live \union {<<i, generation[i]>> : i \in Range(job[t].part)}
    /\ \/ /\ job[t].kind = "one"
          /\ Goto(t, "make", "idle")
          /\ Unlock(t)
          /\ SetJob(t, NoJob)
       \/ /\ job[t].kind = "span"
          /\ Goto(t, "make", IF job[t].emptied # None THEN "recycle" ELSE "again")
          /\ \E failed \in Called(t) :
                SetJob(t, [job[t] EXCEPT !.made = @ + Len(job[t].part), !.part = <<>>,
                                         !.failed = failed])
          /\ UNCHANGED sharedMutex
    /\ UNCHANGED <<tables, free, share, pageMutex, killed, ended>>

\* The next round of the loop over what was given back, or what follows it.
Again(t) ==
    /\ Goto(t, "again", IF job[t].made < job[t].want THEN "withShare" ELSE "pages")
    /\ UNCHANGED <<tables, free, share, pageMutex, sharedMutex, job, killed, live, ended>>

NoReuse(t) ==
    /\ Goto(t, "unlock", "pages")
    /\ Unlock(t)
    /\ UNCHANGED <<tables, free, share, pageMutex, job, killed, live, ended>>

\* The second withShare of the span, for new indices.
EnterPages(t) ==
    /\ Goto(t, "pages", "page")
    /\ Lock(t)
    /\ UNCHANGED <<tables, free, share, pageMutex, job, killed, live, ended>>

\* New indices, all of generation 0, off the page of the share.
HandOut(t) ==
    /\ pc[t] = "page"
    /\ job[t].made < job[t].want /\ Mine(t).next # Mine(t).end
    /\ LET count == Min({job[t].want - job[t].made, Mine(t).end - Mine(t).next})
       IN  /\ live' = live \union {<<Mine(t).next + k, 0>> : k \in 0 .. count - 1}
           /\ SetMine(t, [Mine(t) EXCEPT !.next = @ + count])
           /\ \E failed \in Called(t) :
                 SetJob(t, [job[t] EXCEPT !.made = @ + count, !.failed = failed])
    /\ UNCHANGED <<tables, free, pageMutex, sharedMutex, pc, killed, ended>>

\* The call returns, or throws what its function threw.
Return(t) ==
    /\ Goto(t, "page", "idle")
    /\ job[t].made = job[t].want
    /\ Unlock(t)
    /\ SetJob(t, NoJob)
    /\ UNCHANGED <<tables, free, share, pageMutex, killed, live, ended>>

\* The page k steps behind the cursor of the area, past the last one at 0.
Behind(a, k) == (cursor[a] + k) % PageLimit

\* A mistake in makePage: the page is counted before it is in the row.
makePageCounted(t) ==
    /\ Goto(t, "page", "owner")
    /\ job[t].made < job[t].want /\ Mine(t).next = Mine(t).end
    /\ pageMutex = None /\ pageMutex' = t
    /\ \E page \in Pages : owners[page] = 0 /\ SetJob(t, [job[t] EXCEPT !.page = page])
    /\ pageCount' = pageCount + 1
    /\ UNCHANGED <<owners, order, generation, areas, cursor, free, share, sharedMutex, killed,
                   live, ended>>

\* makePage finds the first free page from the cursor on, zeroes its
\* generations and writes it to the row; m_pageMutex stays locked.
makePage(t) ==
    /\ Goto(t, "page", "owner")
    /\ job[t].made < job[t].want /\ Mine(t).next = Mine(t).end
    /\ pageMutex = None /\ pageMutex' = t
    /\ \E k \in 0 .. PageLimit - 1 :
          LET page == Behind(job[t].area, k)
          IN  /\ owners[page] = 0
              /\ \A earlier \in 0 .. k - 1 : owners[Behind(job[t].area, earlier)] # 0
              /\ generation' = [i \in Indices |-> IF PageOf(i) = page THEN 0 ELSE generation[i]]
              /\ cursor' = [cursor EXCEPT ![job[t].area] = Behind(job[t].area, k + 1)]
              /\ order' = Append(order, page)
              /\ SetJob(t, [job[t] EXCEPT !.page = page])
    /\ UNCHANGED <<owners, pageCount, areas, free, share, sharedMutex, killed, live, ended>>

\* All pages are taken: std::length_error out of create.
NoPageLeft(t) ==
    /\ Goto(t, "page", "idle")
    /\ job[t].made < job[t].want /\ Mine(t).next = Mine(t).end
    /\ pageMutex = None
    /\ \A p \in Pages : owners[p] # 0
    /\ Unlock(t)
    /\ SetJob(t, NoJob)
    /\ UNCHANGED <<tables, free, share, pageMutex, killed, live, ended>>

StoreOwner(t) ==
    /\ Goto(t, "owner", "count")
    /\ owners' = [owners EXCEPT ![job[t].page] = job[t].area + 1]
    /\ UNCHANGED <<order, pageCount, generation, areas, cursor, free, share, pageMutex,
                   sharedMutex, job, killed, live, ended>>

\* m_pageCount, the end of the lock, and the page goes to the share.
StoreCount(t) ==
    /\ Goto(t, "count", "page")
    /\ pageCount' = pageCount + 1
    /\ pageMutex' = None
    /\ SetMine(t, [Mine(t) EXCEPT !.next = job[t].page * PageSize,
                                  !.end = (job[t].page + 1) * PageSize])
    /\ SetJob(t, [job[t] EXCEPT !.page = None])
    /\ UNCHANGED <<owners, order, generation, areas, cursor, free, sharedMutex, killed,
                   live, ended>>

----------------------------------------------------------------------------
\* What has nothing running next to it.

\* find, valid: the page is handed out and the generation is the entity's.
valid(h) == owners[PageOf(h[1])] # 0 /\ generation[h[1]] = h[2]

\* A mistake in destroy: the index comes back with the same generation.
SameGeneration(g) == g

NextGeneration(g) == (g + 1) % GenLimit

\* The area of the page an index lies in.
areaNumberOf(i) == owners[PageOf(i)] - 1

\* Destroyed entities leave live for ended.
End(hs) == live' = live \ hs /\ ended' = ended \union hs

destroy(h) ==
    /\ Quiet /\ NothingKilled
    /\ h \in live
    /\ generation' = [generation EXCEPT ![h[1]] = NextGeneration(@)]
    /\ free' = [free EXCEPT ![areaNumberOf(h[1])] = close(add(open(@), h[1]))]
    /\ End({h})
    /\ UNCHANGED <<owners, order, pageCount, areas, cursor, share, pageMutex, sharedMutex,
                   pc, job, killed>>

\* One entity of destroyMany: left out if it does not exist any more.
DestroyOne(done, h) ==
    IF owners[PageOf(h[1])] # 0 /\ done.generation[h[1]] = h[2]
    THEN [generation |-> [done.generation EXCEPT ![h[1]] = NextGeneration(@)],
          free |-> [done.free EXCEPT ![areaNumberOf(h[1])] = add(@, h[1])]]
    ELSE done

\* openAll, the entities, closeAll.
destroyMany(hs) ==
    /\ Quiet /\ NothingKilled
    /\ LET opened == [a \in Areas |-> IF a \in areas THEN open(free[a]) ELSE free[a]]
           done == FoldLeft(DestroyOne, [generation |-> generation, free |-> opened], hs)
       IN  /\ generation' = done.generation
           /\ free' = [a \in Areas |-> IF a \in areas THEN close(done.free[a]) ELSE free[a]]
    /\ End(Range(hs) \intersect live)
    /\ UNCHANGED <<owners, order, pageCount, areas, cursor, share, pageMutex, sharedMutex,
                   pc, job, killed>>

\* kill ends an entity that exists, without giving its index back.
kill(h) ==
    /\ Quiet
    /\ valid(h)
    /\ generation' = [generation EXCEPT ![h[1]] = NextGeneration(@)]
    /\ killed' = [killed EXCEPT ![PageOf(h[1])] = Append(@, h[1])]
    /\ End({h})
    /\ UNCHANGED <<owners, order, pageCount, areas, cursor, free, share, pageMutex,
                   sharedMutex, pc, job>>

\* giveMany(indices): what kill ended, one after the other.
giveMany ==
    /\ Quiet /\ ~NothingKilled
    /\ LET opened == [a \in Areas |-> IF a \in areas THEN open(free[a]) ELSE free[a]]
           all == FlattenSeq([k \in 1 .. PageLimit |-> killed[k - 1]])
           done == FoldLeft(LAMBDA f, i : [f EXCEPT ![areaNumberOf(i)] = add(@, i)], opened, all)
       IN  free' = [a \in Areas |-> IF a \in areas THEN close(done[a]) ELSE free[a]]
    /\ killed' = [p \in Pages |-> <<>>]
    /\ UNCHANGED <<tables, share, pageMutex, sharedMutex, pc, job, live, ended>>

\* Where the indices of page p go in the list of its area: behind what is
\* there and the pages before it.
placeOf(list, p) ==
    filled(list) + MapThenSumSet(LAMBDA q : Len(killed[q]),
                                 {q \in 0 .. p - 1 : owners[q] = owners[p]})

\* giveMany(pages): the lists get their final size, and the threads of the
\* pool copy the pages to their places, in any order.
giveManyPages ==
    /\ Quiet /\ ~NothingKilled
    /\ LET opened == [a \in Areas |-> IF a \in areas THEN open(free[a]) ELSE free[a]]
           of(a) == {p \in Pages : owners[p] = a + 1}
           grown(a) == grow(opened[a], filled(opened[a]) +
                                       MapThenSumSet(LAMBDA p : Len(killed[p]), of(a)))
           copied(a) == FoldLeft(LAMBDA l, p : copy(l, killed[p], placeOf(opened[a], p)),
                                 grown(a), SetToSeq(of(a)))
       IN  free' = [a \in Areas |-> IF a \in areas THEN close(copied(a)) ELSE free[a]]
    /\ killed' = [p \in Pages |-> <<>>]
    /\ UNCHANGED <<tables, share, pageMutex, sharedMutex, pc, job, live, ended>>

\* alive: every index of the pages handed out, less those not handed out yet
\* and those given back.
alive ==
    pageCount * PageSize
        - MapThenSumSet(LAMBDA a : MapThenSumSet(LAMBDA o : share[a][o].end - share[a][o].next
                                                            + share[a][o].left, Owners)
                                   + size(free[a]), areas)

----------------------------------------------------------------------------
Step(t) ==
    \/ area(t) \/ makeArea(t) \/ withShare(t) \/ LoadLeft(t) \/ FetchSub(t) \/ TakePart(t)
    \/ recycle(t) \/ Exchange(t) \/ MakePart(t) \/ Again(t) \/ NoReuse(t) \/ EnterPages(t)
    \/ HandOut(t) \/ Return(t) \/ makePage(t) \/ NoPageLeft(t) \/ StoreOwner(t) \/ StoreCount(t)

\* Every end of an entity is counted against the bound MaxEnded.
MayEnd(n) == Cardinality(ended) + n <= MaxEnded

Next ==
    \/ \E t \in Threads : Step(t)
    \/ \E t \in Threads, a \in Areas : create(t, a, "one", 1)
    \/ \E t \in Threads, a \in Areas, n \in 1 .. MaxSpan : create(t, a, "span", n)
    \/ \E h \in live : MayEnd(1) /\ (destroy(h) \/ kill(h))
    \/ \E n \in 1 .. MaxSpan : \E hs \in [1 .. n -> live \union ended] :
          MayEnd(n) /\ destroyMany(hs)
    \/ giveMany
    \/ giveManyPages

Spec == Init /\ [][Next]_vars
----------------------------------------------------------------------------
FreeLists ==
    [left : Int, chunks : Seq(ChunkIds), published : Nat, fill : 0 .. ChunkCap,
     empty : ChunkIds \union {None}, all : 0 .. PageLimit * PageSize,
     count : [ChunkIds -> 0 .. ChunkCap],
     indices : [ChunkIds -> [0 .. ChunkCap - 1 -> Indices \union {None}]],
     next : [ChunkIds -> ChunkIds \union {None}]]

Shares == [next : Nat, end : Nat, chunk : ChunkIds \union {None}, left : 0 .. ChunkCap]

\* The types of the tables, and that left is below zero by no more than one
\* per thread: take reads it before it counts it down.
TypeOK ==
    /\ owners \in [Pages -> 0 .. NAreas]
    /\ order \in Seq(Pages) /\ pageCount \in 0 .. PageLimit
    /\ generation \in [Indices -> 0 .. GenLimit - 1]
    /\ areas \subseteq Areas /\ cursor \in [Areas -> Pages]
    /\ \A a \in Areas : free[a] \in FreeLists /\ free[a].left >= -Cardinality(Threads)
    /\ share \in [Areas -> [Owners -> Shares]]
    /\ pageMutex \in Threads \union {None} /\ sharedMutex \in Guests \union {None}
    /\ live \subseteq Handles /\ ended \subseteq Handles

\* The places an index can be in.
InPages(i) == {<<a, o>> \in Areas \X Owners : share[a][o].next <= i /\ i < share[a][o].end}
InChunks(i) ==
    {<<a, o, k>> \in Areas \X Owners \X (0 .. ChunkCap - 1) :
        k < share[a][o].left /\ free[a].indices[share[a][o].chunk][k] = i}
InLists(i) ==
    {<<a, c, k>> \in Areas \X ChunkIds \X (0 .. ChunkCap - 1) :
        /\ \E n \in 1 .. Kept(free[a]) : free[a].chunks[n] = c
        /\ k < free[a].count[c] /\ free[a].indices[c][k] = i}
InCalls(i) ==
    {<<t, k>> \in Threads \X (0 .. ChunkCap) :
        \/ k \in DOMAIN job[t].part /\ job[t].part[k] = i
        \/ k = 0 /\ job[t].page = PageOf(i) /\ pc[t] = "count"}
InKilled(i) == {k \in DOMAIN killed[PageOf(i)] : killed[PageOf(i)][k] = i}
Entities(i) == {h \in live : h[1] = i}

\* Every index of a page that was handed out is in exactly one place: it is
\* an entity's, or in the page or the chunk of one thread, or in the list of
\* its area once, whatever the threads that create are doing, also when the
\* function given to create throws.  Two entities with one index would share
\* their components; an index in no place is lost for good.
IndexInOnePlace ==
    \A i \in Indices :
        Cardinality(InPages(i)) + Cardinality(InChunks(i)) + Cardinality(InLists(i))
            + Cardinality(InCalls(i)) + Cardinality(InKilled(i)) + Cardinality(Entities(i))
        = IF owners[PageOf(i)] = 0 THEN 0 ELSE 1

\* The chunks on the stack of the area, from the head on.
Stack(a) ==
    LET nth[n \in 0 .. PageLimit * PageSize] ==
            IF n = 0 THEN free[a].empty
            ELSE IF nth[n - 1] = None THEN None ELSE free[a].next[nth[n - 1]]
    IN  nth

\* Every chunk an area made is in exactly one place: published in the list,
\* with one thread, or on the stack of empty chunks once.  So no two threads
\* work on one chunk, none fills up while a thread reads it, and none leaks.
ChunkInOnePlace ==
    \A a \in Areas : \A c \in 1 .. free[a].all :
        1 = Cardinality({n \in 1 .. Kept(free[a]) : free[a].chunks[n] = c})
            + Cardinality({o \in Owners : share[a][o].chunk = c})
            + Cardinality({t \in Threads : job[t].area = a /\ job[t].emptied = c})
            + Cardinality({n \in DOMAIN Stack(a) : Stack(a)[n] = c})

\* Nothing is handed out twice and nothing is lost, indices and chunks, by
\* create and every way of destroying.
Safe == TypeOK /\ IndexInOnePlace /\ ChunkInOnePlace

\* An index is handed out only by the area that owns its page, also after
\* it was destroyed and given back: the entities of one set of components
\* stay together.
AreasKeepTheirPages ==
    \A i \in Indices :
        \A place \in InPages(i) \union InChunks(i) \union InLists(i) :
            owners[PageOf(i)] = place[1] + 1

\* valid says what is so: every entity that exists is valid, and one that
\* was destroyed is not, although its index was handed out again.
ValidTellsTheTruth ==
    /\ \A h \in live : valid(h)
    /\ \A h \in ended : ~valid(h)

\* The row of pages has no gap that a loop next to create would find: each
\* of its published places has a page of an area, and each page only once.
RowHasNoGap ==
    /\ pageCount <= Len(order)
    /\ \A n \in 1 .. pageCount : owners[order[n]] # 0
    /\ \A m, n \in 1 .. pageCount : order[m] = order[n] => m = n

\* makePage, areaNumberOf: the pages are published one behind the other,
\* and their indices stay with the area that made them.
PagesAreRight == AreasKeepTheirPages /\ RowHasNoGap

\* alive, which is worked out from shares and lists, is the number of
\* entities that exist.
AliveIsRight == Quiet /\ NothingKilled => alive = Cardinality(live)

\* What callers are told of entities, of one (valid) and of all (alive), is
\* so whatever was created and destroyed in between.
AnswersAreTrue == ValidTellsTheTruth /\ AliveIsRight

=============================================================================
