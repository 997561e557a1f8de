---------------------------- MODULE ParallelLoop ----------------------------
(***************************************************************************)
(* parallelFor and the slots and tickets behind it                         *)
(* (src/sc/threading/parallel_for.hpp, and shareParallel, helpParallel,    *)
(* joinParallel, finishParallel and helpBackground of backend.cpp).        *)
(*                                                                         *)
(* An actor is a call on some thread: of parallelFor, whose owner it is,   *)
(* or of a function that helps with the loop of somebody else.  A call     *)
(* made inside a chunk is an actor of its own whose parent, the actor that *)
(* runs the chunk, does nothing until it has returned.                     *)
(*                                                                         *)
(* The Job of a loop lies on the stack of its owner; live is the set of    *)
(* loops whose Job exists.  The word ParallelSlot::state is its two        *)
(* fields, generation and helpers: both change together only in the code's *)
(* compare-exchange loops, which are atomic where they succeed.            *)
(***************************************************************************)
EXTENDS Naturals, Sequences, FiniteSets

CONSTANTS
  Actors,      \* calls that may be under way at the same time
  NSlots,      \* PARALLEL_SLOTS
  TicketCap,   \* capacity of each of the queues of tickets
  MaxLoops,    \* bound: calls of parallelFor
  MaxChunks,   \* bound: chunks of a loop
  LoopKinds,   \* the calls: [chunks, helpers, wantsTicket, background]
  None         \* no actor, no slot, no loop

ASSUME LoopAssumption ==
  /\ NSlots \in Nat \ {0}
  /\ TicketCap \in Nat
  /\ MaxLoops \in Nat
  /\ IsFiniteSet(Actors)
  /\ MaxChunks \in Nat
  /\ LoopKinds \subseteq [chunks : 1 .. MaxChunks, helpers : Nat,
                          wantsTicket : BOOLEAN, background : BOOLEAN]
  /\ None \notin Actors \cup Nat

VARIABLES
  generation,  \* upper bits of ParallelSlot::state
  helpers,     \* lower bits: the threads inside the loop
  used,        \* ParallelSlot::used
  slotJob,     \* ParallelSlot::job: the loop, or None
  frameTickets,      \* parallelTickets
  backgroundTickets, \* the tickets of the lane
  handedOut,   \* tickets onTicket gave to the program, which may keep them
  pc, role, parent, \* of an actor: where it is, what it is, who called it
  slot,        \* the slot an owner has, or the one of a helper's ticket
  ticket,      \* the ticket a helper has, or the one an owner hands out
  loop,        \* the loop whose Job the actor works on
  tried,       \* slots an owner has looked at, or tickets it has pushed
  kind,        \* how the loop of an actor was called
  loops,       \* how many loops were started
  live,        \* the loops whose Job exists
  size,        \* Job::count, in chunks
  next,        \* Job::next, in chunks
  failed,      \* Job::failed and Job::error: the loop ends with an exception
  started,     \* ghost: how often each chunk of a loop was called
  result       \* ghost: what parallelFor did for a loop that is over

slotVars == <<generation, helpers, used, slotJob>>
ticketVars == <<frameTickets, backgroundTickets, handedOut>>
jobVars == <<loops, live, size, next, failed, started, result>>
callVars == <<pc, role, parent, slot, ticket, loop, tried, kind>>
vars == <<slotVars, ticketVars, jobVars, callVars>>

Slots == 0 .. NSlots - 1
LoopIds == 1 .. MaxLoops
Tickets == [generation : Nat, slot : Slots]
Kinds == [chunks : Nat, helpers : Nat, wantsTicket : BOOLEAN, background : BOOLEAN]

\* What an actor has for its kind while it owns no loop.
NotOwner(background) ==
  [chunks |-> 1, helpers |-> 0, wantsTicket |-> FALSE, background |-> background]
NoKind == NotOwner(FALSE)

\* An actor goes on only while nothing it called is under way.
Runs(a) == \A b \in Actors : parent[b] # a

Goto(a, from, to) ==
  /\ pc[a] = from
  /\ Runs(a)
  /\ pc' = [pc EXCEPT ![a] = to]

\* A call is made by the code of a thread, or by the function of a loop.
MayCall(p) == p # None => pc[p] = "body" /\ Runs(p)

Init ==
  /\ generation = [s \in Slots |-> 0]
  /\ helpers = [s \in Slots |-> 0]
  /\ used = [s \in Slots |-> FALSE]
  /\ slotJob = [s \in Slots |-> None]
  /\ frameTickets = <<>>
  /\ backgroundTickets = <<>>
  /\ handedOut = {}
  /\ pc = [a \in Actors |-> "idle"]
  /\ role = [a \in Actors |-> "none"]
  /\ parent = [a \in Actors |-> None]
  /\ slot = [a \in Actors |-> None]
  /\ ticket = [a \in Actors |-> None]
  /\ loop = [a \in Actors |-> None]
  /\ tried = [a \in Actors |-> 0]
  /\ kind = [a \in Actors |-> NoKind]
  /\ loops = 0
  /\ live = {}
  /\ size = [l \in LoopIds |-> 0]
  /\ next = [l \in LoopIds |-> 0]
  /\ failed = [l \in LoopIds |-> FALSE]
  /\ started = [l \in LoopIds |-> [c \in 0 .. MaxChunks - 1 |-> 0]]
  /\ result = [l \in LoopIds |-> "none"]

-----------------------------------------------------------------------------
(* parallelFor: the owner. *)

\* One chunk, or nobody to share with and no ticket wanted: no slot.
CallParallelFor(a, p, k) ==
  LET l == loops + 1 IN
  /\ loops < MaxLoops
  /\ MayCall(p) /\ p # a
  /\ Goto(a, "idle", IF k.chunks = 1 \/ (k.helpers = 0 /\ ~k.wantsTicket) THEN "run" ELSE "scan")
  /\ role' = [role EXCEPT ![a] = "owner"]
  /\ parent' = [parent EXCEPT ![a] = p]
  /\ loop' = [loop EXCEPT ![a] = l]
  /\ kind' = [kind EXCEPT ![a] = k]
  \* The place of the thread: where it starts to look for a slot.
  /\ \E s \in Slots : slot' = [slot EXCEPT ![a] = IF pc'[a] = "scan" THEN s ELSE None]
  /\ tried' = [tried EXCEPT ![a] = 0]
  /\ loops' = l
  /\ live' = live \cup {l}
  /\ size' = [size EXCEPT ![l] = k.chunks]
  /\ UNCHANGED <<slotVars, ticketVars, ticket, next, failed, started, result>>

\* The exchange on one slot.  All of them taken: the owner goes on alone.
ScanSlot(a) ==
  LET s == slot[a] IN
  /\ Goto(a, "scan",
          IF ~used[s] THEN "open" ELSE IF tried[a] + 1 = NSlots THEN "run" ELSE "scan")
  /\ used' = [used EXCEPT ![s] = TRUE]
  /\ tried' = [tried EXCEPT ![a] = IF used[s] THEN @ + 1 ELSE 0]
  /\ slot' = [slot EXCEPT ![a] = IF ~used[s] THEN s
                                 ELSE IF tried[a] + 1 = NSlots THEN None
                                 ELSE (s + 1) % NSlots]
  /\ UNCHANGED <<generation, helpers, slotJob, ticketVars, jobVars, role, parent, ticket, loop, kind>>

\* The store of the job and the load of the generation: the slot is the owner's.
OpenSlot(a) ==
  LET s == slot[a] IN
  /\ Goto(a, "open", "push")
  /\ slotJob' = [slotJob EXCEPT ![s] = loop[a]]
  /\ ticket' = [ticket EXCEPT ![a] = [generation |-> generation[s], slot |-> s]]
  /\ UNCHANGED <<generation, helpers, used, ticketVars, jobVars, role, parent, slot, loop, tried, kind>>

PushTicket(a) ==
  LET queue == IF kind[a].background THEN backgroundTickets ELSE frameTickets IN
  /\ tried[a] < kind[a].helpers
  /\ Len(queue) < TicketCap
  /\ Goto(a, "push", "push")
  /\ IF kind[a].background
       THEN /\ backgroundTickets' = Append(backgroundTickets, ticket[a])
            /\ UNCHANGED frameTickets
       ELSE /\ frameTickets' = Append(frameTickets, ticket[a])
            /\ UNCHANGED backgroundTickets
  /\ tried' = [tried EXCEPT ![a] = @ + 1]
  /\ UNCHANGED <<slotVars, handedOut, jobVars, role, parent, slot, ticket, loop, kind>>

\* Enough tickets are out, or the queue is full.
TicketsOut(a) ==
  LET queue == IF kind[a].background THEN backgroundTickets ELSE frameTickets IN
  /\ tried[a] = kind[a].helpers \/ Len(queue) >= TicketCap
  /\ Goto(a, "push", IF kind[a].wantsTicket THEN "onTicket"
                     ELSE IF tried[a] = 0 THEN "giveBack" ELSE "run")
  /\ UNCHANGED <<slotVars, ticketVars, jobVars, role, parent, slot, ticket, loop, tried, kind>>

\* No ticket is out: the slot goes back with the generation it has.
GiveBackSlot(a) ==
  /\ Goto(a, "giveBack", "run")
  /\ slotJob' = [slotJob EXCEPT ![slot[a]] = None]
  /\ used' = [used EXCEPT ![slot[a]] = FALSE]
  /\ slot' = [slot EXCEPT ![a] = None]
  /\ UNCHANGED <<generation, helpers, ticketVars, jobVars, role, parent, ticket, loop, tried, kind>>

OnTicket(a) ==
  /\ Goto(a, "onTicket", "run")
  /\ handedOut' = handedOut \cup {ticket[a]}
  /\ UNCHANGED <<slotVars, frameTickets, backgroundTickets, jobVars, role, parent, slot, ticket,
                 loop, tried, kind>>

\* onTicket may have given the ticket away before it threw.
OnTicketThrows(a) ==
  /\ Goto(a, "onTicket", "close")
  /\ handedOut' \in {handedOut, handedOut \cup {ticket[a]}}
  /\ next' = [next EXCEPT ![loop[a]] = size[loop[a]]]
  /\ failed' = [failed EXCEPT ![loop[a]] = TRUE]
  /\ UNCHANGED <<slotVars, frameTickets, backgroundTickets, loops, live, size, started, result,
                 role, parent, slot, ticket, loop, tried, kind>>

-----------------------------------------------------------------------------
(* Job::run, of the owner and of every helper. *)

\* What follows once the actor is out of the loop.
AfterRun(a) ==
  IF role[a] = "helper" THEN "leave" ELSE IF slot[a] = None THEN "return" ELSE "close"

\* The fetch_add, and the call of the function for the chunk it gave.
TakeChunk(a) ==
  LET l == loop[a] IN
  /\ Goto(a, "run", "body")
  /\ next[l] < size[l]
  /\ next' = [next EXCEPT ![l] = @ + 1]
  /\ started' = [started EXCEPT ![l][next[l]] = @ + 1]
  /\ UNCHANGED <<slotVars, ticketVars, loops, live, size, failed, result, role, parent, slot, ticket,
                 loop, tried, kind>>

\* The same fetch_add when nothing is left.  How far it takes next beyond
\* count is not told apart: next is only ever compared with count.
NothingLeft(a) ==
  /\ Goto(a, "run", AfterRun(a))
  /\ next[loop[a]] >= size[loop[a]]
  /\ UNCHANGED <<slotVars, ticketVars, jobVars, role, parent, slot, ticket, loop, tried, kind>>

ChunkReturns(a) ==
  /\ Goto(a, "body", "run")
  /\ UNCHANGED <<slotVars, ticketVars, jobVars, role, parent, slot, ticket, loop, tried, kind>>

\* The first exception is kept.
ChunkThrows(a) ==
  /\ Goto(a, "body", "threw")
  /\ failed' = [failed EXCEPT ![loop[a]] = TRUE]
  /\ UNCHANGED <<slotVars, ticketVars, loops, live, size, next, started, result, role, parent, slot,
                 ticket, loop, tried, kind>>

\* A mistake in Job::run: the loop starts over instead of ending.
EndLoopOver(a) ==
  /\ Goto(a, "threw", AfterRun(a))
  /\ next' = [next EXCEPT ![loop[a]] = 0]
  /\ UNCHANGED <<slotVars, ticketVars, loops, live, size, failed, started, result, role, parent,
                 slot, ticket, loop, tried, kind>>

EndLoop(a) ==
  /\ Goto(a, "threw", AfterRun(a))
  /\ next' = [next EXCEPT ![loop[a]] = size[loop[a]]]
  /\ UNCHANGED <<slotVars, ticketVars, loops, live, size, failed, started, result, role, parent,
                 slot, ticket, loop, tried, kind>>

-----------------------------------------------------------------------------
(* finishParallel and the return of parallelFor. *)

CloseSlot(a) ==
  /\ Goto(a, "close", "drain")
  /\ generation' = [generation EXCEPT ![slot[a]] = @ + 1]
  /\ UNCHANGED <<helpers, used, slotJob, ticketVars, jobVars, role, parent, slot, ticket, loop,
                 tried, kind>>

\* A mistake in finishParallel: it does not wait for who is inside.
DrainedNot(a) ==
  /\ Goto(a, "drain", "clearJob")
  /\ UNCHANGED <<slotVars, ticketVars, jobVars, role, parent, slot, ticket, loop, tried, kind>>

\* A mistake in finishParallel: it waits until its tickets are taken as well.
DrainedOfTickets(a) ==
  /\ Goto(a, "drain", "clearJob")
  /\ helpers[slot[a]] = 0
  /\ \A queue \in {frameTickets, backgroundTickets} : \A n \in DOMAIN queue : queue[n].slot # slot[a]
  /\ UNCHANGED <<slotVars, ticketVars, jobVars, role, parent, slot, ticket, loop, tried, kind>>

Drained(a) ==
  /\ Goto(a, "drain", "clearJob")
  /\ helpers[slot[a]] = 0
  /\ UNCHANGED <<slotVars, ticketVars, jobVars, role, parent, slot, ticket, loop, tried, kind>>

ClearJob(a) ==
  /\ Goto(a, "clearJob", "freeSlot")
  /\ slotJob' = [slotJob EXCEPT ![slot[a]] = None]
  /\ UNCHANGED <<generation, helpers, used, ticketVars, jobVars, role, parent, slot, ticket, loop,
                 tried, kind>>

FreeSlot(a) ==
  /\ Goto(a, "freeSlot", "return")
  /\ used' = [used EXCEPT ![slot[a]] = FALSE]
  /\ slot' = [slot EXCEPT ![a] = None]
  /\ UNCHANGED <<generation, helpers, slotJob, ticketVars, jobVars, role, parent, ticket, loop,
                 tried, kind>>

\* The Job goes with the frame.
Return(a) ==
  /\ Goto(a, "return", "idle")
  /\ live' = live \ {loop[a]}
  /\ result' = [result EXCEPT ![loop[a]] = IF failed[loop[a]] THEN "threw" ELSE "returned"]
  /\ role' = [role EXCEPT ![a] = "none"]
  /\ parent' = [parent EXCEPT ![a] = None]
  /\ loop' = [loop EXCEPT ![a] = None]
  /\ ticket' = [ticket EXCEPT ![a] = None]
  /\ tried' = [tried EXCEPT ![a] = 0]
  /\ kind' = [kind EXCEPT ![a] = NoKind]
  /\ UNCHANGED <<slotVars, ticketVars, slot, loops, size, next, failed, started>>

-----------------------------------------------------------------------------
(* The helpers. *)

BeginHelp(a, p, t, background) ==
  /\ MayCall(p) /\ p # a
  /\ Goto(a, "idle", "join")
  /\ role' = [role EXCEPT ![a] = "helper"]
  /\ parent' = [parent EXCEPT ![a] = p]
  /\ ticket' = [ticket EXCEPT ![a] = t]
  /\ slot' = [slot EXCEPT ![a] = t.slot]
  /\ kind' = [kind EXCEPT ![a] = NotOwner(background)]
  /\ UNCHANGED <<slotVars, handedOut, jobVars, loop, tried>>

\* helpParallel: a worker, or a call of helpThread.
HelpParallel(a, p) ==
  /\ frameTickets # <<>>
  /\ frameTickets' = Tail(frameTickets)
  /\ UNCHANGED backgroundTickets
  /\ BeginHelp(a, p, Head(frameTickets), FALSE)

\* helpBackground: a worker the frame has nothing for.
HelpBackground(a) ==
  /\ backgroundTickets # <<>>
  /\ backgroundTickets' = Tail(backgroundTickets)
  /\ UNCHANGED frameTickets
  /\ BeginHelp(a, None, Head(backgroundTickets), TRUE)

\* helpThread(ticket), at any time, also long after the loop.
HelpByTicket(a, p) ==
  \E t \in handedOut :
    /\ UNCHANGED <<frameTickets, backgroundTickets>>
    /\ BeginHelp(a, p, t, FALSE)

\* A helper goes back to what it was called from.
Leaves(a) ==
  /\ role' = [role EXCEPT ![a] = "none"]
  /\ parent' = [parent EXCEPT ![a] = None]
  /\ slot' = [slot EXCEPT ![a] = None]
  /\ ticket' = [ticket EXCEPT ![a] = None]
  /\ loop' = [loop EXCEPT ![a] = None]
  /\ kind' = [kind EXCEPT ![a] = NoKind]

JoinVoid(a) ==
  /\ Goto(a, "join", "idle")
  /\ generation[slot[a]] # ticket[a].generation
  /\ Leaves(a)
  /\ UNCHANGED <<slotVars, ticketVars, jobVars, tried>>

\* A mistake in joinParallel: the generation is not compared.
JoinAnyGeneration(a) ==
  /\ Goto(a, "join", "load")
  /\ helpers' = [helpers EXCEPT ![slot[a]] = @ + 1]
  /\ UNCHANGED <<generation, used, slotJob, ticketVars, jobVars, role, parent, slot, ticket, loop,
                 tried, kind>>

Join(a) ==
  /\ Goto(a, "join", "load")
  /\ generation[slot[a]] = ticket[a].generation
  /\ helpers' = [helpers EXCEPT ![slot[a]] = @ + 1]
  /\ UNCHANGED <<generation, used, slotJob, ticketVars, jobVars, role, parent, slot, ticket, loop,
                 tried, kind>>

LoadJob(a) ==
  /\ Goto(a, "load", "run")
  /\ loop' = [loop EXCEPT ![a] = slotJob[slot[a]]]
  /\ UNCHANGED <<slotVars, ticketVars, jobVars, role, parent, slot, ticket, tried, kind>>

\* stop was true before the next chunk: of helpThread(stop), or frameWaiting.
\* The lane's helper then puts its ticket back, unless the queue is full.
StopEarly(a) ==
  /\ role[a] = "helper"
  /\ Goto(a, "run", IF kind[a].background THEN "leaveForFrame" ELSE "leave")
  /\ UNCHANGED <<slotVars, ticketVars, jobVars, role, parent, slot, ticket, loop, tried, kind>>

LeaveLoop(a) ==
  \E from \in {"leave", "leaveForFrame"} :
    /\ Goto(a, from, IF from = "leave" THEN "idle" ELSE "putBack")
    /\ helpers' = [helpers EXCEPT ![slot[a]] = @ - 1]
    /\ IF from = "leave" THEN Leaves(a)
       ELSE /\ loop' = [loop EXCEPT ![a] = None]
            /\ UNCHANGED <<role, parent, slot, ticket, kind>>
    /\ UNCHANGED <<generation, used, slotJob, ticketVars, jobVars, tried>>

PutBack(a) ==
  /\ Goto(a, "putBack", "idle")
  /\ backgroundTickets' = IF Len(backgroundTickets) < TicketCap
                            THEN Append(backgroundTickets, ticket[a]) ELSE backgroundTickets
  /\ Leaves(a)
  /\ UNCHANGED <<slotVars, frameTickets, handedOut, jobVars, tried>>

-----------------------------------------------------------------------------

Callers == Actors \cup {None}

Own(a) ==
  \/ ScanSlot(a) \/ OpenSlot(a) \/ PushTicket(a) \/ TicketsOut(a) \/ GiveBackSlot(a)
  \/ OnTicket(a) \/ OnTicketThrows(a)
  \/ CloseSlot(a) \/ Drained(a) \/ ClearJob(a) \/ FreeSlot(a) \/ Return(a)

RunLoop(a) ==
  TakeChunk(a) \/ NothingLeft(a) \/ ChunkReturns(a) \/ ChunkThrows(a) \/ EndLoop(a)

Help(a) == JoinVoid(a) \/ Join(a) \/ LoadJob(a) \/ StopEarly(a) \/ LeaveLoop(a) \/ PutBack(a)

Call(a) ==
  \/ \E p \in Callers, k \in LoopKinds : CallParallelFor(a, p, k)
  \/ \E p \in Callers : HelpParallel(a, p) \/ HelpByTicket(a, p)
  \/ HelpBackground(a)

Next == \E a \in Actors : Own(a) \/ RunLoop(a) \/ Help(a) \/ Call(a)

Spec == Init /\ [][Next]_vars

\* Every call that is under way goes on, and the function of a loop ends, also
\* when it makes calls in between (strong: its chunk pauses for each of them).
\* No call has to be made, and nobody has to help.
FairSpec ==
  /\ Spec
  /\ \A a \in Actors :
       /\ WF_vars(Own(a) \/ RunLoop(a) \/ Help(a))
       /\ SF_vars(ChunkReturns(a) \/ ChunkThrows(a))

-----------------------------------------------------------------------------

\* Where an actor reads or writes the Job of its loop.
UsesJob(a) == pc[a] \in {"run", "body", "threw", "leave", "leaveForFrame"}

SlotTypes ==
  /\ generation \in [Slots -> Nat]
  /\ helpers \in [Slots -> Nat]
  /\ used \in [Slots -> BOOLEAN]
  /\ slotJob \in [Slots -> LoopIds \cup {None}]

TicketTypes ==
  /\ frameTickets \in Seq(Tickets)
  /\ backgroundTickets \in Seq(Tickets)
  /\ handedOut \subseteq Tickets

CallTypes ==
  /\ pc \in [Actors -> {"idle", "scan", "open", "push", "giveBack", "onTicket", "run", "body",
                        "threw", "close", "drain", "clearJob", "freeSlot", "return", "join",
                        "load", "leave", "leaveForFrame", "putBack"}]
  /\ role \in [Actors -> {"none", "owner", "helper"}]
  /\ parent \in [Actors -> Actors \cup {None}]
  /\ slot \in [Actors -> Slots \cup {None}]
  /\ ticket \in [Actors -> Tickets \cup {None}]
  /\ loop \in [Actors -> LoopIds \cup {None}]
  /\ tried \in [Actors -> Nat]
  /\ kind \in [Actors -> Kinds]

JobTypes ==
  /\ loops \in 0 .. MaxLoops
  /\ live \subseteq LoopIds
  /\ size \in [LoopIds -> 0 .. MaxChunks]
  /\ next \in [LoopIds -> Nat]
  /\ failed \in [LoopIds -> BOOLEAN]
  /\ started \in [LoopIds -> [0 .. MaxChunks - 1 -> Nat]]
  /\ result \in [LoopIds -> {"none", "returned", "threw"}]

(* Type correctness of the slots, the tickets, the calls and the jobs.     *)
TypeOK == SlotTypes /\ TicketTypes /\ CallTypes /\ JobTypes

(* The Job outlives everybody who works on it.  It lies on the stack of    *)
(* the thread that called parallelFor, and a ticket may lie in a queue or  *)
(* with the program long after that thread has gone on, also while its     *)
(* slot serves another loop: joinParallel gets in only with the generation *)
(* of the slot, and finishParallel waits for whoever got in before.        *)
JobOutlivesHelpers ==
  \A a \in Actors :
    /\ UsesJob(a) => loop[a] \in live
    /\ pc[a] = "load" => slotJob[slot[a]] \in live

(* A ticket leads into the loop it was made for and into no other: who     *)
(* gets in finds the job of the owner that still holds the slot.           *)
TicketLeadsToItsLoop ==
  \A a, b \in Actors :
    /\ role[a] = "helper" /\ UsesJob(a)
    /\ role[b] = "owner" /\ slot[b] = slot[a] /\ pc[b] # "scan"
    => loop[a] = loop[b]

(* parallelFor calls the function once for every chunk: never twice,       *)
(* whoever takes part, and a loop that returns has had all of its chunks   *)
(* called and finished.                                                    *)
EveryChunkOnce ==
  \A l \in 1 .. loops :
    /\ \A c \in 0 .. size[l] - 1 : started[l][c] <= 1
    /\ result[l] = "returned" => \A c \in 0 .. size[l] - 1 : started[l][c] = 1
    /\ result[l] # "none" => \A a \in Actors : loop[a] # l

(* parallelFor comes back, also when it was called inside a chunk of       *)
(* another loop and when nobody helps: its caller works on the loop itself *)
(* and then waits only for chunks that are being worked on.                *)
LoopEnds == \A a \in Actors : role[a] = "owner" ~> role[a] = "none"

(* What threading.hpp says of a throwing onTicket: "no chunk is started    *)
(* and the exception is passed on".                                        *)
NoChunkIfOnTicketThrows ==
  [][\A a \in Actors : OnTicketThrows(a) => \A c \in 0 .. MaxChunks - 1 : started[loop[a]][c] = 0]_vars

=============================================================================
