------------------------- MODULE ParallelLoopProofs -------------------------
(***************************************************************************)
(* parallelFor for every number of threads, slots, tickets, loops and      *)
(* chunks: its types, that the Job of a loop outlives everybody who works  *)
(* on it, that a ticket leads only into the loop it was made for, and that *)
(* every chunk is called once.                                             *)
(***************************************************************************)
EXTENDS ParallelLoop, FiniteSetTheorems, TLAPS

OwnerPcs == {"scan", "open", "push", "giveBack", "onTicket", "run", "body", "threw", "close",
             "drain", "clearJob", "freeSlot", "return"}
InsidePcs == {"load", "run", "body", "threw", "leave", "leaveForFrame"}
HelperPcs == InsidePcs \cup {"join", "putBack"}

\* The owner has the slot: from the exchange of used to its store.
Holds(a) == role[a] = "owner" /\ pc[a] # "scan" /\ slot[a] # None

\* Tickets of the slot may be out and lead into the loop of a.
Open(a) ==
  /\ Holds(a)
  /\ \/ pc[a] = "push" /\ tried[a] > 0
     \/ pc[a] \in {"onTicket", "run", "body", "threw", "close"}

Inside(a, s) == role[a] = "helper" /\ slot[a] = s /\ pc[a] \in InsidePcs
InsideOf(s) == {a \in Actors : Inside(a, s)}

InQueue(q, t) == \E i \in 1 .. Len(q) : q[i] = t

\* A ticket somebody may still use.
Out(t) ==
  \/ InQueue(frameTickets, t)
  \/ InQueue(backgroundTickets, t)
  \/ t \in handedOut
  \/ \E a \in Actors : role[a] = "helper" /\ ticket[a] = t

RolesAgree ==
  \A a \in Actors :
    /\ role[a] = "none" => pc[a] = "idle" /\ loop[a] = None
    /\ role[a] = "owner" => pc[a] \in OwnerPcs
    /\ role[a] = "helper" =>
         /\ pc[a] \in HelperPcs
         /\ ticket[a] \in Tickets
         /\ slot[a] = ticket[a].slot
         /\ pc[a] \in {"join", "load", "putBack"} => loop[a] = None

OwnersKeepTheirLoops ==
  /\ live \subseteq 1 .. loops
  /\ \A a \in Actors : role[a] = "owner" => loop[a] \in live
  /\ \A a, b \in Actors : role[a] = "owner" /\ role[b] = "owner" /\ loop[a] = loop[b] => a = b

OwnersKeepTheirSlots ==
  /\ \A a \in Actors :
       /\ role[a] = "owner" /\ pc[a] \notin {"run", "body", "threw", "return"} => slot[a] \in Slots
       /\ role[a] = "owner" /\ pc[a] = "return" => slot[a] = None
       /\ Holds(a) => used[slot[a]]
       /\ Holds(a) /\ pc[a] \notin {"open", "clearJob", "freeSlot"} => slotJob[slot[a]] = loop[a]
       /\ role[a] = "owner" /\ pc[a] \in {"push", "giveBack", "onTicket"} =>
            ticket[a] = [generation |-> generation[slot[a]], slot |-> slot[a]]
  /\ \A a, b \in Actors : Holds(a) /\ Holds(b) /\ slot[a] = slot[b] => a = b

TicketsFitOpenSlots ==
  \A t \in Tickets : Out(t) =>
    /\ t.generation <= generation[t.slot]
    /\ t.generation = generation[t.slot] => \E a \in Actors : Open(a) /\ slot[a] = t.slot

HelpersCounted == \A s \in Slots : helpers[s] = Cardinality(InsideOf(s))

\* The owner has not gone past the loop that waits for the helpers.
Serves(a) == Open(a) \/ (Holds(a) /\ pc[a] = "drain")

HelpersHaveAnOwner ==
  \A a \in Actors : role[a] = "helper" /\ pc[a] \in InsidePcs =>
    \E b \in Actors :
      /\ Serves(b)
      /\ slot[b] = slot[a]
      /\ pc[a] # "load" => loop[a] = loop[b]

IInv ==
  /\ TypeOK
  /\ RolesAgree
  /\ OwnersKeepTheirLoops
  /\ OwnersKeepTheirSlots
  /\ TicketsFitOpenSlots
  /\ HelpersCounted
  /\ HelpersHaveAnOwner

-----------------------------------------------------------------------------
(* A step of one actor, and what it leaves alone. *)

Same(b) ==
  /\ pc'[b] = pc[b]
  /\ role'[b] = role[b]
  /\ slot'[b] = slot[b]
  /\ ticket'[b] = ticket[b]
  /\ loop'[b] = loop[b]
  /\ tried'[b] = tried[b]

Others(a) == \A b \in Actors \ {a} : Same(b)

\* A step of a that changes no more than where it is.
Moves(a) ==
  /\ Others(a)
  /\ role'[a] = role[a]
  /\ slot'[a] = slot[a]
  /\ ticket'[a] = ticket[a]
  /\ loop'[a] = loop[a]
  /\ tried'[a] = tried[a]

(* Who does not move keeps what it holds, and stays inside or outside.     *)
LEMMA SameKeeps ==
  ASSUME NEW b \in Actors, Same(b)
  PROVE  /\ Holds(b)' <=> Holds(b)
         /\ Open(b)' <=> Open(b)
         /\ Serves(b)' <=> Serves(b)
         /\ \A s : Inside(b, s)' <=> Inside(b, s)
BY DEF Same, Holds, Open, Serves, Inside

(* No slot is closed and no ticket is new.                                 *)
LEMMA TicketsStay ==
  ASSUME TicketsFitOpenSlots, generation' = generation, NEW a \in Actors, Others(a),
         \A t \in Tickets : Out(t)' => Out(t),
         Open(a) => Open(a)' /\ slot'[a] = slot[a]
  PROVE  TicketsFitOpenSlots'
<1>1. \A b \in Actors : Open(b) => Open(b)' /\ slot'[b] = slot[b]
  BY SameKeeps DEF Others, Same
<1>2. QED
  BY <1>1 DEF TicketsFitOpenSlots

(* Nobody gets in or out.                                                  *)
LEMMA CountStays ==
  ASSUME HelpersCounted, helpers' = helpers, NEW a \in Actors, Others(a),
         \A s \in Slots : Inside(a, s)' <=> Inside(a, s)
  PROVE  HelpersCounted'
<1>1. \A s \in Slots : \A b \in Actors : Inside(b, s)' <=> Inside(b, s)
  BY SameKeeps DEF Others
<1>2. \A s \in Slots : InsideOf(s)' = InsideOf(s)
  BY <1>1 DEF InsideOf
<1>3. QED
  BY <1>2 DEF HelpersCounted

(* Who is inside was there before, and its owner still serves the loop.    *)
LEMMA OwnersStay ==
  ASSUME HelpersHaveAnOwner, NEW a \in Actors, Others(a),
         role'[a] = "helper" /\ pc'[a] \in InsidePcs =>
           /\ role[a] = "helper" /\ pc[a] \in InsidePcs
           /\ slot'[a] = slot[a]
           /\ pc'[a] # "load" => pc[a] # "load" /\ loop'[a] = loop[a],
         Serves(a) => Serves(a)' /\ slot'[a] = slot[a] /\ loop'[a] = loop[a]
  PROVE  HelpersHaveAnOwner'
<1>1. \A b \in Actors : Serves(b) => Serves(b)' /\ slot'[b] = slot[b] /\ loop'[b] = loop[b]
  BY SameKeeps DEF Others, Same
<1>2. SUFFICES ASSUME NEW c \in Actors, role'[c] = "helper", pc'[c] \in InsidePcs
               PROVE  \E b \in Actors :
                        /\ Serves(b)'
                        /\ slot'[b] = slot'[c]
                        /\ pc'[c] # "load" => loop'[c] = loop'[b]
  BY DEF HelpersHaveAnOwner
<1>3. /\ role[c] = "helper" /\ pc[c] \in InsidePcs
      /\ slot'[c] = slot[c]
      /\ pc'[c] # "load" => pc[c] # "load" /\ loop'[c] = loop[c]
  BY <1>2 DEF Others, Same
<1>4. PICK b \in Actors :
        /\ Serves(b)
        /\ slot[b] = slot[c]
        /\ pc[c] # "load" => loop[c] = loop[b]
  BY <1>3 DEF HelpersHaveAnOwner
<1>5. QED
  BY <1>1, <1>3, <1>4

\* The moves that change no more than where the actor is.
MoveOf(a) ==
  \/ /\ role[a] = "owner"
     /\ pc[a] = "push"
     /\ \/ pc'[a] = "onTicket"
        \/ pc'[a] = "giveBack" /\ tried[a] = 0
        \/ pc'[a] = "run" /\ tried[a] # 0
  \/ /\ role[a] = "owner"
     /\ pc[a] \in {"run", "body", "threw"}
     /\ \/ pc'[a] \in {"run", "body", "threw"}
        \/ pc'[a] = "return" /\ slot[a] = None
        \/ pc'[a] = "close" /\ slot[a] # None
  \/ /\ role[a] = "helper"
     /\ pc[a] \in {"run", "body", "threw"}
     /\ pc'[a] \in {"run", "body", "threw", "leave", "leaveForFrame"}

(* A step of the kind MoveOf keeps the invariant.                          *)
LEMMA MoveStep ==
  ASSUME IInv, TypeOK', NEW a \in Actors, Moves(a), MoveOf(a),
         UNCHANGED <<slotVars, ticketVars, loops, live>>
  PROVE  IInv'
<1> USE DEF IInv
<1>1. RolesAgree'
  BY DEF RolesAgree, Moves, Others, Same, MoveOf, OwnerPcs, HelperPcs, InsidePcs
<1>2. OwnersKeepTheirLoops'
  BY DEF OwnersKeepTheirLoops, Moves, Others, Same
<1>3. Holds(a)' <=> Holds(a)
  BY DEF Holds, Moves, MoveOf
<1>4. OwnersKeepTheirSlots'
  <2>1. \A b \in Actors : Holds(b)' <=> Holds(b)
    BY <1>3, SameKeeps DEF Moves, Others
  <2>2. slot[a] \in Slots \cup {None}
    BY DEF TypeOK, CallTypes
  <2>3. QED
    BY <2>1, <2>2 DEF OwnersKeepTheirSlots, Moves, Others, Same, MoveOf, Holds, slotVars
<1>5. TicketsFitOpenSlots'
  <2>1. \A t \in Tickets : Out(t)' => Out(t)
    BY DEF Out, Moves, Others, Same, ticketVars
  <2>2. Open(a) => Open(a)' /\ slot'[a] = slot[a]
    BY DEF Open, Holds, Moves, MoveOf
  <2>3. QED
    BY <2>1, <2>2, TicketsStay DEF slotVars, Moves
<1>6. HelpersCounted'
  <2>1. \A s \in Slots : Inside(a, s)' <=> Inside(a, s)
    BY DEF Inside, Moves, MoveOf, InsidePcs
  <2>2. QED
    BY <2>1, CountStays DEF slotVars, Moves
<1>7. HelpersHaveAnOwner'
  <2>1. Serves(a) => Serves(a)' /\ slot'[a] = slot[a] /\ loop'[a] = loop[a]
    BY DEF Serves, Open, Holds, Moves, MoveOf
  <2>2. role'[a] = "helper" /\ pc'[a] \in InsidePcs =>
          /\ role[a] = "helper" /\ pc[a] \in InsidePcs
          /\ slot'[a] = slot[a]
          /\ pc'[a] # "load" => pc[a] # "load" /\ loop'[a] = loop[a]
    BY DEF Moves, MoveOf, InsidePcs
  <2>3. QED
    BY <2>1, <2>2, OwnersStay DEF Moves
<1>8. QED
  BY <1>1, <1>2, <1>4, <1>5, <1>6, <1>7

-----------------------------------------------------------------------------
(* Type correctness. *)

(* What the place of an actor in the code says of its slot, its loop and   *)
(* its ticket.                                                             *)
LEMMA ActorFacts ==
  ASSUME IInv, NEW a \in Actors
  PROVE  /\ pc[a] \in {"scan", "open", "push", "giveBack", "onTicket", "close", "drain", "clearJob",
                       "freeSlot"} => role[a] = "owner" /\ slot[a] \in Slots
         /\ pc[a] = "return" => role[a] = "owner" /\ slot[a] = None
         /\ role[a] = "owner" => loop[a] \in live /\ loop[a] \in LoopIds /\ loop[a] \in 1 .. loops
         /\ pc[a] \in {"join", "load", "leave", "leaveForFrame", "putBack"} => role[a] = "helper"
         /\ role[a] = "helper" =>
              ticket[a] \in Tickets /\ slot[a] = ticket[a].slot /\ slot[a] \in Slots
         /\ pc[a] \in {"run", "body", "threw"} =>
              loop[a] \in live /\ loop[a] \in LoopIds /\ role[a] \in {"owner", "helper"}
<1> USE DEF IInv
<1>1. role[a] \in {"none", "owner", "helper"} /\ live \subseteq LoopIds
  BY DEF TypeOK, CallTypes, JobTypes
<1>2. \A b \in Actors : role[b] = "owner" => loop[b] \in live
  BY DEF OwnersKeepTheirLoops
<1>3. role[a] = "helper" => ticket[a] \in Tickets /\ slot[a] = ticket[a].slot
  BY DEF RolesAgree
<1>4. role[a] = "helper" /\ pc[a] \in {"run", "body", "threw"} => loop[a] \in live
  BY <1>2 DEF HelpersHaveAnOwner, InsidePcs, Serves, Open, Holds
<1>5. QED
  BY <1>1, <1>2, <1>3, <1>4
     DEF OwnersKeepTheirLoops, RolesAgree, OwnersKeepTheirSlots, OwnerPcs, HelperPcs, InsidePcs, Tickets

(* A helper that is inside a loop is counted.                              *)
LEMMA InsideIsCounted ==
  ASSUME IInv, NEW a \in Actors, NEW s \in Slots, Inside(a, s)
  PROVE  helpers[s] \in Nat \ {0} /\ IsFiniteSet(InsideOf(s)) /\ a \in InsideOf(s)
<1>1. InsideOf(s) \subseteq Actors /\ a \in InsideOf(s)
  BY DEF InsideOf
<1>2. IsFiniteSet(InsideOf(s))
  BY <1>1, LoopAssumption, FS_Subset
<1>3. Cardinality(InsideOf(s)) \in Nat /\ Cardinality(InsideOf(s)) # 0
  BY <1>1, <1>2, FS_CardinalityType, FS_EmptySet
<1>4. QED
  BY <1>1, <1>2, <1>3 DEF IInv, HelpersCounted

(* The next slot of a scan is a slot again.                                *)
LEMMA NextSlot ==
  ASSUME NEW s \in Slots
  PROVE  (s + 1) % NSlots \in Slots
BY LoopAssumption DEF Slots

(* Every step of a call that is under way keeps the types.                 *)
LEMMA TypeStep ==
  ASSUME IInv, NEW a \in Actors, Own(a) \/ RunLoop(a) \/ Help(a)
  PROVE  TypeOK'
<1> USE DEF TypeOK
<1>1. TypeOK
  BY DEF IInv
<1>2. NoKind \in Kinds
  BY DEF NoKind, NotOwner, Kinds
<1>3. /\ pc[a] \in {"scan", "open", "push", "giveBack", "onTicket", "close", "drain", "clearJob",
                   "freeSlot", "join", "load", "leave", "leaveForFrame", "putBack"} => slot[a] \in Slots
      /\ pc[a] \in {"open", "push", "onTicket", "return", "run", "body", "threw"} => loop[a] \in LoopIds
  BY ActorFacts
<1>4. pc[a] \in {"push", "onTicket", "putBack"} => ticket[a] \in Tickets
  <2>1. pc[a] \in {"push", "onTicket"} =>
          ticket[a] = [generation |-> generation[slot[a]], slot |-> slot[a]]
    BY ActorFacts DEF IInv, OwnersKeepTheirSlots
  <2>2. pc[a] \in {"push", "onTicket"} => ticket[a] \in Tickets
    BY <1>1, <1>3, <2>1 DEF SlotTypes, Tickets
  <2>3. QED
    BY <2>2, ActorFacts
<1>5. pc[a] \in {"leave", "leaveForFrame"} => helpers[slot[a]] \in Nat \ {0}
  BY ActorFacts, InsideIsCounted DEF Inside, InsidePcs
<1>6. CASE ScanSlot(a)
  <2>1. (slot[a] + 1) % NSlots \in Slots
    BY <1>3, <1>6, NextSlot DEF ScanSlot, Goto
  <2>2. CallTypes'
    BY <1>1, <1>3, <1>6, <2>1 DEF CallTypes, ScanSlot, Goto
  <2>3. SlotTypes'
    BY <1>1, <1>3, <1>6 DEF SlotTypes, ScanSlot, Goto
  <2>4. QED
    BY <1>1, <1>6, <2>2, <2>3 DEF ScanSlot, TicketTypes, ticketVars, JobTypes, jobVars
<1>7. CASE OpenSlot(a)
  <2>1. [generation |-> generation[slot[a]], slot |-> slot[a]] \in Tickets
    BY <1>1, <1>3, <1>7 DEF OpenSlot, Goto, SlotTypes, Tickets
  <2>2. CallTypes'
    BY <1>1, <1>3, <1>7, <2>1 DEF CallTypes, OpenSlot, Goto
  <2>3. SlotTypes'
    BY <1>1, <1>3, <1>7 DEF SlotTypes, OpenSlot, Goto
  <2>4. QED
    BY <1>1, <1>7, <2>2, <2>3 DEF OpenSlot, TicketTypes, ticketVars, JobTypes, jobVars
<1>8. CASE PushTicket(a)
  <2>1. ticket[a] \in Tickets
    BY <1>4, <1>8 DEF PushTicket, Goto
  <2>2. TicketTypes'
    <3>1. /\ backgroundTickets' \in {backgroundTickets, Append(backgroundTickets, ticket[a])}
          /\ frameTickets' \in {frameTickets, Append(frameTickets, ticket[a])}
          /\ handedOut' = handedOut
      BY <1>8, Zenon DEF PushTicket
    <3>2. /\ Append(backgroundTickets, ticket[a]) \in Seq(Tickets)
          /\ Append(frameTickets, ticket[a]) \in Seq(Tickets)
      BY <1>1, <2>1 DEF TicketTypes
    <3>3. QED
      BY <1>1, <3>1, <3>2 DEF TicketTypes
  <2>3. CallTypes'
    BY <1>1, <1>8 DEF CallTypes, PushTicket, Goto
  <2>4. QED
    BY <1>1, <1>8, <2>2, <2>3 DEF PushTicket, SlotTypes, slotVars, JobTypes, jobVars
<1>9. CASE TicketsOut(a)
  <2>1. CallTypes'
    BY <1>1, <1>9 DEF CallTypes, TicketsOut, Goto
  <2>2. QED
    BY <1>1, <1>9, <2>1 DEF TicketsOut, SlotTypes, slotVars, TicketTypes, ticketVars, JobTypes, jobVars
<1>10. CASE GiveBackSlot(a)
  <2>1. CallTypes'
    BY <1>1, <1>3, <1>10 DEF CallTypes, GiveBackSlot, Goto
  <2>2. SlotTypes'
    BY <1>1, <1>3, <1>10 DEF SlotTypes, GiveBackSlot, Goto
  <2>3. QED
    BY <1>1, <1>10, <2>1, <2>2 DEF GiveBackSlot, TicketTypes, ticketVars, JobTypes, jobVars
<1>11. CASE OnTicket(a)
  <2>1. CallTypes'
    BY <1>1, <1>3, <1>11 DEF CallTypes, OnTicket, Goto
  <2>2. TicketTypes'
    BY <1>1, <1>4, <1>11 DEF TicketTypes, OnTicket, Goto
  <2>3. QED
    BY <1>1, <1>11, <2>1, <2>2 DEF OnTicket, SlotTypes, slotVars, JobTypes, jobVars
<1>12. CASE OnTicketThrows(a)
  <2>1. CallTypes'
    BY <1>1, <1>12 DEF CallTypes, OnTicketThrows, Goto
  <2>2. TicketTypes'
    BY <1>1, <1>4, <1>12 DEF TicketTypes, OnTicketThrows, Goto
  <2>3. JobTypes'
    BY <1>1, <1>3, <1>12, LoopAssumption DEF JobTypes, OnTicketThrows, Goto
  <2>4. QED
    BY <1>1, <1>12, <2>1, <2>2, <2>3 DEF OnTicketThrows, SlotTypes, slotVars
<1>13. CASE CloseSlot(a)
  <2>1. CallTypes'
    BY <1>1, <1>13 DEF CallTypes, CloseSlot, Goto
  <2>2. SlotTypes'
    BY <1>1, <1>3, <1>13 DEF SlotTypes, CloseSlot, Goto
  <2>3. QED
    BY <1>1, <1>13, <2>1, <2>2 DEF CloseSlot, TicketTypes, ticketVars, JobTypes, jobVars
<1>14. CASE Drained(a)
  <2>1. CallTypes'
    BY <1>1, <1>14 DEF CallTypes, Drained, Goto
  <2>2. QED
    BY <1>1, <1>14, <2>1 DEF Drained, SlotTypes, slotVars, TicketTypes, ticketVars, JobTypes, jobVars
<1>15. CASE ClearJob(a)
  <2>1. CallTypes'
    BY <1>1, <1>15 DEF CallTypes, ClearJob, Goto
  <2>2. SlotTypes'
    BY <1>1, <1>3, <1>15 DEF SlotTypes, ClearJob, Goto
  <2>3. QED
    BY <1>1, <1>15, <2>1, <2>2 DEF ClearJob, TicketTypes, ticketVars, JobTypes, jobVars
<1>16. CASE FreeSlot(a)
  <2>1. CallTypes'
    BY <1>1, <1>3, <1>16 DEF CallTypes, FreeSlot, Goto
  <2>2. SlotTypes'
    BY <1>1, <1>3, <1>16 DEF SlotTypes, FreeSlot, Goto
  <2>3. QED
    BY <1>1, <1>16, <2>1, <2>2 DEF FreeSlot, TicketTypes, ticketVars, JobTypes, jobVars
<1>17. CASE Return(a)
  <2>1. CallTypes'
    BY <1>1, <1>2, <1>17 DEF CallTypes, Return, Goto
  <2>2. JobTypes'
    BY <1>1, <1>3, <1>17, LoopAssumption DEF JobTypes, Return, Goto
  <2>3. QED
    BY <1>1, <1>17, <2>1, <2>2 DEF Return, SlotTypes, slotVars, TicketTypes, ticketVars
<1>18. CASE TakeChunk(a)
  <2>1. CallTypes'
    BY <1>1, <1>18 DEF CallTypes, TakeChunk, Goto
  <2>2. JobTypes'
    BY <1>1, <1>3, <1>18, LoopAssumption DEF JobTypes, TakeChunk, Goto
  <2>3. QED
    BY <1>1, <1>18, <2>1, <2>2 DEF TakeChunk, SlotTypes, slotVars, TicketTypes, ticketVars
<1>19. CASE NothingLeft(a)
  <2>1. CallTypes'
    BY <1>1, <1>19 DEF CallTypes, NothingLeft, Goto, AfterRun
  <2>2. QED
    BY <1>1, <1>19, <2>1 DEF NothingLeft, SlotTypes, slotVars, TicketTypes, ticketVars, JobTypes, jobVars
<1>20. CASE ChunkReturns(a)
  <2>1. CallTypes'
    BY <1>1, <1>20 DEF CallTypes, ChunkReturns, Goto
  <2>2. QED
    BY <1>1, <1>20, <2>1 DEF ChunkReturns, SlotTypes, slotVars, TicketTypes, ticketVars, JobTypes, jobVars
<1>21. CASE ChunkThrows(a)
  <2>1. CallTypes'
    BY <1>1, <1>21 DEF CallTypes, ChunkThrows, Goto
  <2>2. JobTypes'
    BY <1>1, <1>3, <1>21, LoopAssumption DEF JobTypes, ChunkThrows, Goto
  <2>3. QED
    BY <1>1, <1>21, <2>1, <2>2 DEF ChunkThrows, SlotTypes, slotVars, TicketTypes, ticketVars
<1>22. CASE EndLoop(a)
  <2>1. CallTypes'
    BY <1>1, <1>22 DEF CallTypes, EndLoop, Goto, AfterRun
  <2>2. JobTypes'
    BY <1>1, <1>3, <1>22, LoopAssumption DEF JobTypes, EndLoop, Goto
  <2>3. QED
    BY <1>1, <1>22, <2>1, <2>2 DEF EndLoop, SlotTypes, slotVars, TicketTypes, ticketVars
<1>23. CASE JoinVoid(a)
  <2>1. CallTypes'
    BY <1>1, <1>2, <1>23 DEF CallTypes, JoinVoid, Goto, Leaves
  <2>2. QED
    BY <1>1, <1>23, <2>1 DEF JoinVoid, SlotTypes, slotVars, TicketTypes, ticketVars, JobTypes, jobVars
<1>24. CASE Join(a)
  <2>1. CallTypes'
    BY <1>1, <1>24 DEF CallTypes, Join, Goto
  <2>2. SlotTypes'
    BY <1>1, <1>3, <1>24 DEF SlotTypes, Join, Goto
  <2>3. QED
    BY <1>1, <1>24, <2>1, <2>2 DEF Join, TicketTypes, ticketVars, JobTypes, jobVars
<1>25. CASE LoadJob(a)
  <2>1. CallTypes'
    BY <1>1, <1>3, <1>25 DEF CallTypes, LoadJob, Goto, SlotTypes
  <2>2. QED
    BY <1>1, <1>25, <2>1 DEF LoadJob, SlotTypes, slotVars, TicketTypes, ticketVars, JobTypes, jobVars
<1>26. CASE StopEarly(a)
  <2>1. CallTypes'
    BY <1>1, <1>26 DEF CallTypes, StopEarly, Goto
  <2>2. QED
    BY <1>1, <1>26, <2>1 DEF StopEarly, SlotTypes, slotVars, TicketTypes, ticketVars, JobTypes, jobVars
<1>27. CASE LeaveLoop(a)
  <2>1. CallTypes'
    BY <1>1, <1>2, <1>27 DEF CallTypes, LeaveLoop, Goto, Leaves
  <2>2. SlotTypes'
    BY <1>1, <1>3, <1>5, <1>27 DEF SlotTypes, LeaveLoop, Goto
  <2>3. QED
    BY <1>1, <1>27, <2>1, <2>2 DEF LeaveLoop, TicketTypes, ticketVars, JobTypes, jobVars
<1>28. CASE PutBack(a)
  <2>1. CallTypes'
    BY <1>1, <1>2, <1>28 DEF CallTypes, PutBack, Goto, Leaves
  <2>2. TicketTypes'
    BY <1>1, <1>4, <1>28 DEF TicketTypes, PutBack, Goto
  <2>3. QED
    BY <1>1, <1>28, <2>1, <2>2 DEF PutBack, SlotTypes, slotVars, JobTypes, jobVars
<1>29. QED
  BY <1>6, <1>7, <1>8, <1>9, <1>10, <1>11, <1>12, <1>13, <1>14, <1>15, <1>16, <1>17, <1>18, <1>19, <1>20, <1>21, <1>22, <1>23, <1>24, <1>25, <1>26, <1>27, <1>28 DEF Own, RunLoop, Help

-----------------------------------------------------------------------------
(* The steps, one lemma for those of a kind. *)

(* What Append, Head and Tail do to the tickets in a queue.                *)
LEMMA AppendQueue ==
  ASSUME NEW q \in Seq(Tickets), NEW t \in Tickets, NEW u, InQueue(Append(q, t), u)
  PROVE  InQueue(q, u) \/ u = t
BY DEF InQueue

LEMMA TakeQueue ==
  ASSUME NEW q \in Seq(Tickets), q # <<>>
  PROVE  /\ Head(q) \in Tickets
         /\ Tail(q) \in Seq(Tickets)
         /\ InQueue(q, Head(q))
         /\ \A u : InQueue(Tail(q), u) => InQueue(q, u)
<1>1. /\ Head(q) = q[1] /\ 1 \in 1 .. Len(q) /\ Head(q) \in Tickets /\ Tail(q) \in Seq(Tickets)
      /\ Len(Tail(q)) = Len(q) - 1 /\ \A i \in 1 .. Len(Tail(q)) : Tail(q)[i] = q[i + 1]
  OBVIOUS
<1>2. \A i \in 1 .. Len(Tail(q)) : i + 1 \in 1 .. Len(q)
  BY <1>1
<1>3. QED
  BY <1>1, <1>2 DEF InQueue

(* Job::run and the ends of the scan, where only the place moves on.       *)
LEMMA WorkStep ==
  ASSUME IInv, TypeOK', NEW a \in Actors, TicketsOut(a) \/ RunLoop(a) \/ StopEarly(a)
  PROVE  IInv'
<1>1. UNCHANGED <<slotVars, ticketVars, loops, live>> /\ pc[a] \in {"push", "run", "body", "threw"}
  BY DEF TicketsOut, StopEarly, RunLoop, TakeChunk, NothingLeft, ChunkReturns, ChunkThrows, EndLoop,
         jobVars, Goto
<1>2. Moves(a)
  BY DEF IInv, TypeOK, CallTypes, Moves, Others, Same, TicketsOut, StopEarly, RunLoop, TakeChunk,
         NothingLeft, ChunkReturns, ChunkThrows, EndLoop, Goto
<1>3. /\ pc[a] = "push" => role[a] = "owner"
      /\ pc[a] \in {"run", "body", "threw"} => role[a] \in {"owner", "helper"}
  BY ActorFacts
<1>4. MoveOf(a)
  BY <1>1, <1>3
     DEF IInv, TypeOK, CallTypes, MoveOf, TicketsOut, StopEarly, RunLoop, TakeChunk, NothingLeft,
         ChunkReturns, ChunkThrows, EndLoop, Goto, AfterRun
<1>5. QED
  BY <1>1, <1>2, <1>4, MoveStep

(* An owner that serves nobody, before its first ticket or after its last  *)
(* helper, disturbs no more than the slots.                                *)
LEMMA QuietOwner ==
  ASSUME IInv, TypeOK', NEW a \in Actors, Others(a), role[a] = "owner", role'[a] = "owner",
         loop'[a] = loop[a], pc'[a] \in OwnerPcs, ~Serves(a), OwnersKeepTheirSlots',
         UNCHANGED <<generation, helpers, ticketVars, loops, live>>
  PROVE  IInv'
<1> USE DEF IInv
<1>1. RolesAgree'
  BY DEF RolesAgree, Others, Same
<1>2. OwnersKeepTheirLoops'
  BY DEF OwnersKeepTheirLoops, Others, Same
<1>3. TicketsFitOpenSlots'
  <2>1. \A t \in Tickets : Out(t)' => Out(t)
    BY DEF Out, Others, Same, ticketVars
  <2>2. QED
    BY <2>1, TicketsStay DEF Serves
<1>4. HelpersCounted'
  BY CountStays DEF Inside
<1>5. HelpersHaveAnOwner'
  BY OwnersStay
<1>6. QED
  BY <1>1, <1>2, <1>3, <1>4, <1>5

(* The owner takes, fills, empties and frees its slot.                     *)
LEMMA SlotStep ==
  ASSUME IInv, TypeOK', NEW a \in Actors,
         ScanSlot(a) \/ OpenSlot(a) \/ GiveBackSlot(a) \/ ClearJob(a) \/ FreeSlot(a)
  PROVE  IInv'
<1>1. /\ pc[a] \in {"scan", "open", "giveBack", "clearJob", "freeSlot"}
      /\ UNCHANGED <<generation, helpers, ticketVars, loops, live>>
      /\ role'[a] = role[a] /\ loop'[a] = loop[a] /\ pc'[a] \in OwnerPcs
      /\ Others(a)
  BY DEF IInv, TypeOK, CallTypes, ScanSlot, OpenSlot, GiveBackSlot, ClearJob, FreeSlot, Goto, jobVars,
         Others, Same, OwnerPcs
<1>2. role[a] = "owner" /\ slot[a] \in Slots /\ slot[a] # None
  BY <1>1, ActorFacts, LoopAssumption DEF Slots
<1>3. ~Serves(a)
  BY <1>1 DEF Serves, Open
<1>4. \A b \in Actors \ {a} : Holds(b) => slot[b] # slot[a] \/ pc[a] = "scan"
  BY <1>2 DEF IInv, OwnersKeepTheirSlots, Holds
<1>5. \A b \in Actors \ {a} : (Holds(b)' <=> Holds(b)) /\ Same(b)
  BY <1>1, SameKeeps DEF Others
<1>6. OwnersKeepTheirSlots'
  <2> USE <1>2, <1>4, <1>5 DEF IInv, TypeOK, SlotTypes, CallTypes, OwnersKeepTheirSlots, Same, Goto
  <2>1. CASE ScanSlot(a) /\ ~used[slot[a]]
    BY <2>1 DEF ScanSlot, Holds
  <2>2. CASE ScanSlot(a) /\ used[slot[a]]
    <3>1. (slot[a] + 1) % NSlots \in Slots
      BY NextSlot
    <3>2. /\ pc'[a] \in {"scan", "run"}
          /\ pc'[a] = "scan" => slot'[a] \in Slots
          /\ pc'[a] = "run" => slot'[a] = None
      BY <2>2, <3>1 DEF ScanSlot
    <3>3. UNCHANGED <<generation, slotJob>> /\ used' = used
      BY <2>2 DEF ScanSlot
    <3>4. QED
      BY <3>2, <3>3, <1>1 DEF Holds
  <2>3. CASE OpenSlot(a)
    BY <2>3 DEF OpenSlot, Holds
  <2>4. CASE GiveBackSlot(a)
    BY <2>4 DEF GiveBackSlot, Holds
  <2>5. CASE ClearJob(a)
    BY <2>5 DEF ClearJob, Holds
  <2>6. CASE FreeSlot(a)
    BY <2>6 DEF FreeSlot, Holds
  <2>7. QED
    BY <2>1, <2>2, <2>3, <2>4, <2>5, <2>6
<1>7. QED
  BY <1>1, <1>2, <1>3, <1>6, QuietOwner

(* A ticket goes out: it fits the slot, which is open from then on.        *)
LEMMA IssueStep ==
  ASSUME IInv, TypeOK', NEW a \in Actors, PushTicket(a) \/ OnTicket(a) \/ OnTicketThrows(a)
  PROVE  IInv'
<1> USE DEF IInv
<1>1. /\ pc[a] \in {"push", "onTicket"}
      /\ UNCHANGED <<slotVars, loops, live>>
      /\ role'[a] = role[a] /\ slot'[a] = slot[a] /\ ticket'[a] = ticket[a] /\ loop'[a] = loop[a]
      /\ Others(a)
      /\ pc[a] = "push" => pc'[a] = "push" /\ tried'[a] > 0
      /\ pc[a] = "onTicket" => pc'[a] \in {"run", "close"}
  BY DEF TypeOK, CallTypes, PushTicket, OnTicket, OnTicketThrows, Goto, jobVars, Others, Same
<1>2. /\ role[a] = "owner" /\ slot[a] \in Slots /\ slot[a] # None
      /\ ticket[a] = [generation |-> generation[slot[a]], slot |-> slot[a]]
  BY <1>1, ActorFacts, LoopAssumption DEF Slots, OwnersKeepTheirSlots
<1>3. ticket[a] \in Tickets
  BY <1>2 DEF TypeOK, SlotTypes, Tickets
<1>4. Open(a)' /\ Serves(a)' /\ Holds(a) /\ Holds(a)'
  BY <1>1, <1>2 DEF Open, Serves, Holds
<1>5. RolesAgree'
  BY <1>1, <1>2 DEF RolesAgree, Others, Same, OwnerPcs
<1>6. OwnersKeepTheirLoops'
  BY <1>1 DEF OwnersKeepTheirLoops, Others, Same
<1>7. OwnersKeepTheirSlots'
  <2>1. \A b \in Actors : (Holds(b)' <=> Holds(b)) /\ slot'[b] = slot[b]
    BY <1>1, <1>4, SameKeeps DEF Others, Same
  <2>2. QED
    BY <1>1, <1>2, <2>1 DEF OwnersKeepTheirSlots, Others, Same, slotVars, Holds
<1>8. TicketsFitOpenSlots'
  <2>1. \A t \in Tickets : Out(t)' => Out(t) \/ t = ticket[a]
    <3>1. /\ \A t \in Tickets : InQueue(frameTickets, t)' => InQueue(frameTickets, t) \/ t = ticket[a]
          /\ \A t \in Tickets :
               InQueue(backgroundTickets, t)' => InQueue(backgroundTickets, t) \/ t = ticket[a]
          /\ \A t \in Tickets : t \in handedOut' => t \in handedOut \/ t = ticket[a]
      <4>1. /\ frameTickets' \in {frameTickets, Append(frameTickets, ticket[a])}
            /\ backgroundTickets' \in {backgroundTickets, Append(backgroundTickets, ticket[a])}
            /\ handedOut' \in {handedOut, handedOut \cup {ticket[a]}}
        BY Zenon DEF PushTicket, OnTicket, OnTicketThrows
      <4>2. frameTickets \in Seq(Tickets) /\ backgroundTickets \in Seq(Tickets)
        BY DEF TypeOK, TicketTypes
      <4>3. /\ \A t : InQueue(Append(frameTickets, ticket[a]), t) =>
                    InQueue(frameTickets, t) \/ t = ticket[a]
            /\ \A t : InQueue(Append(backgroundTickets, ticket[a]), t) =>
                    InQueue(backgroundTickets, t) \/ t = ticket[a]
        BY <1>3, <4>2, AppendQueue
      <4>4. /\ \A t : InQueue(frameTickets', t) => InQueue(frameTickets, t) \/ t = ticket[a]
            /\ \A t : InQueue(backgroundTickets', t) =>
                    InQueue(backgroundTickets, t) \/ t = ticket[a]
        BY <4>1, <4>3
      <4>5. QED
        BY <4>1, <4>4 DEF InQueue
    <3>2. QED
      BY <1>1, <1>2, <3>1 DEF Out, Others, Same
  <2>2. \A b \in Actors : Open(b) => Open(b)' /\ slot'[b] = slot[b]
    BY <1>1, <1>4, SameKeeps DEF Others, Same
  <2>3. /\ ticket[a].generation <= generation[ticket[a].slot]
        /\ ticket[a].slot = slot'[a]
    BY <1>1, <1>2 DEF TypeOK, SlotTypes
  <2>4. QED
    BY <1>1, <1>4, <2>1, <2>2, <2>3 DEF TicketsFitOpenSlots, slotVars
<1>9. HelpersCounted'
  BY <1>1, <1>2, CountStays DEF Inside, slotVars
<1>10. HelpersHaveAnOwner'
  BY <1>1, <1>2, <1>4, OwnersStay
<1>11. QED
  BY <1>5, <1>6, <1>7, <1>8, <1>9, <1>10

(* finishParallel moves the generation on: no ticket fits the slot, and    *)
(* who is inside keeps its owner.                                          *)
LEMMA CloseStep ==
  ASSUME IInv, TypeOK', NEW a \in Actors, CloseSlot(a)
  PROVE  IInv'
<1> USE DEF IInv
<1>1. /\ pc[a] = "close" /\ pc'[a] = "drain"
      /\ UNCHANGED <<helpers, used, slotJob, ticketVars, loops, live>>
      /\ generation' = [generation EXCEPT ![slot[a]] = @ + 1]
      /\ Moves(a)
  BY DEF TypeOK, CallTypes, CloseSlot, Goto, jobVars, Moves, Others, Same
<1>2. role[a] = "owner" /\ slot[a] \in Slots /\ slot[a] # None
  BY <1>1, ActorFacts, LoopAssumption DEF Slots
<1>3. Others(a)
  BY <1>1 DEF Moves
<1>4. Holds(a) /\ Holds(a)' /\ Serves(a)'
  BY <1>1, <1>2 DEF Holds, Serves, Moves
<1>5. RolesAgree'
  BY <1>1, <1>2 DEF RolesAgree, Moves, Others, Same, OwnerPcs
<1>6. OwnersKeepTheirLoops'
  BY <1>1 DEF OwnersKeepTheirLoops, Moves, Others, Same
<1>7. \A b \in Actors \ {a} : Holds(b) => slot[b] # slot[a]
  BY <1>4 DEF OwnersKeepTheirSlots
<1>8. OwnersKeepTheirSlots'
  <2>1. \A b \in Actors : (Holds(b)' <=> Holds(b)) /\ slot'[b] = slot[b]
    BY <1>1, <1>4, SameKeeps DEF Moves, Others, Same
  <2>2. \A b \in Actors : role[b] = "owner" /\ pc[b] \in {"push", "giveBack", "onTicket"} =>
          slot[b] \in Slots /\ generation'[slot[b]] = generation[slot[b]]
    BY <1>1, <1>2, <1>7, LoopAssumption
       DEF OwnersKeepTheirSlots, Holds, TypeOK, SlotTypes, Slots
  <2>3. \A b \in Actors : role'[b] = "owner" /\ pc'[b] \in {"push", "giveBack", "onTicket"} =>
          ticket'[b] = [generation |-> generation'[slot'[b]], slot |-> slot'[b]]
    BY <1>1, <2>2 DEF OwnersKeepTheirSlots, Moves, Others, Same
  <2>4. \A b \in Actors :
          /\ role'[b] = "owner" /\ pc'[b] \notin {"run", "body", "threw", "return"} => slot'[b] \in Slots
          /\ role'[b] = "owner" /\ pc'[b] = "return" => slot'[b] = None
    BY <1>1, <1>2 DEF OwnersKeepTheirSlots, Moves, Others, Same
  <2>5. \A b \in Actors :
          /\ Holds(b)' => used'[slot'[b]]
          /\ Holds(b)' /\ pc'[b] \notin {"open", "clearJob", "freeSlot"} => slotJob'[slot'[b]] = loop'[b]
    <3>1. \A b \in Actors : loop'[b] = loop[b] /\ (pc'[b] = pc[b] \/ pc[b] = "close")
      BY <1>1 DEF Moves, Others, Same
    <3>2. used' = used /\ slotJob' = slotJob
      BY <1>1
    <3>3. QED
      BY <2>1, <3>1, <3>2 DEF OwnersKeepTheirSlots
  <2>6. QED
    BY <2>1, <2>3, <2>4, <2>5 DEF OwnersKeepTheirSlots
<1>9. TicketsFitOpenSlots'
  <2>1. \A t \in Tickets : Out(t)' => Out(t)
    BY <1>1 DEF Out, Moves, Others, Same, ticketVars
  <2>2. \A b \in Actors \ {a} : Open(b) => Open(b)' /\ slot'[b] = slot[b]
    BY <1>3, SameKeeps DEF Others, Same
  <2>3. \A t \in Tickets : t.slot \in Slots /\ t.generation \in Nat
    BY DEF Tickets
  <2>4. /\ generation'[slot[a]] = generation[slot[a]] + 1
        /\ \A s \in Slots \ {slot[a]} : generation'[s] = generation[s]
        /\ \A s \in Slots : generation[s] \in Nat
    BY <1>1, <1>2 DEF TypeOK, SlotTypes
  <2>5. \A t \in Tickets : Out(t) =>
          /\ t.generation <= generation[t.slot]
          /\ t.generation = generation[t.slot] => \E b \in Actors : Open(b) /\ slot[b] = t.slot
    BY DEF TicketsFitOpenSlots
  <2>6. QED
    BY <1>2, <2>1, <2>2, <2>3, <2>4, <2>5 DEF TicketsFitOpenSlots
<1>10. HelpersCounted'
  BY <1>1, <1>2, <1>3, CountStays DEF Inside, Moves
<1>11. HelpersHaveAnOwner'
  BY <1>1, <1>2, <1>3, <1>4, OwnersStay DEF Moves
<1>12. QED
  BY <1>5, <1>6, <1>8, <1>9, <1>10, <1>11

(* finishParallel has waited: the count of helpers is zero, so nobody is   *)
(* inside.                                                                 *)
LEMMA DrainedStep ==
  ASSUME IInv, TypeOK', NEW a \in Actors, Drained(a)
  PROVE  IInv'
<1> USE DEF IInv
<1>1. /\ pc[a] = "drain" /\ pc'[a] = "clearJob" /\ helpers[slot[a]] = 0
      /\ UNCHANGED <<slotVars, ticketVars, loops, live>>
      /\ Moves(a)
  BY DEF TypeOK, CallTypes, Drained, Goto, jobVars, Moves, Others, Same
<1>2. role[a] = "owner" /\ slot[a] \in Slots /\ slot[a] # None
  BY <1>1, ActorFacts, LoopAssumption DEF Slots
<1>3. Others(a)
  BY <1>1 DEF Moves
<1>4. Holds(a) /\ Holds(a)' /\ ~Open(a)
  BY <1>1, <1>2 DEF Holds, Open, Moves
<1>5. RolesAgree'
  BY <1>1, <1>2 DEF RolesAgree, Moves, Others, Same, OwnerPcs
<1>6. OwnersKeepTheirLoops'
  BY <1>1 DEF OwnersKeepTheirLoops, Moves, Others, Same
<1>7. OwnersKeepTheirSlots'
  <2>1. \A b \in Actors : (Holds(b)' <=> Holds(b)) /\ slot'[b] = slot[b]
    BY <1>1, <1>4, SameKeeps DEF Moves, Others, Same
  <2>2. QED
    BY <1>1, <1>2, <2>1 DEF OwnersKeepTheirSlots, Moves, Others, Same, slotVars
<1>8. TicketsFitOpenSlots'
  <2>1. \A t \in Tickets : Out(t)' => Out(t)
    BY <1>1 DEF Out, Moves, Others, Same, ticketVars
  <2>2. QED
    BY <1>1, <1>3, <1>4, <2>1, TicketsStay DEF slotVars
<1>9. HelpersCounted'
  BY <1>1, <1>2, <1>3, CountStays DEF Inside, Moves, slotVars
<1>10. HelpersHaveAnOwner'
  <2>1. \A c \in Actors : ~Inside(c, slot[a])
    BY <1>1, <1>2, InsideIsCounted
  <2>2. SUFFICES ASSUME NEW c \in Actors, role'[c] = "helper", pc'[c] \in InsidePcs
                 PROVE  \E b \in Actors :
                          /\ Serves(b)'
                          /\ slot'[b] = slot'[c]
                          /\ pc'[c] # "load" => loop'[c] = loop'[b]
    BY DEF HelpersHaveAnOwner
  <2>3. c # a /\ Same(c)
    BY <1>1, <1>2, <1>3, <2>2 DEF Moves, Others
  <2>4. PICK b \in Actors :
          /\ Serves(b)
          /\ slot[b] = slot[c]
          /\ pc[c] # "load" => loop[c] = loop[b]
    BY <2>2, <2>3 DEF HelpersHaveAnOwner, Same
  <2>5. b # a
    BY <2>1, <2>2, <2>3, <2>4 DEF Inside, Same
  <2>6. Same(b) /\ Serves(b)'
    BY <1>3, <2>4, <2>5, SameKeeps DEF Others
  <2>7. QED
    BY <2>3, <2>4, <2>6 DEF Same
<1>11. QED
  BY <1>5, <1>6, <1>7, <1>8, <1>9, <1>10

(* parallelFor returns: its loop was its own, and nobody is inside.        *)
LEMMA ReturnStep ==
  ASSUME IInv, TypeOK', NEW a \in Actors, Return(a)
  PROVE  IInv'
<1> USE DEF IInv
<1>1. /\ pc[a] = "return" /\ pc'[a] = "idle" /\ role'[a] = "none" /\ loop'[a] = None
      /\ UNCHANGED <<slotVars, ticketVars, loops>> /\ live' = live \ {loop[a]}
      /\ Others(a)
  BY DEF TypeOK, CallTypes, Return, Goto, jobVars, Others, Same
<1>2. role[a] = "owner" /\ slot[a] = None
  BY <1>1, ActorFacts
<1>3. ~Holds(a) /\ ~Holds(a)' /\ ~Open(a) /\ ~Serves(a)
  BY <1>1, <1>2 DEF Holds, Open, Serves
<1>4. RolesAgree'
  BY <1>1 DEF RolesAgree, Others, Same
<1>5. OwnersKeepTheirLoops'
  BY <1>1, <1>2 DEF OwnersKeepTheirLoops, Others, Same
<1>6. OwnersKeepTheirSlots'
  <2>1. \A b \in Actors \ {a} : (Holds(b)' <=> Holds(b)) /\ Same(b)
    BY <1>1, SameKeeps DEF Others
  <2>2. QED
    BY <1>1, <1>3, <2>1 DEF OwnersKeepTheirSlots, Same, slotVars
<1>7. TicketsFitOpenSlots'
  <2>1. \A t \in Tickets : Out(t)' => Out(t)
    BY <1>1 DEF Out, Others, Same, ticketVars
  <2>2. QED
    BY <1>1, <1>3, <2>1, TicketsStay DEF slotVars
<1>8. HelpersCounted'
  BY <1>1, <1>2, CountStays DEF Inside, slotVars
<1>9. HelpersHaveAnOwner'
  BY <1>1, <1>3, OwnersStay
<1>10. QED
  BY <1>4, <1>5, <1>6, <1>7, <1>8, <1>9

(* A helper that is not inside any loop goes, with its ticket or without.  *)
LEMMA GoneStep ==
  ASSUME IInv, TypeOK', NEW a \in Actors, JoinVoid(a) \/ PutBack(a)
  PROVE  IInv'
<1> USE DEF IInv
<1>1. /\ pc[a] \in {"join", "putBack"} /\ pc'[a] = "idle" /\ role'[a] = "none" /\ loop'[a] = None
      /\ UNCHANGED <<slotVars, frameTickets, handedOut, loops, live>>
      /\ backgroundTickets' \in {backgroundTickets, Append(backgroundTickets, ticket[a])}
      /\ Others(a)
  BY DEF TypeOK, CallTypes, JoinVoid, PutBack, Leaves, Goto, jobVars, ticketVars, Others, Same
<1>2. role[a] = "helper" /\ ticket[a] \in Tickets
  BY <1>1, ActorFacts
<1>3. ~Holds(a) /\ ~Holds(a)' /\ ~Open(a) /\ ~Serves(a)
  BY <1>1, <1>2 DEF Holds, Open, Serves
<1>4. RolesAgree'
  BY <1>1 DEF RolesAgree, Others, Same
<1>5. OwnersKeepTheirLoops'
  BY <1>1, <1>2 DEF OwnersKeepTheirLoops, Others, Same
<1>6. OwnersKeepTheirSlots'
  <2>1. \A b \in Actors \ {a} : (Holds(b)' <=> Holds(b)) /\ Same(b)
    BY <1>1, SameKeeps DEF Others
  <2>2. QED
    BY <1>1, <1>3, <2>1 DEF OwnersKeepTheirSlots, Same, slotVars
<1>7. TicketsFitOpenSlots'
  <2>1. backgroundTickets \in Seq(Tickets)
    BY DEF TypeOK, TicketTypes
  <2>2. \A t : InQueue(Append(backgroundTickets, ticket[a]), t) =>
               InQueue(backgroundTickets, t) \/ t = ticket[a]
    BY <1>2, <2>1, AppendQueue
  <2>3. \A t : InQueue(backgroundTickets', t) => InQueue(backgroundTickets, t) \/ t = ticket[a]
    BY <1>1, <2>2
  <2>4. \A t \in Tickets : Out(t)' => Out(t)
    BY <1>1, <1>2, <2>3 DEF Out, Others, Same
  <2>5. QED
    BY <1>1, <1>3, <2>4, TicketsStay DEF slotVars
<1>8. HelpersCounted'
  BY <1>1, <1>2, CountStays DEF Inside, slotVars, InsidePcs
<1>9. HelpersHaveAnOwner'
  BY <1>1, <1>3, OwnersStay
<1>10. QED
  BY <1>4, <1>5, <1>6, <1>7, <1>8, <1>9

(* joinParallel with the generation of the slot: the slot is open, and its *)
(* owner will wait for the helper.                                         *)
LEMMA JoinStep ==
  ASSUME IInv, TypeOK', NEW a \in Actors, Join(a)
  PROVE  IInv'
<1> USE DEF IInv
<1>1. /\ pc[a] = "join" /\ pc'[a] = "load" /\ generation[slot[a]] = ticket[a].generation
      /\ helpers' = [helpers EXCEPT ![slot[a]] = @ + 1]
      /\ UNCHANGED <<generation, used, slotJob, ticketVars, loops, live>>
      /\ Moves(a)
  BY DEF TypeOK, CallTypes, Join, Goto, jobVars, Moves, Others, Same
<1>2. /\ role[a] = "helper" /\ ticket[a] \in Tickets /\ slot[a] = ticket[a].slot /\ slot[a] \in Slots
      /\ loop[a] = None
  BY <1>1, ActorFacts DEF RolesAgree
<1>3. Others(a)
  BY <1>1 DEF Moves
<1>4. ~Holds(a) /\ ~Holds(a)' /\ ~Open(a) /\ ~Serves(a)
  BY <1>1, <1>2 DEF Holds, Open, Serves, Moves
<1>5. RolesAgree'
  BY <1>1, <1>2 DEF RolesAgree, Moves, Others, Same, HelperPcs, InsidePcs
<1>6. OwnersKeepTheirLoops'
  BY <1>1 DEF OwnersKeepTheirLoops, Moves, Others, Same
<1>7. OwnersKeepTheirSlots'
  <2>1. \A b \in Actors : (Holds(b)' <=> Holds(b)) /\ slot'[b] = slot[b]
    BY <1>1, <1>4, SameKeeps DEF Moves, Others, Same
  <2>2. QED
    BY <1>1, <1>2, <2>1 DEF OwnersKeepTheirSlots, Moves, Others, Same
<1>8. TicketsFitOpenSlots'
  <2>1. \A t \in Tickets : Out(t)' => Out(t)
    BY <1>1 DEF Out, Moves, Others, Same, ticketVars
  <2>2. QED
    BY <1>1, <1>3, <1>4, <2>1, TicketsStay
<1>9. HelpersCounted'
  <2>1. \A b \in Actors \ {a} : \A s : Inside(b, s)' <=> Inside(b, s)
    BY <1>3, SameKeeps DEF Others
  <2>2. \A s \in Slots \ {slot[a]} : InsideOf(s)' = InsideOf(s) /\ helpers'[s] = helpers[s]
    BY <1>1, <1>2, <2>1 DEF InsideOf, Inside, Moves, TypeOK, SlotTypes
  <2>3. a \notin InsideOf(slot[a]) /\ InsideOf(slot[a]) \subseteq Actors
    BY <1>1 DEF InsideOf, Inside, InsidePcs
  <2>4. \A s \in Slots : s = slot[a] => InsideOf(s)' = InsideOf(s) \cup {a}
    BY <1>1, <1>2, <2>1 DEF InsideOf, Inside, InsidePcs, Moves
  <2>5. Cardinality(InsideOf(slot[a]) \cup {a}) = Cardinality(InsideOf(slot[a])) + 1
    BY <2>3, LoopAssumption, FS_Subset, FS_AddElement
  <2>6. helpers'[slot[a]] = helpers[slot[a]] + 1
    BY <1>1, <1>2 DEF TypeOK, SlotTypes
  <2>7. \A s \in Slots : helpers'[s] = Cardinality(InsideOf(s)')
    BY <1>2, <2>2, <2>4, <2>5, <2>6 DEF HelpersCounted
  <2>8. QED
    BY <2>7 DEF HelpersCounted
<1>10. HelpersHaveAnOwner'
  <2>1. PICK o \in Actors : Open(o) /\ slot[o] = slot[a]
    BY <1>1, <1>2 DEF TicketsFitOpenSlots, Out
  <2>2. o # a /\ Serves(o)' /\ slot'[o] = slot[o]
    BY <1>3, <1>4, <2>1, SameKeeps DEF Others, Same, Serves
  <2>3. \A b \in Actors : Serves(b) => Serves(b)' /\ slot'[b] = slot[b] /\ loop'[b] = loop[b]
    BY <1>3, <1>4, SameKeeps DEF Others, Same
  <2>4. \A c \in Actors \ {a} : Same(c)
    BY <1>3 DEF Others
  <2>5. QED
    BY <1>1, <2>1, <2>2, <2>3, <2>4 DEF HelpersHaveAnOwner, Same, Moves
<1>11. QED
  BY <1>5, <1>6, <1>7, <1>8, <1>9, <1>10

(* The helper inside finds the job of the owner that holds the slot.       *)
LEMMA LoadStep ==
  ASSUME IInv, TypeOK', NEW a \in Actors, LoadJob(a)
  PROVE  IInv'
<1> USE DEF IInv
<1>1. /\ pc[a] = "load" /\ pc'[a] = "run" /\ loop'[a] = slotJob[slot[a]]
      /\ role'[a] = role[a] /\ slot'[a] = slot[a] /\ ticket'[a] = ticket[a]
      /\ UNCHANGED <<slotVars, ticketVars, loops, live>>
      /\ Others(a)
  BY DEF TypeOK, CallTypes, LoadJob, Goto, jobVars, Others, Same
<1>2. /\ role[a] = "helper" /\ ticket[a] \in Tickets /\ slot[a] = ticket[a].slot /\ slot[a] \in Slots
  BY <1>1, ActorFacts
<1>3. ~Holds(a) /\ ~Holds(a)' /\ ~Open(a) /\ ~Serves(a)
  BY <1>1, <1>2 DEF Holds, Open, Serves
<1>4. RolesAgree'
  BY <1>1, <1>2 DEF RolesAgree, Others, Same, HelperPcs, InsidePcs
<1>5. OwnersKeepTheirLoops'
  BY <1>1, <1>2 DEF OwnersKeepTheirLoops, Others, Same
<1>6. OwnersKeepTheirSlots'
  <2>1. \A b \in Actors \ {a} : (Holds(b)' <=> Holds(b)) /\ Same(b)
    BY <1>1, SameKeeps DEF Others
  <2>2. QED
    BY <1>1, <1>2, <1>3, <2>1 DEF OwnersKeepTheirSlots, Same, slotVars
<1>7. TicketsFitOpenSlots'
  <2>1. \A t \in Tickets : Out(t)' => Out(t)
    BY <1>1 DEF Out, Others, Same, ticketVars
  <2>2. QED
    BY <1>1, <1>3, <2>1, TicketsStay DEF slotVars
<1>8. HelpersCounted'
  BY <1>1, <1>2, CountStays DEF Inside, InsidePcs, slotVars
<1>9. HelpersHaveAnOwner'
  <2>1. PICK o \in Actors : Serves(o) /\ slot[o] = slot[a]
    BY <1>1, <1>2 DEF HelpersHaveAnOwner, InsidePcs
  <2>2. slotJob[slot[a]] = loop[o]
    BY <2>1 DEF OwnersKeepTheirSlots, Serves, Open, Holds
  <2>3. o # a /\ Serves(o)' /\ slot'[o] = slot[o] /\ loop'[o] = loop[o]
    BY <1>1, <1>3, <2>1, SameKeeps DEF Others, Same
  <2>4. \A b \in Actors : Serves(b) => Serves(b)' /\ slot'[b] = slot[b] /\ loop'[b] = loop[b]
    BY <1>1, <1>3, SameKeeps DEF Others, Same
  <2>5. \A c \in Actors \ {a} : Same(c)
    BY <1>1 DEF Others
  <2>6. QED
    BY <1>1, <2>1, <2>2, <2>3, <2>4, <2>5 DEF HelpersHaveAnOwner, Same
<1>10. QED
  BY <1>4, <1>5, <1>6, <1>7, <1>8, <1>9

(* A helper leaves the loop and is counted no longer.                      *)
LEMMA LeaveStep ==
  ASSUME IInv, TypeOK', NEW a \in Actors, LeaveLoop(a)
  PROVE  IInv'
<1> USE DEF IInv
<1>1. /\ pc[a] \in {"leave", "leaveForFrame"} /\ pc'[a] \in {"idle", "putBack"} /\ loop'[a] = None
      /\ pc'[a] = "idle" => role'[a] = "none"
      /\ pc'[a] = "putBack" => role'[a] = role[a] /\ slot'[a] = slot[a] /\ ticket'[a] = ticket[a]
      /\ helpers' = [helpers EXCEPT ![slot[a]] = @ - 1]
      /\ UNCHANGED <<generation, used, slotJob, ticketVars, loops, live>>
      /\ Others(a)
  BY DEF TypeOK, CallTypes, LeaveLoop, Leaves, Goto, jobVars, Others, Same
<1>2. /\ role[a] = "helper" /\ ticket[a] \in Tickets /\ slot[a] = ticket[a].slot /\ slot[a] \in Slots
  BY <1>1, ActorFacts
<1>3. ~Holds(a) /\ ~Holds(a)' /\ ~Open(a) /\ ~Serves(a) /\ role'[a] # "owner"
  BY <1>1, <1>2 DEF Holds, Open, Serves
<1>4. RolesAgree'
  BY <1>1, <1>2 DEF RolesAgree, Others, Same, HelperPcs, InsidePcs
<1>5. OwnersKeepTheirLoops'
  BY <1>1, <1>3 DEF OwnersKeepTheirLoops, Others, Same
<1>6. OwnersKeepTheirSlots'
  <2>1. \A b \in Actors \ {a} : (Holds(b)' <=> Holds(b)) /\ Same(b)
    BY <1>1, SameKeeps DEF Others
  <2>2. QED
    BY <1>1, <1>3, <2>1 DEF OwnersKeepTheirSlots, Same
<1>7. TicketsFitOpenSlots'
  <2>1. \A t \in Tickets : Out(t)' => Out(t)
    BY <1>1, <1>2 DEF Out, Others, Same, ticketVars
  <2>2. QED
    BY <1>1, <1>3, <2>1, TicketsStay
<1>8. HelpersCounted'
  <2>1. \A b \in Actors \ {a} : \A s : Inside(b, s)' <=> Inside(b, s)
    BY <1>1, SameKeeps DEF Others
  <2>2. \A s \in Slots \ {slot[a]} : InsideOf(s)' = InsideOf(s) /\ helpers'[s] = helpers[s]
    BY <1>1, <1>2, <2>1 DEF InsideOf, Inside, InsidePcs, TypeOK, SlotTypes
  <2>3. /\ helpers[slot[a]] \in Nat \ {0}
        /\ IsFiniteSet(InsideOf(slot[a])) /\ a \in InsideOf(slot[a])
    BY <1>1, <1>2, InsideIsCounted DEF Inside, InsidePcs
  <2>4. \A s \in Slots : s = slot[a] => InsideOf(s)' = InsideOf(s) \ {a}
    BY <1>1, <1>2, <2>1 DEF InsideOf, Inside, InsidePcs
  <2>5. Cardinality(InsideOf(slot[a]) \ {a}) = Cardinality(InsideOf(slot[a])) - 1
    BY <2>3, FS_RemoveElement
  <2>6. helpers'[slot[a]] = helpers[slot[a]] - 1
    BY <1>1, <1>2 DEF TypeOK, SlotTypes
  <2>7. \A s \in Slots : helpers'[s] = Cardinality(InsideOf(s)')
    BY <1>2, <2>2, <2>4, <2>5, <2>6 DEF HelpersCounted
  <2>8. QED
    BY <2>7 DEF HelpersCounted
<1>9. HelpersHaveAnOwner'
  BY <1>1, <1>3, OwnersStay DEF InsidePcs
<1>10. QED
  BY <1>4, <1>5, <1>6, <1>7, <1>8, <1>9

(* A call of parallelFor: its loop is new, and it has no slot yet.         *)
LEMMA CallStep ==
  ASSUME IInv, NEW a \in Actors, NEW p \in Callers, NEW k \in LoopKinds, CallParallelFor(a, p, k)
  PROVE  IInv'
<1> USE DEF IInv
<1>1. /\ pc[a] = "idle" /\ pc'[a] \in {"scan", "run"} /\ role'[a] = "owner" /\ loop'[a] = loops + 1
      /\ pc'[a] = "scan" => slot'[a] \in Slots
      /\ pc'[a] = "run" => slot'[a] = None
      /\ loops < MaxLoops /\ loops' = loops + 1 /\ live' = live \cup {loops + 1}
      /\ UNCHANGED <<slotVars, ticketVars>>
      /\ Others(a)
  BY DEF TypeOK, CallTypes, CallParallelFor, Goto, Others, Same
<1>2. TypeOK'
  <2>1. loops + 1 \in LoopIds /\ loops' \in 0 .. MaxLoops
    BY <1>1, LoopAssumption DEF TypeOK, JobTypes, LoopIds
  <2>2. k \in Kinds /\ k.chunks \in 0 .. MaxChunks
    BY LoopAssumption DEF Kinds
  <2>3. SlotTypes' /\ TicketTypes'
    BY <1>1 DEF TypeOK, SlotTypes, TicketTypes, slotVars, ticketVars
  <2>4. CallTypes'
    BY <2>1, <2>2 DEF TypeOK, CallTypes, CallParallelFor, Goto, Callers
  <2>5. JobTypes'
    BY <2>1, <2>2 DEF TypeOK, JobTypes, CallParallelFor
  <2>6. QED
    BY <2>3, <2>4, <2>5 DEF TypeOK
<1>3. role[a] = "none"
  BY <1>1 DEF TypeOK, CallTypes, RolesAgree, OwnerPcs, HelperPcs, InsidePcs
<1>4. ~Holds(a) /\ ~Holds(a)' /\ ~Open(a) /\ ~Serves(a)
  BY <1>1, <1>3 DEF Holds, Open, Serves
<1>5. RolesAgree'
  BY <1>1 DEF RolesAgree, Others, Same, OwnerPcs
<1>6. OwnersKeepTheirLoops'
  <2>1. loops \in Nat /\ live \subseteq 1 .. loops
    BY LoopAssumption DEF TypeOK, JobTypes, OwnersKeepTheirLoops
  <2>2. loops + 1 \notin 1 .. loops /\ (1 .. loops) \cup {loops + 1} \subseteq 1 .. (loops + 1)
    BY <2>1
  <2>3. loops + 1 \notin live /\ live' \subseteq 1 .. loops'
    BY <1>1, <2>1, <2>2
  <2>4. QED
    BY <1>1, <2>3 DEF OwnersKeepTheirLoops, Others, Same
<1>7. OwnersKeepTheirSlots'
  <2>1. \A b \in Actors \ {a} : (Holds(b)' <=> Holds(b)) /\ Same(b)
    BY <1>1, SameKeeps DEF Others
  <2>2. QED
    BY <1>1, <1>4, <2>1 DEF OwnersKeepTheirSlots, Same, slotVars
<1>8. TicketsFitOpenSlots'
  <2>1. \A t \in Tickets : Out(t)' => Out(t)
    BY <1>1 DEF Out, Others, Same, ticketVars
  <2>2. QED
    BY <1>1, <1>4, <2>1, TicketsStay DEF slotVars
<1>9. HelpersCounted'
  BY <1>1, <1>3, CountStays DEF Inside, slotVars
<1>10. HelpersHaveAnOwner'
  BY <1>1, <1>4, OwnersStay
<1>11. QED
  BY <1>2, <1>5, <1>6, <1>7, <1>8, <1>9, <1>10

(* A helper begins with a ticket that was out before.                      *)
LEMMA BeginStep ==
  ASSUME IInv, NEW a \in Actors, NEW p \in Callers, NEW t \in Tickets, NEW background \in BOOLEAN,
         BeginHelp(a, p, t, background), Out(t), TicketTypes',
         \A u : InQueue(frameTickets', u) => InQueue(frameTickets, u),
         \A u : InQueue(backgroundTickets', u) => InQueue(backgroundTickets, u)
  PROVE  IInv'
<1> USE DEF IInv
<1>1. /\ pc[a] = "idle" /\ pc'[a] = "join" /\ role'[a] = "helper" /\ loop'[a] = loop[a]
      /\ ticket'[a] = t /\ slot'[a] = t.slot
      /\ UNCHANGED <<slotVars, handedOut, loops, live>>
      /\ Others(a)
  BY DEF TypeOK, CallTypes, BeginHelp, Goto, Others, Same, jobVars
<1>2. TypeOK'
  <2>1. NotOwner(background) \in Kinds /\ t.slot \in Slots
    BY DEF NotOwner, Kinds, Tickets
  <2>2. SlotTypes' /\ JobTypes'
    BY DEF BeginHelp, TypeOK, SlotTypes, JobTypes, slotVars, jobVars
  <2>3. CallTypes'
    BY <2>1 DEF TypeOK, CallTypes, BeginHelp, Goto, Callers
  <2>4. QED
    BY <2>2, <2>3 DEF TypeOK
<1>3. role[a] = "none" /\ loop[a] = None
  BY <1>1 DEF TypeOK, CallTypes, RolesAgree, OwnerPcs, HelperPcs, InsidePcs
<1>4. ~Holds(a) /\ ~Holds(a)' /\ ~Open(a) /\ ~Serves(a)
  BY <1>1, <1>3 DEF Holds, Open, Serves
<1>5. RolesAgree'
  BY <1>1, <1>3 DEF RolesAgree, Others, Same, HelperPcs
<1>6. OwnersKeepTheirLoops'
  BY <1>1 DEF OwnersKeepTheirLoops, Others, Same
<1>7. OwnersKeepTheirSlots'
  <2>1. \A b \in Actors \ {a} : (Holds(b)' <=> Holds(b)) /\ Same(b)
    BY <1>1, SameKeeps DEF Others
  <2>2. QED
    BY <1>1, <1>4, <2>1 DEF OwnersKeepTheirSlots, Same, slotVars
<1>8. TicketsFitOpenSlots'
  <2>1. \A u \in Tickets : Out(u)' => Out(u)
    BY <1>1 DEF Out, Others, Same
  <2>2. QED
    BY <1>1, <1>4, <2>1, TicketsStay DEF slotVars
<1>9. HelpersCounted'
  BY <1>1, <1>3, CountStays DEF Inside, InsidePcs, slotVars
<1>10. HelpersHaveAnOwner'
  BY <1>1, <1>4, OwnersStay DEF InsidePcs
<1>11. QED
  BY <1>2, <1>5, <1>6, <1>7, <1>8, <1>9, <1>10

(* Its ticket comes from a queue or from the program.                      *)
LEMMA HelpStep ==
  ASSUME IInv, NEW a \in Actors, NEW p \in Callers,
         HelpParallel(a, p) \/ HelpByTicket(a, p) \/ HelpBackground(a)
  PROVE  IInv'
<1>1. frameTickets \in Seq(Tickets) /\ backgroundTickets \in Seq(Tickets) /\ handedOut \subseteq Tickets
  BY DEF IInv, TypeOK, TicketTypes
<1>2. CASE HelpParallel(a, p)
  <2>1. frameTickets # <<>> /\ frameTickets' = Tail(frameTickets) /\ backgroundTickets' = backgroundTickets
        /\ BeginHelp(a, p, Head(frameTickets), FALSE) /\ handedOut' = handedOut
    BY <1>2 DEF HelpParallel, BeginHelp
  <2>2. QED
    BY <1>1, <2>1, TakeQueue, BeginStep DEF Out, TicketTypes
<1>3. CASE HelpBackground(a)
  <2>1. backgroundTickets # <<>> /\ backgroundTickets' = Tail(backgroundTickets)
        /\ frameTickets' = frameTickets
        /\ BeginHelp(a, None, Head(backgroundTickets), TRUE) /\ handedOut' = handedOut
    BY <1>3 DEF HelpBackground, BeginHelp
  <2>2. None \in Callers
    BY DEF Callers
  <2>3. QED
    BY <1>1, <2>1, <2>2, TakeQueue, BeginStep DEF Out, TicketTypes
<1>4. CASE HelpByTicket(a, p)
  <2>1. PICK t \in handedOut : /\ UNCHANGED <<frameTickets, backgroundTickets>>
                               /\ BeginHelp(a, p, t, FALSE)
    BY <1>4 DEF HelpByTicket
  <2>2. handedOut' = handedOut
    BY <2>1 DEF BeginHelp
  <2>3. QED
    BY <1>1, <2>1, <2>2, BeginStep DEF Out, TicketTypes
<1>5. QED
  BY <1>2, <1>3, <1>4

-----------------------------------------------------------------------------
(* The theorems. *)

LEMMA InitInvariant == Init => IInv
<1>1. SUFFICES ASSUME Init PROVE IInv
  OBVIOUS
<1>2. TypeOK
  <2>1. NoKind \in Kinds
    BY DEF NoKind, NotOwner, Kinds
  <2>2. SlotTypes /\ TicketTypes
    BY <1>1 DEF Init, SlotTypes, TicketTypes
  <2>3. CallTypes
    BY <1>1, <2>1 DEF Init, CallTypes
  <2>4. JobTypes
    BY <1>1, LoopAssumption DEF Init, JobTypes
  <2>5. QED
    BY <2>2, <2>3, <2>4 DEF TypeOK
<1>3. \A a \in Actors : role[a] = "none" /\ pc[a] = "idle" /\ loop[a] = None
  BY <1>1 DEF Init
<1>4. RolesAgree /\ OwnersKeepTheirSlots /\ HelpersHaveAnOwner
  BY <1>3 DEF RolesAgree, OwnersKeepTheirSlots, HelpersHaveAnOwner, Holds
<1>5. OwnersKeepTheirLoops
  BY <1>1, <1>3 DEF Init, OwnersKeepTheirLoops
<1>6. TicketsFitOpenSlots
  <2>1. \A t : ~Out(t)
    BY <1>1, <1>3 DEF Init, Out, InQueue
  <2>2. QED
    BY <2>1 DEF TicketsFitOpenSlots
<1>7. HelpersCounted
  <2>1. \A s \in Slots : InsideOf(s) = {}
    BY <1>3 DEF InsideOf, Inside
  <2>2. QED
    BY <1>1, <2>1, FS_EmptySet DEF Init, HelpersCounted
<1>8. QED
  BY <1>2, <1>4, <1>5, <1>6, <1>7 DEF IInv

LEMMA StutterStep ==
  ASSUME IInv, UNCHANGED vars
  PROVE  IInv'
<1> USE DEF IInv, vars, slotVars, ticketVars, jobVars, callVars
<1>1. TypeOK'
  BY DEF TypeOK, SlotTypes, TicketTypes, CallTypes, JobTypes
<1>2. RolesAgree' /\ OwnersKeepTheirLoops'
  BY DEF RolesAgree, OwnersKeepTheirLoops
<1>3. OwnersKeepTheirSlots'
  BY DEF OwnersKeepTheirSlots, Holds
<1>4. TicketsFitOpenSlots'
  BY DEF TicketsFitOpenSlots, Out, InQueue, Open, Holds
<1>5. HelpersCounted'
  <2>1. \A s \in Slots : InsideOf(s)' = InsideOf(s)
    BY DEF InsideOf, Inside
  <2>2. QED
    BY <2>1 DEF HelpersCounted
<1>6. HelpersHaveAnOwner'
  BY DEF HelpersHaveAnOwner, Serves, Open, Holds
<1>7. QED
  BY <1>1, <1>2, <1>3, <1>4, <1>5, <1>6

LEMMA NextInvariant ==
  ASSUME IInv, [Next]_vars
  PROVE  IInv'
<1>1. ASSUME NEW a \in Actors, Own(a) \/ RunLoop(a) \/ Help(a)
      PROVE  IInv'
  <2>1. TypeOK'
    BY <1>1, TypeStep
  <2>2. CASE TicketsOut(a) \/ RunLoop(a) \/ StopEarly(a)
    BY <2>1, <2>2, WorkStep
  <2>3. CASE ScanSlot(a) \/ OpenSlot(a) \/ GiveBackSlot(a) \/ ClearJob(a) \/ FreeSlot(a)
    BY <2>1, <2>3, SlotStep
  <2>4. CASE PushTicket(a) \/ OnTicket(a) \/ OnTicketThrows(a)
    BY <2>1, <2>4, IssueStep
  <2>5. CASE CloseSlot(a)
    BY <2>1, <2>5, CloseStep
  <2>6. CASE Drained(a)
    BY <2>1, <2>6, DrainedStep
  <2>7. CASE Return(a)
    BY <2>1, <2>7, ReturnStep
  <2>8. CASE JoinVoid(a) \/ PutBack(a)
    BY <2>1, <2>8, GoneStep
  <2>9. CASE Join(a)
    BY <2>1, <2>9, JoinStep
  <2>10. CASE LoadJob(a)
    BY <2>1, <2>10, LoadStep
  <2>11. CASE LeaveLoop(a)
    BY <2>1, <2>11, LeaveStep
  <2>12. QED
    BY <1>1, <2>2, <2>3, <2>4, <2>5, <2>6, <2>7, <2>8, <2>9, <2>10, <2>11 DEF Own, Help
<1>2. ASSUME NEW a \in Actors, Call(a)
      PROVE  IInv'
  <2>1. None \in Callers
    BY DEF Callers
  <2>2. QED
    BY <1>2, <2>1, CallStep, HelpStep DEF Call
<1>3. QED
  BY <1>1, <1>2, StutterStep DEF Next

(* The inductive invariant holds in every state of every behaviour.        *)
THEOREM Invariant == Spec => []IInv
BY InitInvariant, NextInvariant, PTL DEF Spec

(* parallelFor and its helpers keep their types, for any number of         *)
(* threads, slots, tickets, loops and chunks: in particular a helper never *)
(* loads a job that is not there, and the count of helpers in the word of  *)
(* a slot never goes below zero and so never borrows from the generation.  *)
THEOREM TypeCorrect == Spec => []TypeOK
<1>1. IInv => TypeOK
  BY DEF IInv
<1>2. QED
  BY <1>1, Invariant, PTL

LEMMA JobOutlives ==
  ASSUME IInv
  PROVE  JobOutlivesHelpers
<1>1. SUFFICES ASSUME NEW a \in Actors
               PROVE  /\ UsesJob(a) => loop[a] \in live
                      /\ pc[a] = "load" => slotJob[slot[a]] \in live
  BY DEF JobOutlivesHelpers
<1>2. role[a] \in {"none", "owner", "helper"}
  BY DEF IInv, TypeOK, CallTypes
<1>3. CASE role[a] # "helper"
  BY <1>2, <1>3
     DEF IInv, RolesAgree, OwnersKeepTheirLoops, UsesJob, OwnerPcs, HelperPcs, InsidePcs
<1>4. CASE role[a] = "helper" /\ pc[a] \in InsidePcs
  <2>1. PICK b \in Actors :
          /\ Serves(b)
          /\ slot[b] = slot[a]
          /\ pc[a] # "load" => loop[a] = loop[b]
    BY <1>4 DEF IInv, HelpersHaveAnOwner
  <2>2. loop[b] \in live /\ slotJob[slot[b]] = loop[b]
    BY <2>1 DEF IInv, OwnersKeepTheirLoops, OwnersKeepTheirSlots, Serves, Open, Holds
  <2>3. QED
    BY <2>1, <2>2 DEF UsesJob
<1>5. CASE role[a] = "helper" /\ pc[a] \notin InsidePcs
  BY <1>5 DEF UsesJob, InsidePcs
<1>6. QED
  BY <1>3, <1>4, <1>5

(* The Job on the stack of a caller of parallelFor outlives everybody who  *)
(* works on it, for any number of threads, slots, tickets, loops and       *)
(* chunks, whatever stale tickets are still about.                         *)
THEOREM JobSafe == Spec => []JobOutlivesHelpers
<1>1. IInv => JobOutlivesHelpers
  BY JobOutlives
<1>2. QED
  BY <1>1, Invariant, PTL

(* A ticket leads into the loop it was made for, whatever loops its slot   *)
(* has served since.                                                       *)
THEOREM RightLoop == Spec => []TicketLeadsToItsLoop
<1>1. ASSUME IInv PROVE TicketLeadsToItsLoop
  <2>1. SUFFICES ASSUME NEW a \in Actors, NEW b \in Actors, role[a] = "helper", UsesJob(a),
                        role[b] = "owner", slot[b] = slot[a], pc[b] # "scan"
                 PROVE  loop[a] = loop[b]
    BY DEF TicketLeadsToItsLoop
  <2>2. PICK o \in Actors : Serves(o) /\ slot[o] = slot[a] /\ loop[a] = loop[o]
    BY <1>1, <2>1 DEF IInv, HelpersHaveAnOwner, UsesJob, InsidePcs
  <2>3. Holds(o) /\ Holds(b)
    BY <2>1, <2>2 DEF Serves, Open, Holds
  <2>4. o = b
    BY <1>1, <2>1, <2>2, <2>3 DEF IInv, OwnersKeepTheirSlots
  <2>5. QED
    BY <2>2, <2>4
<1>2. QED
  BY <1>1, Invariant, PTL

-----------------------------------------------------------------------------
(* Every chunk is called once, on top of the invariant.                    *)

\* Past the loop: the owner has nothing left to do but to wait and go.
DonePcs == {"close", "drain", "clearJob", "freeSlot", "return"}

\* Chunks are given out from the first on, each once; an exception may skip the
\* last ones.
ChunksInOrder ==
  \A l \in LoopIds :
    /\ next[l] <= size[l]
    /\ \A c \in 0 .. MaxChunks - 1 :
         /\ started[l][c] <= 1
         /\ c >= next[l] => started[l][c] = 0
         /\ c < next[l] /\ ~failed[l] => started[l][c] = 1

\* What the loops that have not begun, and those that are over, left behind.
LoopsEndOnce ==
  \A l \in LoopIds :
    /\ l > loops => size[l] = 0 /\ next[l] = 0 /\ ~failed[l] /\ result[l] = "none"
    /\ result[l] = "returned" => ~failed[l] /\ next[l] = size[l]
    /\ result[l] # "none" => l \notin live

\* No chunk is left for an owner that waits, and a throw is noted at once.
LoopsAreDone ==
  \A a \in Actors :
    /\ pc[a] = "threw" => failed[loop[a]]
    /\ role[a] = "owner" /\ pc[a] \in DonePcs => next[loop[a]] = size[loop[a]]

ChunkInv == ChunksInOrder /\ LoopsEndOnce /\ LoopsAreDone

\* The Job of every loop somebody works on exists.
LEMMA LoopIsLive ==
  ASSUME IInv
  PROVE  \A a \in Actors : loop[a] = None \/ loop[a] \in live
<1> SUFFICES ASSUME NEW a \in Actors
             PROVE  loop[a] = None \/ loop[a] \in live
  OBVIOUS
<1>1. role[a] \in {"none", "owner", "helper"}
  BY DEF IInv, TypeOK, CallTypes
<1>2. CASE role[a] # "helper"
  BY <1>1, <1>2 DEF IInv, RolesAgree, OwnersKeepTheirLoops
<1>3. CASE role[a] = "helper"
  <2>1. UsesJob(a) => loop[a] \in live
    BY JobOutlives DEF JobOutlivesHelpers
  <2> QED
    BY <1>3, <2>1 DEF IInv, RolesAgree, UsesJob, HelperPcs, InsidePcs
<1> QED
  BY <1>2, <1>3

\* Nothing happens to the jobs: a step of an owner past its loop stays there.
LEMMA QuietChunks ==
  ASSUME ChunkInv, UNCHANGED jobVars,
         \A b \in Actors :
           /\ pc'[b] = "threw" => pc[b] = "threw" /\ loop'[b] = loop[b]
           /\ role'[b] = "owner" /\ pc'[b] \in DonePcs =>
                /\ loop'[b] = loop[b]
                /\ \/ role[b] = "owner" /\ pc[b] \in DonePcs
                   \/ next[loop[b]] = size[loop[b]]
  PROVE  ChunkInv'
BY DEF ChunkInv, ChunksInOrder, LoopsEndOnce, LoopsAreDone, jobVars

LEMMA QuietStep ==
  ASSUME IInv, ChunkInv, NEW a \in Actors,
         \/ ScanSlot(a) \/ OpenSlot(a) \/ PushTicket(a) \/ TicketsOut(a) \/ GiveBackSlot(a) \/ OnTicket(a)
         \/ CloseSlot(a) \/ Drained(a) \/ ClearJob(a) \/ FreeSlot(a)
         \/ ChunkReturns(a) \/ StopEarly(a)
  PROVE  ChunkInv'
<1>1. UNCHANGED <<jobVars, role, loop>>
  BY DEF ScanSlot, OpenSlot, PushTicket, TicketsOut, GiveBackSlot, OnTicket, CloseSlot, Drained, ClearJob,
         FreeSlot, ChunkReturns, StopEarly
<1>2. /\ pc'[a] # "threw"
      /\ pc'[a] \in DonePcs => pc[a] \in DonePcs
      /\ \A b \in Actors \ {a} : pc'[b] = pc[b]
  BY DEF ScanSlot, OpenSlot, PushTicket, TicketsOut, GiveBackSlot, OnTicket, CloseSlot, Drained, ClearJob,
         FreeSlot, ChunkReturns, StopEarly, Goto, DonePcs, IInv, TypeOK, CallTypes
<1> QED
  BY <1>1, <1>2, QuietChunks

LEMMA NothingLeftStep ==
  ASSUME IInv, ChunkInv, NEW a \in Actors, NothingLeft(a)
  PROVE  ChunkInv'
<1>1. UNCHANGED <<jobVars, role, loop>>
  BY DEF NothingLeft
<1>2. /\ pc[a] = "run" /\ pc'[a] # "threw"
      /\ \A b \in Actors \ {a} : pc'[b] = pc[b]
  BY DEF NothingLeft, Goto, AfterRun, IInv, TypeOK, CallTypes
<1>3. loop[a] \in LoopIds
  BY <1>2, JobOutlives DEF JobOutlivesHelpers, UsesJob, IInv, TypeOK, JobTypes
<1>4. next[loop[a]] = size[loop[a]]
  BY <1>3 DEF NothingLeft, ChunkInv, ChunksInOrder, IInv, TypeOK, JobTypes
<1> QED
  BY <1>1, <1>2, <1>4, QuietChunks

\* Who helps works on a loop or on none, and is past none of its own.
LEMMA HelperStep ==
  ASSUME IInv, ChunkInv, NEW a \in Actors,
         \/ JoinVoid(a) \/ Join(a) \/ LoadJob(a) \/ LeaveLoop(a) \/ PutBack(a)
         \/ \E p, t, background : BeginHelp(a, p, t, background)
  PROVE  ChunkInv'
<1>1. UNCHANGED jobVars
  BY DEF JoinVoid, Join, LoadJob, LeaveLoop, PutBack, BeginHelp
<1>2. /\ pc'[a] \notin DonePcs \cup {"threw"}
      /\ \A b \in Actors \ {a} : pc'[b] = pc[b] /\ role'[b] = role[b] /\ loop'[b] = loop[b]
  BY DEF JoinVoid, Join, LoadJob, LeaveLoop, PutBack, BeginHelp, Leaves, Goto, DonePcs, IInv, TypeOK, CallTypes
<1> QED
  BY <1>1, <1>2, QuietChunks

\* The actor is in a loop: it has a Job, and nobody else gives it back meanwhile.
LEMMA InLoop ==
  ASSUME IInv, ChunkInv, NEW a \in Actors, UsesJob(a) \/ role[a] = "owner"
  PROVE  /\ loop[a] \in live /\ loop[a] \in LoopIds /\ loop[a] <= loops
         /\ result[loop[a]] = "none"
         /\ next[loop[a]] \in Nat /\ size[loop[a]] \in 0 .. MaxChunks /\ next[loop[a]] <= size[loop[a]]
         /\ started[loop[a]] \in [0 .. MaxChunks - 1 -> Nat]
<1>1. loop[a] \in live
  BY JobOutlives DEF JobOutlivesHelpers, IInv, OwnersKeepTheirLoops
<1>2. loop[a] \in LoopIds /\ loop[a] <= loops
  <2>1. live \subseteq LoopIds /\ live \subseteq 1 .. loops /\ loops \in Nat
    BY DEF IInv, OwnersKeepTheirLoops, TypeOK, JobTypes
  <2>2. loop[a] \in LoopIds /\ loop[a] \in 1 .. loops
    BY <1>1, <2>1
  <2> QED
    BY <2>1, <2>2
<1> QED
  BY <1>1, <1>2 DEF ChunkInv, ChunksInOrder, LoopsEndOnce, IInv, TypeOK, JobTypes

LEMMA TakeChunkStep ==
  ASSUME IInv, ChunkInv, NEW a \in Actors, TakeChunk(a)
  PROVE  ChunkInv'
<1> DEFINE l == loop[a]
           n == next[l]
<1>1. /\ pc[a] = "run" /\ pc' = [pc EXCEPT ![a] = "body"] /\ n < size[l]
      /\ next' = [next EXCEPT ![l] = n + 1]
      /\ started' = [started EXCEPT ![l][n] = @ + 1]
      /\ UNCHANGED <<loops, live, size, failed, result, role, loop>>
  BY DEF TakeChunk, Goto
<1>2. UsesJob(a)
  BY <1>1 DEF UsesJob
<1>3. /\ l \in live /\ l \in LoopIds /\ l <= loops /\ result[l] = "none" /\ n \in Nat
      /\ size[l] \in 0 .. MaxChunks
      /\ started[l] \in [0 .. MaxChunks - 1 -> Nat]
  BY <1>2, InLoop
<1>4. /\ next \in [LoopIds -> Nat] /\ started \in [LoopIds -> [0 .. MaxChunks - 1 -> Nat]]
      /\ pc'[a] = "body" /\ (\A b \in Actors \ {a} : pc'[b] = pc[b]) /\ MaxChunks \in Nat
  BY <1>1, LoopAssumption DEF IInv, TypeOK, JobTypes, CallTypes
<1>5. n \in 0 .. MaxChunks - 1
  BY <1>1, <1>3, <1>4
<1>6. /\ next'[l] = n + 1 /\ started'[l][n] = started[l][n] + 1
      /\ \A c \in 0 .. MaxChunks - 1 : c # n => started'[l][c] = started[l][c]
      /\ \A m \in LoopIds \ {l} : next'[m] = next[m] /\ started'[m] = started[m]
  BY <1>1, <1>3, <1>4, <1>5
<1>7. ChunksInOrder'
  <2>1. ASSUME NEW m \in LoopIds, m # l
        PROVE  /\ (next[m] <= size[m])'
               /\ \A c \in 0 .. MaxChunks - 1 :
                    /\ (started[m][c] <= 1)'
                    /\ (c >= next[m] => started[m][c] = 0)'
                    /\ (c < next[m] /\ ~failed[m] => started[m][c] = 1)'
    BY <1>1, <1>6, <2>1 DEF ChunkInv, ChunksInOrder
  <2>2. /\ next'[l] <= size'[l]
        /\ \A c \in 0 .. MaxChunks - 1 :
             /\ started'[l][c] <= 1
             /\ c >= next'[l] => started'[l][c] = 0
             /\ c < next'[l] /\ ~failed'[l] => started'[l][c] = 1
    BY <1>1, <1>3, <1>5, <1>6 DEF ChunkInv, ChunksInOrder
  <2> QED
    BY <1>1, <1>3, <2>1, <2>2 DEF ChunksInOrder
<1>8. LoopsEndOnce'
  BY <1>1, <1>3, <1>6 DEF ChunkInv, LoopsEndOnce, LoopIds, IInv, TypeOK, JobTypes
<1>9. LoopsAreDone'
  <2>1. ASSUME NEW b \in Actors, role[b] = "owner", pc[b] \in DonePcs
        PROVE  loop[b] # l
    BY <1>1, <1>3, <2>1 DEF ChunkInv, LoopsAreDone
  <2>2. ASSUME NEW b \in Actors
        PROVE  /\ pc'[b] = "threw" => failed'[loop'[b]]
               /\ role'[b] = "owner" /\ pc'[b] \in DonePcs => next'[loop'[b]] = size'[loop'[b]]
    <3>1. pc'[b] = "threw" => pc[b] = "threw"
      BY <1>1, <1>4
    <3>2. pc'[b] \in DonePcs => pc[b] \in DonePcs
      BY <1>1, <1>4 DEF DonePcs
    <3>3. role[b] = "owner" => loop[b] \in LoopIds
      BY InLoop
    <3> QED
      BY <1>1, <1>6, <2>1, <3>1, <3>2, <3>3 DEF ChunkInv, LoopsAreDone
  <2> QED
    BY <2>2 DEF LoopsAreDone
<1> QED
  BY <1>7, <1>8, <1>9 DEF ChunkInv

LEMMA ChunkThrowsStep ==
  ASSUME IInv, ChunkInv, NEW a \in Actors, ChunkThrows(a)
  PROVE  ChunkInv'
<1>1. /\ pc[a] = "body" /\ pc' = [pc EXCEPT ![a] = "threw"]
      /\ failed' = [failed EXCEPT ![loop[a]] = TRUE]
      /\ UNCHANGED <<loops, live, size, next, started, result, role, loop>>
  BY DEF ChunkThrows, Goto
<1>2. /\ loop[a] \in LoopIds /\ loop[a] <= loops /\ result[loop[a]] = "none"
  BY <1>1, InLoop DEF UsesJob
<1>3. failed \in [LoopIds -> BOOLEAN] /\ loops \in Nat
      /\ pc'[a] = "threw" /\ \A b \in Actors \ {a} : pc'[b] = pc[b]
  BY <1>1 DEF IInv, TypeOK, JobTypes, CallTypes
<1>4. failed'[loop[a]] /\ \A m \in LoopIds \ {loop[a]} : failed'[m] = failed[m]
  BY <1>1, <1>2, <1>3
<1>5. \A b \in Actors : pc[b] = "threw" => loop[b] \in LoopIds
  BY InLoop DEF UsesJob
<1>6. ChunksInOrder'
  BY <1>1, <1>2, <1>4 DEF ChunkInv, ChunksInOrder
<1>7. LoopsEndOnce'
  BY <1>1, <1>2, <1>3, <1>4 DEF ChunkInv, LoopsEndOnce, LoopIds
<1>8. LoopsAreDone'
  BY <1>1, <1>3, <1>4, <1>5 DEF ChunkInv, LoopsAreDone, DonePcs
<1> QED
  BY <1>6, <1>7, <1>8 DEF ChunkInv

\* Job::run stores count in next after an exception, and so does onTicket's.
LEMMA LoopIsOver ==
  ASSUME IInv, ChunkInv, NEW a \in Actors, EndLoop(a) \/ OnTicketThrows(a)
  PROVE  ChunkInv'
<1> DEFINE l == loop[a]
<1>1. /\ next' = [next EXCEPT ![l] = size[l]]
      /\ UNCHANGED <<loops, live, size, started, result, role, loop>>
      /\ pc'[a] # "threw" /\ \A b \in Actors \ {a} : pc'[b] = pc[b]
  BY DEF EndLoop, OnTicketThrows, Goto, AfterRun, IInv, TypeOK, CallTypes
<1>2. UsesJob(a) \/ role[a] = "owner"
  <2>1. role[a] \in {"none", "owner", "helper"}
    BY DEF IInv, TypeOK, CallTypes
  <2> QED
    BY <2>1 DEF EndLoop, OnTicketThrows, Goto, UsesJob, IInv, RolesAgree, HelperPcs, InsidePcs
<1>3. /\ l \in LoopIds /\ l <= loops /\ result[l] = "none" /\ next[l] \in Nat
      /\ size[l] \in 0 .. MaxChunks /\ next[l] <= size[l]
  BY <1>2, InLoop
<1>4. /\ failed'[l] /\ \A m \in LoopIds \ {l} : failed'[m] = failed[m]
      /\ failed[l] => failed'[l]
  BY <1>3 DEF EndLoop, OnTicketThrows, Goto, ChunkInv, LoopsAreDone, IInv, TypeOK, JobTypes
<1>5. next'[l] = size[l] /\ \A m \in LoopIds \ {l} : next'[m] = next[m]
  BY <1>1, <1>3 DEF IInv, TypeOK, JobTypes
<1>6. ChunksInOrder'
  BY <1>1, <1>3, <1>4, <1>5 DEF ChunkInv, ChunksInOrder
<1>7. LoopsEndOnce'
  BY <1>1, <1>3, <1>4, <1>5 DEF ChunkInv, LoopsEndOnce, LoopIds, IInv, TypeOK, JobTypes
<1>8. LoopsAreDone'
  <2> SUFFICES ASSUME NEW b \in Actors
               PROVE  /\ pc'[b] = "threw" => failed'[loop[b]]
                      /\ role[b] = "owner" /\ pc'[b] \in DonePcs => next'[loop[b]] = size[loop[b]]
    BY <1>1 DEF LoopsAreDone
  <2>1. UsesJob(b) \/ role[b] = "owner" => loop[b] \in LoopIds
    BY InLoop
  <2>2. pc[b] = "threw" => UsesJob(b)
    BY DEF UsesJob
  <2>3. CASE b = a
    BY <1>1, <1>5, <2>3
  <2>4. CASE b # a
    BY <1>1, <1>4, <1>5, <2>1, <2>2, <2>4 DEF ChunkInv, LoopsAreDone
  <2> QED
    BY <2>3, <2>4
<1> QED
  BY <1>6, <1>7, <1>8 DEF ChunkInv

LEMMA CallChunks ==
  ASSUME IInv, ChunkInv, NEW a \in Actors, NEW p, NEW k \in LoopKinds, CallParallelFor(a, p, k)
  PROVE  ChunkInv'
<1> DEFINE l == loops + 1
<1>1. /\ l \in LoopIds /\ pc[a] = "idle" /\ loops' = l /\ live' = live \cup {l}
      /\ size' = [size EXCEPT ![l] = k.chunks]
      /\ loop' = [loop EXCEPT ![a] = l]
      /\ UNCHANGED <<next, failed, started, result>>
      /\ pc'[a] \in {"run", "scan"}
      /\ \A b \in Actors \ {a} : pc'[b] = pc[b] /\ role'[b] = role[b] /\ loop'[b] = loop[b]
  BY LoopAssumption DEF CallParallelFor, Goto, LoopIds, IInv, TypeOK, CallTypes, JobTypes
<1>2. k.chunks \in Nat /\ loops \in Nat
  BY LoopAssumption DEF IInv, TypeOK, JobTypes
<1>3. size'[l] = k.chunks /\ \A m \in LoopIds \ {l} : size'[m] = size[m]
  BY <1>1 DEF IInv, TypeOK, JobTypes
<1>4. size[l] = 0 /\ next[l] = 0 /\ ~failed[l] /\ result[l] = "none"
  BY <1>1, <1>2 DEF ChunkInv, LoopsEndOnce
<1>5. ChunksInOrder'
  BY <1>1, <1>2, <1>3, <1>4 DEF ChunkInv, ChunksInOrder
<1>6. LoopsEndOnce'
  BY <1>1, <1>2, <1>3, <1>4 DEF ChunkInv, LoopsEndOnce, LoopIds
<1>7. LoopsAreDone'
  <2> SUFFICES ASSUME NEW b \in Actors
               PROVE  /\ pc'[b] = "threw" => failed'[loop'[b]]
                      /\ role'[b] = "owner" /\ pc'[b] \in DonePcs => next'[loop'[b]] = size'[loop'[b]]
    BY DEF LoopsAreDone
  <2>1. CASE b = a
    BY <1>1, <2>1 DEF DonePcs
  <2>2. CASE b # a
    <3>1. role[b] = "owner" => loop[b] \in LoopIds /\ loop[b] # l
      BY <1>2, InLoop
    <3> QED
      BY <1>1, <1>3, <2>2, <3>1 DEF ChunkInv, LoopsAreDone
  <2> QED
    BY <2>1, <2>2
<1> QED
  BY <1>5, <1>6, <1>7 DEF ChunkInv

LEMMA ReturnChunks ==
  ASSUME IInv, ChunkInv, NEW a \in Actors, Return(a)
  PROVE  ChunkInv'
<1> DEFINE l == loop[a]
<1>1. /\ pc[a] = "return" /\ live' = live \ {l}
      /\ result' = [result EXCEPT ![l] = IF failed[l] THEN "threw" ELSE "returned"]
      /\ UNCHANGED <<loops, size, next, failed, started>>
      /\ pc'[a] = "idle"
      /\ \A b \in Actors \ {a} : pc'[b] = pc[b] /\ role'[b] = role[b] /\ loop'[b] = loop[b]
  BY DEF Return, Goto, IInv, TypeOK, CallTypes
<1>2. role[a] = "owner"
  BY <1>1 DEF IInv, RolesAgree, HelperPcs, InsidePcs, TypeOK, CallTypes
<1>3. l \in LoopIds /\ l <= loops /\ next[l] = size[l]
  BY <1>1, <1>2, InLoop DEF ChunkInv, LoopsAreDone, DonePcs
<1>4. /\ result'[l] = IF failed[l] THEN "threw" ELSE "returned"
      /\ \A m \in LoopIds \ {l} : result'[m] = result[m]
  BY <1>1, <1>3 DEF IInv, TypeOK, JobTypes
<1>5. ChunksInOrder'
  BY <1>1 DEF ChunkInv, ChunksInOrder
<1>6. LoopsEndOnce'
  BY <1>1, <1>3, <1>4 DEF ChunkInv, LoopsEndOnce, LoopIds, IInv, TypeOK, JobTypes
<1>7. LoopsAreDone'
  BY <1>1 DEF ChunkInv, LoopsAreDone, DonePcs
<1> QED
  BY <1>5, <1>6, <1>7 DEF ChunkInv

LEMMA NextChunks ==
  ASSUME IInv, ChunkInv, [Next]_vars
  PROVE  ChunkInv'
<1>1. CASE UNCHANGED vars
  BY <1>1, QuietChunks DEF vars, callVars, jobVars
<1>2. ASSUME NEW a \in Actors, Own(a) \/ RunLoop(a) \/ Help(a)
      PROVE  ChunkInv'
  BY <1>2, QuietStep, NothingLeftStep, HelperStep, TakeChunkStep, ChunkThrowsStep, LoopIsOver, ReturnChunks
     DEF Own, RunLoop, Help
<1>3. ASSUME NEW a \in Actors, Call(a)
      PROVE  ChunkInv'
  <2>1. CASE \E p \in Callers, k \in LoopKinds : CallParallelFor(a, p, k)
    BY <2>1, CallChunks
  <2>2. CASE (\E p \in Callers : HelpParallel(a, p) \/ HelpByTicket(a, p)) \/ HelpBackground(a)
    <3>1. \E p, t, background : BeginHelp(a, p, t, background)
      BY <2>2 DEF HelpParallel, HelpByTicket, HelpBackground
    <3> QED
      BY <3>1, HelperStep
  <2> QED
    BY <1>3, <2>1, <2>2 DEF Call
<1> QED
  BY <1>1, <1>2, <1>3 DEF Next

\* The function of parallelFor is called at most once for every chunk, whoever
\* takes part with whatever ticket, and a loop that returns without exception
\* has had every chunk called, with nobody left inside.
THEOREM ChunksOnce == Spec => []EveryChunkOnce
<1>1. Init => ChunkInv
  BY DEF Init, ChunkInv, ChunksInOrder, LoopsEndOnce, LoopsAreDone
<1>2. IInv /\ ChunkInv /\ [Next]_vars => ChunkInv'
  BY NextChunks
<1>3. IInv /\ ChunkInv => EveryChunkOnce
  <2> SUFFICES ASSUME IInv, ChunkInv, NEW l \in 1 .. loops
               PROVE  /\ \A c \in 0 .. size[l] - 1 : started[l][c] <= 1
                      /\ result[l] = "returned" => \A c \in 0 .. size[l] - 1 : started[l][c] = 1
                      /\ result[l] # "none" => \A a \in Actors : loop[a] # l
    BY DEF EveryChunkOnce
  <2>1. l \in LoopIds /\ l # None /\ size[l] \in 0 .. MaxChunks /\ MaxChunks \in Nat
    BY LoopAssumption DEF IInv, TypeOK, JobTypes, LoopIds
  <2>2. \A c \in 0 .. size[l] - 1 : c \in 0 .. MaxChunks - 1
    BY <2>1
  <2>3. result[l] # "none" => \A a \in Actors : loop[a] # l
    BY <2>1, LoopIsLive DEF ChunkInv, LoopsEndOnce
  <2> QED
    BY <2>1, <2>2, <2>3 DEF ChunkInv, ChunksInOrder, LoopsEndOnce
<1> QED
  BY <1>1, <1>2, <1>3, Invariant, PTL DEF Spec

=============================================================================
