------------------------------- MODULE Column -------------------------------
(***************************************************************************)
(* The components of one type, each at the index of its entity: class      *)
(* Column of src/sc/ecs/column.hpp.  What a page knows about its entities  *)
(* (PageHeader) is changed by single atomic steps, and each of them is an  *)
(* action here.                                                            *)
(*                                                                         *)
(* kind says which component it is:                                        *)
(*   value     HAS_VALUE, it has members and so its pages have memory,     *)
(*   destroys  DESTROYS, its destructor has something to do,               *)
(*   hooked    it has onAdd and onRemove hooks.                            *)
(*                                                                         *)
(* The calls, with the slots of one page they are for:                     *)
(*   "emplace"     emplace, and fill or a run for several slots            *)
(*   "tryEmplace"                                                          *)
(*   "replace"     emplaceOrReplace, emplaceOrModify                       *)
(*   "modify"                                                              *)
(*   "erase"                                                               *)
(*   "eraseLocal"  eraseWithoutBit                                         *)
(*   "runHooks"    runAdded, runRemoved                                    *)
(*   "apply"       occupyPage, emplaceCounted for each slot, forsakePage   *)
(*   "kill"        eraseAlone of pages                                     *)
(*   "eraseAlone"  eraseAlone of an index                                  *)
(*   "trim"        which is for no slot                                    *)
(*                                                                         *)
(* The memory orders that count are seq_cst in the code, so the steps are  *)
(* interleaved.  All pages lie in one chunk and in one huge page of it.    *)
(***************************************************************************)
EXTENDS Naturals, FiniteSets

CONSTANTS
  Threads,     \* threads that use the column
  Indices,     \* the indices in use: <<page, slot>>
  WordSize,    \* how many slots a word of the mask has, 64 in the code
  SparePages,  \* SPARE_PAGES
  HugeAt,      \* HUGE_PAGE_COLUMN_BYTES, in pages
  Kinds,       \* the kinds of components
  Starts,      \* bound: the sets of indices with a component at first
  MaxCalls,    \* bound: calls
  None         \* nobody, nothing

Pages == {i[1] : i \in Indices}
Slots == {i[2] : i \in Indices}
Places == 0 .. SparePages - 1

ASSUME ColumnAssumption ==
  /\ Indices \subseteq Nat \X Nat
  /\ IsFiniteSet(Indices) /\ IsFiniteSet(Threads)
  /\ {WordSize, SparePages, HugeAt} \subseteq Nat \ {0}
  /\ MaxCalls \in Nat
  /\ Starts \subseteq SUBSET Indices
  /\ Kinds \subseteq [value : BOOLEAN, destroys : BOOLEAN, hooked : BOOLEAN]
  /\ \A k \in Kinds : k.destroys => k.value
  /\ None \notin Threads \cup Pages

VARIABLES
  kind,       \* the component
  page,       \* PageHeader of each page; busy is who has it set
  blocks,     \* m_headerBlocks: the pages whose header has memory
  backed,     \* the pages whose values have memory
  huge,       \* m_hugePages
  region,     \* Chunk::regions of the one huge page
  pages,      \* m_pages
  spares,     \* m_spares
  nextSpare,  \* m_nextSpare, which only counts modulo SPARE_PAGES
  alive,      \* the indices with a component that is made and not destroyed
  th,         \* where each thread is, with the locals of its call
  kept,       \* the pages that kept their memory for a held bit
  calls       \* bound: calls so far

memoryVars == <<backed, huge, region, pages, kept>>
spareVars == <<spares, nextSpare>>
vars == <<kind, page, blocks, memoryVars, spareVars, alive, th, calls>>

Word(s) == s \div WordSize
WordsOf(slots) == {Word(s) : s \in slots}
Lowest(words) == CHOOSE w \in words : \A v \in words : w <= v
SlotsOf(p) == {i[2] : i \in {j \in Indices : j[1] = p}}

\* Of a thread: its call (op, the page and the slots), the slots it has still to
\* see to, where it goes on after a part that calls share, the page whose memory
\* it is at, and the place of m_spares.
Idle == [pc |-> "idle", op |-> "none", page |-> None, slots |-> {}, left |-> {}, ret |-> "idle",
         victim |-> None, place |-> 0]

Move(t, from, to) ==
  /\ th[t].pc = from
  /\ th' = [th EXCEPT ![t] = IF to.pc = "idle" THEN Idle ELSE to]

Goto(t, from, to) == Move(t, from, [th[t] EXCEPT !.pc = to])

\* The header of the page of the call, and the index of a call for one.
Mine(t) == page[th[t].page]
Slot(t) == CHOOSE s \in th[t].slots : TRUE
At(t) == {th[t].page} \X th[t].slots
Has(t) == Slot(t) \in Mine(t).mask

\* The calls that take the making bit.  eraseAt takes it for a component that
\* DESTROYS and for one with hooks.
Bitten(op) ==
  \/ op \in {"tryEmplace", "replace", "modify", "runHooks"}
  \/ op = "erase" /\ (kind.destroys \/ kind.hooked)

\* Where a call that is done with the index goes.
Finish(t) == IF Bitten(th[t].op) THEN "release" ELSE "idle"

\* A column with some components, made one after the other, and with pages that
\* had one before: the last of them are the spares.
Init ==
  \E there \in Starts, k \in Kinds :
  LET used == {i[1] : i \in there} IN
  \E emptied \in SUBSET (Pages \ used) :
  LET slots(p) == {s \in Slots : <<p, s>> \in there}
      memory == used \cup emptied
  IN
  /\ Cardinality(emptied) <= IF k.value THEN SparePages ELSE 0
  /\ kind = k
  /\ page = [p \in Pages |->
       [mask |-> slots(p), making |-> {}, summary |-> WordsOf(slots(p)), count |-> Cardinality(slots(p)),
        started |-> p \in memory, busy |-> None, parked |-> p \in emptied]]
  /\ blocks = memory
  /\ backed = IF k.value THEN memory ELSE {}
  /\ huge = (Cardinality(backed) >= HugeAt)
  /\ region = IF backed = {} THEN "untouched" ELSE "started"
  /\ pages = Cardinality(memory)
  /\ spares \in [Places -> emptied \cup {None}]
  /\ \A p \in emptied : \E n \in Places : spares[n] = p
  /\ \A n \in Places : spares[n] # None <=> n < Cardinality(emptied)
  /\ nextSpare = Cardinality(emptied) % SparePages
  /\ alive = there
  /\ th = [t \in Threads |-> Idle]
  /\ kept = {}
  /\ calls = 0

-----------------------------------------------------------------------------
(* The calls.  What the caller has to see to is in their guards. *)

\* Who uses a column next to whom: emplace and eraseWithoutBit want an index to
\* themselves, CommandApplier gives a page to one thread, and World::destroy
\* has the column.
Alone(t, c) ==
  \A u \in Threads \ {t} : th[u].pc # "idle" =>
    LET ops == {c.op, th[u].op} IN
    /\ "eraseAlone" \notin ops
    /\ c.page = th[u].page /\ ops \cap {"apply", "kill"} # {} => FALSE
    /\ c.page = th[u].page /\ ops \cap {"emplace", "eraseLocal"} # {} => c.slots \cap th[u].slots = {}

\* The first look at the mask, of the calls that leave it at that otherwise.
WorthWhile(c) ==
  LET here == c.slots \cap page[c.page].mask IN
  CASE c.op \in {"modify", "erase", "eraseLocal", "eraseAlone", "kill"} -> here # {}
    [] c.op \in {"emplace", "tryEmplace"} -> here = {}
    [] c.op = "runHooks" -> kind.hooked /\ c.page \in blocks
    [] c.op \in {"replace", "apply"} -> TRUE

FirstStep(op) ==
  CASE op \in {"emplace", "apply"} -> "occupy"
    [] op = "tryEmplace" -> "claim"
    [] op \in {"kill", "eraseAlone"} -> "wipe"
    [] op \in {"replace", "modify", "runHooks", "erase", "eraseLocal"} ->
         IF Bitten(op) THEN "take" ELSE "unmask"

\* makeHeader gives the block of headers its memory, findHeader only looks.
Call(t, op, p, slots) ==
  LET c == [Idle EXCEPT !.pc = FirstStep(op), !.op = op, !.page = p, !.slots = slots] IN
  /\ Move(t, "idle", c)
  /\ calls < MaxCalls
  /\ slots # {} /\ slots \subseteq SlotsOf(p)
  /\ op \notin {"emplace", "apply", "kill"} => Cardinality(slots) = 1
  /\ op = "modify" => kind.value
  /\ Alone(t, c)
  /\ WorthWhile(c)
  /\ calls' = calls + 1
  /\ blocks' = blocks \cup {p}
  /\ UNCHANGED <<kind, page, memoryVars, spareVars, alive>>

CallTrim(t) ==
  LET c == [Idle EXCEPT !.pc = "trim", !.op = "trim"] IN
  /\ Move(t, "idle", c)
  /\ calls < MaxCalls
  /\ Alone(t, c)
  /\ calls' = calls + 1
  /\ UNCHANGED <<kind, page, blocks, memoryVars, spareVars, alive>>

-----------------------------------------------------------------------------
(* The making bit. *)

\* tryEmplace: another thread is at it, or the bit is this thread's.
Claim(t) ==
  /\ Goto(t, "claim", IF Slot(t) \in Mine(t).making THEN "idle" ELSE "again")
  /\ page' = [page EXCEPT ![th[t].page].making = @ \cup th[t].slots]
  /\ UNCHANGED <<kind, blocks, memoryVars, spareVars, alive, calls>>

\* Asked again: a thread may have made it and be done since.
Again(t) ==
  /\ Goto(t, "again", IF Has(t) THEN "release" ELSE "occupy")
  /\ UNCHANGED <<kind, page, blocks, memoryVars, spareVars, alive, calls>>

\* Waits while another thread has it.
Take(t) ==
  /\ Goto(t, "take", IF th[t].op = "erase" THEN "unmask" ELSE "held")
  /\ Slot(t) \notin Mine(t).making
  /\ page' = [page EXCEPT ![th[t].page].making = @ \cup th[t].slots]
  /\ UNCHANGED <<kind, blocks, memoryVars, spareVars, alive, calls>>

HeldHas(t) ==
  /\ Goto(t, "held", CASE ~Has(t) -> IF th[t].op = "replace" THEN "occupy" ELSE "release"
                       [] Has(t) -> IF th[t].op = "runHooks" THEN "hooks" ELSE "change")
  /\ UNCHANGED <<kind, page, blocks, memoryVars, spareVars, alive, calls>>

\* The function of modify, or the assignment, either of which may throw.
Change(t) ==
  /\ Goto(t, "change", "release")
  /\ UNCHANGED <<kind, page, blocks, memoryVars, spareVars, alive, calls>>

\* The bit is given back; erase counts the component as gone only then.
Release(t) ==
  /\ Move(t, "release", [th[t] EXCEPT !.pc = IF th[t].op = "erase" /\ th[t].left # {} THEN "forsake" ELSE "idle",
                                      !.ret = "idle"])
  /\ page' = [page EXCEPT ![th[t].page].making = @ \ th[t].slots]
  /\ UNCHANGED <<kind, blocks, memoryVars, spareVars, alive, calls>>

\* The hooks run, and may throw where a component was added.
RunHooks(t) ==
  /\ Goto(t, "hooks", IF th[t].op \in {"erase", "eraseLocal"} THEN "destroy" ELSE Finish(t))
  /\ UNCHANGED <<kind, page, blocks, memoryVars, spareVars, alive, calls>>

-----------------------------------------------------------------------------
(* Adding: occupy, the component, the mask and the summary. *)

\* occupy: counts the components first, and looks for the memory after.
Occupy(t) ==
  /\ Move(t, "occupy", [th[t] EXCEPT !.pc = "occupied", !.victim = th[t].page])
  /\ page' = [page EXCEPT ![th[t].page].count = @ + Cardinality(th[t].slots)]
  /\ UNCHANGED <<kind, blocks, memoryVars, spareVars, alive, calls>>

\* A mistake in emplaceAt: the mask is set before the component is made.
OccupiedMaskFirst(t) ==
  /\ Goto(t, "occupied", IF Mine(t).started THEN "construct" ELSE "start")
  /\ page' = [page EXCEPT ![th[t].page].mask = IF Mine(t).started THEN @ \cup th[t].slots ELSE @]
  /\ UNCHANGED <<kind, blocks, memoryVars, spareVars, alive, calls>>

Occupied(t) ==
  /\ Goto(t, "occupied", IF Mine(t).started THEN "construct" ELSE "start")
  /\ UNCHANGED <<kind, page, blocks, memoryVars, spareVars, alive, calls>>

\* The values are made.
Construct(t) ==
  /\ Move(t, "construct", [th[t] EXCEPT !.pc = "setMask", !.left = th[t].slots, !.ret = "idle"])
  /\ th[t].op # "apply"
  /\ alive' = alive \cup At(t)
  /\ UNCHANGED <<kind, page, blocks, memoryVars, spareVars, calls>>

\* Making one throws: none of them is there, and they are not counted.
ConstructThrows(t) ==
  /\ Move(t, "construct", [th[t] EXCEPT !.pc = "forsake", !.left = th[t].slots, !.ret = Finish(t)])
  /\ kind.value /\ th[t].op # "apply"
  /\ UNCHANGED <<kind, page, blocks, memoryVars, spareVars, alive, calls>>

\* emplaceCounted for the slots without a component, all of them or those before
\* one that threw, with plain stores, and forsakePage for the rest.
EmplaceCounted(t, made) ==
  LET missing == th[t].slots \ Mine(t).mask
      rest == th[t].slots \ made
  IN
  /\ Move(t, "construct", [th[t] EXCEPT !.pc = IF rest = {} THEN "idle" ELSE "forsake",
                                        !.left = rest, !.ret = "idle"])
  /\ th[t].op = "apply"
  /\ IF kind.value THEN made \subseteq missing ELSE made = missing
  /\ page' = [page EXCEPT ![th[t].page].mask = @ \cup made, ![th[t].page].summary = @ \cup WordsOf(made)]
  /\ alive' = alive \cup ({th[t].page} \X made)
  /\ UNCHANGED <<kind, blocks, memoryVars, spareVars, calls>>

\* One word of the mask at a time, finishRun.
SetMask(t) ==
  LET here == {s \in th[t].left : Word(s) = Lowest(WordsOf(th[t].left))} IN
  /\ Goto(t, "setMask", "lookWord")
  /\ page' = [page EXCEPT ![th[t].page].mask = @ \cup here]
  /\ UNCHANGED <<kind, blocks, memoryVars, spareVars, alive, calls>>

\* On to the next word, to the hooks, or done.
NextWord(t, from) ==
  LET rest == {s \in th[t].left : Word(s) # Lowest(WordsOf(th[t].left))} IN
  Move(t, from, [th[t] EXCEPT !.left = rest,
                              !.pc = IF rest # {} THEN "setMask" ELSE IF kind.hooked THEN "hooks" ELSE Finish(t)])

\* markWord: for a word that is in the summary already the look is all.
LookWord(t) ==
  /\ th[t].pc = "lookWord"
  /\ IF Lowest(WordsOf(th[t].left)) \in Mine(t).summary
     THEN NextWord(t, "lookWord") ELSE Goto(t, "lookWord", "markWord")
  /\ UNCHANGED <<kind, page, blocks, memoryVars, spareVars, alive, calls>>

MarkWord(t) ==
  /\ NextWord(t, "markWord")
  /\ page' = [page EXCEPT ![th[t].page].summary = @ \cup {Lowest(WordsOf(th[t].left))}]
  /\ UNCHANGED <<kind, blocks, memoryVars, spareVars, alive, calls>>

-----------------------------------------------------------------------------
(* Removing. *)

\* erase and eraseWithoutBit: a thread that finds the component gone has
\* nothing to do.  A component without DESTROYS is just left behind.
Unmask(t) ==
  /\ Move(t, "unmask", [th[t] EXCEPT
       !.pc = IF ~Has(t) THEN Finish(t) ELSE IF kind.hooked THEN "hooks"
              ELSE IF kind.destroys THEN "destroy" ELSE "forsake",
       !.left = IF Has(t) THEN th[t].slots ELSE {}])
  /\ page' = [page EXCEPT ![th[t].page].mask = @ \ th[t].slots]
  /\ alive' = IF kind.destroys \/ ~Has(t) THEN alive ELSE alive \ At(t)
  /\ UNCHANGED <<kind, blocks, memoryVars, spareVars, calls>>

\* Before the page may give its memory back.
Destroy(t) ==
  /\ Goto(t, "destroy", IF Bitten(th[t].op) THEN "release" ELSE "forsake")
  /\ alive' = alive \ At(t)
  /\ UNCHANGED <<kind, page, blocks, memoryVars, spareVars, calls>>

\* eraseAlone of pages: nobody else uses the page in this column, so the mask
\* and the summary change with plain stores, and the summary is exact for the
\* words that lost a bit.
WipePage(t) ==
  LET gone == Mine(t).mask \cap th[t].slots
      rest == Mine(t).mask \ gone
  IN
  /\ Move(t, "wipe", [th[t] EXCEPT !.pc = "forsake", !.left = gone])
  /\ th[t].op = "kill"
  /\ page' = [page EXCEPT ![th[t].page].mask = rest,
                          ![th[t].page].summary = @ \ (WordsOf(gone) \ WordsOf(rest))]
  /\ alive' = alive \ ({th[t].page} \X gone)
  /\ UNCHANGED <<kind, blocks, memoryVars, spareVars, calls>>

\* eraseAlone of an index: nobody else uses the column.
WipeIndex(t) ==
  LET last == Mine(t).count = 1 IN
  /\ Move(t, "wipe", [th[t] EXCEPT
       !.pc = IF ~last THEN "idle" ELSE IF kind.value THEN "park" ELSE "vacate", !.victim = th[t].page])
  /\ th[t].op = "eraseAlone"
  /\ page' = [page EXCEPT ![th[t].page].mask = @ \ th[t].slots, ![th[t].page].count = @ - 1,
                          ![th[t].page].summary = IF last THEN {} ELSE @]
  /\ alive' = alive \ At(t)
  /\ UNCHANGED <<kind, blocks, memoryVars, spareVars, calls>>

\* forsake: left are the components that are gone.
Forsake(t) ==
  LET n == Mine(t).count - Cardinality(th[t].left) IN
  /\ Goto(t, "forsake", IF n = 0 THEN "emptied" ELSE th[t].ret)
  /\ page' = [page EXCEPT ![th[t].page].count = n]
  /\ UNCHANGED <<kind, blocks, memoryVars, spareVars, alive, calls>>

\* emptied: no word has a bit any more.
Emptied(t) ==
  /\ Goto(t, "emptied", "recount")
  /\ page' = [page EXCEPT ![th[t].page].summary = {}]
  /\ UNCHANGED <<kind, blocks, memoryVars, spareVars, alive, calls>>

\* Where emptied goes once the summary is right.
ParkOrVacate == IF kind.value THEN "park" ELSE "vacate"

\* A mistake in emptied: the count is not looked at again.
RecountNever(t) ==
  /\ Move(t, "recount", [th[t] EXCEPT !.pc = ParkOrVacate, !.left = {}, !.victim = th[t].page])
  /\ UNCHANGED <<kind, page, blocks, memoryVars, spareVars, alive, calls>>

\* A component that came meanwhile: the summary is made anew from the mask, for
\* which left are the slots of the words to look at.
Recount(t) ==
  LET again == Mine(t).count # 0 IN
  /\ Move(t, "recount", [th[t] EXCEPT !.pc = IF again THEN "rebuild" ELSE ParkOrVacate,
                                      !.left = IF again THEN SlotsOf(th[t].page) ELSE {},
                                      !.victim = th[t].page])
  /\ UNCHANGED <<kind, page, blocks, memoryVars, spareVars, alive, calls>>

Rebuild(t) ==
  LET word == Lowest(WordsOf(th[t].left))
      rest == {s \in th[t].left : Word(s) # word}
  IN
  /\ Move(t, "rebuild", [th[t] EXCEPT !.pc = IF rest # {} THEN "rebuild" ELSE ParkOrVacate, !.left = rest])
  /\ page' = [page EXCEPT ![th[t].page].summary = @ \cup ({word} \cap WordsOf(Mine(t).mask))]
  /\ UNCHANGED <<kind, blocks, memoryVars, spareVars, alive, calls>>

-----------------------------------------------------------------------------
(* The spares. *)

\* park: a page is among the spares once at most.
Park(t) ==
  /\ Goto(t, "park", IF page[th[t].victim].parked THEN th[t].ret ELSE "choose")
  /\ page' = [page EXCEPT ![th[t].victim].parked = TRUE]
  /\ UNCHANGED <<kind, blocks, memoryVars, spareVars, alive, calls>>

ChoosePlace(t) ==
  /\ Move(t, "choose", [th[t] EXCEPT !.pc = "swap", !.place = nextSpare])
  /\ nextSpare' = (nextSpare + 1) % SparePages
  /\ UNCHANGED <<kind, page, blocks, memoryVars, spares, alive, calls>>

\* The page whose place it takes comes out.
Swap(t) ==
  LET replaced == spares[th[t].place] IN
  /\ Move(t, "swap", [th[t] EXCEPT !.pc = IF replaced = None THEN th[t].ret ELSE "unpark",
                                   !.victim = replaced])
  /\ spares' = [spares EXCEPT ![th[t].place] = th[t].victim]
  /\ UNCHANGED <<kind, page, blocks, memoryVars, nextSpare, alive, calls>>

\* trim: one place after the other.
Trim(t) ==
  LET out == spares[th[t].place]
      then == IF th[t].place = SparePages - 1 THEN "idle" ELSE "trim"
  IN
  /\ Move(t, "trim", [th[t] EXCEPT !.pc = IF out # None THEN "unpark" ELSE then, !.ret = then,
                                   !.victim = out, !.place = (@ + 1) % SparePages])
  /\ spares' = [spares EXCEPT ![th[t].place] = None]
  /\ UNCHANGED <<kind, page, blocks, memoryVars, nextSpare, alive, calls>>

\* A mistake in unpark: the page stays marked as a spare.
UnparkForgets(t) ==
  /\ Goto(t, "unpark", "vacate")
  /\ UNCHANGED <<kind, page, blocks, memoryVars, spareVars, alive, calls>>

Unpark(t) ==
  /\ Goto(t, "unpark", "vacate")
  /\ page' = [page EXCEPT ![th[t].victim].parked = FALSE]
  /\ UNCHANGED <<kind, blocks, memoryVars, spareVars, alive, calls>>

-----------------------------------------------------------------------------
(* The memory of a page: start and vacate, under busy. *)

Locked == [start |-> "starting", vacate |-> "vacating"]
Sleeping == [start |-> "sleepStart", vacate |-> "sleepVacate"]

\* The constructor of Busy.
Lock(t, at) ==
  /\ Goto(t, at, Locked[at])
  /\ page[th[t].victim].busy = None
  /\ page' = [page EXCEPT ![th[t].victim].busy = t]
  /\ UNCHANGED <<kind, blocks, memoryVars, spareVars, alive, calls>>

\* busy.wait: only while it is set.
Sleep(t, at) ==
  /\ Goto(t, at, Sleeping[at])
  /\ page[th[t].victim].busy # None
  /\ UNCHANGED <<kind, page, blocks, memoryVars, spareVars, alive, calls>>

\* The destructor of Busy.
Unlock(t) ==
  /\ Goto(t, "unlock", "notify")
  /\ page' = [page EXCEPT ![th[t].victim].busy = None]
  /\ UNCHANGED <<kind, blocks, memoryVars, spareVars, alive, calls>>

\* notify_one: one of the threads that sleep for this page, if there is one.
Notify(t) ==
  LET asleep == {u \in Threads : th[u].pc \in {"sleepStart", "sleepVacate"} /\ th[u].victim = th[t].victim}
      after == IF th[t].ret = "idle" THEN Idle ELSE [th[t] EXCEPT !.pc = th[t].ret]
  IN
  /\ th[t].pc = "notify"
  /\ \/ asleep = {} /\ th' = [th EXCEPT ![t] = after]
     \/ \E u \in asleep : th' = [th EXCEPT ![t] = after,
          ![u].pc = IF @ = "sleepStart" THEN "start" ELSE "vacate"]
  /\ UNCHANGED <<kind, page, blocks, memoryVars, spareVars, alive, calls>>

\* start: another thread may have been first.
AlreadyStarted(t) ==
  /\ Move(t, "starting", [th[t] EXCEPT !.pc = "unlock", !.ret = "construct"])
  /\ page[th[t].victim].started
  /\ UNCHANGED <<kind, page, blocks, memoryVars, spareVars, alive, calls>>

\* startPage: makeChunk and memory::commit, and moveToHugePages once the column
\* is large enough.  With small pages nobody waits for the first access.
StartPage(t) ==
  LET grown == huge \/ pages + 1 >= HugeAt IN
  /\ Goto(t, "starting", IF kind.value /\ grown THEN "region" ELSE "count")
  /\ ~page[th[t].victim].started
  /\ backed' = IF kind.value THEN backed \cup {th[t].victim} ELSE backed
  /\ huge' = (huge \/ (kind.value /\ grown))
  /\ region' = IF kind.value /\ ~grown THEN "started" ELSE region
  /\ UNCHANGED <<kind, page, blocks, pages, kept, spareVars, alive, calls>>

\* std::bad_alloc: the components are not counted after all.
StartThrows(t) ==
  /\ Move(t, "starting", [th[t] EXCEPT !.pc = "unlock", !.ret = Finish(t)])
  /\ ~page[th[t].victim].started /\ kind.value
  /\ page' = [page EXCEPT ![th[t].page].count = @ - Cardinality(th[t].slots)]
  /\ UNCHANGED <<kind, blocks, memoryVars, spareVars, alive, calls>>

\* The first access to a huge page is made by one thread, the others wait.
FirstAccess(t) ==
  /\ \/ Goto(t, "region", "count") /\ region = "started" /\ UNCHANGED region
     \/ Goto(t, "region", "touch") /\ region = "untouched" /\ region' = "starting"
     \/ Goto(t, "touch", "count") /\ region' = "started"
  /\ UNCHANGED <<kind, page, blocks, backed, huge, pages, kept, spareVars, alive, calls>>

Started(t) ==
  /\ Move(t, "count", [th[t] EXCEPT !.pc = "unlock", !.ret = "construct"])
  /\ pages' = pages + 1
  /\ page' = [page EXCEPT ![th[t].victim].started = TRUE]
  /\ UNCHANGED <<kind, blocks, backed, huge, region, kept, spareVars, alive, calls>>

\* vacate marks the memory as gone first and looks at the count after.
Unstart(t) ==
  /\ Goto(t, "vacating", IF page[th[t].victim].started THEN "lookCount" ELSE "unlock")
  /\ page' = [page EXCEPT ![th[t].victim].started = FALSE]
  /\ UNCHANGED <<kind, blocks, memoryVars, spareVars, alive, calls>>

LookCount(t) ==
  /\ Goto(t, "lookCount", IF page[th[t].victim].count # 0 THEN "restart" ELSE "lookHeld")
  /\ UNCHANGED <<kind, page, blocks, memoryVars, spareVars, alive, calls>>

\* A mistake in vacate: the bits are not looked at.
anyHeldNever(t) ==
  /\ Goto(t, "lookHeld", "decommit")
  /\ UNCHANGED <<kind, page, blocks, memoryVars, spareVars, alive, calls>>

\* A thread that holds a bit may be using a value it does not count.
anyHeld(t) ==
  LET held == page[th[t].victim].making # {} IN
  /\ Goto(t, "lookHeld", IF held THEN "restart" ELSE "decommit")
  /\ kept' = IF held THEN kept \cup {th[t].victim} ELSE kept
  /\ UNCHANGED <<kind, page, blocks, backed, huge, region, pages, spareVars, alive, calls>>

Restart(t) ==
  /\ Goto(t, "restart", "unlock")
  /\ page' = [page EXCEPT ![th[t].victim].started = TRUE]
  /\ UNCHANGED <<kind, blocks, memoryVars, spareVars, alive, calls>>

Decommit(t) ==
  /\ Goto(t, "decommit", "unlock")
  /\ backed' = backed \ {th[t].victim}
  /\ pages' = pages - 1
  /\ kept' = kept \ {th[t].victim}
  /\ UNCHANGED <<kind, page, blocks, huge, region, spareVars, alive, calls>>

-----------------------------------------------------------------------------
Step(t) ==
  \/ Claim(t) \/ Again(t) \/ Take(t) \/ HeldHas(t) \/ Change(t) \/ Release(t) \/ RunHooks(t)
  \/ Occupy(t) \/ Occupied(t) \/ Construct(t) \/ ConstructThrows(t)
  \/ \E made \in SUBSET Slots : EmplaceCounted(t, made)
  \/ SetMask(t) \/ LookWord(t) \/ MarkWord(t)
  \/ Unmask(t) \/ Destroy(t) \/ WipePage(t) \/ WipeIndex(t)
  \/ Forsake(t) \/ Emptied(t) \/ Recount(t) \/ Rebuild(t)
  \/ Park(t) \/ ChoosePlace(t) \/ Swap(t) \/ Trim(t) \/ Unpark(t)
  \/ \E at \in {"start", "vacate"} : Lock(t, at) \/ Sleep(t, at)
  \/ Unlock(t) \/ Notify(t) \/ AlreadyStarted(t) \/ StartPage(t) \/ StartThrows(t)
  \/ FirstAccess(t) \/ Started(t)
  \/ Unstart(t) \/ LookCount(t) \/ anyHeld(t) \/ Restart(t) \/ Decommit(t)

Quiet == \A t \in Threads : th[t] = Idle

\* ~Column, after the last call: it goes through the pages that have memory, as
\* many as m_pages says there are.
Destructor ==
  LET left(p) == {q \in Pages : page[q].started /\ q < p}
      seen == {p \in Pages : page[p].started /\ Cardinality(left(p)) < pages}
  IN
  /\ Quiet /\ calls = MaxCalls
  /\ calls' = MaxCalls + 1
  /\ alive' = {i \in alive : ~(kind.destroys /\ i[1] \in seen /\ i[2] \in page[i[1]].mask)}
  /\ page' = [p \in Pages |-> [page[p] EXCEPT !.mask = {}, !.summary = {}, !.count = 0, !.started = FALSE,
                                              !.parked = FALSE]]
  /\ backed' = {} /\ kept' = {} /\ pages' = 0
  /\ spares' = [n \in Places |-> None]
  /\ UNCHANGED <<kind, blocks, huge, region, nextSpare, th>>

\* The column is gone.
Done ==
  /\ calls = MaxCalls + 1
  /\ UNCHANGED vars

Ops == {"emplace", "tryEmplace", "replace", "modify", "erase", "eraseLocal", "runHooks", "apply", "kill",
        "eraseAlone"}

Next ==
  \/ \E t \in Threads, op \in Ops, p \in Pages, slots \in SUBSET Slots : Call(t, op, p, slots)
  \/ \E t \in Threads : CallTrim(t) \/ Step(t)
  \/ Destructor
  \/ Done

Spec == Init /\ [][Next]_vars

-----------------------------------------------------------------------------
(* Correctness. *)

Header ==
  [mask : SUBSET Slots, making : SUBSET Slots, summary : SUBSET WordsOf(Slots),
   count : 0 .. Cardinality(Indices) * (1 + Cardinality(Threads)), started : BOOLEAN,
   busy : Threads \cup {None}, parked : BOOLEAN]

\* Every variable has its type; a count does not go below zero.
TypeOK ==
  /\ kind \in Kinds
  /\ page \in [Pages -> Header]
  /\ blocks \subseteq Pages /\ backed \subseteq Pages /\ kept \subseteq Pages
  /\ huge \in BOOLEAN /\ region \in {"untouched", "starting", "started"}
  /\ pages \in 0 .. Cardinality(Pages)
  /\ spares \in [Places -> Pages \cup {None}] /\ nextSpare \in Places
  /\ alive \subseteq Indices
  /\ \A t \in Threads :
       /\ th[t].op \in Ops \cup {"trim", "none"}
       /\ th[t].left \subseteq Slots
       /\ th[t].victim \in Pages \cup {None}
  /\ calls \in 0 .. MaxCalls + 1

\* The thread is at the values of its call, with a constructor, an assignment,
\* a function of the caller or a destructor.
UsesValue(t) == kind.value /\ th[t].pc \in {"construct", "change", "hooks", "destroy"}

\* A value is only used while its page has memory, by one thread at a time, and
\* while there is a component in its place, other than for the one that makes
\* it.  modify and emplaceOrReplace do not count the value they use: what keeps
\* the page is the making bit vacate looks at, against an erase that takes no
\* bit (heldHas, anyHeld).
ValuesAreUsedSafely ==
  \A t \in Threads : UsesValue(t) =>
    /\ th[t].page \in backed
    /\ kind.destroys => IF th[t].pc = "construct" THEN At(t) \cap alive \subseteq {th[t].page} \X Mine(t).mask
                        ELSE At(t) \subseteq alive
    /\ \A u \in Threads \ {t} : UsesValue(u) => At(t) \cap At(u) = {}

\* An index has the component from when it is made in full until just before it
\* is destroyed, for every thread that asks, and its page has memory for as long.
MaskTellsWhatIsThere ==
  \A i \in Indices : i[2] \in page[i[1]].mask => i \in alive /\ (kind.value => i[1] \in backed)

\* A thread that has put its bit into the mask has yet to see to the summary, or
\* the one that emptied the page has.
SummaryIsDue(p, w) ==
  \E t \in Threads : th[t].page = p /\
    \/ th[t].pc \in {"lookWord", "markWord"} /\ Lowest(WordsOf(th[t].left)) = w
    \/ th[t].pc = "recount"
    \/ th[t].pc = "rebuild" /\ w \in WordsOf(th[t].left)

\* A loop only looks at the words in the summary, and misses no component: the
\* thread that clears it may race with one that found its word still there and
\* left it as it was (markWord, emptied).
LoopsMissNothing ==
  \A p \in Pages : \A w \in WordsOf(page[p].mask) : w \in page[p].summary \/ SummaryIsDue(p, w)

\* Between calls the count of a page is that of its components, the pages with
\* memory are counted, and a page without components has memory only as one of
\* the spares, or if vacate found a bit of it held: none is stranded outside of
\* the spares, where neither trim nor a later park would find it.  The destructor
\* counts on it: it leaves no component behind.
MemoryIsAccountedFor ==
  Quiet =>
    /\ calls > MaxCalls /\ kind.destroys => alive = {}
    /\ \A p \in Pages : LET h == page[p] IN
         /\ h.count = Cardinality(h.mask)
         /\ h.making = {} /\ h.busy = None
         /\ h.mask # {} => h.started
         /\ kind.value => (h.started <=> p \in backed)
         /\ h.parked <=> \E n \in Places : spares[n] = p
         /\ h.started /\ h.mask = {} => h.parked \/ p \in kept
    /\ pages = Cardinality({p \in Pages : page[p].started})
    /\ \A n, m \in Places : spares[n] = spares[m] /\ spares[n] # None => n = m
=============================================================================
