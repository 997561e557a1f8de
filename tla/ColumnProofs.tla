---------------------------- MODULE ColumnProofs ----------------------------
(***************************************************************************)
(* The columns of components, for every finite number of threads and       *)
(* indices, any size of words, number of spares and kinds of components:   *)
(* values are used safely, the mask tells what is there, loops miss        *)
(* nothing, and the memory of pages is accounted for.                      *)
(***************************************************************************)
EXTENDS Column, FiniteSetTheorems, WellFoundedInduction, TLAPS

-----------------------------------------------------------------------------
(* Where threads are.                                                      *)

MakingPcs == {"occupy", "occupied", "start", "sleepStart", "starting", "region", "touch", "count", "construct"}
MaskPcs == {"setMask", "lookWord", "markWord"}
EmptyPcs == {"forsake", "emptied", "recount", "rebuild"}
SparePcs == {"park", "choose", "swap", "unpark", "vacate", "sleepVacate"}
VacatePcs == {"vacating", "lookCount", "lookHeld", "decommit", "restart"}
EndPcs == {"unlock", "notify"}
BitPcs == {"claim", "again", "take", "held", "change", "release"}
Pcs == {"idle", "trim", "wipe", "unmask", "hooks", "destroy"} \cup MakingPcs \cup MaskPcs \cup EmptyPcs \cup SparePcs
       \cup VacatePcs \cup EndPcs \cup BitPcs

Adders == {"emplace", "tryEmplace", "replace"}
Erasers == {"erase", "eraseLocal"}

Locals == [pc : Pcs, op : Ops \cup {"trim", "none"}, page : Pages \cup {None}, slots : SUBSET Slots,
           left : SUBSET Slots, ret : {"idle", "release", "construct", "trim"}, victim : Pages \cup {None},
           place : Places]

Headers ==
  [mask : SUBSET Slots, making : SUBSET Slots, summary : SUBSET Nat, count : Nat, started : BOOLEAN,
   busy : Threads \cup {None}, parked : BOOLEAN]

Typed ==
  /\ kind \in Kinds
  /\ page \in [Pages -> Headers]
  /\ th \in [Threads -> Locals]
  /\ spares \in [Places -> Pages \cup {None}] /\ nextSpare \in Places
  /\ alive \subseteq Indices
  /\ pages \in Nat /\ backed \subseteq Pages /\ calls \in Nat

\* What a call is at each place of it.
Place(l) ==
  /\ l.pc = "idle" => l = Idle
  /\ l.pc # "idle" => l.op # "none" /\ (l.op = "trim" <=> l.page = None)
  /\ l.op \in Ops => l.slots # {} /\ l.slots \subseteq SlotsOf(l.page) /\ l.left \subseteq SlotsOf(l.page)
  /\ Bitten(l.op) \/ l.op \in {"erase", "eraseLocal", "eraseAlone"} => \E s \in Slots : l.slots = {s}
  /\ l.pc = "claim" \/ l.pc = "again" => l.op = "tryEmplace"
  /\ l.op = "runHooks" => kind.hooked
  /\ l.pc = "take" => Bitten(l.op) /\ l.op # "tryEmplace"
  /\ l.pc = "held" => l.op \in {"replace", "modify", "runHooks"}
  /\ l.pc \in {"take", "held", "wipe", "unmask", "hooks", "destroy"} \cup MaskPcs => l.ret = "idle"
  /\ l.pc \in {"take", "held"} => l.left = {}
  /\ l.pc = "change" => l.op \in {"replace", "modify"}
  /\ l.pc = "release" => Bitten(l.op) /\ (l.op = "erase" => l.left \in {{}, l.slots})
  /\ l.pc = "hooks" => kind.hooked /\ l.op \in Adders \cup Erasers \cup {"runHooks"}
                       /\ l.left = IF l.op \in Erasers THEN l.slots ELSE {}
  /\ l.pc \in MakingPcs => l.op \in Adders \cup {"apply"}
  /\ l.pc \in {"occupied", "start", "sleepStart", "starting", "region", "touch", "count"} => l.victim = l.page
  /\ l.pc \in MaskPcs => l.op \in Adders /\ l.left \subseteq l.slots /\ l.left # {}
  /\ l.pc = "unmask" => l.op \in Erasers
  /\ l.pc = "destroy" => l.op \in Erasers /\ (kind.destroys \/ kind.hooked) /\ l.left = l.slots
  /\ l.pc = "wipe" => l.op \in {"kill", "eraseAlone"}
  /\ l.pc = "trim" => l.op = "trim"
  /\ l.pc \in EmptyPcs => l.op \in Ops \ {"eraseAlone"} /\ l.ret \in {"idle", "release"}
  /\ l.pc = "forsake" => l.left \subseteq l.slots
  /\ l.pc \in SparePcs \cup VacatePcs => l.ret \in {"idle", "release", "trim"}
  /\ l.pc \in (SparePcs \cup VacatePcs \cup EndPcs \cup {"rebuild"}) => l.victim # None
  /\ l.pc = "rebuild" => l.victim = l.page
  /\ l.ret = "release" => Bitten(l.op) /\ l.op # "erase"
  /\ l.pc \in EmptyPcs \cup SparePcs \cup VacatePcs \cup EndPcs /\ Bitten(l.op) /\ l.op # "erase" =>
       l.ret \in {"release", "construct"}
  /\ l.ret = "trim" => l.op = "trim"
  /\ l.ret = "construct" =>
       l.pc \in EndPcs \cup {"construct"} /\ l.victim = l.page /\ l.op \in Adders \cup {"apply"}

PlacesAreRight == \A t \in Threads : Place(th[t])

-----------------------------------------------------------------------------
(* Who has what for himself.                                               *)

\* The thread has the making bit of its index.
Holding(l) ==
  /\ Bitten(l.op) /\ l.pc \notin {"idle", "claim", "take"}
  /\ l.op = "erase" => l.pc \in {"unmask", "hooks", "destroy", "release"}

MakingTells ==
  \A p \in Pages, s \in Slots :
    s \in page[p].making <=> \E t \in Threads : Holding(th[t]) /\ th[t].page = p /\ s \in th[t].slots

Meet(l, m) == l.page = m.page /\ l.slots \cap m.slots # {}

BitsAreOwn == \A t, u \in Threads : t # u /\ Holding(th[t]) /\ Holding(th[u]) => ~Meet(th[t], th[u])

Apart(l, m) ==
  /\ l.op # "eraseAlone" /\ m.op # "eraseAlone"
  /\ l.page = m.page => {l.op, m.op} \cap {"apply", "kill"} = {}
  /\ l.page = m.page /\ {l.op, m.op} \cap {"emplace", "eraseLocal"} # {} => l.slots \cap m.slots = {}

CallsAreApart ==
  \A t, u \in Threads : t # u /\ th[t].pc # "idle" /\ th[u].pc # "idle" => Apart(th[t], th[u])

\* The thread has its indices to itself: by the bit, or as the caller sees to it.
Owns(l) == Holding(l) \/ l.op \in {"emplace", "eraseLocal", "apply", "kill", "eraseAlone"}

-----------------------------------------------------------------------------
(* Components and the mask.                                                *)

Later(l) == {s \in l.left : Word(s) # Lowest(WordsOf(l.left))}

\* The slots whose component is still to come into the mask.
Coming(l) ==
  IF l.pc = "setMask" THEN l.left ELSE IF l.pc \in {"lookWord", "markWord"} THEN Later(l) ELSE {}

\* The slots whose component is out of the mask and not destroyed yet.
Going(l) == IF l.pc \in {"hooks", "destroy"} /\ l.op \in Erasers THEN l.left ELSE {}

\* The slots whose component is not in the mask, as the thread knows: it is to
\* make it, or to show it, or has taken it out.
Fresh(l) ==
  /\ l.op # "apply"
  /\ l.pc \in MakingPcs \/ (l.pc \in EndPcs /\ l.ret = "construct")

Missing(l) == (IF Fresh(l) THEN l.slots ELSE {}) \cup Coming(l) \cup Going(l)

FreshIsMissing == \A t \in Threads : th[t].page # None => Missing(th[t]) \cap page[th[t].page].mask = {}

IsComing(p, s) == \E t \in Threads : th[t].page = p /\ s \in Coming(th[t])
IsGoing(p, s) == \E t \in Threads : th[t].page = p /\ s \in Going(th[t])

AliveTells ==
  \A p \in Pages, s \in Slots :
    /\ s \in page[p].mask \/ IsComing(p, s) => <<p, s>> \in alive
    /\ kind.destroys => /\ IsGoing(p, s) => <<p, s>> \in alive
                        /\ <<p, s>> \in alive => s \in page[p].mask \/ IsComing(p, s) \/ IsGoing(p, s)

\* What a thread that has the column to itself is to erase is there, and what
\* one added or found stays while it has it for itself.
WipedIsThere ==
  \A t \in Threads :
    th[t].pc = "wipe" /\ th[t].op = "eraseAlone" => th[t].slots \subseteq page[th[t].page].mask

Added(l) ==
  IF l.pc \in MaskPcs THEN l.slots \ Coming(l)
  ELSE IF l.pc = "change" \/ (l.pc = "hooks" /\ l.op \notin Erasers) THEN l.slots ELSE {}

AddedIsThere ==
  kind.destroys \/ kind.hooked =>
    \A t \in Threads : th[t].page # None => Added(th[t]) \subseteq page[th[t].page].mask

-----------------------------------------------------------------------------
(* The count of a page.                                                    *)

EarlyPcs == {"occupied", "start", "sleepStart", "starting", "region", "touch", "count"}

\* The slots a thread has counted on top of the mask.
Extra(l) ==
  IF l.pc \in EarlyPcs \cup {"construct"} \/ (l.pc \in EndPcs /\ l.ret = "construct") THEN l.slots
  ELSE IF l.pc \in {"hooks", "destroy", "forsake"} \/ (l.pc = "release" /\ l.op = "erase") THEN l.left
  ELSE Coming(l)

HoldersOf(mask, places, p) ==
  ({None} \X mask) \cup {h \in Threads \X Slots : places[h[1]].page = p /\ h[2] \in Extra(places[h[1]])}

Holders(p) == HoldersOf(page[p].mask, th, p)

CountIsExact == \A p \in Pages : page[p].count = Cardinality(Holders(p))

-----------------------------------------------------------------------------
(* The memory of a page.                                                   *)

LockedPcs == {"starting", "region", "touch", "count", "unlock"} \cup VacatePcs
GonePcs == {"lookCount", "lookHeld", "decommit", "restart"}

BusyTells ==
  /\ \A t \in Threads : th[t].pc \in LockedPcs => page[th[t].victim].busy = t
  /\ \A p \in Pages : page[p].busy # None => th[page[p].busy].pc \in LockedPcs /\ th[page[p].busy].victim = p

\* A page that has memory, even if its header says for a moment that it has none.
Gone(l, p) == l.victim = p /\ l.pc \in GonePcs
Live(p) == page[p].started \/ \E t \in Threads : Gone(th[t], p)

\* A page that has memory or is about to get it.
HalfPcs == GonePcs \cup {"region", "touch", "count"}
Half(l, p) == l.victim = p /\ l.pc \in HalfPcs

StartedTells ==
  /\ \A t \in Threads : th[t].pc \in HalfPcs => ~page[th[t].victim].started
  /\ kind.value => \A p \in Pages : p \in backed <=> page[p].started \/ \E t \in Threads : Half(th[t], p)

PagesAreCounted == pages = Cardinality({p \in Pages : Live(p)})

\* The thread needs the memory of its page.
Needs(l) == l.pc \in {"change", "hooks"} \/ (Extra(l) # {} /\ l.pc \notin EarlyPcs)

MemoryIsThere ==
  /\ \A p \in Pages : page[p].mask # {} => Live(p)
  /\ \A t \in Threads : Needs(th[t]) => Live(th[t].page)

\* vacate has found nobody counted: whoever comes now has to wait for it.
NobodyIsIn ==
  \A t, u \in Threads :
    th[t].pc \in {"lookHeld", "decommit"} =>
      /\ page[th[t].victim].mask = {}
      /\ th[u].page = th[t].victim /\ Extra(th[u]) # {} => th[u].pc \in EarlyPcs
      /\ th[u].page = th[t].victim /\ th[t].pc = "decommit" => th[u].pc \notin {"change", "hooks"}

-----------------------------------------------------------------------------
(* The spares, and the pages that should be among them.                    *)

Carries(l, p) == l.victim = p /\ l.pc \in {"choose", "swap", "unpark"}

SparesTell ==
  /\ \A p \in Pages : page[p].parked <=> (\E n \in Places : spares[n] = p) \/ (\E t \in Threads : Carries(th[t], p))
  /\ \A n, m \in Places : spares[n] = spares[m] /\ spares[n] # None => n = m
  /\ \A t, u \in Threads, p \in Pages : Carries(th[t], p) /\ Carries(th[u], p) => t = u
  /\ \A t \in Threads, n \in Places : ~(spares[n] # None /\ Carries(th[t], spares[n]))

Responsible(l, p) ==
  \/ l.page = p /\ l.pc \in {"emptied", "recount", "rebuild"}
  \/ l.victim = p /\ l.pc \in {"park", "vacate", "sleepVacate", "vacating", "lookCount", "lookHeld", "decommit"}

NoneIsStranded ==
  \A p \in Pages :
    Live(p) => \/ page[p].count # 0 \/ page[p].parked \/ p \in kept
               \/ \E t \in Threads : Responsible(th[t], p)

TheEnd == calls > MaxCalls => Quiet /\ (kind.destroys => alive = {})

ColumnInv ==
  /\ Typed /\ PlacesAreRight
  /\ MakingTells /\ BitsAreOwn /\ CallsAreApart
  /\ FreshIsMissing /\ AliveTells /\ WipedIsThere /\ AddedIsThere /\ LoopsMissNothing
  /\ CountIsExact /\ BusyTells /\ StartedTells /\ PagesAreCounted /\ MemoryIsThere /\ NobodyIsIn
  /\ SparesTell /\ NoneIsStranded /\ TheEnd

-----------------------------------------------------------------------------
(* Steps of a thread: where it goes from each place, and who is it that     *)
(* changes what.                                                            *)

\* The locals l of a thread become m, at a, in the same call; On leaves alone
\* what is not the place.
Went(l, m, a, left, ret, victim) ==
  IF a = "idle" THEN m = Idle
  ELSE /\ m.pc = a /\ m.op = l.op /\ m.page = l.page /\ m.slots = l.slots
       /\ m.left = left /\ m.ret = ret /\ m.victim = victim

On(l, m, a) == Went(l, m, a, l.left, l.ret, l.victim)

\* Notify may wake another thread.
Alike(l, m) ==
  \/ m = l
  \/ l.pc = "sleepStart" /\ On(l, m, "start")
  \/ l.pc = "sleepVacate" /\ On(l, m, "vacate")

Finished(l) == IF Bitten(l.op) THEN "release" ELSE "idle"

BitFlow(l, m) ==
  /\ l.pc = "claim" => \E a \in {"idle", "again"} : On(l, m, a)
  /\ l.pc = "again" => \E a \in {"release", "occupy"} : On(l, m, a)
  /\ l.pc = "take" => On(l, m, IF l.op = "erase" THEN "unmask" ELSE "held")
  /\ l.pc = "held" =>
       \/ On(l, m, IF l.op = "replace" THEN "occupy" ELSE "release")
       \/ On(l, m, IF l.op = "runHooks" THEN "hooks" ELSE "change")
  /\ l.pc = "change" => On(l, m, "release")
  /\ l.pc = "release" => Went(l, m, IF l.op = "erase" /\ l.left # {} THEN "forsake" ELSE "idle", l.left, "idle", l.victim)
  /\ l.pc = "hooks" => On(l, m, IF l.op \in Erasers THEN "destroy" ELSE Finished(l))

AddFlow(l, m) ==
  /\ l.pc = "occupy" => Went(l, m, "occupied", l.left, l.ret, l.page)
  /\ l.pc = "occupied" => \E a \in {"construct", "start"} : On(l, m, a)
  /\ l.pc = "construct" /\ l.op # "apply" =>
       \/ Went(l, m, "setMask", l.slots, "idle", l.victim)
       \/ Went(l, m, "forsake", l.slots, Finished(l), l.victim)
  /\ l.pc = "construct" /\ l.op = "apply" =>
       \E rest \in SUBSET l.slots : Went(l, m, IF rest = {} THEN "idle" ELSE "forsake", rest, "idle", l.victim)
  /\ l.pc = "setMask" => On(l, m, "lookWord")
  /\ l.pc \in {"lookWord", "markWord"} =>
       \/ l.pc = "lookWord" /\ On(l, m, "markWord")
       \/ Later(l) # {} /\ Went(l, m, "setMask", Later(l), l.ret, l.victim)
       \/ Later(l) = {} /\ Went(l, m, IF kind.hooked THEN "hooks" ELSE Finished(l), {}, l.ret, l.victim)

RemoveFlow(l, m) ==
  /\ l.pc = "unmask" =>
       \/ Went(l, m, Finished(l), {}, l.ret, l.victim)
       \/ Went(l, m, IF kind.hooked THEN "hooks" ELSE IF kind.destroys THEN "destroy" ELSE "forsake",
               l.slots, l.ret, l.victim)
  /\ l.pc = "destroy" => On(l, m, IF Bitten(l.op) THEN "release" ELSE "forsake")
  /\ l.pc = "wipe" /\ l.op = "kill" => \E gone \in SUBSET l.slots : Went(l, m, "forsake", gone, l.ret, l.victim)
  /\ l.pc = "wipe" /\ l.op # "kill" =>
       \E a \in {"idle", "park", "vacate"} : Went(l, m, a, l.left, l.ret, l.page)
  /\ l.pc = "forsake" => \E a \in {"emptied", l.ret} : On(l, m, a)
  /\ l.pc = "emptied" => On(l, m, "recount")
  /\ l.pc = "recount" =>
       \/ Went(l, m, "rebuild", SlotsOf(l.page), l.ret, l.page)
       \/ \E a \in {"park", "vacate"} : Went(l, m, a, {}, l.ret, l.page)
  /\ l.pc = "rebuild" =>
       \/ Later(l) # {} /\ Went(l, m, "rebuild", Later(l), l.ret, l.victim)
       \/ Later(l) = {} /\ \E a \in {"park", "vacate"} : Went(l, m, a, {}, l.ret, l.victim)

SpareFlow(l, m) ==
  /\ l.pc = "park" => \E a \in {"choose", l.ret} : On(l, m, a)
  /\ l.pc = "choose" => On(l, m, "swap")
  /\ l.pc = "swap" =>
       \/ \E p \in Pages : Went(l, m, "unpark", l.left, l.ret, p)
       \/ Went(l, m, l.ret, l.left, l.ret, None)
  /\ l.pc = "trim" =>
       \E then \in {"idle", "trim"} :
         \/ \E p \in Pages : Went(l, m, "unpark", l.left, then, p)
         \/ Went(l, m, then, l.left, then, None)
  /\ l.pc = "unpark" => On(l, m, "vacate")

MemoryFlow(l, m) ==
  /\ l.pc = "start" => \E a \in {"starting", "sleepStart"} : On(l, m, a)
  /\ l.pc = "vacate" => \E a \in {"vacating", "sleepVacate"} : On(l, m, a)
  /\ l.pc \notin {"sleepStart", "sleepVacate"}
  /\ l.pc = "unlock" => On(l, m, "notify")
  /\ l.pc = "notify" => On(l, m, l.ret)
  /\ l.pc = "starting" =>
       \/ \E a \in {"region", "count"} : On(l, m, a)
       \/ \E ret \in {"construct", Finished(l)} : Went(l, m, "unlock", l.left, ret, l.victim)
  /\ l.pc = "region" => \E a \in {"touch", "count"} : On(l, m, a)
  /\ l.pc = "touch" => On(l, m, "count")
  /\ l.pc = "count" => Went(l, m, "unlock", l.left, "construct", l.victim)
  /\ l.pc = "vacating" => \E a \in {"lookCount", "unlock"} : On(l, m, a)
  /\ l.pc = "lookCount" => \E a \in {"restart", "lookHeld"} : On(l, m, a)
  /\ l.pc = "lookHeld" => \E a \in {"restart", "decommit"} : On(l, m, a)
  /\ l.pc \in {"restart", "decommit"} => On(l, m, "unlock")

Flow(l, m) ==
  /\ l.pc # "idle"
  /\ BitFlow(l, m) /\ AddFlow(l, m) /\ RemoveFlow(l, m) /\ SpareFlow(l, m) /\ MemoryFlow(l, m)

Goes(t) == Flow(th[t], th'[t]) /\ \A u \in Threads : u # t => Alike(th[u], th'[u])

\* Goto changes where the thread is, and nothing else.
LEMMA GotoFacts ==
  ASSUME Typed, NEW t \in Threads, NEW from, NEW to, Goto(t, from, to)
  PROVE  /\ th[t].pc = from /\ On(th[t], th'[t], to)
         /\ \A u \in Threads : u # t => th'[u] = th[u]
BY DEF Typed, Goto, Move, Locals, On, Went

\* The three steps whose locals need more than their definition.
LEMMA EmplaceCountedGoes ==
  ASSUME Typed, NEW t \in Threads, NEW made, EmplaceCounted(t, made)
  PROVE  Goes(t)
<1> DEFINE rest == th[t].slots \ made
<1>0. th \in [Threads -> Locals] /\ th[t] \in Locals
  BY DEF Typed
<1>1. rest \in SUBSET th[t].slots
  OBVIOUS
<1>2. Went(th[t], th'[t], IF rest = {} THEN "idle" ELSE "forsake", rest, "idle", th[t].victim)
  <2>1. CASE rest = {}
    <3>1. th'[t] = Idle
      BY <1>0, <2>1 DEF EmplaceCounted, Move
    <3> QED
      BY <2>1, <3>1 DEF Went
  <2>2. CASE rest # {}
    <3>1. th'[t] = [th[t] EXCEPT !.pc = "forsake", !.left = rest, !.ret = "idle"]
      BY <1>0, <2>2 DEF EmplaceCounted, Move, Locals
    <3> QED
      BY <1>0, <2>2, <3>1 DEF Went, Locals
  <2> QED
    BY <2>1, <2>2
<1>3. th[t].pc = "construct" /\ th[t].op = "apply" /\ \A u \in Threads : u # t => th'[u] = th[u]
  BY <1>0 DEF EmplaceCounted, Move
<1> QED
  BY <1>1, <1>2, <1>3 DEF Goes, Flow, BitFlow, AddFlow, RemoveFlow, SpareFlow, MemoryFlow, Alike

LEMMA NotifyGoes ==
  ASSUME Typed, NEW t \in Threads, Notify(t)
  PROVE  Goes(t)
<1> DEFINE after == IF th[t].ret = "idle" THEN Idle ELSE [th[t] EXCEPT !.pc = th[t].ret]
<1>0. th \in [Threads -> Locals] /\ th[t] \in Locals
  BY DEF Typed
<1>1. th[t].pc = "notify"
  BY DEF Notify
<1>2. th'[t] = after /\ \A u \in Threads : u # t => Alike(th[u], th'[u])
  <2>1. CASE th' = [th EXCEPT ![t] = after]
    BY <1>0, <2>1 DEF Alike
  <2>2. ASSUME NEW u \in Threads, th[u].pc \in {"sleepStart", "sleepVacate"},
               th' = [th EXCEPT ![t] = after, ![u].pc = IF @ = "sleepStart" THEN "start" ELSE "vacate"]
        PROVE  th'[t] = after /\ \A v \in Threads : v # t => Alike(th[v], th'[v])
    <3>1. t # u /\ th[u] \in Locals
      BY <1>0, <1>1, <2>2
    <3>2. th'[t] = after /\ th'[u] = [th[u] EXCEPT !.pc = IF th[u].pc = "sleepStart" THEN "start" ELSE "vacate"]
          /\ \A v \in Threads : v # t /\ v # u => th'[v] = th[v]
      BY <1>0, <3>1, <2>2
    <3>3. CASE th[u].pc = "sleepStart"
      <4>1. th'[u] = [th[u] EXCEPT !.pc = "start"]
        BY <3>2, <3>3
      <4> QED
        BY <3>1, <3>2, <3>3, <4>1 DEF Alike, On, Went, Locals
    <3>4. CASE th[u].pc = "sleepVacate"
      <4>1. th'[u] = [th[u] EXCEPT !.pc = "vacate"]
        BY <3>2, <3>4
      <4> QED
        BY <3>1, <3>2, <3>4, <4>1 DEF Alike, On, Went, Locals
    <3> QED
      BY <2>2, <3>3, <3>4
  <2> QED
    BY <2>1, <2>2 DEF Notify
<1> QED
  BY <1>0, <1>1, <1>2 DEF Locals, Pcs, Goes, Flow, BitFlow, AddFlow, RemoveFlow, SpareFlow, MemoryFlow, On, Went

LEMMA LookWordGoes ==
  ASSUME Typed, NEW t \in Threads, LookWord(t)
  PROVE  Goes(t)
<1> USE DEF Goes, Flow, BitFlow, AddFlow, RemoveFlow, SpareFlow, MemoryFlow, On, Went, Alike
<1>0. th \in [Threads -> Locals] /\ th[t] \in Locals
  BY DEF Typed
<1>1. CASE NextWord(t, "lookWord")
  BY <1>0, <1>1 DEF Move, NextWord, Finish, Finished, Later, Locals, Idle, Pcs
<1>2. CASE Goto(t, "lookWord", "markWord")
  BY <1>0, <1>2 DEF Move, Goto, Locals, Idle, Pcs
<1> QED
  BY <1>1, <1>2 DEF LookWord

\* A step takes the thread on as Flow says, and wakes another one at most.
LEMMA StepGoes ==
  ASSUME Typed, PlacesAreRight, NEW t \in Threads, Step(t)
  PROVE  Goes(t)
\* These have lemmas of their own.
<1>12. CASE \E made \in SUBSET Slots : EmplaceCounted(t, made)
  BY <1>12, EmplaceCountedGoes
<1>14. CASE LookWord(t)
  BY <1>14, LookWordGoes
<1>30. CASE Notify(t)
  BY <1>30, NotifyGoes
<1> USE DEF Goes, Flow, BitFlow, AddFlow, RemoveFlow, SpareFlow, MemoryFlow, On, Went, Alike, Finished
<1>0. th \in [Threads -> Locals] /\ th[t] \in Locals
  BY DEF Typed, PlacesAreRight
<1>1. CASE Claim(t)
  BY <1>0, <1>1 DEF Claim, Move, Goto, Locals, Idle, Pcs
<1>2. CASE Again(t)
  BY <1>0, <1>2 DEF Again, Move, Goto, Locals, Idle, Pcs
<1>3. CASE Take(t)
  BY <1>0, <1>3 DEF Take, Move, Goto, Locals, Idle, Pcs
<1>4. CASE HeldHas(t)
  BY <1>0, <1>4 DEF HeldHas, Move, Goto, Locals, Idle, Pcs
<1>5. CASE Change(t)
  BY <1>0, <1>5 DEF Change, Move, Goto, Locals, Idle, Pcs
<1>6. CASE Release(t)
  BY <1>0, <1>6 DEF Release, Move, Locals, Idle, Pcs
<1>7. CASE RunHooks(t)
  BY <1>0, <1>7 DEF RunHooks, Move, Goto, Finish, Erasers, Locals, Idle, Pcs
<1>8. CASE Occupy(t)
  BY <1>0, <1>8 DEF Occupy, Move, Locals, Idle, Pcs
<1>9. CASE Occupied(t)
  BY <1>0, <1>9 DEF Occupied, Move, Goto, Locals, Idle, Pcs
<1>10. CASE Construct(t)
  BY <1>0, <1>10 DEF Construct, Move, Locals, Idle, Pcs
<1>11. CASE ConstructThrows(t)
  BY <1>0, <1>11 DEF ConstructThrows, Move, Finish, Locals, Idle, Pcs
<1>13. CASE SetMask(t)
  BY <1>0, <1>13 DEF SetMask, Move, Goto, Locals, Idle, Pcs
<1>15. CASE MarkWord(t)
  BY <1>0, <1>15 DEF MarkWord, Move, NextWord, Finish, Later, Locals, Idle, Pcs
<1>16. CASE Unmask(t)
  BY <1>0, <1>16 DEF Unmask, Move, Finish, Locals, Idle, Pcs
<1>17. CASE Destroy(t)
  BY <1>0, <1>17 DEF Destroy, Move, Goto, Locals, Idle, Pcs
<1>18. CASE WipePage(t)
  BY <1>0, <1>18 DEF WipePage, Move, Locals, Idle, Pcs
<1>19. CASE WipeIndex(t)
  BY <1>0, <1>19 DEF WipeIndex, Move, Locals, Idle, Pcs
<1>20. CASE Forsake(t)
  BY <1>0, <1>20 DEF Forsake, Move, Goto, Locals, Idle, Pcs
<1>21. CASE Emptied(t)
  BY <1>0, <1>21 DEF Emptied, Move, Goto, Locals, Idle, Pcs
<1>22. CASE Recount(t)
  BY <1>0, <1>22 DEF Recount, Move, ParkOrVacate, Locals, Idle, Pcs
<1>23. CASE Rebuild(t)
  BY <1>0, <1>23 DEF Rebuild, Move, ParkOrVacate, Later, Locals, Idle, Pcs
<1>24. CASE Park(t)
  BY <1>0, <1>24 DEF Park, Move, Goto, Locals, Idle, Pcs
<1>25. CASE ChoosePlace(t)
  BY <1>0, <1>25 DEF ChoosePlace, Move, Locals, Idle, Pcs
<1>26. CASE Swap(t)
  BY <1>0, <1>26 DEF Swap, Move, Typed, Places, Locals, Idle, Pcs
<1>27. CASE Trim(t)
  BY <1>0, <1>27 DEF Trim, Move, Typed, Places, Locals, Idle, Pcs
<1>28. CASE Unpark(t)
  BY <1>0, <1>28 DEF Unpark, Move, Goto, Locals, Idle, Pcs
<1>29. CASE Unlock(t)
  BY <1>0, <1>29 DEF Unlock, Move, Goto, Locals, Idle, Pcs
<1>31. CASE AlreadyStarted(t)
  BY <1>0, <1>31 DEF AlreadyStarted, Move, Locals, Idle, Pcs
<1>32. CASE StartPage(t)
  BY <1>0, <1>32 DEF StartPage, Move, Goto, Locals, Idle, Pcs
<1>33. CASE StartThrows(t)
  BY <1>0, <1>33 DEF StartThrows, Move, Finish, Locals, Idle, Pcs
<1>34. CASE FirstAccess(t)
  BY <1>0, <1>34 DEF FirstAccess, Move, Goto, Locals, Idle, Pcs
<1>35. CASE Started(t)
  BY <1>0, <1>35 DEF Started, Move, Locals, Idle, Pcs
<1>36. CASE Unstart(t)
  BY <1>0, <1>36 DEF Unstart, Move, Goto, Locals, Idle, Pcs
<1>37. CASE LookCount(t)
  BY <1>0, <1>37 DEF LookCount, Move, Goto, Locals, Idle, Pcs
<1>38. CASE anyHeld(t)
  BY <1>0, <1>38 DEF anyHeld, Move, Goto, Locals, Idle, Pcs
<1>39. CASE Restart(t)
  BY <1>0, <1>39 DEF Restart, Move, Goto, Locals, Idle, Pcs
<1>40. CASE Decommit(t)
  BY <1>0, <1>40 DEF Decommit, Move, Goto, Locals, Idle, Pcs
<1>41. CASE \E at \in {"start", "vacate"} : Lock(t, at) \/ Sleep(t, at)
  BY <1>0, <1>41 DEF Lock, Sleep, Locked, Sleeping, Goto, Move, Locals, Idle, Pcs
<1> QED
  BY <1>1, <1>2, <1>3, <1>4, <1>5, <1>6, <1>7, <1>8, <1>9, <1>10, <1>11, <1>12, <1>13, <1>14, <1>15, <1>16, <1>17,
     <1>18, <1>19, <1>20, <1>21, <1>22, <1>23, <1>24, <1>25, <1>26, <1>27, <1>28, <1>29, <1>30, <1>31, <1>32, <1>33,
     <1>34, <1>35, <1>36, <1>37, <1>38, <1>39, <1>40, <1>41 DEF Step

\* Who changes what, and of which page.
HeadersStay(t) ==
  LET l == th[t] IN
  \A p \in Pages :
    /\ page'[p].mask = page[p].mask \/ (l.pc \in {"construct", "setMask", "unmask", "wipe"} /\ p = l.page)
    /\ page'[p].making = page[p].making \/ (l.pc \in {"claim", "take", "release"} /\ p = l.page)
    /\ page'[p].count = page[p].count
         \/ (l.pc \in {"occupy", "starting", "wipe", "forsake"} /\ p = l.page)
    /\ page'[p].summary = page[p].summary
         \/ (l.pc \in {"construct", "markWord", "wipe", "emptied", "rebuild"} /\ p = l.page)
    /\ page'[p].started = page[p].started \/ (l.pc \in {"count", "vacating", "restart"} /\ p = l.victim)
    /\ page'[p].busy = page[p].busy \/ (l.pc \in {"start", "vacate", "unlock"} /\ p = l.victim)
    /\ page'[p].parked = page[p].parked \/ (l.pc \in {"park", "unpark"} /\ p = l.victim)

RestStays(t) ==
  LET l == th[t] IN
  /\ kind' = kind /\ calls' = calls
  /\ alive' = alive \/ l.pc \in {"construct", "unmask", "destroy", "wipe"}
  /\ backed' = backed \/ l.pc \in {"starting", "decommit"}
  /\ pages' = pages \/ l.pc \in {"count", "decommit"}
  /\ spares' = spares \/ l.pc \in {"swap", "trim"}
  /\ nextSpare' = nextSpare \/ l.pc = "choose"
  /\ kept' = kept \/ l.pc \in {"lookHeld", "decommit"}

Shares(t) == HeadersStay(t) /\ RestStays(t)

\* What a step leaves alone of the column, by the place of the thread.
LEMMA StepShares ==
  ASSUME Typed, NEW t \in Threads, Step(t)
  PROVE  Shares(t)
<1> USE DEF Shares, HeadersStay, RestStays, memoryVars, spareVars, Move, Goto
<1>0. page \in [Pages -> Headers] /\ th \in [Threads -> Locals]
  BY DEF Typed
<1>1. CASE Claim(t)
  BY <1>0, <1>1 DEF Claim, Headers
<1>2. CASE Again(t)
  BY <1>0, <1>2 DEF Again, Headers
<1>3. CASE Take(t)
  BY <1>0, <1>3 DEF Take, Headers
<1>4. CASE HeldHas(t)
  BY <1>0, <1>4 DEF HeldHas, Headers
<1>5. CASE Change(t)
  BY <1>0, <1>5 DEF Change, Headers
<1>6. CASE Release(t)
  BY <1>0, <1>6 DEF Release, Headers
<1>7. CASE RunHooks(t)
  BY <1>0, <1>7 DEF RunHooks, Headers
<1>8. CASE Occupy(t)
  BY <1>0, <1>8 DEF Occupy, Headers
<1>9. CASE Occupied(t)
  BY <1>0, <1>9 DEF Occupied, Headers
<1>10. CASE Construct(t)
  BY <1>0, <1>10 DEF Construct, Headers
<1>11. CASE ConstructThrows(t)
  BY <1>0, <1>11 DEF ConstructThrows, Headers
<1>12. CASE \E made \in SUBSET Slots : EmplaceCounted(t, made)
  BY <1>0, <1>12 DEF EmplaceCounted, Headers
<1>13. CASE SetMask(t)
  BY <1>0, <1>13 DEF SetMask, Headers
<1>14. CASE LookWord(t)
  BY <1>0, <1>14 DEF LookWord, NextWord, Headers
<1>15. CASE MarkWord(t)
  BY <1>0, <1>15 DEF MarkWord, NextWord, Headers
<1>16. CASE Unmask(t)
  BY <1>0, <1>16 DEF Unmask, Headers
<1>17. CASE Destroy(t)
  BY <1>0, <1>17 DEF Destroy, Headers
<1>18. CASE WipePage(t)
  BY <1>0, <1>18 DEF WipePage, Headers
<1>19. CASE WipeIndex(t)
  BY <1>0, <1>19 DEF WipeIndex, Headers
<1>20. CASE Forsake(t)
  BY <1>0, <1>20 DEF Forsake, Headers
<1>21. CASE Emptied(t)
  BY <1>0, <1>21 DEF Emptied, Headers
<1>22. CASE Recount(t)
  BY <1>0, <1>22 DEF Recount, Headers
<1>23. CASE Rebuild(t)
  BY <1>0, <1>23 DEF Rebuild, Headers
<1>24. CASE Park(t)
  BY <1>0, <1>24 DEF Park, Headers
<1>25. CASE ChoosePlace(t)
  BY <1>0, <1>25 DEF ChoosePlace, Headers
<1>26. CASE Swap(t)
  BY <1>0, <1>26 DEF Swap, Headers
<1>27. CASE Trim(t)
  BY <1>0, <1>27 DEF Trim, Headers
<1>28. CASE Unpark(t)
  BY <1>0, <1>28 DEF Unpark, Headers
<1>29. CASE Unlock(t)
  BY <1>0, <1>29 DEF Unlock, Headers
<1>30. CASE Notify(t)
  BY <1>0, <1>30 DEF Notify, Headers
<1>31. CASE AlreadyStarted(t)
  BY <1>0, <1>31 DEF AlreadyStarted, Headers
<1>32. CASE StartPage(t)
  BY <1>0, <1>32 DEF StartPage, Headers
<1>33. CASE StartThrows(t)
  BY <1>0, <1>33 DEF StartThrows, Headers
<1>34. CASE FirstAccess(t)
  BY <1>0, <1>34 DEF FirstAccess, Headers
<1>35. CASE Started(t)
  BY <1>0, <1>35 DEF Started, Headers
<1>36. CASE Unstart(t)
  BY <1>0, <1>36 DEF Unstart, Headers
<1>37. CASE LookCount(t)
  BY <1>0, <1>37 DEF LookCount, Headers
<1>38. CASE anyHeld(t)
  BY <1>0, <1>38 DEF anyHeld, Headers
<1>39. CASE Restart(t)
  BY <1>0, <1>39 DEF Restart, Headers
<1>40. CASE Decommit(t)
  BY <1>0, <1>40 DEF Decommit, Headers
<1>41. CASE \E at \in {"start", "vacate"} : Lock(t, at) \/ Sleep(t, at)
  BY <1>0, <1>41 DEF Lock, Sleep, Headers
<1> QED
  BY <1>1, <1>2, <1>3, <1>4, <1>5, <1>6, <1>7, <1>8, <1>9, <1>10, <1>11, <1>12, <1>13, <1>14, <1>15, <1>16, <1>17,
     <1>18, <1>19, <1>20, <1>21, <1>22, <1>23, <1>24, <1>25, <1>26, <1>27, <1>28, <1>29, <1>30, <1>31, <1>32, <1>33,
     <1>34, <1>35, <1>36, <1>37, <1>38, <1>39, <1>40, <1>41 DEF Step

\* Each place has its actions.
LEMMA StepByPlace ==
  ASSUME NEW t \in Threads, Step(t)
  PROVE
    /\ th[t].pc = "claim" => Claim(t)
    /\ th[t].pc = "again" => Again(t)
    /\ th[t].pc = "take" => Take(t)
    /\ th[t].pc = "held" => HeldHas(t)
    /\ th[t].pc = "change" => Change(t)
    /\ th[t].pc = "release" => Release(t)
    /\ th[t].pc = "hooks" => RunHooks(t)
    /\ th[t].pc = "occupy" => Occupy(t)
    /\ th[t].pc = "occupied" => Occupied(t)
    /\ th[t].pc = "construct" => Construct(t) \/ ConstructThrows(t) \/ (\E made \in SUBSET Slots : EmplaceCounted(t, made))
    /\ th[t].pc = "setMask" => SetMask(t)
    /\ th[t].pc = "lookWord" => LookWord(t)
    /\ th[t].pc = "markWord" => MarkWord(t)
    /\ th[t].pc = "unmask" => Unmask(t)
    /\ th[t].pc = "destroy" => Destroy(t)
    /\ th[t].pc = "wipe" => WipePage(t) \/ WipeIndex(t)
    /\ th[t].pc = "forsake" => Forsake(t)
    /\ th[t].pc = "emptied" => Emptied(t)
    /\ th[t].pc = "recount" => Recount(t)
    /\ th[t].pc = "rebuild" => Rebuild(t)
    /\ th[t].pc = "park" => Park(t)
    /\ th[t].pc = "choose" => ChoosePlace(t)
    /\ th[t].pc = "swap" => Swap(t)
    /\ th[t].pc = "trim" => Trim(t)
    /\ th[t].pc = "unpark" => Unpark(t)
    /\ th[t].pc = "unlock" => Unlock(t)
    /\ th[t].pc = "notify" => Notify(t)
    /\ th[t].pc = "starting" => AlreadyStarted(t) \/ StartPage(t) \/ StartThrows(t)
    /\ th[t].pc = "count" => Started(t)
    /\ th[t].pc = "vacating" => Unstart(t)
    /\ th[t].pc = "lookCount" => LookCount(t)
    /\ th[t].pc = "lookHeld" => anyHeld(t)
    /\ th[t].pc = "restart" => Restart(t)
    /\ th[t].pc = "decommit" => Decommit(t)
    /\ th[t].pc \in {"region", "touch"} => FirstAccess(t)
    /\ th[t].pc \in {"start", "vacate"} => Lock(t, th[t].pc) \/ Sleep(t, th[t].pc)
<1> USE DEF Move, Goto
<1>1. CASE Claim(t)
  BY <1>1 DEF Claim
<1>2. CASE Again(t)
  BY <1>2 DEF Again
<1>3. CASE Take(t)
  BY <1>3 DEF Take
<1>4. CASE HeldHas(t)
  BY <1>4 DEF HeldHas
<1>5. CASE Change(t)
  BY <1>5 DEF Change
<1>6. CASE Release(t)
  BY <1>6 DEF Release
<1>7. CASE RunHooks(t)
  BY <1>7 DEF RunHooks
<1>8. CASE Occupy(t)
  BY <1>8 DEF Occupy
<1>9. CASE Occupied(t)
  BY <1>9 DEF Occupied
<1>10. CASE Construct(t)
  BY <1>10 DEF Construct
<1>11. CASE ConstructThrows(t)
  BY <1>11 DEF ConstructThrows
<1>12. CASE \E made \in SUBSET Slots : EmplaceCounted(t, made)
  BY <1>12 DEF EmplaceCounted
<1>13. CASE SetMask(t)
  BY <1>13 DEF SetMask
<1>14. CASE LookWord(t)
  BY <1>14 DEF LookWord, NextWord
<1>15. CASE MarkWord(t)
  BY <1>15 DEF MarkWord, NextWord
<1>16. CASE Unmask(t)
  BY <1>16 DEF Unmask
<1>17. CASE Destroy(t)
  BY <1>17 DEF Destroy
<1>18. CASE WipePage(t)
  BY <1>18 DEF WipePage
<1>19. CASE WipeIndex(t)
  BY <1>19 DEF WipeIndex
<1>20. CASE Forsake(t)
  BY <1>20 DEF Forsake
<1>21. CASE Emptied(t)
  BY <1>21 DEF Emptied
<1>22. CASE Recount(t)
  BY <1>22 DEF Recount
<1>23. CASE Rebuild(t)
  BY <1>23 DEF Rebuild
<1>24. CASE Park(t)
  BY <1>24 DEF Park
<1>25. CASE ChoosePlace(t)
  BY <1>25 DEF ChoosePlace
<1>26. CASE Swap(t)
  BY <1>26 DEF Swap
<1>27. CASE Trim(t)
  BY <1>27 DEF Trim
<1>28. CASE Unpark(t)
  BY <1>28 DEF Unpark
<1>29. CASE Unlock(t)
  BY <1>29 DEF Unlock
<1>30. CASE Notify(t)
  BY <1>30 DEF Notify
<1>31. CASE AlreadyStarted(t)
  BY <1>31 DEF AlreadyStarted
<1>32. CASE StartPage(t)
  BY <1>32 DEF StartPage
<1>33. CASE StartThrows(t)
  BY <1>33 DEF StartThrows
<1>34. CASE FirstAccess(t)
  BY <1>34 DEF FirstAccess
<1>35. CASE Started(t)
  BY <1>35 DEF Started
<1>36. CASE Unstart(t)
  BY <1>36 DEF Unstart
<1>37. CASE LookCount(t)
  BY <1>37 DEF LookCount
<1>38. CASE anyHeld(t)
  BY <1>38 DEF anyHeld
<1>39. CASE Restart(t)
  BY <1>39 DEF Restart
<1>40. CASE Decommit(t)
  BY <1>40 DEF Decommit
<1>41. CASE \E at \in {"start", "vacate"} : Lock(t, at) \/ Sleep(t, at)
  BY <1>41 DEF Lock, Sleep
<1> QED
  BY <1>1, <1>2, <1>3, <1>4, <1>5, <1>6, <1>7, <1>8, <1>9, <1>10, <1>11, <1>12, <1>13, <1>14, <1>15, <1>16, <1>17,
     <1>18, <1>19, <1>20, <1>21, <1>22, <1>23, <1>24, <1>25, <1>26, <1>27, <1>28, <1>29, <1>30, <1>31, <1>32, <1>33,
     <1>34, <1>35, <1>36, <1>37, <1>38, <1>39, <1>40, <1>41 DEF Step

-----------------------------------------------------------------------------
(* Where calls are. *)

\* A thread without a call is where it should be.
LEMMA IdlePlace == Place(Idle)
BY DEF Place, Idle, Ops, Bitten, MakingPcs, MaskPcs, EmptyPcs, SparePcs, VacatePcs, EndPcs

\* On its way a call stays what it is.
LEMMA FlowPlace ==
  ASSUME NEW l \in Locals, NEW m, Place(l), Flow(l, m), None \notin Pages
  PROVE  Place(m)
<1> USE IdlePlace DEF Place, Flow, On, Went, Finished, MakingPcs, MaskPcs, EmptyPcs, SparePcs, VacatePcs, EndPcs,
        Adders, Erasers, Bitten, Ops
<1>1. CASE l.pc \in {"claim", "again", "take"}
  BY <1>1 DEF BitFlow, Locals
<1>2. CASE l.pc \in {"held", "change"}
  BY <1>2 DEF BitFlow, Locals
<1>3. CASE l.pc \in {"release", "hooks"}
  BY <1>3 DEF BitFlow, Locals
<1>4. CASE l.pc \in {"occupy", "occupied"}
  BY <1>4 DEF AddFlow, Locals, Later
<1>5. CASE l.pc \in {"construct"}
  BY <1>5 DEF AddFlow, Locals, Later
<1>6. CASE l.pc \in {"setMask", "lookWord", "markWord"}
  BY <1>6 DEF AddFlow, Locals, Later
<1>7. CASE l.pc \in {"unmask"}
  BY <1>7 DEF RemoveFlow, Locals
<1>8. CASE l.pc \in {"destroy"}
  BY <1>8 DEF RemoveFlow, Locals
<1>9. CASE l.pc \in {"wipe"}
  BY <1>9 DEF RemoveFlow, Locals
<1>10. CASE l.pc \in {"forsake", "emptied"}
  BY <1>10 DEF RemoveFlow, Locals
<1>11. CASE l.pc \in {"recount", "rebuild"}
  BY <1>11 DEF RemoveFlow, Locals, Later
<1>12. CASE l.pc \in {"park", "choose", "unpark"}
  BY <1>12 DEF SpareFlow, Locals
<1>13. CASE l.pc \in {"swap", "trim"}
  BY <1>13 DEF SpareFlow, Locals
<1>14. CASE l.pc \in {"start", "vacate", "sleepStart", "sleepVacate"}
  BY <1>14 DEF MemoryFlow, Locals
<1>15. CASE l.pc \in {"unlock", "notify"}
  BY <1>15 DEF MemoryFlow, Locals
<1>16. CASE l.pc \in {"starting"}
  BY <1>16 DEF MemoryFlow, Locals
<1>17. CASE l.pc \in {"region", "touch", "count"}
  BY <1>17 DEF MemoryFlow, Locals
<1>18. CASE l.pc \in {"vacating", "lookCount", "lookHeld"}
  BY <1>18 DEF MemoryFlow, Locals
<1>19. CASE l.pc \in {"restart", "decommit"}
  BY <1>19 DEF MemoryFlow, Locals
<1> QED
  BY <1>1, <1>2, <1>3, <1>4, <1>5, <1>6, <1>7, <1>8, <1>9, <1>10, <1>11, <1>12, <1>13, <1>14, <1>15, <1>16, <1>17,
     <1>18, <1>19 DEF Locals, Pcs, BitPcs

LEMMA AlikePlace ==
  ASSUME NEW l, NEW m, Place(l), Alike(l, m)
  PROVE  Place(m)
BY DEF Place, Alike, On, Went, Bitten, MakingPcs, MaskPcs, EmptyPcs, SparePcs, VacatePcs, EndPcs, BitPcs

LEMMA PlaceStays ==
  ASSUME kind' = kind, NEW t, Place(th'[t])
  PROVE  Place(th[t])'
BY DEF Place, Bitten

\* A step keeps the places right.
LEMMA StepPlaces ==
  ASSUME Typed, PlacesAreRight, NEW t \in Threads, Goes(t), kind' = kind
  PROVE  PlacesAreRight'
<1> SUFFICES ASSUME NEW u \in Threads
             PROVE  Place(th[u])'
  BY DEF PlacesAreRight
<1>1. Place(th[u]) /\ th[u] \in Locals
  BY DEF PlacesAreRight, Typed
<1>2. CASE u = t
  <2>1. Flow(th[t], th'[t]) /\ Place(th[t]) /\ th[t] \in Locals
    BY <1>1, <1>2 DEF Goes
  <2>2. Place(th'[t])
    BY <2>1, FlowPlace, ColumnAssumption
  <2> QED
    BY <1>2, <2>2, PlaceStays
<1>3. CASE u # t
  BY <1>1, <1>3, AlikePlace, PlaceStays DEF Goes
<1> QED
  BY <1>2, <1>3

\* A thread that goes on does so in the same call.
LEMMA FlowBecomes ==
  ASSUME NEW l \in Locals, NEW m, Flow(l, m)
  PROVE  m = Idle \/ (m.op = l.op /\ m.page = l.page /\ m.slots = l.slots)
BY DEF Flow, BitFlow, AddFlow, RemoveFlow, SpareFlow, MemoryFlow, On, Went, Locals, Pcs, MakingPcs, MaskPcs,
   EmptyPcs, SparePcs,
       VacatePcs, EndPcs, BitPcs

\* What is taken off a count is in it.
CountsSuffice(t) ==
  LET l == th[t] IN
  /\ l.pc \in {"forsake"} => page[l.page].count - Cardinality(l.left) \in Nat
  /\ l.pc \in {"starting", "occupy"} => Cardinality(l.slots) \in Nat
  /\ l.pc \in {"starting"} => page[l.page].count - Cardinality(l.slots) \in Nat
  /\ l.pc = "wipe" /\ l.op = "eraseAlone" => page[l.page].count - 1 \in Nat
  /\ l.pc = "decommit" => pages - 1 \in Nat

LocalsTyped == th \in [Threads -> Locals]

Rets == {"idle", "release", "construct", "trim"}

\* The types of the locals, one by one.
LEMMA Fields ==
  ASSUME NEW l \in Locals
  PROVE  /\ l.pc \in Pcs /\ l.page \in Pages \cup {None} /\ l.slots \in SUBSET Slots /\ l.left \in SUBSET Slots
         /\ l.ret \in Rets /\ l.victim \in Pages \cup {None} /\ l.place \in Places
BY DEF Locals, Rets

\* The changes of locals the steps make keep their type.
LEMMA Shapes ==
  ASSUME NEW l \in Locals, NEW a \in Pcs
  PROVE
    /\ [l EXCEPT !.pc = a] \in Locals
    /\ \A b \in SUBSET Slots : [l EXCEPT !.pc = a, !.left = b] \in Locals /\ [l EXCEPT !.left = b, !.pc = a] \in Locals
    /\ \A b \in SUBSET Slots, r \in Rets : [l EXCEPT !.pc = a, !.left = b, !.ret = r] \in Locals
    /\ \A b \in SUBSET Slots, v \in Pages \cup {None} : [l EXCEPT !.pc = a, !.left = b, !.victim = v] \in Locals
    /\ \A v \in Pages \cup {None} : [l EXCEPT !.pc = a, !.victim = v] \in Locals
    /\ \A r \in Rets : [l EXCEPT !.pc = a, !.ret = r] \in Locals
    /\ \A d \in Places : [l EXCEPT !.pc = a, !.place = d] \in Locals
    /\ \A r \in Rets, v \in Pages \cup {None}, d \in Places :
         [l EXCEPT !.pc = a, !.ret = r, !.victim = v, !.place = d] \in Locals
BY DEF Locals, Rets

LEMMA IdleTyped == Idle \in Locals
BY ColumnAssumption DEF Locals, Idle, Pcs, Places

\* A move to locals of the type keeps it.
LEMMA MoveTyped ==
  ASSUME th \in [Threads -> Locals], NEW t \in Threads, NEW from, NEW to \in Locals, Move(t, from, to)
  PROVE  th' \in [Threads -> Locals]
BY IdleTyped DEF Move

\* A step keeps the type of the locals.
LEMMA StepLocals ==
  ASSUME Typed, PlacesAreRight, NEW t \in Threads, Step(t)
  PROVE  LocalsTyped'
<1> USE DEF LocalsTyped, Pcs, MakingPcs, MaskPcs, EmptyPcs, SparePcs, VacatePcs, EndPcs, BitPcs
<1>0. /\ th \in [Threads -> Locals] /\ th[t] \in Locals /\ spares \in [Places -> Pages \cup {None}]
      /\ nextSpare \in Places /\ \A n \in Places : (n + 1) % SparePages \in Places
      /\ \A p \in Pages \cup {None} : SlotsOf(p) \in SUBSET Slots
  BY ColumnAssumption DEF Typed, Places, SlotsOf, Slots
<1>1. CASE Claim(t)
  BY <1>0, <1>1, Fields, Shapes, MoveTyped DEF Claim, Goto
<1>2. CASE Again(t)
  BY <1>0, <1>2 DEF Again, Move, Goto, Locals, Idle
<1>3. CASE Take(t)
  BY <1>0, <1>3 DEF Take, Move, Goto, Locals, Idle
<1>4. CASE HeldHas(t)
  BY <1>0, <1>4 DEF HeldHas, Move, Goto, Locals, Idle
<1>5. CASE Change(t)
  BY <1>0, <1>5 DEF Change, Move, Goto, Locals, Idle
<1>6. CASE Release(t)
  BY <1>0, <1>6, Fields, Shapes, MoveTyped DEF Release, Rets
<1>7. CASE RunHooks(t)
  BY <1>0, <1>7, Fields, Shapes, MoveTyped DEF RunHooks, Goto, Finish
<1>8. CASE Occupy(t)
  BY <1>0, <1>8, Fields, Shapes, MoveTyped DEF Occupy, Rets
<1>9. CASE Occupied(t)
  BY <1>0, <1>9 DEF Occupied, Move, Goto, Locals, Idle
<1>10. CASE Construct(t)
  BY <1>0, <1>10, Fields, Shapes, MoveTyped DEF Construct, Rets
<1>11. CASE ConstructThrows(t)
  BY <1>0, <1>11, Fields, Shapes, MoveTyped DEF ConstructThrows, Finish, Rets
<1>12. CASE \E made \in SUBSET Slots : EmplaceCounted(t, made)
  BY <1>0, <1>12, Fields, Shapes, MoveTyped DEF EmplaceCounted, Rets
<1>13. CASE SetMask(t)
  BY <1>0, <1>13 DEF SetMask, Move, Goto, Locals, Idle
<1>14. CASE LookWord(t)
  <2>1. CASE NextWord(t, "lookWord")
    BY <1>0, <2>1, Fields, Shapes, MoveTyped DEF NextWord, Finish
  <2>2. CASE Goto(t, "lookWord", "markWord")
    BY <1>0, <2>2, Shapes, MoveTyped DEF Goto
  <2> QED
    BY <1>14, <2>1, <2>2 DEF LookWord
<1>15. CASE MarkWord(t)
  BY <1>0, <1>15, Fields, Shapes, MoveTyped DEF MarkWord, NextWord, Finish, Rets
<1>16. CASE Unmask(t)
  BY <1>0, <1>16, Fields, Shapes, MoveTyped DEF Unmask, Finish, Rets
<1>17. CASE Destroy(t)
  BY <1>0, <1>17 DEF Destroy, Move, Goto, Locals, Idle
<1>18. CASE WipePage(t)
  BY <1>0, <1>18, Fields, Shapes, MoveTyped DEF WipePage, Rets
<1>19. CASE WipeIndex(t)
  <2>1. PICK a \in {"idle", "park", "vacate"} : Move(t, "wipe", [th[t] EXCEPT !.pc = a, !.victim = th[t].page])
    BY <1>19 DEF WipeIndex
  <2>2. a \in Pcs /\ th[t].page \in Pages \cup {None}
    BY <1>0, Fields
  <2> QED
    BY <1>0, <2>1, <2>2, Shapes, MoveTyped
<1>20. CASE Forsake(t)
  BY <1>0, <1>20, Fields, Shapes, MoveTyped DEF Forsake, Goto, Rets
<1>21. CASE Emptied(t)
  BY <1>0, <1>21 DEF Emptied, Move, Goto, Locals, Idle
<1>22. CASE Recount(t)
  BY <1>0, <1>22, Fields, Shapes, MoveTyped DEF Recount, ParkOrVacate
<1>23. CASE Rebuild(t)
  BY <1>0, <1>23, Fields, Shapes, MoveTyped DEF Rebuild, ParkOrVacate, Rets
<1>24. CASE Park(t)
  BY <1>0, <1>24, Fields, Shapes, MoveTyped DEF Park, Goto, Rets
<1>25. CASE ChoosePlace(t)
  BY <1>0, <1>25, Fields, Shapes, MoveTyped DEF ChoosePlace, Rets
<1>26. CASE Swap(t)
  BY <1>0, <1>26, Fields, Shapes, MoveTyped DEF Swap, Rets
<1>27. CASE Trim(t)
  BY <1>0, <1>27, Fields, Shapes, MoveTyped DEF Trim, Rets
<1>28. CASE Unpark(t)
  BY <1>0, <1>28 DEF Unpark, Move, Goto, Locals, Idle
<1>29. CASE Unlock(t)
  BY <1>0, <1>29 DEF Unlock, Move, Goto, Locals, Idle
<1>30. CASE Notify(t)
  <2> DEFINE after == IF th[t].ret = "idle" THEN Idle ELSE [th[t] EXCEPT !.pc = th[t].ret]
  <2>1. th[t].ret \in Rets
    BY <1>0, Fields
  <2>2. after \in Locals
    BY <1>0, <2>1, Shapes, IdleTyped DEF Rets
  <2>3. \A u \in Threads : [th[u] EXCEPT !.pc = IF @ = "sleepStart" THEN "start" ELSE "vacate"] \in Locals
    BY <1>0, Shapes
  <2> QED
    BY <1>0, <1>30, <2>2, <2>3 DEF Notify
<1>31. CASE AlreadyStarted(t)
  BY <1>0, <1>31, Fields, Shapes, MoveTyped DEF AlreadyStarted, Rets
<1>32. CASE StartPage(t)
  BY <1>0, <1>32 DEF StartPage, Move, Goto, Locals, Idle
<1>33. CASE StartThrows(t)
  BY <1>0, <1>33, Fields, Shapes, MoveTyped DEF StartThrows, Finish, Rets
<1>34. CASE FirstAccess(t)
  BY <1>0, <1>34 DEF FirstAccess, Move, Goto, Locals, Idle
<1>35. CASE Started(t)
  BY <1>0, <1>35, Fields, Shapes, MoveTyped DEF Started, Rets
<1>36. CASE Unstart(t)
  BY <1>0, <1>36 DEF Unstart, Move, Goto, Locals, Idle
<1>37. CASE LookCount(t)
  BY <1>0, <1>37 DEF LookCount, Move, Goto, Locals, Idle
<1>38. CASE anyHeld(t)
  BY <1>0, <1>38 DEF anyHeld, Move, Goto, Locals, Idle
<1>39. CASE Restart(t)
  BY <1>0, <1>39 DEF Restart, Move, Goto, Locals, Idle
<1>40. CASE Decommit(t)
  BY <1>0, <1>40 DEF Decommit, Move, Goto, Locals, Idle
<1>41. CASE \E at \in {"start", "vacate"} : Lock(t, at) \/ Sleep(t, at)
  BY <1>0, <1>41 DEF Lock, Sleep, Locked, Sleeping, Move, Goto, Locals, Idle
<1> QED
  BY <1>1, <1>2, <1>3, <1>4, <1>5, <1>6, <1>7, <1>8, <1>9, <1>10, <1>11, <1>12, <1>13, <1>14, <1>15, <1>16, <1>17,
     <1>18, <1>19, <1>20, <1>21, <1>22, <1>23, <1>24, <1>25, <1>26, <1>27, <1>28, <1>29, <1>30, <1>31, <1>32, <1>33,
     <1>34, <1>35, <1>36, <1>37, <1>38, <1>39, <1>40, <1>41 DEF Step

HeadersTyped == page \in [Pages -> Headers]

\* A set of naturals that is not empty has a least element.
LEMMA NatMin ==
  ASSUME NEW T, T \subseteq Nat, T # {}
  PROVE  \E x \in T : \A y \in T : x <= y
<1>1. PICK x \in T : \A y \in T : <<y, x>> \notin OpToRel(<, Nat)
  BY NatLessThanWellFounded, WFMin, Zenon
<1>2. ASSUME NEW y \in T
      PROVE  ~(y < x)
  BY <1>1 DEF OpToRel
<1> QED
  BY <1>2

\* Words are naturals, of which the lowest is one of them.
LEMMA WordsAreNats ==
  ASSUME NEW slots \in SUBSET Slots
  PROVE  WordsOf(slots) \in SUBSET Nat /\ \A s \in slots : Word(s) \in Nat
<1>1. \A s \in Slots : s \in Nat
  BY ColumnAssumption DEF Slots
<1>2. WordSize \in Nat \ {0}
  BY ColumnAssumption
<1> QED
  BY <1>1, <1>2 DEF WordsOf, Word

LEMMA LowestIsOne ==
  ASSUME NEW slots \in SUBSET Slots, slots # {}
  PROVE  Lowest(WordsOf(slots)) \in WordsOf(slots)
<1>1. WordsOf(slots) # {} /\ WordsOf(slots) \subseteq Nat
  BY WordsAreNats DEF WordsOf
<1>2. \E w \in WordsOf(slots) : \A v \in WordsOf(slots) : w <= v
  BY <1>1, NatMin
<1> QED
  BY <1>2 DEF Lowest

\* The changes of headers the steps make keep their type.
LEMMA HeaderShapes ==
  ASSUME page \in [Pages -> Headers], NEW p \in Pages
  PROVE
    /\ \A n \in Nat : [page EXCEPT ![p].count = n] \in [Pages -> Headers]
    /\ \A w \in SUBSET Nat : [page EXCEPT ![p].summary = w] \in [Pages -> Headers]
    /\ \A m \in SUBSET Slots, w \in SUBSET Nat :
         [page EXCEPT ![p].mask = m, ![p].summary = w] \in [Pages -> Headers]
    /\ \A m \in SUBSET Slots, n \in Nat, w \in SUBSET Nat :
         [page EXCEPT ![p].mask = m, ![p].count = n, ![p].summary = w] \in [Pages -> Headers]
<1>1. \A n \in Nat : [page EXCEPT ![p].count = n] \in [Pages -> Headers]
  BY DEF Headers
<1>2. \A w \in SUBSET Nat : [page EXCEPT ![p].summary = w] \in [Pages -> Headers]
  BY DEF Headers
<1>3. ASSUME NEW m \in SUBSET Slots, NEW w \in SUBSET Nat
      PROVE  [page EXCEPT ![p].mask = m, ![p].summary = w] \in [Pages -> Headers]
  BY DEF Headers
<1>4. ASSUME NEW m \in SUBSET Slots, NEW n \in Nat, NEW w \in SUBSET Nat
      PROVE  [page EXCEPT ![p].mask = m, ![p].count = n, ![p].summary = w] \in [Pages -> Headers]
  BY DEF Headers
<1> QED
  BY <1>1, <1>2, <1>3, <1>4

\* A call is for a page, but for trim.
LEMMA CallHasPage ==
  ASSUME Typed, PlacesAreRight, NEW t \in Threads, th[t].pc \notin {"idle", "trim"}, th[t].op # "trim"
  PROVE  /\ th[t].page \in Pages /\ page[th[t].page] \in Headers /\ th[t].op \in Ops
         /\ page[th[t].page].mask \in SUBSET Slots /\ page[th[t].page].making \in SUBSET Slots
         /\ page[th[t].page].summary \in SUBSET Nat /\ page[th[t].page].count \in Nat
<1>1. th[t] \in Locals /\ Place(th[t]) /\ page \in [Pages -> Headers]
  BY DEF Typed, PlacesAreRight
<1>2. th[t].page \in Pages /\ th[t].op \in Ops
  BY <1>1 DEF Locals, Place
<1> QED
  BY <1>1, <1>2 DEF Headers

\* A step keeps the type of the headers, if no count goes below zero.
LEMMA StepHeaders ==
  ASSUME Typed, PlacesAreRight, NEW t \in Threads, Step(t), CountsSuffice(t)
  PROVE  HeadersTyped'
<1> USE DEF HeadersTyped
<1>0. /\ page \in [Pages -> Headers] /\ th[t] \in Locals /\ Place(th[t])
      /\ th[t].slots \in SUBSET Slots /\ th[t].left \in SUBSET Slots /\ th[t].page \in Pages \cup {None}
      /\ th[t].victim \in Pages \cup {None}
  BY Fields DEF Typed, PlacesAreRight
<1>a. th[t].pc \in {"rebuild", "forsake", "wipe", "markWord", "construct", "occupy"} => th[t].op # "trim"
  BY <1>0 DEF Place, MakingPcs, MaskPcs, EmptyPcs, Adders, Ops
<1>1. CASE Claim(t)
  BY <1>0, <1>1 DEF Claim, Headers
<1>2. CASE Take(t)
  BY <1>0, <1>2 DEF Take, Headers
<1>3. CASE Release(t)
  BY <1>0, <1>3 DEF Release, Headers
<1>4. CASE Occupy(t)
  <2>1. th[t].pc = "occupy"
    BY <1>4 DEF Occupy, Move
  <2> DEFINE n == page[th[t].page].count + Cardinality(th[t].slots)
  <2>2. th[t].page \in Pages /\ n \in Nat
    BY <1>a, <2>1, CallHasPage DEF CountsSuffice
  <2>3. page' = [page EXCEPT ![th[t].page].count = n]
    BY <1>4 DEF Occupy
  <2> QED
    BY <1>0, <2>2, <2>3, HeaderShapes
<1>5. ASSUME NEW made \in SUBSET Slots, EmplaceCounted(t, made)
      PROVE  HeadersTyped'
  <2>1. th[t].pc = "construct" /\ th[t].op = "apply"
    BY <1>5 DEF EmplaceCounted, Move
  <2> DEFINE m == page[th[t].page].mask \cup made
             w == page[th[t].page].summary \cup WordsOf(made)
  <2>2. th[t].page \in Pages /\ m \in SUBSET Slots /\ w \in SUBSET Nat
    BY <2>1, CallHasPage, WordsAreNats
  <2>3. page' = [page EXCEPT ![th[t].page].mask = m, ![th[t].page].summary = w]
    BY <1>0, <1>5, <2>2 DEF EmplaceCounted
  <2> QED
    BY <1>0, <2>2, <2>3, HeaderShapes
<1>6. CASE SetMask(t)
  BY <1>0, <1>6 DEF SetMask, Headers
<1>7. CASE MarkWord(t)
  <2>1. th[t].pc = "markWord" /\ th[t].left # {}
    BY <1>0, <1>7 DEF MarkWord, NextWord, Move, Place, MaskPcs
  <2> DEFINE w == page[th[t].page].summary \cup {Lowest(WordsOf(th[t].left))}
  <2>2. th[t].page \in Pages /\ w \in SUBSET Nat
    BY <1>0, <1>a, <2>1, CallHasPage, WordsAreNats, LowestIsOne
  <2>3. page' = [page EXCEPT ![th[t].page].summary = w]
    BY <1>7 DEF MarkWord
  <2> QED
    BY <1>0, <2>2, <2>3, HeaderShapes
<1>8. CASE Unmask(t)
  BY <1>0, <1>8 DEF Unmask, Headers
<1>9. CASE WipePage(t)
  <2>1. th[t].pc = "wipe" /\ th[t].op = "kill"
    BY <1>9 DEF WipePage, Move
  <2> DEFINE gone == page[th[t].page].mask \cap th[t].slots
             rest == page[th[t].page].mask \ gone
             w == page[th[t].page].summary \ (WordsOf(gone) \ WordsOf(rest))
  <2>2. th[t].page \in Pages /\ rest \in SUBSET Slots /\ w \in SUBSET Nat
    BY <2>1, CallHasPage
  <2>3. page' = [page EXCEPT ![th[t].page].mask = rest, ![th[t].page].summary = w]
    BY <1>0, <1>9, <2>2 DEF WipePage, Mine
  <2> QED
    BY <1>0, <2>2, <2>3, HeaderShapes
<1>10. CASE WipeIndex(t)
  <2>1. th[t].pc = "wipe" /\ th[t].op = "eraseAlone"
    BY <1>10 DEF WipeIndex, Move
  <2> DEFINE m == page[th[t].page].mask \ th[t].slots
             n == page[th[t].page].count - 1
             w == IF page[th[t].page].count = 1 THEN {} ELSE page[th[t].page].summary
  <2>2. th[t].page \in Pages /\ m \in SUBSET Slots /\ n \in Nat /\ w \in SUBSET Nat
    BY <2>1, CallHasPage DEF CountsSuffice
  <2>3. page' = [page EXCEPT ![th[t].page].mask = m, ![th[t].page].count = n, ![th[t].page].summary = w]
    BY <1>0, <1>10, <2>2 DEF WipeIndex, Mine
  <2> QED
    BY <1>0, <2>2, <2>3, HeaderShapes
<1>11. CASE Forsake(t)
  <2>1. th[t].pc = "forsake"
    BY <1>11 DEF Forsake, Goto, Move
  <2> DEFINE n == page[th[t].page].count - Cardinality(th[t].left)
  <2>2. th[t].page \in Pages /\ n \in Nat
    BY <1>a, <2>1, CallHasPage DEF CountsSuffice
  <2>3. page' = [page EXCEPT ![th[t].page].count = n]
    BY <1>11 DEF Forsake, Mine
  <2> QED
    BY <1>0, <2>2, <2>3, HeaderShapes
<1>12. CASE Emptied(t)
  BY <1>0, <1>12 DEF Emptied, Headers
<1>13. CASE Rebuild(t)
  <2>1. th[t].pc = "rebuild"
    BY <1>13 DEF Rebuild, Move
  <2> DEFINE w == page[th[t].page].summary \cup ({Lowest(WordsOf(th[t].left))} \cap WordsOf(page[th[t].page].mask))
  <2>2. th[t].page \in Pages /\ w \in SUBSET Nat
    BY <1>a, <2>1, CallHasPage, WordsAreNats
  <2>3. page' = [page EXCEPT ![th[t].page].summary = w]
    BY <1>13 DEF Rebuild, Mine
  <2> QED
    BY <1>0, <2>2, <2>3, HeaderShapes
<1>14. CASE Park(t)
  BY <1>0, <1>14 DEF Park, Headers
<1>15. CASE Unpark(t)
  BY <1>0, <1>15 DEF Unpark, Headers
<1>16. CASE Unlock(t)
  BY <1>0, <1>16 DEF Unlock, Headers
<1>17. CASE StartThrows(t)
  BY <1>0, <1>17 DEF StartThrows, CountsSuffice, Move, Goto, Headers
<1>18. CASE Started(t)
  BY <1>0, <1>18 DEF Started, Headers
<1>19. CASE Unstart(t)
  BY <1>0, <1>19 DEF Unstart, Headers
<1>20. CASE Restart(t)
  BY <1>0, <1>20 DEF Restart, Headers
<1>21. CASE Again(t) \/ HeldHas(t) \/ Change(t) \/ RunHooks(t) \/ Occupied(t) \/ Construct(t) \/ ConstructThrows(t) \/ LookWord(t) \/ Destroy(t) \/ Recount(t)
  BY <1>0, <1>21 DEF Again, HeldHas, Change, RunHooks, Occupied, Construct, ConstructThrows, LookWord, Destroy,
     Recount
<1>22. CASE ChoosePlace(t) \/ Swap(t) \/ Trim(t) \/ Notify(t) \/ AlreadyStarted(t) \/ StartPage(t) \/ FirstAccess(t) \/ LookCount(t) \/ anyHeld(t) \/ Decommit(t)
  BY <1>0, <1>22 DEF ChoosePlace, Swap, Trim, Notify, AlreadyStarted, StartPage, FirstAccess, LookCount, anyHeld,
     Decommit
<1>23. CASE \E at \in {"start", "vacate"} : Lock(t, at) \/ Sleep(t, at)
  BY <1>0, <1>23 DEF Lock, Sleep, Headers
<1> QED
  BY <1>1, <1>2, <1>3, <1>4, <1>5, <1>6, <1>7, <1>8, <1>9, <1>10, <1>11, <1>12, <1>13, <1>14, <1>15, <1>16, <1>17,
     <1>18, <1>19, <1>20, <1>21, <1>22, <1>23 DEF Step

\* A step keeps all types, if no count goes below zero.
LEMMA StepTyped ==
  ASSUME Typed, PlacesAreRight, NEW t \in Threads, Step(t), CountsSuffice(t)
  PROVE  Typed'
<1> USE DEF Move, Goto, memoryVars, spareVars
<1>0. /\ th[t] \in Locals /\ Place(th[t]) /\ kind' = kind /\ calls' = calls
      /\ th[t].slots \in SUBSET Slots /\ th[t].page \in Pages \cup {None} /\ th[t].victim \in Pages \cup {None}
      /\ th[t].place \in Places
  BY Fields, StepShares DEF Typed, PlacesAreRight, Shares, RestStays
<1>1. th' \in [Threads -> Locals] /\ page' \in [Pages -> Headers]
  BY StepLocals, StepHeaders DEF LocalsTyped, HeadersTyped
<1>2. spares' \in [Places -> Pages \cup {None}]
  <2>1. CASE th[t].pc \notin {"swap", "trim"}
    BY <2>1, StepShares DEF Shares, RestStays, Typed
  <2>2. CASE Swap(t) \/ Trim(t)
    BY <1>0, <2>2 DEF Swap, Trim, Typed
  <2> QED
    BY <2>1, <2>2, StepByPlace
<1>3. nextSpare' \in Places
  <2>1. CASE th[t].pc # "choose"
    BY <2>1, StepShares DEF Shares, RestStays, Typed
  <2>2. CASE ChoosePlace(t)
    BY <2>2, ColumnAssumption DEF ChoosePlace, Typed, Places
  <2> QED
    BY <2>1, <2>2, StepByPlace
<1>4. alive' \subseteq Indices
  <2>1. CASE th[t].pc \notin {"construct", "unmask", "destroy", "wipe"}
    BY <2>1, StepShares DEF Shares, RestStays, Typed
  <2>2. CASE Unmask(t) \/ Destroy(t) \/ WipePage(t) \/ WipeIndex(t)
    BY <2>2 DEF Unmask, Destroy, WipePage, WipeIndex, Typed
  <2>3. CASE th[t].pc = "construct"
    <3>1. th[t].op # "trim" /\ th[t].pc \notin {"idle", "trim"}
      BY <1>0, <2>3 DEF Place, MakingPcs, Adders
    <3>2. th[t].slots \subseteq SlotsOf(th[t].page)
      BY <1>0, <3>1, CallHasPage DEF Place
    <3>3. {th[t].page} \X th[t].slots \subseteq Indices
      BY <3>2, ColumnAssumption DEF SlotsOf
    <3>4. ASSUME NEW made \in SUBSET Slots, EmplaceCounted(t, made)
          PROVE  alive' \subseteq Indices
      <4>1. \A s \in made : s \in th[t].slots
        BY <3>4 DEF EmplaceCounted
      <4> QED
        BY <3>3, <3>4, <4>1 DEF EmplaceCounted, Typed
    <3>5. CASE Construct(t) \/ ConstructThrows(t)
      BY <3>3, <3>5 DEF Construct, ConstructThrows, At, Typed
    <3> QED
      BY <2>3, <3>4, <3>5, StepByPlace
  <2> QED
    BY <2>1, <2>2, <2>3, StepByPlace
<1>5. pages' \in Nat
  <2>1. CASE th[t].pc \notin {"count", "decommit"}
    BY <2>1, StepShares DEF Shares, RestStays, Typed
  <2>2. CASE Started(t) \/ Decommit(t)
    BY <2>2 DEF Started, Decommit, CountsSuffice, Typed
  <2> QED
    BY <2>1, <2>2, StepByPlace
<1>6. backed' \subseteq Pages
  <2>1. CASE th[t].pc \notin {"starting", "decommit"}
    BY <2>1, StepShares DEF Shares, RestStays, Typed
  <2>2. CASE th[t].pc \in {"starting", "decommit"}
    <3>1. th[t].victim \in Pages
      BY <1>0, <2>2, CallHasPage DEF Place, MakingPcs, SparePcs, VacatePcs, Adders
    <3> QED
      BY <2>2, <3>1, StepByPlace DEF AlreadyStarted, StartPage, StartThrows, Decommit, Typed
  <2> QED
    BY <2>1, <2>2
<1> QED
  BY <1>0, <1>1, <1>2, <1>3, <1>4, <1>5, <1>6 DEF Typed

-----------------------------------------------------------------------------
(* Who has what for himself. *)

\* A thread that is woken has what it had.
LEMMA AlikeHolds ==
  ASSUME NEW l, NEW m, Alike(l, m)
  PROVE  /\ m.op = l.op /\ m.page = l.page /\ m.slots = l.slots /\ m.left = l.left /\ m.ret = l.ret
         /\ m.victim = l.victim
         /\ (Holding(m) <=> Holding(l))
         /\ (m.pc = "idle" <=> l.pc = "idle")
BY DEF Alike, On, Went, Holding

\* Only claim, take and release change who has a making bit.
LEMMA FlowHolds ==
  ASSUME NEW l \in Locals, NEW m, Place(l), Flow(l, m), l.pc \notin {"claim", "take", "release"}
  PROVE  Holding(m) <=> Holding(l)
<1> USE DEF Idle, Flow, On, Went, Holding, Place, Finished
<1>1. CASE ~Bitten(l.op)
  <2>1. ~Bitten("none")
    BY DEF Bitten
  <2> QED
    BY <1>1, <2>1, FlowBecomes
<1>2. CASE Bitten(l.op) /\ l.op = "erase"
  BY <1>2 DEF BitFlow, AddFlow, RemoveFlow, SpareFlow, MemoryFlow, Locals, Pcs, MakingPcs, MaskPcs, EmptyPcs,
     SparePcs,
     VacatePcs, EndPcs, BitPcs, Adders, Erasers, Bitten
<1>3. CASE Bitten(l.op) /\ l.op # "erase"
  <2>1. m.pc \notin {"idle", "claim", "take"}
    BY <1>3 DEF BitFlow, AddFlow, RemoveFlow, SpareFlow, MemoryFlow, Locals, Pcs, MakingPcs, MaskPcs, EmptyPcs,
       SparePcs,
       VacatePcs, EndPcs, BitPcs, Adders, Erasers, Bitten
  <2> QED
    BY <1>3, <2>1, FlowBecomes
<1> QED
  BY <1>1, <1>2, <1>3

\* Who has a bit is said by its locals, and by the kind that stays.
LEMMA HoldsPrime ==
  ASSUME kind' = kind, NEW t
  PROVE  Holding(th[t])' <=> Holding(th'[t])
BY DEF Holding, Bitten

BitsTell == MakingTells /\ BitsAreOwn

\* The bits stay told where nobody takes or releases one.
LEMMA BitsStay ==
  ASSUME BitsTell, kind' = kind,
         \A p \in Pages : page'[p].making = page[p].making,
         \A u \in Threads : /\ Holding(th'[u]) <=> Holding(th[u])
                            /\ Holding(th[u]) => th'[u].page = th[u].page /\ th'[u].slots = th[u].slots
  PROVE  BitsTell'
<1>1. \A u \in Threads : Holding(th[u])' <=> Holding(th'[u])
  BY HoldsPrime
<1>2. MakingTells'
  BY <1>1 DEF BitsTell, MakingTells
<1>3. BitsAreOwn'
  BY <1>1 DEF BitsTell, BitsAreOwn, Meet
<1> QED
  BY <1>2, <1>3 DEF BitsTell

\* A bit that nobody had is the one of the thread that takes it.
LEMMA BitTaken ==
  ASSUME BitsTell, kind' = kind, Typed, NEW t \in Threads, th[t].page \in Pages,
         th[t].slots \cap page[th[t].page].making = {},
         page' = [page EXCEPT ![th[t].page].making = @ \cup th[t].slots],
         Holding(th'[t]), ~Holding(th[t]), th'[t].page = th[t].page, th'[t].slots = th[t].slots,
         \A u \in Threads : u # t => th'[u] = th[u]
  PROVE  BitsTell'
<1>1. \A u \in Threads : Holding(th[u])' <=> Holding(th'[u])
  BY HoldsPrime
<1>2. /\ page'[th[t].page].making = page[th[t].page].making \cup th[t].slots
      /\ \A p \in Pages : p # th[t].page => page'[p].making = page[p].making
  BY DEF Typed, Headers
<1>3. MakingTells'
  <2> SUFFICES ASSUME NEW p \in Pages, NEW s \in Slots
               PROVE  s \in page'[p].making
                        <=> \E u \in Threads : Holding(th'[u]) /\ th'[u].page = p /\ s \in th'[u].slots
    BY <1>1 DEF MakingTells
  <2>1. s \in page[p].making <=> \E u \in Threads : Holding(th[u]) /\ th[u].page = p /\ s \in th[u].slots
    BY DEF BitsTell, MakingTells
  <2>2. CASE p = th[t].page /\ s \in th[t].slots
    BY <1>2, <2>2
  <2>3. CASE ~(p = th[t].page /\ s \in th[t].slots)
    <3>1. s \in page'[p].making <=> s \in page[p].making
      BY <1>2, <2>3
    <3> QED
      BY <2>1, <2>3, <3>1
  <2> QED
    BY <2>2, <2>3
<1>4. ASSUME NEW u \in Threads, u # t, Holding(th[u])
      PROVE  ~Meet(th[t], th[u]) /\ ~Meet(th[u], th[t])
  <2>1. \A s \in th[u].slots : s \in Slots
    BY Fields DEF Typed
  <2>2. th[u].page = th[t].page => \A s \in th[u].slots : s \in page[th[t].page].making
    BY <1>4, <2>1 DEF BitsTell, MakingTells
  <2> QED
    BY <2>2 DEF Meet
<1>5. BitsAreOwn'
  BY <1>1, <1>4 DEF BitsTell, BitsAreOwn, Meet
<1> QED
  BY <1>3, <1>5 DEF BitsTell

\* A bit that is given back is nobody's.
LEMMA BitReleased ==
  ASSUME BitsTell, kind' = kind, Typed, NEW t \in Threads, th[t].page \in Pages,
         page' = [page EXCEPT ![th[t].page].making = @ \ th[t].slots],
         Holding(th[t]), ~Holding(th'[t]),
         \A u \in Threads : u # t => th'[u] = th[u]
  PROVE  BitsTell'
<1>1. \A u \in Threads : Holding(th[u])' <=> Holding(th'[u])
  BY HoldsPrime
<1>2. /\ page'[th[t].page].making = page[th[t].page].making \ th[t].slots
      /\ \A p \in Pages : p # th[t].page => page'[p].making = page[p].making
  BY DEF Typed, Headers
<1>3. MakingTells'
  <2> SUFFICES ASSUME NEW p \in Pages, NEW s \in Slots
               PROVE  s \in page'[p].making
                        <=> \E u \in Threads : Holding(th'[u]) /\ th'[u].page = p /\ s \in th'[u].slots
    BY <1>1 DEF MakingTells
  <2>1. s \in page[p].making <=> \E u \in Threads : Holding(th[u]) /\ th[u].page = p /\ s \in th[u].slots
    BY DEF BitsTell, MakingTells
  <2>2. CASE p = th[t].page /\ s \in th[t].slots
    <3>1. ASSUME NEW u \in Threads, Holding(th'[u]), th'[u].page = p, s \in th'[u].slots
          PROVE  FALSE
      <4>1. u # t /\ th'[u] = th[u]
        BY <3>1
      <4> QED
        BY <2>2, <3>1, <4>1 DEF BitsTell, BitsAreOwn, Meet
    <3> QED
      BY <1>2, <2>2, <3>1
  <2>3. CASE ~(p = th[t].page /\ s \in th[t].slots)
    <3>1. s \in page'[p].making <=> s \in page[p].making
      BY <1>2, <2>3
    <3> QED
      BY <2>1, <2>3, <3>1
  <2> QED
    BY <2>2, <2>3
<1>5. BitsAreOwn'
  BY <1>1 DEF BitsTell, BitsAreOwn, Meet
<1> QED
  BY <1>3, <1>5 DEF BitsTell

\* The index of a call for one.
LEMMA SlotIsIt ==
  ASSUME NEW t, NEW s, th[t].slots = {s}
  PROVE  Slot(t) = s
BY DEF Slot

\* tryEmplace and the others that take the bit have it alone, until they release it.
LEMMA StepBits ==
  ASSUME Typed, PlacesAreRight, BitsTell, NEW t \in Threads, Step(t)
  PROVE  BitsTell'
<1>0. /\ th \in [Threads -> Locals] /\ th[t] \in Locals /\ Place(th[t])
      /\ kind' = kind /\ HeadersStay(t) /\ Goes(t)
  BY StepShares, StepGoes DEF Typed, PlacesAreRight, Shares, RestStays
<1>1. CASE th[t].pc \notin {"claim", "take", "release"}
  <2>1. ASSUME NEW u \in Threads
        PROVE  /\ Holding(th'[u]) <=> Holding(th[u])
               /\ Holding(th[u]) => th'[u].page = th[u].page /\ th'[u].slots = th[u].slots
    <3>1. CASE u # t
      BY <1>0, <3>1, AlikeHolds DEF Goes
    <3>2. CASE u = t
      <4>1. Holding(th'[t]) <=> Holding(th[t])
        BY <1>0, <1>1, FlowHolds DEF Goes
      <4>2. Holding(th'[t]) => th'[t] # Idle
        BY DEF Holding, Idle
      <4> QED
        BY <1>0, <3>2, <4>1, <4>2, FlowBecomes DEF Goes
    <3> QED
      BY <3>1, <3>2
  <2> QED
    BY <1>0, <1>1, <2>1, BitsStay DEF HeadersStay
<1>2. CASE Claim(t)
  <2>1. th[t].pc = "claim" /\ th[t].op = "tryEmplace" /\ ~Holding(th[t])
    BY <1>0, <1>2 DEF Claim, Goto, Move, Place, Holding
  <2>2. th[t].page \in Pages
    BY <2>1, CallHasPage
  <2>3. PICK s \in Slots : th[t].slots = {s}
    BY <1>0, <2>1 DEF Place, Bitten
  <2>4. Slot(t) = s
    BY <2>3, SlotIsIt
  <2>5. CASE s \in page[th[t].page].making
    <3>1. th'[t] = Idle /\ \A u \in Threads : u # t => th'[u] = th[u]
      BY <1>0, <1>2, <2>4, <2>5, GotoFacts DEF Claim, Mine, On, Went
    <3>2. ~Holding(th'[t])
      BY <3>1 DEF Holding, Idle
    <3>3. \A p \in Pages : page'[p].making = page[p].making
      BY <1>2, <2>2, <2>3, <2>5 DEF Claim, Typed, Headers
    <3> QED
      BY <1>0, <2>1, <3>1, <3>2, <3>3, BitsStay
  <2>6. CASE s \notin page[th[t].page].making
    <3>1. On(th[t], th'[t], "again") /\ \A u \in Threads : u # t => th'[u] = th[u]
      BY <1>0, <1>2, <2>4, <2>6, GotoFacts DEF Claim, Mine
    <3>2. Holding(th'[t]) /\ th'[t].page = th[t].page /\ th'[t].slots = th[t].slots
      BY <2>1, <3>1 DEF Holding, Bitten, On, Went
    <3>3. page' = [page EXCEPT ![th[t].page].making = @ \cup th[t].slots]
      BY <1>2 DEF Claim
    <3> QED
      BY <1>0, <2>1, <2>2, <2>3, <2>6, <3>1, <3>2, <3>3, BitTaken
  <2> QED
    BY <2>5, <2>6
<1>3. CASE Take(t)
  <2>1. th[t].pc = "take" /\ Bitten(th[t].op) /\ ~Holding(th[t])
    BY <1>0, <1>3 DEF Take, Goto, Move, Place, Holding
  <2>2. th[t].page \in Pages
    BY <2>1, CallHasPage DEF Bitten
  <2>3. PICK s \in Slots : th[t].slots = {s}
    BY <1>0, <2>1 DEF Place
  <2>4. Slot(t) = s
    BY <2>3, SlotIsIt
  <2>5. On(th[t], th'[t], IF th[t].op = "erase" THEN "unmask" ELSE "held") /\ \A u \in Threads : u # t => th'[u] = th[u]
    BY <1>0, <1>3, GotoFacts DEF Take
  <2>6. Holding(th'[t]) /\ th'[t].page = th[t].page /\ th'[t].slots = th[t].slots
    BY <2>1, <2>5 DEF Holding, On, Went
  <2>7. page' = [page EXCEPT ![th[t].page].making = @ \cup th[t].slots]
    BY <1>3 DEF Take
  <2>8. s \notin page[th[t].page].making
    BY <1>3, <2>4 DEF Take, Mine
  <2> QED
    BY <1>0, <2>1, <2>2, <2>3, <2>5, <2>6, <2>7, <2>8, BitTaken
<1>4. CASE Release(t)
  <2>1. th[t].pc = "release" /\ Bitten(th[t].op) /\ Holding(th[t]) /\ (\A u \in Threads : u # t => th'[u] = th[u])
    BY <1>0, <1>4 DEF Release, Move, Place, Holding
  <2>2. th[t].page \in Pages
    BY <2>1, CallHasPage DEF Bitten
  <2>3. ~Holding(th'[t])
    BY <1>0, <2>1 DEF Goes, Flow, BitFlow, Went, Holding, Idle
  <2>4. page' = [page EXCEPT ![th[t].page].making = @ \ th[t].slots]
    BY <1>4 DEF Release
  <2> QED
    BY <1>0, <2>1, <2>2, <2>3, <2>4, BitReleased
<1> QED
  BY <1>1, <1>2, <1>3, <1>4, StepByPlace

\* Only calls of a page, or of the whole column, are kept apart by what started
\* them, and those end with what they were.
LEMMA StepApart ==
  ASSUME Typed, CallsAreApart, NEW t \in Threads, Goes(t)
  PROVE  CallsAreApart'
<1>1. ASSUME NEW u \in Threads, th'[u].pc # "idle"
      PROVE  th[u].pc # "idle" /\ th'[u].op = th[u].op /\ th'[u].page = th[u].page /\ th'[u].slots = th[u].slots
  <2>1. CASE u # t
    BY <1>1, <2>1, AlikeHolds DEF Goes
  <2>2. CASE u = t
    BY <1>1, <2>2, FlowBecomes DEF Goes, Flow, Typed, Idle
  <2> QED
    BY <2>1, <2>2
<1> QED
  BY <1>1 DEF CallsAreApart, Apart

\* Two threads that have their indices to themselves have different ones.
LEMMA OwnersApart ==
  ASSUME BitsAreOwn, CallsAreApart, NEW t \in Threads, NEW u \in Threads, t # u,
         th[t].pc # "idle", th[u].pc # "idle", Owns(th[t]), Owns(th[u])
  PROVE  ~Meet(th[t], th[u])
<1>1. Apart(th[t], th[u]) /\ Apart(th[u], th[t])
  BY DEF CallsAreApart
<1>2. CASE Holding(th[t]) /\ Holding(th[u])
  BY <1>2 DEF BitsAreOwn
<1>3. CASE ~(Holding(th[t]) /\ Holding(th[u]))
  BY <1>1, <1>3 DEF Owns, Apart, Meet
<1> QED
  BY <1>2, <1>3

-----------------------------------------------------------------------------
(* Components and the mask. *)

\* What a thread has yet to show or has to keep is of its own indices.
LEMMA LeftAreSlots ==
  ASSUME NEW l \in Locals, Place(l)
  PROVE  /\ Missing(l) \subseteq Slots /\ Later(l) \subseteq l.left
         /\ Missing(l) \subseteq l.slots /\ (Missing(l) # {} => Owns(l) /\ l.pc # "idle")
         /\ Added(l) \subseteq l.slots /\ (Added(l) # {} => Owns(l) /\ l.pc # "idle")
<1> USE DEF Place, Locals, Later
<1>1. l.pc \in MaskPcs \cup MakingPcs /\ l.op # "apply" => Owns(l)
  BY DEF Owns, Holding, MaskPcs, MakingPcs, Adders, Bitten
<1>2. Fresh(l) => Owns(l) /\ l.pc # "idle"
  BY <1>1 DEF Fresh, Owns, Holding, MakingPcs, EndPcs, Adders, Bitten
<1>3. Coming(l) \subseteq l.left /\ (Coming(l) # {} => l.pc \in MaskPcs)
  BY DEF Coming, MaskPcs
<1>4. l.pc \in {"hooks", "destroy"} => Owns(l)
  BY DEF Owns, Holding, Adders, Erasers, Bitten
<1>5. Going(l) \subseteq l.left /\ (Going(l) # {} => l.pc \in {"hooks", "destroy"} /\ l.left = l.slots)
  BY DEF Going
<1>6. Missing(l) \subseteq l.slots /\ (Missing(l) # {} => Owns(l) /\ l.pc # "idle")
  BY <1>1, <1>2, <1>3, <1>4, <1>5 DEF Missing, MaskPcs, Adders
<1>7. l.pc = "change" => Owns(l)
  BY DEF Owns, Holding, Bitten
<1>8. Added(l) \subseteq l.slots /\ (Added(l) # {} => Owns(l) /\ l.pc # "idle")
  BY <1>1, <1>4, <1>7 DEF Added, MaskPcs, Adders
<1> QED
  BY <1>6, <1>8

\* A thread that is woken, and one without a call, show nothing new.
LEMMA AlikeShows ==
  ASSUME NEW l, NEW m, Alike(l, m)
  PROVE  /\ Missing(m) = Missing(l) /\ Coming(m) = Coming(l) /\ Going(m) = Going(l) /\ Added(m) = Added(l)
         /\ l.pc \notin {"sleepStart", "sleepVacate"} => m = l
BY DEF Alike, On, Went, Missing, Fresh, Coming, Going, Added, Later, MakingPcs, EndPcs, MaskPcs

LEMMA IdleShows ==
  /\ Missing(Idle) = {} /\ Coming(Idle) = {} /\ Going(Idle) = {} /\ Added(Idle) = {}
BY DEF Idle, Missing, Fresh, Coming, Going, Added, MakingPcs, EndPcs, MaskPcs

\* What a thread has yet to make or to show is less after a step, but for those
\* that look at the mask.
LEMMA FlowMissing ==
  ASSUME NEW l \in Locals, NEW m, Place(l), Flow(l, m), l.pc \notin {"again", "held", "unmask"}
  PROVE  Missing(m) \subseteq Missing(l)
<1> USE IdleShows DEF Flow, On, Went, Missing, Fresh, Coming, Going, Finished, Later, MakingPcs, EndPcs
<1>1. CASE l.pc \in BitPcs \cup {"hooks"}
  BY <1>1 DEF BitFlow, BitPcs, Erasers, Place
<1>2. CASE l.pc \in MakingPcs
  BY <1>2 DEF AddFlow, MemoryFlow
<1>3. CASE l.pc \in MaskPcs
  BY <1>3 DEF AddFlow, MaskPcs, Place, Adders, Erasers
<1>4. CASE l.pc \in {"destroy", "wipe"} \cup EmptyPcs
  BY <1>4 DEF RemoveFlow, EmptyPcs, Place
<1>5. CASE l.pc \in SparePcs \cup {"trim"}
  BY <1>5 DEF SpareFlow, MemoryFlow, SparePcs, Place
<1>6. CASE l.pc \in VacatePcs \cup EndPcs
  <2>1. m = Idle \/ m.pc \in VacatePcs \cup EndPcs \cup {"release", "construct", "trim", "sleepVacate"}
    BY <1>6 DEF MemoryFlow, VacatePcs, Place, Locals
  <2>2. m = Idle \/ (m.op = l.op /\ m.slots = l.slots)
    BY FlowBecomes
  <2>3. Fresh(m) => Fresh(l)
    BY <1>6, <2>1, <2>2 DEF MemoryFlow, VacatePcs, Place, Idle
  <2> QED
    BY <2>1, <2>2, <2>3 DEF VacatePcs, Idle
<1> QED
  BY <1>1, <1>2, <1>3, <1>4, <1>5, <1>6 DEF Locals, Pcs

\* What is on its way into the mask or out of it changes in few places.
LEMMA FlowComing ==
  ASSUME NEW l \in Locals, NEW m, Place(l), Flow(l, m), l.pc \notin {"construct", "setMask", "unmask", "destroy"}
  PROVE  Coming(m) = Coming(l) /\ Going(m) = Going(l)
<1> USE IdleShows DEF Flow, On, Went, Coming, Going, Finished, Later, MakingPcs, EndPcs
<1>1. CASE l.pc \in BitPcs \cup {"hooks"}
  BY <1>1 DEF BitFlow, BitPcs, Erasers, Place
<1>2. CASE l.pc \in MakingPcs
  BY <1>2 DEF AddFlow, MemoryFlow, Place, Adders
<1>3. CASE l.pc \in MaskPcs
  BY <1>3 DEF AddFlow, MaskPcs, Place, Adders, Erasers
<1>4. CASE l.pc \in {"wipe"} \cup EmptyPcs
  BY <1>4 DEF RemoveFlow, EmptyPcs, Place
<1>5. CASE l.pc \in SparePcs \cup {"trim"}
  <2>1. m = Idle \/ m.pc \in SparePcs \cup {"release", "trim", "vacating"}
    BY <1>5 DEF SpareFlow, MemoryFlow, SparePcs, Place
  <2> QED
    BY <1>5, <2>1 DEF SparePcs, Idle
<1>6. CASE l.pc \in VacatePcs \cup EndPcs
  <2>1. m = Idle \/ m.pc \in VacatePcs \cup EndPcs \cup {"release", "construct", "trim", "sleepVacate"}
    BY <1>6 DEF MemoryFlow, VacatePcs, Place, Locals
  <2> QED
    BY <1>6, <2>1 DEF VacatePcs, Idle
<1> QED
  BY <1>1, <1>2, <1>3, <1>4, <1>5, <1>6 DEF Locals, Pcs

\* What a thread counts on to stay in the mask grows in few places.
LEMMA FlowAdded ==
  ASSUME NEW l \in Locals, NEW m, Place(l), Flow(l, m), l.pc \notin {"held", "setMask"}
  PROVE  Added(m) \subseteq Added(l)
<1> USE IdleShows DEF Flow, On, Went, Coming, Added, Finished, Later, MakingPcs, EndPcs, MaskPcs
<1>1. CASE l.pc \in BitPcs \cup {"hooks"}
  BY <1>1 DEF BitFlow, BitPcs, Erasers, Place
<1>2. CASE l.pc \in MakingPcs
  BY <1>2 DEF AddFlow, MemoryFlow, Place, Adders
<1>3. CASE l.pc \in MaskPcs
  BY <1>3 DEF AddFlow, Place, Adders, Erasers
<1>4. CASE l.pc \in {"wipe", "unmask", "destroy"} \cup EmptyPcs
  BY <1>4 DEF RemoveFlow, EmptyPcs, Place
<1>5. CASE l.pc \in SparePcs \cup {"trim"}
  <2>1. m = Idle \/ m.pc \in SparePcs \cup {"release", "trim", "vacating"}
    BY <1>5 DEF SpareFlow, MemoryFlow, SparePcs, Place
  <2> QED
    BY <1>5, <2>1 DEF SparePcs, Idle
<1>6. CASE l.pc \in VacatePcs \cup EndPcs
  <2>1. m = Idle \/ m.pc \in VacatePcs \cup EndPcs \cup {"release", "construct", "trim", "sleepVacate"}
    BY <1>6 DEF MemoryFlow, VacatePcs, Place, Locals
  <2> QED
    BY <1>6, <2>1 DEF VacatePcs, Idle
<1> QED
  BY <1>1, <1>2, <1>3, <1>4, <1>5, <1>6 DEF Locals, Pcs

\* What a step may put into the mask of its page, and take out.
Gain(l) ==
  IF l.pc = "setMask" THEN l.left \ Later(l)
  ELSE IF l.pc = "construct" /\ l.op = "apply" THEN l.slots ELSE {}

Loss(l) == IF l.pc \in {"unmask", "wipe"} THEN l.slots ELSE {}

\* A step changes the mask of its page only, by what it gains and loses.
LEMMA MaskFacts ==
  ASSUME Typed, PlacesAreRight, NEW t \in Threads, Step(t)
  PROVE
    LET l == th[t] IN
    /\ \A p \in Pages : p # l.page => page'[p].mask = page[p].mask
    /\ l.page \in Pages =>
         /\ page'[l.page].mask \subseteq page[l.page].mask \cup Gain(l)
         /\ page[l.page].mask \ Loss(l) \subseteq page'[l.page].mask
         /\ l.pc = "setMask" => Gain(l) \subseteq page'[l.page].mask
         /\ l.pc = "unmask" => l.slots \cap page'[l.page].mask = {}
<1> DEFINE l == th[t]
<1>0. page \in [Pages -> Headers] /\ HeadersStay(t) /\ Place(l) /\ l.pc # "idle"
  BY StepShares, StepGoes DEF Typed, PlacesAreRight, Shares, Goes, Flow
<1>1. \A p \in Pages : p # l.page => page'[p].mask = page[p].mask
  BY <1>0 DEF HeadersStay
<1>2. CASE l.pc \notin {"construct", "setMask", "unmask", "wipe"}
  BY <1>0, <1>1, <1>2 DEF HeadersStay
<1>3. CASE SetMask(t)
  BY <1>0, <1>1, <1>3 DEF SetMask, Gain, Loss, Headers, Goto, Move, Later
<1>4. CASE Unmask(t)
  BY <1>0, <1>1, <1>4 DEF Unmask, Gain, Loss, Headers, Move
<1>5. CASE WipePage(t)
  BY <1>0, <1>1, <1>5 DEF WipePage, Gain, Loss, Headers, Move, Mine
<1>6. CASE WipeIndex(t)
  BY <1>0, <1>1, <1>6 DEF WipeIndex, Gain, Loss, Headers, Move
<1>7. CASE Construct(t) \/ ConstructThrows(t)
  BY <1>0, <1>1, <1>7 DEF Construct, ConstructThrows, Gain, Loss, Move
<1>8. ASSUME NEW made \in SUBSET Slots, EmplaceCounted(t, made), l.page \in Pages
      PROVE  /\ page'[l.page].mask \subseteq page[l.page].mask \cup Gain(l)
             /\ page[l.page].mask \subseteq page'[l.page].mask
             /\ l.pc = "construct"
  <2>1. made \subseteq l.slots /\ l.pc = "construct" /\ l.op = "apply"
    BY <1>8 DEF EmplaceCounted, Move
  <2>2. page'[l.page].mask = page[l.page].mask \cup made
    BY <1>0, <1>8 DEF EmplaceCounted, Headers
  <2> QED
    BY <2>1, <2>2 DEF Gain
<1> QED
  BY <1>1, <1>2, <1>3, <1>4, <1>5, <1>6, <1>7, <1>8, StepByPlace

\* Nobody else is at the page a thread was given, or in a column it has to itself.
LEMMA AloneThere ==
  ASSUME CallsAreApart, NEW t \in Threads, NEW u \in Threads, t # u, th[t].pc # "idle", th[u].pc # "idle"
  PROVE  /\ th[t].op \in {"apply", "kill"} => th[u].page # th[t].page
         /\ th[t].op # "eraseAlone"
BY DEF CallsAreApart, Apart

\* A step keeps out of the mask what is not made yet.
LEMMA StepMissing ==
  ASSUME Typed, PlacesAreRight, BitsAreOwn, CallsAreApart, FreshIsMissing, NEW t \in Threads, Step(t)
  PROVE  FreshIsMissing'
<1> SUFFICES ASSUME NEW u \in Threads, th'[u].page # None, NEW s \in Missing(th'[u])
             PROVE  s \notin page'[th'[u].page].mask
  BY DEF FreshIsMissing
<1> DEFINE l == th[t]
<1>0. /\ l \in Locals /\ Place(l) /\ th[u] \in Locals /\ Place(th[u]) /\ Goes(t) /\ l.pc # "idle"
      /\ HeadersStay(t)
  BY StepShares, StepGoes DEF Typed, PlacesAreRight, Shares, Goes, Flow
<1>1. th'[u].page = th[u].page /\ th[u].page \in Pages
  <2>1. CASE u # t
    BY <1>0, <2>1, AlikeHolds DEF Goes, Locals
  <2>2. CASE u = t
    BY <1>0, <2>2, FlowBecomes, IdleShows DEF Goes, Locals, Idle
  <2> QED
    BY <2>1, <2>2
<1>2. CASE u # t
  <2>1. s \in Missing(th[u]) /\ s \notin page[th[u].page].mask
    BY <1>0, <1>1, <1>2, AlikeShows DEF Goes, FreshIsMissing
  <2>2. th[u].page = l.page => s \notin Gain(l)
    <3>1. Owns(th[u]) /\ th[u].pc # "idle" /\ s \in th[u].slots
      BY <1>0, <2>1, LeftAreSlots
    <3>2. CASE l.pc = "setMask"
      <4>1. Gain(l) \subseteq l.slots /\ Owns(l)
        BY <1>0, <3>2 DEF Gain, Place, MaskPcs, Owns, Holding, Adders, Bitten
      <4> QED
        BY <1>0, <1>2, <3>1, <4>1, OwnersApart DEF Meet
    <3>3. CASE l.pc = "construct" /\ l.op = "apply"
      BY <1>0, <1>2, <3>1, <3>3, AloneThere
    <3> QED
      BY <3>2, <3>3 DEF Gain
  <2> QED
    BY <1>1, <2>1, <2>2, MaskFacts
<1>3. CASE u = t /\ l.pc \notin {"again", "held", "unmask", "setMask"}
  <2>1. s \in Missing(l) /\ s \notin page[l.page].mask
    BY <1>0, <1>1, <1>3, FlowMissing DEF Goes, FreshIsMissing
  <2>2. CASE l.pc = "construct" /\ l.op = "apply"
    BY <1>0, <1>3, <2>2, IdleShows DEF Goes, Flow, AddFlow, Went, Missing, Fresh, Coming, Going, MakingPcs, EndPcs
  <2>3. CASE ~(l.pc = "construct" /\ l.op = "apply")
    <3>1. Gain(l) = {}
      BY <1>3, <2>3 DEF Gain
    <3> QED
      BY <1>1, <1>3, <2>1, <3>1, MaskFacts
  <2> QED
    BY <2>2, <2>3
<1>4. CASE u = t /\ l.pc = "setMask"
  <2>1. On(l, th'[t], "lookWord")
    BY <1>0, <1>4 DEF Goes, Flow, AddFlow
  <2>2. s \in Later(l) /\ s \in Missing(l)
    BY <1>4, <2>1 DEF On, Went, Missing, Fresh, Coming, Going, Later, MakingPcs, EndPcs
  <2>3. s \notin page[l.page].mask /\ s \notin Gain(l)
    BY <1>1, <1>4, <2>2 DEF FreshIsMissing, Gain
  <2> QED
    BY <1>1, <1>4, <2>3, MaskFacts
<1>5. CASE u = t /\ l.pc = "unmask"
  <2>1. s \in l.slots
    BY <1>0, <1>5, IdleShows DEF Goes, Flow, RemoveFlow, Went, Missing, Fresh, Coming, Going, MakingPcs, EndPcs,
       Finished
  <2> QED
    BY <1>1, <1>5, <2>1, MaskFacts
<1>6. CASE u = t /\ l.pc \in {"again", "held"}
  <2>1. PICK one \in Slots : l.slots = {one}
    BY <1>0, <1>6 DEF Place, Bitten
  <2>2. Slot(t) = one
    BY <2>1, SlotIsIt
  <2>3. CASE one \in page[l.page].mask
    <3>1. Has(t)
      BY <2>2, <2>3 DEF Has, Mine
    <3>2. \E a \in {"release", "hooks", "change"} : On(l, th'[t], a)
      BY <1>0, <1>6, <3>1, StepByPlace, GotoFacts DEF Again, HeldHas
    <3> QED
      BY <1>0, <1>6, <3>2 DEF On, Went, Missing, Fresh, Coming, Going, MakingPcs, EndPcs, Place, Erasers
  <2>4. CASE one \notin page[l.page].mask
    <3>1. On(l, th'[t], "release") \/ On(l, th'[t], "occupy") \/ On(l, th'[t], "hooks") \/ On(l, th'[t], "change")
      BY <1>0, <1>6 DEF Goes, Flow, BitFlow
    <3>2. s \in l.slots
      BY <1>0, <1>6, <3>1 DEF On, Went, Missing, Fresh, Coming, Going, MakingPcs, EndPcs, Place, Erasers
    <3> QED
      BY <1>0, <1>1, <1>6, <2>1, <2>4, <3>2 DEF HeadersStay
  <2> QED
    BY <2>3, <2>4
<1> QED
  BY <1>2, <1>3, <1>4, <1>5, <1>6

OthersComing(t, p, s) == \E u \in Threads : u # t /\ th[u].page = p /\ s \in Coming(th[u])
OthersGoing(t, p, s) == \E u \in Threads : u # t /\ th[u].page = p /\ s \in Going(th[u])

\* Of what comes and goes, a step changes the part of its thread.
LEMMA ComingAndGoing ==
  ASSUME NEW t \in Threads, Goes(t), NEW p \in Pages, NEW s \in Slots
  PROVE  /\ IsComing(p, s) <=> OthersComing(t, p, s) \/ (th[t].page = p /\ s \in Coming(th[t]))
         /\ IsGoing(p, s) <=> OthersGoing(t, p, s) \/ (th[t].page = p /\ s \in Going(th[t]))
         /\ IsComing(p, s)' <=> OthersComing(t, p, s) \/ (th'[t].page = p /\ s \in Coming(th'[t]))
         /\ IsGoing(p, s)' <=> OthersGoing(t, p, s) \/ (th'[t].page = p /\ s \in Going(th'[t]))
<1>1. \A u \in Threads : u # t => /\ th'[u].page = th[u].page
                                  /\ Coming(th'[u]) = Coming(th[u]) /\ Going(th'[u]) = Going(th[u])
  BY AlikeShows, AlikeHolds DEF Goes
<1> QED
  BY <1>1 DEF IsComing, IsGoing, OthersComing, OthersGoing

\* Those of other threads are not in the mask, and not those of a thread that
\* has its indices to itself.
LEMMA OthersApart ==
  ASSUME Typed, PlacesAreRight, BitsAreOwn, CallsAreApart, FreshIsMissing, NEW t \in Threads, th[t].pc # "idle",
         NEW p \in Pages, NEW s \in Slots, OthersComing(t, p, s) \/ OthersGoing(t, p, s)
  PROVE  /\ s \notin page[p].mask
         /\ p = th[t].page /\ Owns(th[t]) => s \notin th[t].slots
         /\ p = th[t].page => th[t].op \notin {"apply", "kill"}
         /\ th[t].op # "eraseAlone"
<1>1. PICK u \in Threads : u # t /\ th[u].page = p /\ (s \in Coming(th[u]) \/ s \in Going(th[u]))
  BY DEF OthersComing, OthersGoing
<1>2. s \in Missing(th[u])
  BY <1>1 DEF Missing
<1>3. Owns(th[u]) /\ th[u].pc # "idle" /\ s \in th[u].slots
  BY <1>2, LeftAreSlots DEF Typed, PlacesAreRight
<1>4. s \notin page[p].mask
  BY <1>1, <1>2, ColumnAssumption DEF FreshIsMissing
<1>5. ~Meet(th[t], th[u]) \/ ~Owns(th[t])
  BY <1>1, <1>3, OwnersApart
<1> QED
  BY <1>1, <1>3, <1>4, <1>5, AloneThere DEF Meet

\* A step keeps the components alive that the mask has, or is about to.
LEMMA StepAlive ==
  ASSUME Typed, PlacesAreRight, BitsAreOwn, CallsAreApart, FreshIsMissing, AliveTells, NEW t \in Threads, Step(t)
  PROVE  AliveTells'
<1> DEFINE l == th[t]
           m == th'[t]
<1>0. /\ l \in Locals /\ Place(l) /\ Goes(t) /\ Flow(l, m) /\ l.pc # "idle" /\ HeadersStay(t) /\ RestStays(t) /\ kind' = kind
      /\ page \in [Pages -> Headers] /\ kind \in Kinds
  BY StepShares, StepGoes DEF Typed, PlacesAreRight, Shares, RestStays, Goes, Flow
<1> SUFFICES ASSUME NEW p \in Pages, NEW s \in Slots
             PROVE  /\ s \in page'[p].mask \/ IsComing(p, s)' => <<p, s>> \in alive'
                    /\ kind.destroys =>
                         /\ IsGoing(p, s)' => <<p, s>> \in alive'
                         /\ <<p, s>> \in alive' => s \in page'[p].mask \/ IsComing(p, s)' \/ IsGoing(p, s)'
  BY <1>0 DEF AliveTells
<1>1. /\ s \in page[p].mask \/ IsComing(p, s) => <<p, s>> \in alive
      /\ kind.destroys => /\ IsGoing(p, s) => <<p, s>> \in alive
                          /\ <<p, s>> \in alive => s \in page[p].mask \/ IsComing(p, s) \/ IsGoing(p, s)
  BY DEF AliveTells
<1>2. /\ IsComing(p, s) <=> OthersComing(t, p, s) \/ (l.page = p /\ s \in Coming(l))
      /\ IsGoing(p, s) <=> OthersGoing(t, p, s) \/ (l.page = p /\ s \in Going(l))
      /\ IsComing(p, s)' <=> OthersComing(t, p, s) \/ (m.page = p /\ s \in Coming(m))
      /\ IsGoing(p, s)' <=> OthersGoing(t, p, s) \/ (m.page = p /\ s \in Going(m))
  BY <1>0, ComingAndGoing
<1>3. OthersComing(t, p, s) \/ OthersGoing(t, p, s) =>
        /\ s \notin page[p].mask
        /\ p = l.page /\ Owns(l) => s \notin l.slots
        /\ p = l.page => l.op \notin {"apply", "kill"}
        /\ l.op # "eraseAlone"
  BY <1>0, OthersApart
<1>4. m.page = l.page \/ (m = Idle /\ Coming(m) = {} /\ Going(m) = {})
  BY <1>0, FlowBecomes, IdleShows
<1>5. CASE l.pc \notin {"construct", "setMask", "unmask", "destroy", "wipe"}
  <2>1. Coming(m) = Coming(l) /\ Going(m) = Going(l)
    BY <1>0, <1>5, FlowComing
  <2>2. page'[p].mask = page[p].mask /\ alive' = alive
    BY <1>0, <1>5 DEF HeadersStay, RestStays
  <2> QED
    BY <1>1, <1>2, <1>4, <2>1, <2>2
<1>6. CASE Construct(t)
  <2>1. l.pc = "construct" /\ l.op # "apply" /\ page' = page
        /\ alive' = alive \cup ({l.page} \X l.slots)
    BY <1>6 DEF Construct, Move, At
  <2>2. Went(l, m, "setMask", l.slots, "idle", l.victim)
    BY <1>0, <1>6 DEF Construct, Move, Went, Locals, Typed
  <2>3. Coming(m) = l.slots /\ Going(m) = {} /\ m.page = l.page
    BY <2>2 DEF Went, Coming, Going
  <2>4. Coming(l) = {} /\ Going(l) = {}
    BY <2>1 DEF Coming, Going
  <2>5. <<p, s>> \in alive' <=> <<p, s>> \in alive \/ (p = l.page /\ s \in l.slots)
    BY <2>1
  <2> QED
    BY <1>1, <1>2, <2>1, <2>3, <2>4, <2>5
<1>7. CASE ConstructThrows(t)
  <2>1. l.pc = "construct" /\ page' = page /\ alive' = alive
    BY <1>7 DEF ConstructThrows, Move
  <2>2. Went(l, m, "forsake", l.slots, Finish(t), l.victim)
    BY <1>0, <1>7 DEF ConstructThrows, Move, Went, Locals, Typed
  <2>3. Coming(m) = {} /\ Going(m) = {} /\ Coming(l) = {} /\ Going(l) = {}
    BY <2>1, <2>2 DEF Went, Coming, Going
  <2> QED
    BY <1>1, <1>2, <2>1, <2>3
<1>8. ASSUME NEW made \in SUBSET Slots, EmplaceCounted(t, made)
      PROVE  /\ s \in page'[p].mask \/ IsComing(p, s)' => <<p, s>> \in alive'
             /\ kind.destroys =>
                  /\ IsGoing(p, s)' => <<p, s>> \in alive'
                  /\ <<p, s>> \in alive' => s \in page'[p].mask \/ IsComing(p, s)' \/ IsGoing(p, s)'
  <2>1. l.pc = "construct" /\ l.op = "apply" /\ alive' = alive \cup ({l.page} \X made)
    BY <1>8 DEF EmplaceCounted, Move
  <2>2. Coming(m) = {} /\ Going(m) = {} /\ Coming(l) = {} /\ Going(l) = {}
    BY <1>0, <2>1, IdleShows DEF Flow, AddFlow, Went, Coming, Going
  <2>3. page'[p].mask = IF p = l.page THEN page[p].mask \cup made ELSE page[p].mask
    BY <1>0, <1>8 DEF EmplaceCounted, Headers
  <2>4. <<p, s>> \in alive' <=> <<p, s>> \in alive \/ (p = l.page /\ s \in made)
    BY <2>1
  <2> QED
    BY <1>1, <1>2, <2>2, <2>3, <2>4
<1>9. CASE SetMask(t)
  <2>1. l.pc = "setMask" /\ alive' = alive /\ On(l, m, "lookWord")
    BY <1>9, GotoFacts DEF SetMask
  <2>2. Coming(l) = l.left /\ Coming(m) = Later(l) /\ Going(m) = {} /\ Going(l) = {} /\ m.page = l.page
    BY <2>1 DEF On, Went, Coming, Going, Later
  <2>3. page'[p].mask = IF p = l.page THEN page[p].mask \cup (l.left \ Later(l)) ELSE page[p].mask
    BY <1>0, <1>9 DEF SetMask, Headers, Later
  <2>4. Later(l) \subseteq l.left
    BY DEF Later
  <2> QED
    BY <1>1, <1>2, <2>1, <2>2, <2>3, <2>4
<1>10. CASE Unmask(t)
  <2>1. l.pc = "unmask" /\ l.op \in Erasers
    BY <1>0, <1>10 DEF Unmask, Move, Place
  <2>2. PICK one \in Slots : l.slots = {one}
    BY <1>0, <2>1 DEF Place, Erasers
  <2>3. Has(t) <=> one \in page[l.page].mask
    BY <2>2, SlotIsIt DEF Has, Mine
  <2>4. Coming(l) = {} /\ Going(l) = {}
    BY <2>1 DEF Coming, Going
  <2>5. l.page \in Pages
    BY <2>1, CallHasPage DEF Erasers
  <2>6. page'[p].mask = IF p = l.page THEN page[p].mask \ l.slots ELSE page[p].mask
    BY <1>0, <1>10 DEF Unmask, Headers
  <2>7. CASE ~Has(t)
    <3>1. alive' = alive
      BY <1>10, <2>7 DEF Unmask
    <3>2. page'[p].mask = page[p].mask
      BY <2>2, <2>3, <2>6, <2>7
    <3>3. Coming(m) = {} /\ Going(m) = {}
      <4>1. Went(l, m, Finish(t), {}, l.ret, l.victim)
        BY <1>0, <1>10, <2>7 DEF Unmask, Move, Went, Locals, Typed, Finish
      <4> QED
        BY <4>1, IdleShows DEF Went, Coming, Going, Finish
    <3> QED
      BY <1>1, <1>2, <2>4, <3>1, <3>2, <3>3
  <2>8. CASE Has(t) /\ kind.destroys
    <3>1. alive' = alive
      BY <1>10, <2>8 DEF Unmask
    <3>2. Went(l, m, IF kind.hooked THEN "hooks" ELSE "destroy", l.slots, l.ret, l.victim)
      BY <1>0, <1>10, <2>8 DEF Unmask, Move, Went, Locals, Typed
    <3>3. Coming(m) = {} /\ Going(m) = l.slots /\ m.page = l.page
      BY <2>1, <3>2 DEF Went, Coming, Going
    <3> QED
      BY <1>1, <1>2, <2>2, <2>3, <2>4, <2>6, <2>8, <3>1, <3>3
  <2>9. CASE Has(t) /\ ~kind.destroys
    <3>1. alive' = alive \ ({l.page} \X l.slots)
      BY <1>10, <2>9 DEF Unmask, At
    <3>2. Coming(m) = {}
      BY <1>0, <2>1, IdleShows DEF Flow, RemoveFlow, Went, Coming, Finished
    <3>3. <<p, s>> \in alive' <=> <<p, s>> \in alive /\ ~(p = l.page /\ s \in l.slots)
      BY <3>1
    <3>4. p = l.page /\ s \in l.slots => ~OthersComing(t, p, s)
      BY <1>3, <2>2, <2>3, <2>9
    <3> QED
      BY <1>1, <1>2, <2>4, <2>6, <2>9, <3>2, <3>3, <3>4
  <2> QED
    BY <2>7, <2>8, <2>9
<1>11. CASE Destroy(t)
  <2>1. l.pc = "destroy" /\ l.op \in Erasers /\ l.left = l.slots /\ (kind.destroys \/ kind.hooked)
        /\ alive' = alive \ ({l.page} \X l.slots) /\ page' = page
    BY <1>0, <1>11 DEF Destroy, Goto, Move, Place, At
  <2>2. Owns(l) /\ Coming(l) = {} /\ Going(l) = l.slots /\ l.page \in Pages
    BY <2>1, CallHasPage DEF Owns, Holding, Erasers, Bitten, Coming, Going
  <2>3. Coming(m) = {} /\ Going(m) = {}
    BY <1>0, <2>1 DEF Flow, RemoveFlow, On, Went, Coming, Going
  <2>4. <<p, s>> \in alive' <=> <<p, s>> \in alive /\ ~(p = l.page /\ s \in l.slots)
    BY <2>1
  <2>5. p = l.page /\ s \in l.slots => s \notin page[p].mask
    BY <2>2, ColumnAssumption DEF FreshIsMissing, Missing
  <2> QED
    BY <1>1, <1>2, <1>3, <2>1, <2>2, <2>3, <2>4, <2>5
<1>12. CASE WipePage(t) \/ WipeIndex(t)
  <2>1. l.pc = "wipe" /\ l.op \in {"kill", "eraseAlone"}
    BY <1>12 DEF WipePage, WipeIndex, Move
  <2>2. Coming(l) = {} /\ Going(l) = {} /\ Coming(m) = {} /\ Going(m) = {}
    BY <1>0, <2>1, FlowComing DEF Coming, Going
  <2>3. page'[p].mask = IF p = l.page THEN page[p].mask \ l.slots ELSE page[p].mask
    <3>1. CASE WipePage(t)
      BY <1>0, <3>1 DEF WipePage, Mine, Headers
    <3>2. CASE WipeIndex(t)
      BY <1>0, <3>2 DEF WipeIndex, Headers
    <3> QED
      BY <1>12, <3>1, <3>2
  <2>4. \/ alive' = alive \ ({l.page} \X l.slots)
        \/ alive' = alive \ ({l.page} \X (page[l.page].mask \cap l.slots)) /\ l.op = "kill"
    BY <1>12 DEF WipePage, WipeIndex, At, Mine
  <2>5. <<p, s>> \in alive => \/ <<p, s>> \in alive'
                              \/ p = l.page /\ s \in l.slots
    BY <2>4
  <2>6. p = l.page /\ s \in l.slots /\ s \in page[p].mask => <<p, s>> \notin alive'
    BY <2>4
  <2>7. p = l.page => ~OthersComing(t, p, s) /\ ~OthersGoing(t, p, s)
    BY <1>3, <2>1
  <2>8. <<p, s>> \in alive' => <<p, s>> \in alive
    BY <2>4
  <2> QED
    BY <1>1, <1>2, <2>2, <2>3, <2>5, <2>6, <2>7, <2>8
<1> QED
  BY <1>5, <1>6, <1>7, <1>8, <1>9, <1>10, <1>11, <1>12, StepByPlace

\* Only a call that begins comes to wipe.
LEMMA NeverToWipe ==
  ASSUME NEW l \in Locals, NEW m, Place(l), Flow(l, m)
  PROVE  m.pc # "wipe"
<1> USE DEF Flow, On, Went, Idle, Finished, Place, Later
<1>1. CASE l.pc \in BitPcs \cup {"hooks"}
  BY <1>1 DEF BitFlow, BitPcs
<1>2. CASE l.pc \in MakingPcs \cup MaskPcs
  BY <1>2 DEF AddFlow, MemoryFlow, MakingPcs, MaskPcs
<1>3. CASE l.pc \in {"unmask", "destroy", "wipe"} \cup EmptyPcs
  BY <1>3 DEF RemoveFlow, EmptyPcs
<1>4. CASE l.pc \in SparePcs \cup {"trim"}
  BY <1>4 DEF SpareFlow, MemoryFlow, SparePcs
<1>5. CASE l.pc \in VacatePcs \cup EndPcs
  BY <1>5 DEF MemoryFlow, VacatePcs, EndPcs, Locals
<1> QED
  BY <1>1, <1>2, <1>3, <1>4, <1>5 DEF Locals, Pcs

\* What eraseAlone is to erase stays there.
LEMMA StepWiped ==
  ASSUME Typed, PlacesAreRight, CallsAreApart, WipedIsThere, NEW t \in Threads, Step(t)
  PROVE  WipedIsThere'
<1> SUFFICES ASSUME NEW u \in Threads, th'[u].pc = "wipe", th'[u].op = "eraseAlone"
             PROVE  FALSE
  BY DEF WipedIsThere
<1>0. th[t] \in Locals /\ Place(th[t]) /\ Goes(t) /\ th[t].pc # "idle"
  BY StepGoes DEF Typed, PlacesAreRight, Goes, Flow
<1>1. CASE u # t
  <2>1. th[u].pc # "idle" /\ th[u].op = "eraseAlone"
    BY <1>0, <1>1, AlikeHolds DEF Goes
  <2> QED
    BY <1>0, <1>1, <2>1, AloneThere
<1>2. CASE u = t
  BY <1>0, <1>2, NeverToWipe DEF Goes
<1> QED
  BY <1>1, <1>2

\* What a thread takes out of the mask it has to itself.
LEMMA LossIsOwn ==
  ASSUME NEW l \in Locals, Place(l), kind.destroys \/ kind.hooked, Loss(l) # {}
  PROVE  Owns(l) /\ Loss(l) = l.slots
BY DEF Loss, Place, Owns, Holding, Bitten, Erasers

\* What a thread has added stays there while it uses it.
LEMMA StepAdded ==
  ASSUME Typed, PlacesAreRight, BitsAreOwn, CallsAreApart, AddedIsThere, NEW t \in Threads, Step(t)
  PROVE  AddedIsThere'
<1> DEFINE l == th[t]
<1>0. /\ l \in Locals /\ Place(l) /\ Goes(t) /\ Flow(l, th'[t]) /\ l.pc # "idle" /\ HeadersStay(t) /\ kind' = kind
  BY StepShares, StepGoes DEF Typed, PlacesAreRight, Shares, RestStays, Goes, Flow
<1> SUFFICES ASSUME kind.destroys \/ kind.hooked, NEW u \in Threads, th'[u].page # None, NEW s \in Added(th'[u])
             PROVE  s \in page'[th'[u].page].mask
  BY <1>0 DEF AddedIsThere
<1>1. th'[u].page = th[u].page /\ th[u].page \in Pages /\ th[u] \in Locals /\ Place(th[u])
  <2>1. th[u] \in Locals /\ Place(th[u])
    BY DEF Typed, PlacesAreRight
  <2>2. CASE u # t
    BY <1>0, <2>1, <2>2, AlikeHolds DEF Goes, Locals
  <2>3. CASE u = t
    BY <1>0, <2>1, <2>3, FlowBecomes, IdleShows DEF Goes, Locals, Idle
  <2> QED
    BY <2>1, <2>2, <2>3
<1>2. CASE u # t
  <2>1. s \in Added(th[u]) /\ s \in page[th[u].page].mask
    BY <1>0, <1>1, <1>2, AlikeShows DEF Goes, AddedIsThere
  <2>2. Owns(th[u]) /\ th[u].pc # "idle" /\ s \in th[u].slots
    BY <1>1, <2>1, LeftAreSlots
  <2>3. th[u].page = l.page => s \notin Loss(l)
    BY <1>0, <1>2, <2>2, LossIsOwn, OwnersApart DEF Meet
  <2> QED
    BY <1>1, <2>1, <2>3, MaskFacts
<1>3. CASE u = t /\ l.pc \notin {"held", "setMask"}
  <2>1. s \in Added(l)
    BY <1>0, <1>3, FlowAdded
  <2>2. s \in page[l.page].mask /\ Loss(l) = {}
    BY <1>1, <1>3, <2>1 DEF AddedIsThere, Loss, Added, MaskPcs
  <2> QED
    BY <1>1, <1>3, <2>2, MaskFacts
<1>4. CASE u = t /\ l.pc = "setMask"
  <2>1. Added(th'[t]) = l.slots \ Later(l) /\ Added(l) = l.slots \ l.left
    BY <1>0, <1>4 DEF Flow, AddFlow, On, Went, Added, Coming, MaskPcs, Later
  <2>2. s \in Added(l) \/ s \in Gain(l)
    BY <1>4, <2>1 DEF Gain
  <2>3. s \in Added(l) => s \in page[l.page].mask
    BY <1>1, <1>4 DEF AddedIsThere
  <2>4. Loss(l) = {}
    BY <1>4 DEF Loss
  <2> QED
    BY <1>1, <1>4, <2>2, <2>3, <2>4, MaskFacts
<1>5. CASE u = t /\ l.pc = "held"
  <2>1. PICK one \in Slots : l.slots = {one}
    BY <1>0, <1>5 DEF Place, Bitten
  <2>2. Has(t) <=> one \in page[l.page].mask
    BY <2>1, SlotIsIt DEF Has, Mine
  <2>3. page'[l.page].mask = page[l.page].mask
    BY <1>0, <1>1, <1>5 DEF HeadersStay
  <2>4. CASE ~Has(t)
    <3>1. \E a \in {"occupy", "release"} : On(l, th'[t], a)
      BY <1>0, <1>5, <2>4, StepByPlace, GotoFacts DEF HeldHas
    <3> QED
      BY <1>5, <3>1 DEF On, Went, Added, MaskPcs
  <2>5. CASE Has(t)
    <3>1. s \in l.slots
      BY <1>0, <1>5 DEF Flow, BitFlow, On, Went, Added, MaskPcs
    <3> QED
      BY <1>1, <1>5, <2>1, <2>2, <2>3, <2>5, <3>1
  <2> QED
    BY <2>4, <2>5
<1> QED
  BY <1>2, <1>3, <1>4, <1>5

-----------------------------------------------------------------------------
(* The count of a page: the components in the mask, those the thread t has  *)
(* counted, and those the others have.                                     *)

OtherHolders(t, places, p) ==
  {h \in (Threads \ {t}) \X Slots : places[h[1]].page = p /\ h[2] \in Extra(places[h[1]])}

Size(S) == Cardinality(S)

\* Everything there is to count is finite.
LEMMA SlotsAreFinite == IsFiniteSet(Slots) /\ IsFiniteSet(Threads) /\ IsFiniteSet(Indices) /\ IsFiniteSet(Pages)
<1>1. IsFiniteSet(Indices) /\ IsFiniteSet(Threads)
  BY ColumnAssumption
<1>2. IsFiniteSet(Slots)
  <2> DEFINE f == [i \in Indices |-> i[2]]
  <2>1. f \in Surjection(Indices, Slots)
    BY DEF Surjection, Slots
  <2> QED
    BY <1>1, <2>1, FS_Surjection
<1>3. IsFiniteSet(Pages)
  <2> DEFINE f == [i \in Indices |-> i[1]]
  <2>1. f \in Surjection(Indices, Pages)
    BY DEF Surjection, Pages
  <2> QED
    BY <1>1, <2>1, FS_Surjection
<1> QED
  BY <1>1, <1>2, <1>3

\* Sizes: of slots, of a row of pairs, and of the union of sets that are apart.
LEMMA SizeOfSlots ==
  ASSUME NEW A \in SUBSET Slots
  PROVE  IsFiniteSet(A) /\ Size(A) \in Nat /\ (Size(A) = 0 <=> A = {})
BY SlotsAreFinite, FS_Subset, FS_CardinalityType, FS_EmptySet DEF Size

LEMMA SizeOfRow ==
  ASSUME NEW a, NEW A \in SUBSET Slots
  PROVE  IsFiniteSet({a} \X A) /\ Size({a} \X A) = Size(A)
<1>1. IsFiniteSet({a}) /\ Cardinality({a}) = 1
  BY FS_Singleton
<1>2. IsFiniteSet(A) /\ Size(A) \in Nat
  BY SizeOfSlots
<1>3. IsFiniteSet({a} \X A) /\ Cardinality({a} \X A) = Cardinality({a}) * Cardinality(A)
  BY <1>1, <1>2, FS_Product
<1> QED
  BY <1>1, <1>2, <1>3 DEF Size

LEMMA SizeOfParts ==
  ASSUME NEW A, NEW B, IsFiniteSet(A), IsFiniteSet(B), A \cap B = {}
  PROVE  IsFiniteSet(A \cup B) /\ Size(A \cup B) = Size(A) + Size(B)
<1>1. Cardinality(A) \in Nat /\ Cardinality(B) \in Nat /\ Cardinality(A \cap B) = 0
  BY FS_CardinalityType, FS_EmptySet
<1>2. IsFiniteSet(A \cup B) /\ Cardinality(A \cup B) = Cardinality(A) + Cardinality(B) - Cardinality(A \cap B)
  BY FS_Union
<1> QED
  BY <1>1, <1>2 DEF Size

\* What a thread has counted are slots, so the holders are finitely many.
LEMMA ExtraAreSlots ==
  ASSUME NEW l \in Locals
  PROVE  Extra(l) \in SUBSET Slots
BY DEF Extra, Coming, Later, Locals

LEMMA HoldersAreFinite ==
  ASSUME NEW mask \in SUBSET Slots, NEW places \in [Threads -> Locals], NEW p \in Pages
  PROVE  IsFiniteSet(HoldersOf(mask, places, p))
<1>1. IsFiniteSet({None} \X mask)
  BY SizeOfRow
<1>2. IsFiniteSet(Threads \X Slots)
  BY SlotsAreFinite, FS_Product
<1>3. IsFiniteSet({h \in Threads \X Slots : places[h[1]].page = p /\ h[2] \in Extra(places[h[1]])})
  BY <1>2, FS_Subset
<1> QED
  BY <1>1, <1>3, FS_Union DEF HoldersOf

\* The holders of a page are its mask, those of the other threads and of this one.
LEMMA SizeOfHolders ==
  ASSUME NEW mask \in SUBSET Slots, NEW places \in [Threads -> Locals], NEW p \in Pages, NEW t \in Threads
  PROVE  /\ Size(mask) \in Nat /\ Size(OtherHolders(t, places, p)) \in Nat /\ Size(Extra(places[t])) \in Nat
         /\ Size(HoldersOf(mask, places, p)) = Size(mask) + Size(OtherHolders(t, places, p))
                               + (IF places[t].page = p THEN Size(Extra(places[t])) ELSE 0)
<1> DEFINE N == {None} \X mask
           O == OtherHolders(t, places, p)
           M == {t} \X Extra(places[t])
<1>0. mask \in SUBSET Slots /\ Extra(places[t]) \in SUBSET Slots /\ None \notin Threads
  BY ExtraAreSlots, ColumnAssumption
<1>1. IsFiniteSet(N) /\ Size(N) = Size(mask) /\ IsFiniteSet(M) /\ Size(M) = Size(Extra(places[t]))
  BY <1>0, SizeOfRow
<1>2. IsFiniteSet(O) /\ Size(O) \in Nat
  <2>1. O \subseteq HoldersOf(mask, places, p)
    BY DEF OtherHolders, HoldersOf
  <2> QED
    BY <2>1, HoldersAreFinite, FS_Subset, FS_CardinalityType DEF Size
<1>3. Size(mask) \in Nat /\ Size(Extra(places[t])) \in Nat
  BY <1>0, SizeOfSlots
<1>4. N \cap O = {}
  BY <1>0 DEF OtherHolders
<1>5. IsFiniteSet(N \cup O) /\ Size(N \cup O) = Size(N) + Size(O)
  BY <1>1, <1>2, <1>4, SizeOfParts
<1>6. CASE places[t].page = p
  <2>1. (N \cup O) \cap M = {}
    BY <1>0 DEF OtherHolders
  <2>2. HoldersOf(mask, places, p) = (N \cup O) \cup M
    <3>1. ASSUME NEW h \in Threads \X Slots, places[h[1]].page = p, h[2] \in Extra(places[h[1]])
          PROVE  h \in O \/ h \in M
      BY <3>1 DEF OtherHolders
    <3>2. \A h \in M : h \in Threads \X Slots /\ places[h[1]].page = p /\ h[2] \in Extra(places[h[1]])
      BY <1>0, <1>6
    <3>3. O \subseteq HoldersOf(mask, places, p)
      BY DEF OtherHolders, HoldersOf
    <3> QED
      BY <3>1, <3>2, <3>3 DEF HoldersOf
  <2>3. Size((N \cup O) \cup M) = Size(N \cup O) + Size(M)
    BY <1>1, <1>5, <2>1, SizeOfParts
  <2> QED
    BY <1>1, <1>2, <1>3, <1>5, <1>6, <2>2, <2>3
<1>7. CASE places[t].page # p
  <2>1. HoldersOf(mask, places, p) = N \cup O
    BY <1>7 DEF HoldersOf, OtherHolders
  <2> QED
    BY <1>1, <1>2, <1>3, <1>5, <1>7, <2>1
<1> QED
  BY <1>6, <1>7

\* Where nothing is counted nothing is there.
LEMMA NothingCounted ==
  ASSUME Typed, CountIsExact, NEW p \in Pages, page[p].count = 0
  PROVE  page[p].mask = {} /\ \A u \in Threads : th[u].page = p => Extra(th[u]) = {}
<1>1. Holders(p) = {}
  BY HoldersAreFinite, FS_EmptySet DEF CountIsExact, Holders, Typed, Headers
<1>2. \A u \in Threads : Extra(th[u]) \in SUBSET Slots
  BY ExtraAreSlots DEF Typed
<1>3. \A s \in page[p].mask : <<None, s>> \in Holders(p)
  BY DEF Holders, HoldersOf
<1>4. \A u \in Threads, s \in Slots : th[u].page = p /\ s \in Extra(th[u]) => <<u, s>> \in Holders(p)
  BY DEF Holders, HoldersOf
<1> QED
  BY <1>1, <1>2, <1>3, <1>4

\* A thread that is woken, and one without a call, count as before.
LEMMA AlikeCounts ==
  ASSUME NEW l, NEW m, Alike(l, m)
  PROVE  Extra(m) = Extra(l)
BY DEF Alike, On, Went, Extra, EarlyPcs, EndPcs, Coming

LEMMA IdleCounts == Extra(Idle) = {}
BY DEF Idle, Extra, EarlyPcs, EndPcs, Coming

\* What a thread has counted changes in few places.
LEMMA FlowExtra ==
  ASSUME NEW l \in Locals, NEW m, Place(l), Flow(l, m),
         l.pc \notin {"occupy", "construct", "setMask", "unmask", "wipe", "forsake", "starting"}
  PROVE  Extra(m) = Extra(l)
<1> USE IdleCounts DEF Flow, On, Went, Extra, EarlyPcs, EndPcs, Coming, Finished, Later
<1>1. CASE l.pc \in BitPcs \cup {"hooks"}
  BY <1>1 DEF BitFlow, BitPcs, Erasers, Place, Bitten
<1>2. CASE l.pc \in MakingPcs
  BY <1>2 DEF AddFlow, MemoryFlow, MakingPcs
<1>3. CASE l.pc \in {"lookWord", "markWord"}
  <2>1. l.op # "erase" /\ Extra(l) = Later(l)
    BY <1>3 DEF Place, Adders, MaskPcs
  <2>2. \/ l.pc = "lookWord" /\ On(l, m, "markWord")
        \/ Later(l) # {} /\ Went(l, m, "setMask", Later(l), l.ret, l.victim)
        \/ Later(l) = {} /\ Went(l, m, IF kind.hooked THEN "hooks" ELSE Finished(l), {}, l.ret, l.victim)
    BY <1>3 DEF AddFlow
  <2>3. CASE l.pc = "lookWord" /\ On(l, m, "markWord")
    BY <2>3
  <2>4. CASE Later(l) # {} /\ Went(l, m, "setMask", Later(l), l.ret, l.victim)
    BY <2>1, <2>4
  <2>5. CASE Later(l) = {} /\ Went(l, m, IF kind.hooked THEN "hooks" ELSE Finished(l), {}, l.ret, l.victim)
    <3>1. m = Idle \/ (m.pc = "hooks" /\ m.left = {}) \/ (m.pc = "release" /\ m.op # "erase")
      BY <2>1, <2>5
    <3> QED
      BY <2>1, <2>5, <3>1, IdleCounts
  <2> QED
    BY <2>2, <2>3, <2>4, <2>5
<1>4. CASE l.pc = "destroy" \/ l.pc \in EmptyPcs
  <2>1. CASE l.pc = "destroy"
    BY <2>1 DEF RemoveFlow, Place, Bitten, Erasers
  <2>2. CASE l.pc \in EmptyPcs
    BY <1>4, <2>2 DEF RemoveFlow, EmptyPcs, Place
  <2> QED
    BY <1>4, <2>1, <2>2
<1>5. CASE l.pc \in SparePcs \cup {"trim"}
  <2>1. \/ m = Idle
        \/ m.pc \in SparePcs \cup {"trim", "vacating"}
        \/ m.pc = "release" /\ m.op = l.op /\ l.op # "erase"
    BY <1>5 DEF SpareFlow, MemoryFlow, SparePcs, Place
  <2> QED
    BY <1>5, <2>1 DEF SparePcs, Idle
<1>6. CASE l.pc \in VacatePcs
  <2>1. m.pc \in VacatePcs \cup {"unlock"} /\ m.ret = l.ret /\ l.ret # "construct"
    BY <1>6 DEF MemoryFlow, VacatePcs, Place
  <2> QED
    BY <1>6, <2>1 DEF VacatePcs
<1>7. CASE l.pc \in EndPcs
  <2>1. CASE l.pc = "unlock"
    BY <2>1 DEF MemoryFlow
  <2>2. CASE l.pc = "notify" /\ l.ret = "construct"
    BY <2>2 DEF MemoryFlow
  <2>3. CASE l.pc = "notify" /\ l.ret # "construct"
    <3>1. m = Idle \/ m.pc = "trim" \/ (m.pc = "release" /\ m.op = l.op /\ l.op # "erase")
      BY <2>3 DEF MemoryFlow, Place, Locals
    <3> QED
      BY <2>3, <3>1, IdleCounts
  <2> QED
    BY <1>7, <2>1, <2>2, <2>3
<1> QED
  BY <1>1, <1>2, <1>3, <1>4, <1>5, <1>6, <1>7 DEF Locals, Pcs, MaskPcs

\* The count of the other pages, and what the others have counted of this one.
LEMMA OthersStay ==
  ASSUME Typed, NEW t \in Threads, Goes(t), NEW p \in Pages
  PROVE  OtherHolders(t, th', p) = OtherHolders(t, th, p)
<1>1. \A u \in Threads \ {t} : th'[u].page = th[u].page /\ Extra(th'[u]) = Extra(th[u])
  BY AlikeCounts, AlikeHolds DEF Goes
<1> QED
  BY <1>1 DEF OtherHolders

\* No count goes below zero: what is taken off has been counted.
LEMMA CountsDo ==
  ASSUME Typed, PlacesAreRight, WipedIsThere, CountIsExact, PagesAreCounted, NEW t \in Threads
  PROVE  CountsSuffice(t)
<1> DEFINE l == th[t]
           n == page[l.page].count
<1>0. /\ l \in Locals /\ Place(l) /\ Size(l.left) \in Nat /\ Size(l.slots) \in Nat
  BY Fields, SizeOfSlots DEF Typed, PlacesAreRight
<1>1. l.page \in Pages =>
        /\ page[l.page].mask \in SUBSET Slots
        /\ \E a, b \in Nat : /\ a = Size(page[l.page].mask)
                             /\ n = a + b + Size(Extra(l)) /\ Size(Extra(l)) \in Nat
  <2> SUFFICES ASSUME l.page \in Pages
               PROVE  /\ page[l.page].mask \in SUBSET Slots
                      /\ \E a, b \in Nat : /\ a = Size(page[l.page].mask)
                                           /\ n = a + b + Size(Extra(l)) /\ Size(Extra(l)) \in Nat
    OBVIOUS
  <2>1. n = Size(Holders(l.page))
    BY DEF CountIsExact, Size
  <2>2. page[l.page].mask \in SUBSET Slots /\ th \in [Threads -> Locals]
    BY DEF Typed, Headers
  <2>3. /\ Size(page[l.page].mask) \in Nat /\ Size(OtherHolders(t, th, l.page)) \in Nat /\ Size(Extra(l)) \in Nat
        /\ n = Size(page[l.page].mask) + Size(OtherHolders(t, th, l.page)) + Size(Extra(l))
    BY <2>1, <2>2, SizeOfHolders DEF Holders
  <2> QED
    BY <2>2, <2>3
<1>2. l.pc = "forsake" => n - Size(l.left) \in Nat
  <2> SUFFICES ASSUME l.pc = "forsake"
               PROVE  n - Size(l.left) \in Nat
    OBVIOUS
  <2>1. Extra(l) = l.left /\ l.page \in Pages
    BY <1>0, CallHasPage DEF Extra, EarlyPcs, EndPcs, Place, EmptyPcs, Ops
  <2> QED
    BY <1>0, <1>1, <2>1
<1>3. l.pc = "starting" => n - Size(l.slots) \in Nat
  <2> SUFFICES ASSUME l.pc = "starting"
               PROVE  n - Size(l.slots) \in Nat
    OBVIOUS
  <2>1. Extra(l) = l.slots /\ l.page \in Pages
    BY <1>0, CallHasPage DEF Extra, EarlyPcs, Place, MakingPcs, Adders
  <2> QED
    BY <1>0, <1>1, <2>1
<1>4. l.pc = "wipe" /\ l.op = "eraseAlone" => n - 1 \in Nat
  <2> SUFFICES ASSUME l.pc = "wipe", l.op = "eraseAlone"
               PROVE  n - 1 \in Nat
    OBVIOUS
  <2>1. l.page \in Pages
    BY CallHasPage
  <2>2. page[l.page].mask # {}
    BY <1>0 DEF WipedIsThere, Place, Ops
  <2>3. Size(page[l.page].mask) # 0
    BY <1>1, <2>1, <2>2, SizeOfSlots
  <2>4. PICK a, b \in Nat : /\ a = Size(page[l.page].mask)
                            /\ n = a + b + Size(Extra(l)) /\ Size(Extra(l)) \in Nat
    BY <1>1, <2>1
  <2>5. a # 0
    BY <2>3, <2>4
  <2> QED
    BY <2>4, <2>5
<1>5. l.pc = "decommit" => pages - 1 \in Nat
  <2> SUFFICES ASSUME l.pc = "decommit"
               PROVE  pages - 1 \in Nat
    OBVIOUS
  <2> DEFINE L == {p \in Pages : Live(p)}
  <2>1. l.victim \in L
    BY <1>0 DEF Live, Gone, GonePcs, Place, VacatePcs, Locals
  <2>2. IsFiniteSet(L)
    BY SlotsAreFinite, FS_Subset
  <2>3. Cardinality(L) \in Nat /\ Cardinality(L) # 0
    BY <2>1, <2>2, FS_CardinalityType, FS_EmptySet
  <2> QED
    BY <2>3 DEF PagesAreCounted
<1> QED
  BY <1>0, <1>2, <1>3, <1>4, <1>5 DEF CountsSuffice, Size

\* Of what is counted on top of the mask of a page, that of a thread at l.
OwnExtra(l, p) == IF l.page = p THEN Size(Extra(l)) ELSE 0

\* The arithmetic of a step: the count and what it counts move alike.
LEMMA Sums ==
  ASSUME NEW m \in Nat, NEW n \in Nat, NEW a \in Nat, NEW b \in Nat, NEW c \in Nat, NEW d \in Nat, NEW e \in Nat,
         m + a + d = n + c + e, n = a + b + d
  PROVE  m = c + b + e
OBVIOUS

\* Where the count and what it counts move alike, it stays exact.
LEMMA CountMoves ==
  ASSUME Typed, Typed', CountIsExact, NEW t \in Threads, Goes(t), NEW p \in Pages,
         page'[p].count + Size(page[p].mask) + OwnExtra(th[t], p)
           = page[p].count + Size(page'[p].mask) + OwnExtra(th'[t], p)
  PROVE  page'[p].count = Cardinality(Holders(p)')
<1>0. /\ page[p].mask \in SUBSET Slots /\ page'[p].mask \in SUBSET Slots
      /\ th \in [Threads -> Locals] /\ th' \in [Threads -> Locals]
      /\ page[p].count \in Nat /\ page'[p].count \in Nat
  BY DEF Typed, Headers
<1> DEFINE a == Size(page[p].mask)
           b == Size(OtherHolders(t, th, p))
           c == Size(page'[p].mask)
<1>1. a \in Nat /\ b \in Nat /\ Size(HoldersOf(page[p].mask, th, p)) = a + b + OwnExtra(th[t], p)
      /\ Size(Extra(th[t])) \in Nat
  BY <1>0, SizeOfHolders DEF OwnExtra
<1>2. /\ c \in Nat /\ Size(OtherHolders(t, th', p)) = b /\ Size(Extra(th'[t])) \in Nat
      /\ Size(HoldersOf(page'[p].mask, th', p)) = c + b + OwnExtra(th'[t], p)
  BY <1>0, SizeOfHolders, OthersStay DEF OwnExtra
<1>3. page[p].count = a + b + OwnExtra(th[t], p)
  BY <1>1 DEF CountIsExact, Holders, Size
<1>4. OwnExtra(th[t], p) \in Nat /\ OwnExtra(th'[t], p) \in Nat
  BY <1>1, <1>2 DEF OwnExtra
<1>5. page'[p].count = c + b + OwnExtra(th'[t], p)
  BY <1>0, <1>1, <1>2, <1>3, <1>4, Sums
<1> QED
  BY <1>2, <1>5 DEF Holders, Size

\* The sizes of what a mask gains and loses.
LEMMA SizeOfGain ==
  ASSUME NEW A \in SUBSET Slots, NEW B \in SUBSET Slots, A \cap B = {}
  PROVE  Size(A) \in Nat /\ Size(B) \in Nat /\ Size(A \cup B) = Size(A) + Size(B)
BY SizeOfSlots, SizeOfParts

LEMMA SizeOfLoss ==
  ASSUME NEW A \in SUBSET Slots, NEW B \in SUBSET A
  PROVE  Size(B) \in Nat /\ Size(A \ B) \in Nat /\ Size(A) = Size(A \ B) + Size(B)
<1>1. (A \ B) \cup B = A /\ A \ B \in SUBSET Slots /\ B \in SUBSET Slots /\ (A \ B) \cap B = {}
  OBVIOUS
<1> QED
  BY <1>1, SizeOfGain

\* What a step counts is what it adds to the mask and to what the thread has.
LEMMA StepSums ==
  ASSUME Typed, Typed', PlacesAreRight, FreshIsMissing, WipedIsThere, NEW t \in Threads, Step(t)
  PROVE  \A p \in Pages :
           page'[p].count + Size(page[p].mask) + OwnExtra(th[t], p)
             = page[p].count + Size(page'[p].mask) + OwnExtra(th'[t], p)
<1> SUFFICES ASSUME NEW p \in Pages
             PROVE  page'[p].count + Size(page[p].mask) + OwnExtra(th[t], p)
                      = page[p].count + Size(page'[p].mask) + OwnExtra(th'[t], p)
  OBVIOUS
<1> DEFINE l == th[t]
           m == th'[t]
           q == page[p].mask
<1>0. /\ l \in Locals /\ Place(l) /\ Goes(t) /\ Flow(l, m) /\ l.pc # "idle" /\ HeadersStay(t)
      /\ page \in [Pages -> Headers] /\ m \in Locals
      /\ q \in SUBSET Slots /\ page'[p].mask \in SUBSET Slots /\ page[p].count \in Nat /\ page'[p].count \in Nat
      /\ Size(q) \in Nat /\ Size(page'[p].mask) \in Nat /\ l.slots \in SUBSET Slots /\ l.left \in SUBSET Slots
      /\ Size(l.slots) \in Nat /\ Size(l.left) \in Nat /\ Size({}) = 0
  BY StepShares, StepGoes, SizeOfSlots, Fields DEF Typed, PlacesAreRight, Shares, Goes, Flow, Headers
<1>1. m.page = l.page \/ (m = Idle /\ Extra(m) = {} /\ m.page = None)
  <2>1. Idle.page = None
    BY DEF Idle
  <2> QED
    BY <1>0, <2>1, FlowBecomes, IdleCounts
<1>2. p # None
  BY ColumnAssumption
<1>3. /\ OwnExtra(m, p) = IF l.page = p THEN Size(Extra(m)) ELSE 0
      /\ OwnExtra(l, p) = IF l.page = p THEN Size(Extra(l)) ELSE 0
      /\ Size(Extra(l)) \in Nat /\ Size(Extra(m)) \in Nat
  BY <1>0, <1>1, <1>2, ExtraAreSlots, SizeOfSlots DEF OwnExtra
<1>4. CASE p # l.page
  BY <1>0, <1>3, <1>4 DEF HeadersStay
<1>5. CASE l.pc \notin {"occupy", "construct", "setMask", "unmask", "wipe", "forsake", "starting"}
  <2>1. Extra(m) = Extra(l)
    BY <1>0, <1>5, FlowExtra
  <2> QED
    BY <1>0, <1>3, <1>5, <2>1 DEF HeadersStay
<1>6. CASE p = l.page /\ Occupy(t)
  <2>1. l.pc = "occupy" /\ page'[p].count = page[p].count + Size(l.slots) /\ page'[p].mask = q
    BY <1>0, <1>6 DEF Occupy, Move, Headers, Size
  <2>2. Extra(l) = {} /\ Extra(m) = l.slots
    BY <1>0, <2>1 DEF Flow, AddFlow, Went, Extra, EarlyPcs, EndPcs, Coming
  <2> QED
    BY <1>0, <1>3, <1>6, <2>1, <2>2
<1>7. CASE p = l.page /\ (Construct(t) \/ ConstructThrows(t))
  <2>1. l.pc = "construct" /\ l.op # "apply" /\ page' = page
    BY <1>7 DEF Construct, ConstructThrows, Move
  <2>2. Extra(l) = l.slots /\ Extra(m) = l.slots
    BY <1>0, <2>1 DEF Flow, AddFlow, Went, Extra, EarlyPcs, EndPcs, Coming
  <2> QED
    BY <1>0, <1>3, <1>7, <2>1, <2>2
<1>8. ASSUME p = l.page, NEW made \in SUBSET Slots, EmplaceCounted(t, made)
      PROVE  page'[p].count + Size(q) + OwnExtra(l, p) = page[p].count + Size(page'[p].mask) + OwnExtra(m, p)
  <2>1. l.pc = "construct" /\ made \subseteq l.slots /\ made \cap q = {}
    BY <1>8 DEF EmplaceCounted, Move, Mine
  <2>2. page'[p].mask = q \cup made /\ page'[p].count = page[p].count
    BY <1>0, <1>8 DEF EmplaceCounted, Headers
  <2>3. Extra(l) = l.slots /\ Extra(m) = l.slots \ made
    <3>1. Extra(l) = l.slots
      BY <2>1 DEF Extra
    <3>2. CASE l.slots \ made = {}
      <4>1. m = Idle
        BY <1>0, <1>8, <3>2 DEF EmplaceCounted, Move, Typed
      <4> QED
        BY <3>1, <3>2, <4>1, IdleCounts
    <3>3. CASE l.slots \ made # {}
      <4>1. m = [l EXCEPT !.pc = "forsake", !.left = l.slots \ made, !.ret = "idle"]
        BY <1>0, <1>8, <3>3 DEF EmplaceCounted, Move, Typed, Locals
      <4>2. m.pc = "forsake" /\ m.left = l.slots \ made
        BY <1>0, <4>1 DEF Locals
      <4> QED
        BY <3>1, <4>2 DEF Extra, EarlyPcs, EndPcs
    <3> QED
      BY <3>2, <3>3
  <2>4. Size(q \cup made) = Size(q) + Size(made) /\ Size(made) \in Nat
    BY <1>0, <2>1, SizeOfGain
  <2>5. Size(l.slots) = Size(l.slots \ made) + Size(made) /\ Size(l.slots \ made) \in Nat
    BY <1>0, <2>1, SizeOfLoss
  <2> QED
    BY <1>0, <1>3, <1>8, <2>2, <2>3, <2>4, <2>5
<1>9. CASE p = l.page /\ SetMask(t)
  <2> DEFINE here == l.left \ Later(l)
  <2>1. l.pc = "setMask" /\ On(l, m, "lookWord")
    BY <1>9, GotoFacts DEF SetMask
  <2>2. page'[p].mask = q \cup here /\ page'[p].count = page[p].count
    BY <1>0, <1>9 DEF SetMask, Headers, Later
  <2>3. Extra(l) = l.left /\ Extra(m) = Later(l)
    BY <2>1 DEF On, Went, Extra, EarlyPcs, EndPcs, Coming, Later
  <2>4. here \cap q = {} /\ Later(l) \subseteq l.left
    BY <1>2, <1>9, <2>1 DEF FreshIsMissing, Missing, Coming, Later
  <2>5. Size(q \cup here) = Size(q) + Size(here) /\ Size(here) \in Nat
    BY <1>0, <2>4, SizeOfGain
  <2>6. Size(l.left) = Size(here) + Size(Later(l)) /\ Size(Later(l)) \in Nat
    BY <1>0, <2>4, SizeOfLoss
  <2> QED
    BY <1>0, <1>3, <1>9, <2>2, <2>3, <2>5, <2>6
<1>10. CASE p = l.page /\ Unmask(t)
  <2>1. l.pc = "unmask" /\ l.op \in Erasers
    BY <1>0, <1>10 DEF Unmask, Move, Place
  <2>2. PICK one \in Slots : l.slots = {one}
    BY <1>0, <2>1 DEF Place, Erasers
  <2>3. Has(t) <=> one \in q
    BY <1>10, <2>2, SlotIsIt DEF Has, Mine
  <2>4. page'[p].mask = q \ l.slots /\ page'[p].count = page[p].count
    BY <1>0, <1>10 DEF Unmask, Headers
  <2>5. Extra(l) = {}
    BY <2>1 DEF Extra, EarlyPcs, EndPcs, Coming
  <2>6. CASE ~Has(t)
    <3>1. Went(l, m, Finish(t), {}, l.ret, l.victim)
      BY <1>0, <1>10, <2>6 DEF Unmask, Move, Went, Locals, Typed, Finish
    <3>2. Extra(m) = {}
      BY <3>1, IdleCounts DEF Went, Finish, Extra, EarlyPcs, EndPcs, Coming
    <3>3. q \ l.slots = q
      BY <2>2, <2>3, <2>6
    <3> QED
      BY <1>0, <1>3, <1>10, <2>4, <2>5, <3>2, <3>3
  <2>7. CASE Has(t)
    <3>1. Went(l, m, IF kind.hooked THEN "hooks" ELSE IF kind.destroys THEN "destroy" ELSE "forsake",
               l.slots, l.ret, l.victim)
      BY <1>0, <1>10, <2>7 DEF Unmask, Move, Went, Locals, Typed
    <3>2. Extra(m) = l.slots
      BY <3>1 DEF Went, Extra, EarlyPcs, EndPcs, Coming
    <3>3. Size(q) = Size(q \ l.slots) + Size(l.slots)
      BY <1>0, <2>2, <2>3, <2>7, SizeOfLoss
    <3> QED
      BY <1>0, <1>3, <1>10, <2>4, <2>5, <3>2, <3>3
  <2> QED
    BY <2>6, <2>7
<1>11. CASE p = l.page /\ WipePage(t)
  <2> DEFINE gone == q \cap l.slots
  <2>1. l.pc = "wipe" /\ page'[p].mask = q \ gone /\ page'[p].count = page[p].count
    BY <1>0, <1>11 DEF WipePage, Mine, Headers, Move
  <2>2. m = [l EXCEPT !.pc = "forsake", !.left = gone]
    BY <1>0, <1>11 DEF WipePage, Move, Mine, Typed
  <2>3. m.pc = "forsake" /\ m.left = gone
    BY <1>0, <2>2 DEF Locals
  <2>4. Extra(l) = {} /\ Extra(m) = gone
    BY <2>1, <2>3 DEF Extra, EarlyPcs, EndPcs, Coming
  <2>5. Size(q) = Size(q \ gone) + Size(gone) /\ Size(gone) \in Nat /\ Size(q \ gone) \in Nat
    BY <1>0, SizeOfLoss
  <2> QED
    BY <1>0, <1>3, <1>11, <2>1, <2>4, <2>5
<1>12. CASE p = l.page /\ WipeIndex(t)
  <2>1. l.pc = "wipe" /\ l.op = "eraseAlone" /\ page'[p].mask = q \ l.slots /\ page'[p].count = page[p].count - 1
    BY <1>0, <1>12 DEF WipeIndex, Mine, Headers, Move
  <2>2. l.slots \subseteq q
    BY <1>12, <2>1 DEF WipedIsThere
  <2>3. Size(l.slots) = 1
    <3>1. \E one \in Slots : l.slots = {one}
      BY <1>0, <2>1 DEF Place
    <3> QED
      BY <3>1, FS_Singleton DEF Size
  <2>4. Extra(l) = {}
    BY <2>1 DEF Extra, EarlyPcs, EndPcs, Coming
  <2>5. m = Idle \/ m.pc \in {"park", "vacate"}
    BY <1>0, <2>1 DEF Flow, RemoveFlow, Went
  <2>6. Extra(m) = {}
    BY <2>5, IdleCounts DEF Extra, EarlyPcs, EndPcs, Coming
  <2>7. Size(q) = Size(q \ l.slots) + Size(l.slots)
    BY <1>0, <2>2, SizeOfLoss
  <2> QED
    BY <1>0, <1>3, <1>12, <2>1, <2>3, <2>4, <2>6, <2>7
<1>13. CASE p = l.page /\ Forsake(t)
  <2>1. l.pc = "forsake" /\ page'[p].mask = q /\ page'[p].count = page[p].count - Size(l.left)
    BY <1>0, <1>13 DEF Forsake, Goto, Mine, Headers, Move, Size
  <2>2. m = Idle \/ m.pc = "emptied" \/ (m.pc = "release" /\ m.op = l.op /\ l.op # "erase")
    BY <1>0, <2>1 DEF Flow, RemoveFlow, On, Went, Place, EmptyPcs
  <2>3. Extra(l) = l.left /\ Extra(m) = {}
    BY <2>1, <2>2, IdleCounts DEF Extra, EarlyPcs, EndPcs, Coming
  <2> QED
    BY <1>0, <1>3, <1>13, <2>1, <2>3
<1>14. CASE p = l.page /\ (AlreadyStarted(t) \/ StartPage(t))
  <2>1. l.pc = "starting" /\ page' = page
    BY <1>14 DEF AlreadyStarted, StartPage, Goto, Move
  <2>2. m.slots = l.slots /\ (m.pc \in {"region", "count"} \/ (m.pc = "unlock" /\ m.ret = "construct"))
    <3>1. CASE AlreadyStarted(t)
      BY <1>0, <3>1 DEF AlreadyStarted, Move, Typed, Locals
    <3>2. CASE StartPage(t)
      BY <1>0, <3>2 DEF StartPage, Goto, Move, Typed, Locals
    <3> QED
      BY <1>14, <3>1, <3>2
  <2>3. Extra(l) = l.slots /\ Extra(m) = l.slots
    BY <2>1, <2>2 DEF Extra, EarlyPcs, EndPcs
  <2> QED
    BY <1>0, <1>3, <1>14, <2>1, <2>3
<1>15. CASE p = l.page /\ StartThrows(t)
  <2>1. l.pc = "starting" /\ page'[p].mask = q /\ page'[p].count = page[p].count - Size(l.slots)
    BY <1>0, <1>15 DEF StartThrows, Move, Headers, Size
  <2>2. m.pc = "unlock" /\ m.ret = Finish(t)
    BY <1>0, <1>15 DEF StartThrows, Move, Typed, Locals
  <2>3. Extra(l) = l.slots /\ Extra(m) = {}
    BY <2>1, <2>2 DEF Extra, EarlyPcs, EndPcs, Coming, Finish
  <2> QED
    BY <1>0, <1>3, <1>15, <2>1, <2>3
<1> QED
  BY <1>4, <1>5, <1>6, <1>7, <1>8, <1>9, <1>10, <1>11, <1>12, <1>13, <1>14, <1>15, StepByPlace

\* A step keeps the counts exact.
LEMMA StepCount ==
  ASSUME Typed, Typed', PlacesAreRight, FreshIsMissing, WipedIsThere, CountIsExact, NEW t \in Threads, Step(t)
  PROVE  CountIsExact'
<1>1. Goes(t)
  BY StepGoes
<1>2. \A p \in Pages : page'[p].count = Cardinality(Holders(p)')
  BY <1>1, StepSums, CountMoves
<1> QED
  BY <1>2 DEF CountIsExact

-----------------------------------------------------------------------------
(* The summary.                                                            *)

\* The thread at l has yet to see to a word of the summary.
DueBy(l, p, w) ==
  l.page = p /\
    \/ l.pc \in {"lookWord", "markWord"} /\ Lowest(WordsOf(l.left)) = w
    \/ l.pc = "recount"
    \/ l.pc = "rebuild" /\ w \in WordsOf(l.left)

\* A thread that is woken still has its word of the summary to see to.
LEMMA AlikeDue ==
  ASSUME NEW l, NEW m, Alike(l, m), NEW p, NEW w, DueBy(l, p, w)
  PROVE  DueBy(m, p, w)
BY DEF Alike, On, Went, DueBy

\* The mask of a page has only slots the page has.
LEMMA MaskIsOfPage ==
  ASSUME Typed, AliveTells, NEW p \in Pages
  PROVE  page[p].mask \subseteq SlotsOf(p)
<1> SUFFICES ASSUME NEW s \in page[p].mask
             PROVE  s \in SlotsOf(p)
  OBVIOUS
<1>1. s \in Slots
  BY DEF Typed, Headers
<1>2. <<p, s>> \in alive
  BY <1>1 DEF AliveTells
<1>3. <<p, s>> \in Indices
  BY <1>2 DEF Typed
<1> QED
  BY <1>3 DEF SlotsOf

\* A word of some slots is the word of one of them.
LEMMA WordIsOne ==
  ASSUME NEW A, NEW w
  PROVE  w \in WordsOf(A) <=> \E s \in A : Word(s) = w
BY DEF WordsOf

\* The word a step sees to, and those it leaves for later.
LEMMA LaterWords ==
  ASSUME NEW l \in Locals, NEW w \in WordsOf(l.left)
  PROVE  w = Lowest(WordsOf(l.left)) \/ w \in WordsOf(Later(l))
BY DEF WordsOf, Later

\* The last component of a page that has it to itself.
LEMMA LastOfPage ==
  ASSUME Typed, PlacesAreRight, CallsAreApart, WipedIsThere, CountIsExact, NEW t \in Threads,
         th[t].pc = "wipe", th[t].op = "eraseAlone", page[th[t].page].count = 1
  PROVE  page[th[t].page].mask \subseteq th[t].slots
<1> DEFINE l == th[t]
           p == l.page
<1>1. p \in Pages /\ page[p].mask \in SUBSET Slots /\ th \in [Threads -> Locals]
  BY CallHasPage DEF Typed
<1>2. PICK one \in Slots : l.slots = {one}
  BY DEF PlacesAreRight, Place
<1>3. <<None, one>> \in Holders(p)
  BY <1>2 DEF WipedIsThere, Holders, HoldersOf
<1>4. \E h : Holders(p) = {h}
  BY <1>1, HoldersAreFinite, FS_Singleton DEF CountIsExact, Holders
<1>5. \A s \in page[p].mask : <<None, s>> \in Holders(p)
  BY DEF Holders, HoldersOf
<1>6. \A s \in page[p].mask : <<None, s>> = <<None, one>>
  BY <1>3, <1>4, <1>5
<1> QED
  BY <1>2, <1>6

\* A step misses no word: whoever clears the summary looks at the count again.
LEMMA StepLoops ==
  ASSUME Typed, Typed', PlacesAreRight, CallsAreApart, AliveTells, WipedIsThere, CountIsExact, LoopsMissNothing,
         NEW t \in Threads, Step(t)
  PROVE  LoopsMissNothing'
<1> DEFINE l == th[t]
           m == th'[t]
<1>0. /\ l \in Locals /\ Place(l) /\ Goes(t) /\ Flow(l, m) /\ l.pc # "idle" /\ HeadersStay(t)
      /\ page \in [Pages -> Headers] /\ th \in [Threads -> Locals]
  BY StepShares, StepGoes DEF Typed, PlacesAreRight, Shares, Goes, Flow
<1> SUFFICES ASSUME NEW p \in Pages, NEW w \in WordsOf(page'[p].mask)
             PROVE  w \in page'[p].summary \/ \E u \in Threads : DueBy(th'[u], p, w)
  BY DEF LoopsMissNothing, SummaryIsDue, DueBy
<1> DEFINE q == page[p].mask
<1>1. w \in WordsOf(q) => w \in page[p].summary \/ \E u \in Threads : DueBy(th[u], p, w)
  BY DEF LoopsMissNothing, SummaryIsDue, DueBy
<1>2. \A u \in Threads : u # t /\ DueBy(th[u], p, w) => DueBy(th'[u], p, w)
  BY <1>0, AlikeDue DEF Goes
<1>3. page[p].mask \in SUBSET Slots /\ page'[p].mask \in SUBSET Slots
  BY DEF Typed, Headers
<1>4. page'[p].mask \subseteq q => w \in WordsOf(q)
  BY WordIsOne
\* It is enough to look at what the step is at.
<1>5. ASSUME page'[p].mask \subseteq q, page[p].summary \subseteq page'[p].summary, ~DueBy(l, p, w)
      PROVE  w \in page'[p].summary \/ \E u \in Threads : DueBy(th'[u], p, w)
  BY <1>1, <1>2, <1>4, <1>5
<1>6. CASE p # l.page
  BY <1>0, <1>5, <1>6 DEF HeadersStay, DueBy
<1>7. CASE p = l.page /\ l.pc \notin {"construct", "setMask", "lookWord", "markWord", "wipe", "emptied", "recount", "rebuild"}
  <2>1. ~DueBy(l, p, w)
    BY <1>7 DEF DueBy
  <2>2. page'[p].summary = page[p].summary
    BY <1>0, <1>7 DEF HeadersStay
  <2>3. page'[p].mask \subseteq q
    <3>1. Gain(l) = {}
      BY <1>7 DEF Gain
    <3> QED
      BY <1>7, <3>1, MaskFacts
  <2> QED
    BY <1>5, <2>1, <2>2, <2>3
<1>8. CASE p = l.page /\ (Construct(t) \/ ConstructThrows(t))
  <2>1. page' = page /\ l.pc = "construct"
    BY <1>8 DEF Construct, ConstructThrows, Move
  <2> QED
    BY <1>5, <2>1 DEF DueBy
<1>9. ASSUME p = l.page, NEW made \in SUBSET Slots, EmplaceCounted(t, made)
      PROVE  w \in page'[p].summary \/ \E u \in Threads : DueBy(th'[u], p, w)
  <2>1. l.pc = "construct" /\ page'[p].mask = q \cup made /\ page'[p].summary = page[p].summary \cup WordsOf(made)
    BY <1>0, <1>9 DEF EmplaceCounted, Move, Headers
  <2>2. w \in WordsOf(q) \/ w \in WordsOf(made)
    BY <2>1, WordIsOne
  <2> QED
    BY <1>1, <1>2, <2>1, <2>2 DEF DueBy
<1>10. CASE p = l.page /\ SetMask(t)
  <2>1. l.pc = "setMask" /\ On(l, m, "lookWord")
    BY <1>10, GotoFacts DEF SetMask
  <2>2. page'[p].mask = q \cup (l.left \ Later(l)) /\ page'[p].summary = page[p].summary
    BY <1>0, <1>10 DEF SetMask, Headers, Later
  <2>3. CASE w \in WordsOf(q)
    BY <1>1, <1>2, <2>1, <2>2, <2>3 DEF DueBy
  <2>4. CASE w \notin WordsOf(q)
    <3>1. PICK s \in l.left \ Later(l) : Word(s) = w
      BY <2>2, <2>4, WordIsOne
    <3>2. w = Lowest(WordsOf(l.left))
      BY <3>1 DEF Later
    <3> QED
      BY <1>10, <2>1, <3>2 DEF DueBy, On, Went
  <2> QED
    BY <2>3, <2>4
<1>11. CASE p = l.page /\ LookWord(t)
  <2>1. l.pc = "lookWord" /\ page' = page
    BY <1>11 DEF LookWord
  <2>2. CASE Lowest(WordsOf(l.left)) \in page[p].summary
    BY <1>1, <1>2, <1>11, <2>1, <2>2 DEF DueBy
  <2>3. CASE Lowest(WordsOf(l.left)) \notin page[p].summary
    <3>1. On(l, m, "markWord")
      BY <1>11, <2>3, GotoFacts DEF LookWord, Mine
    <3>2. DueBy(l, p, w) => DueBy(m, p, w)
      BY <2>1, <3>1 DEF DueBy, On, Went
    <3> QED
      BY <1>1, <1>2, <2>1, <3>2
  <2> QED
    BY <2>2, <2>3
<1>12. CASE p = l.page /\ MarkWord(t)
  <2>1. l.pc = "markWord" /\ page'[p].mask = q /\ page'[p].summary = page[p].summary \cup {Lowest(WordsOf(l.left))}
    BY <1>0, <1>12 DEF MarkWord, NextWord, Move, Headers
  <2> QED
    BY <1>1, <1>2, <1>12, <2>1 DEF DueBy
<1>13. CASE p = l.page /\ WipePage(t)
  <2> DEFINE gone == q \cap l.slots
  <2>1. l.pc = "wipe" /\ page'[p].mask = q \ gone
        /\ page'[p].summary = page[p].summary \ (WordsOf(gone) \ WordsOf(q \ gone))
    BY <1>0, <1>13 DEF WipePage, Mine, Headers, Move
  <2>2. w \in WordsOf(q)
    BY <1>4, <2>1
  <2> QED
    BY <1>1, <1>2, <2>1, <2>2 DEF DueBy
<1>14. CASE p = l.page /\ WipeIndex(t)
  <2>1. l.pc = "wipe" /\ l.op = "eraseAlone" /\ page'[p].mask = q \ l.slots
        /\ page'[p].summary = IF page[p].count = 1 THEN {} ELSE page[p].summary
    BY <1>0, <1>14 DEF WipeIndex, Mine, Headers, Move
  <2>2. CASE page[p].count = 1
    <3>1. q \subseteq l.slots
      BY <1>14, <2>1, <2>2, LastOfPage
    <3> QED
      BY <2>1, <3>1, WordIsOne
  <2>3. CASE page[p].count # 1
    BY <1>5, <2>1, <2>3 DEF DueBy
  <2> QED
    BY <2>2, <2>3
<1>15. CASE p = l.page /\ Emptied(t)
  <2>1. On(l, m, "recount")
    BY <1>15, GotoFacts DEF Emptied
  <2> QED
    BY <1>15, <2>1 DEF DueBy, On, Went
<1>16. CASE p = l.page /\ Recount(t)
  <2>1. l.pc = "recount" /\ page' = page
    BY <1>16 DEF Recount, Move
  <2>2. CASE page[p].count # 0
    <3>1. m = [l EXCEPT !.pc = "rebuild", !.left = SlotsOf(l.page), !.victim = l.page]
      BY <1>0, <1>16, <2>2 DEF Recount, Move, Mine, Typed, Locals
    <3>2. m.pc = "rebuild" /\ m.left = SlotsOf(p) /\ m.page = p
      BY <1>0, <1>16, <3>1 DEF Locals
    <3>3. w \in WordsOf(SlotsOf(p))
      BY <2>1, MaskIsOfPage, WordIsOne
    <3> QED
      BY <3>2, <3>3 DEF DueBy
  <2>3. CASE page[p].count = 0
    <3>1. q = {}
      BY <2>3, NothingCounted
    <3> QED
      BY <2>1, <3>1, WordIsOne
  <2> QED
    BY <2>2, <2>3
<1>17. CASE p = l.page /\ Rebuild(t)
  <2>1. l.pc = "rebuild" /\ page'[p].mask = q
        /\ page'[p].summary = page[p].summary \cup ({Lowest(WordsOf(l.left))} \cap WordsOf(q))
    BY <1>0, <1>17 DEF Rebuild, Move, Mine, Headers
  <2>2. Later(l) # {} => m.pc = "rebuild" /\ m.left = Later(l) /\ m.page = p
    BY <1>0, <1>17, <2>1 DEF Flow, RemoveFlow, Went
  <2>3. DueBy(l, p, w) => w = Lowest(WordsOf(l.left)) \/ w \in WordsOf(Later(l))
    BY <1>0, <2>1, LaterWords DEF DueBy
  <2>4. w \in WordsOf(Later(l)) => DueBy(m, p, w)
    BY <2>2, WordIsOne DEF DueBy
  <2> QED
    BY <1>1, <1>2, <2>1, <2>3, <2>4
<1> QED
  BY <1>6, <1>7, <1>8, <1>9, <1>10, <1>11, <1>12, <1>13, <1>14, <1>15, <1>16, <1>17, StepByPlace

-----------------------------------------------------------------------------
(* The memory of a page. *)

\* The page a thread is at.
LEMMA VictimIsPage ==
  ASSUME NEW l \in Locals, Place(l),
         l.pc \in LockedPcs \cup SparePcs \cup EndPcs \cup EarlyPcs
  PROVE  l.victim \in Pages
<1>1. CASE l.pc \in SparePcs \cup VacatePcs \cup EndPcs
  BY <1>1 DEF Place, Locals
<1>2. CASE l.pc \in EarlyPcs
  BY <1>2 DEF Place, Locals, EarlyPcs, MakingPcs, Adders
<1> QED
  BY <1>1, <1>2 DEF LockedPcs, EarlyPcs, EndPcs

\* Only start and vacate take the lock of a page, and unlock gives it back.
LEMMA FlowLocked ==
  ASSUME NEW l \in Locals, NEW m, Place(l), Flow(l, m), l.pc \notin {"start", "vacate", "unlock"}
  PROVE  /\ m.pc \in LockedPcs <=> l.pc \in LockedPcs
         /\ l.pc \in LockedPcs => m.victim = l.victim
<1> USE DEF Flow, On, Went, Idle, Finished, Place, LockedPcs, VacatePcs
<1>1. CASE l.pc \in BitPcs \cup {"hooks"}
  BY <1>1 DEF BitFlow, BitPcs
<1>2. CASE l.pc \in {"occupy", "occupied", "construct", "sleepStart"} \cup MaskPcs
  BY <1>2 DEF AddFlow, MemoryFlow, MaskPcs
<1>3. CASE l.pc \in {"starting", "region", "touch", "count"}
  BY <1>3 DEF MemoryFlow
<1>4. CASE l.pc \in {"unmask", "destroy", "wipe"} \cup EmptyPcs
  BY <1>4 DEF RemoveFlow, EmptyPcs
<1>5. CASE l.pc \in SparePcs \cup {"trim"}
  <2>1. l.ret \in {"idle", "release", "trim"} \/ l.pc = "trim"
    BY <1>5
  <2> QED
    BY <1>5, <2>1 DEF SparePcs, SpareFlow, MemoryFlow
<1>6. CASE l.pc \in VacatePcs
  BY <1>6 DEF MemoryFlow
<1>7. CASE l.pc = "notify"
  <2>1. l.ret \in {"idle", "release", "construct", "trim"}
    BY DEF Locals
  <2> QED
    BY <1>7, <2>1 DEF MemoryFlow
<1> QED
  BY <1>1, <1>2, <1>3, <1>4, <1>5, <1>6, <1>7 DEF Locals, Pcs, MakingPcs, EndPcs

LEMMA AlikeLocked ==
  ASSUME NEW l, NEW m, Alike(l, m)
  PROVE  /\ m.pc \in LockedPcs <=> l.pc \in LockedPcs
         /\ m.pc \in LockedPcs => m.pc = l.pc
BY DEF Alike, On, Went, LockedPcs, VacatePcs

\* The busy of a page is who is between the two.
LEMMA StepBusy ==
  ASSUME Typed, Typed', PlacesAreRight, BusyTells, NEW t \in Threads, Step(t)
  PROVE  BusyTells'
<1> DEFINE l == th[t]
           m == th'[t]
<1>0. /\ l \in Locals /\ Place(l) /\ Goes(t) /\ Flow(l, m) /\ l.pc # "idle" /\ HeadersStay(t)
      /\ page \in [Pages -> Headers] /\ page' \in [Pages -> Headers] /\ th \in [Threads -> Locals]
      /\ None \notin Threads
  BY StepShares, StepGoes, ColumnAssumption DEF Typed, PlacesAreRight, Shares, Goes, Flow
<1>1. \A u \in Threads : u # t => /\ th'[u].victim = th[u].victim
                                  /\ th'[u].pc \in LockedPcs <=> th[u].pc \in LockedPcs
  BY <1>0, AlikeHolds, AlikeLocked DEF Goes
<1>2. \A u \in Threads : th[u].pc \in LockedPcs => th[u].victim \in Pages
  BY VictimIsPage DEF Typed, PlacesAreRight, LockedPcs
<1>3. CASE /\ \A p \in Pages : page'[p].busy = page[p].busy
           /\ m.pc \in LockedPcs <=> l.pc \in LockedPcs
           /\ l.pc \in LockedPcs => m.victim = l.victim
  <2>1. \A u \in Threads : /\ th'[u].pc \in LockedPcs <=> th[u].pc \in LockedPcs
                           /\ th[u].pc \in LockedPcs => th'[u].victim = th[u].victim
    BY <1>1, <1>3
  <2>2. \A p \in Pages : page[p].busy \in Threads \cup {None}
    BY <1>0 DEF Headers
  <2> QED
    BY <1>2, <1>3, <2>1, <2>2 DEF BusyTells
<1>4. CASE l.pc \notin {"start", "vacate", "unlock"}
  BY <1>0, <1>3, <1>4, FlowLocked DEF HeadersStay
<1>5. ASSUME NEW at \in {"start", "vacate"}, Lock(t, at)
      PROVE  BusyTells'
  <2>1. l.pc = at /\ l.pc \notin LockedPcs /\ l.victim \in Pages
    BY <1>0, <1>5, VictimIsPage DEF Lock, Goto, Move, LockedPcs, VacatePcs, EarlyPcs, SparePcs
  <2>2. m.pc \in LockedPcs /\ m.victim = l.victim
    BY <1>0, <1>5, GotoFacts DEF Lock, Locked, On, Went, LockedPcs, VacatePcs
  <2>3. page[l.victim].busy = None
        /\ \A p \in Pages : page'[p].busy = IF p = l.victim THEN t ELSE page[p].busy
    BY <1>0, <1>5 DEF Lock, Headers
  <2>4. \A u \in Threads : th[u].pc \in LockedPcs => th[u].victim # l.victim
    BY <1>0, <2>3 DEF BusyTells
  <2>5. \A p \in Pages : page[p].busy \in Threads \cup {None}
    BY <1>0 DEF Headers
  <2>6. ASSUME NEW u \in Threads, th'[u].pc \in LockedPcs
        PROVE  page'[th'[u].victim].busy = u
    BY <1>1, <1>2, <2>1, <2>2, <2>3, <2>4, <2>6 DEF BusyTells
  <2>7. ASSUME NEW p \in Pages, page'[p].busy # None
        PROVE  th'[page'[p].busy].pc \in LockedPcs /\ th'[page'[p].busy].victim = p
    <3>1. CASE p = l.victim
      BY <2>2, <2>3, <3>1
    <3>2. CASE p # l.victim
      <4>1. page[p].busy # None /\ page[p].busy \in Threads /\ page'[p].busy = page[p].busy
        BY <2>3, <2>5, <2>7, <3>2
      <4>2. th[page[p].busy].pc \in LockedPcs /\ th[page[p].busy].victim = p
        BY <4>1 DEF BusyTells
      <4> QED
        BY <1>1, <2>1, <4>1, <4>2
    <3> QED
      BY <3>1, <3>2
  <2> QED
    BY <2>6, <2>7 DEF BusyTells
<1>6. ASSUME NEW at \in {"start", "vacate"}, Sleep(t, at)
      PROVE  BusyTells'
  <2>1. l.pc = at /\ page' = page
    BY <1>6 DEF Sleep, Goto, Move
  <2>2. On(l, m, Sleeping[at])
    BY <1>6, GotoFacts DEF Sleep
  <2>3. m.pc \notin LockedPcs /\ l.pc \notin LockedPcs
    BY <2>1, <2>2 DEF Sleeping, On, Went, LockedPcs, VacatePcs
  <2> QED
    BY <1>3, <2>1, <2>3
<1>7. CASE Unlock(t)
  <2>1. l.pc = "unlock" /\ l.victim \in Pages /\ page[l.victim].busy = t
    BY <1>0, <1>2, <1>7 DEF Unlock, Goto, Move, LockedPcs, BusyTells
  <2>2. m.pc \notin LockedPcs
    BY <1>7, GotoFacts DEF Unlock, On, Went, LockedPcs, VacatePcs
  <2>3. \A p \in Pages : page'[p].busy = IF p = l.victim THEN None ELSE page[p].busy
    BY <1>0, <1>7 DEF Unlock, Headers
  <2>4. \A p \in Pages : page[p].busy \in Threads \cup {None}
    BY <1>0 DEF Headers
  <2>5. ASSUME NEW u \in Threads, th'[u].pc \in LockedPcs
        PROVE  page'[th'[u].victim].busy = u
    <3>1. u # t /\ th[u].pc \in LockedPcs /\ th'[u].victim = th[u].victim /\ th[u].victim \in Pages
      BY <1>1, <1>2, <2>2, <2>5
    <3>2. page[th[u].victim].busy = u
      BY <3>1 DEF BusyTells
    <3> QED
      BY <2>1, <2>3, <3>1, <3>2
  <2>6. ASSUME NEW p \in Pages, page'[p].busy # None
        PROVE  th'[page'[p].busy].pc \in LockedPcs /\ th'[page'[p].busy].victim = p
    <3>1. p # l.victim /\ page[p].busy # None /\ page[p].busy \in Threads /\ page'[p].busy = page[p].busy
      BY <2>3, <2>4, <2>6
    <3>2. th[page[p].busy].pc \in LockedPcs /\ th[page[p].busy].victim = p
      BY <3>1 DEF BusyTells
    <3> QED
      BY <1>1, <3>1, <3>2
  <2> QED
    BY <2>5, <2>6 DEF BusyTells
<1> QED
  BY <1>4, <1>5, <1>6, <1>7, StepByPlace

\* Those who have a page locked are one.
LEMMA LockedAlone ==
  ASSUME Typed, PlacesAreRight, BusyTells, NEW t \in Threads, NEW u \in Threads, t # u,
         th[t].pc \in LockedPcs, th[u].pc \in LockedPcs
  PROVE  th[u].victim # th[t].victim
BY DEF BusyTells

\* Which pages are half started or half gone changes in few places.
LEMMA AlikeHalf ==
  ASSUME NEW l, NEW m, Alike(l, m), NEW p
  PROVE  (Half(m, p) <=> Half(l, p)) /\ (Gone(m, p) <=> Gone(l, p))
BY DEF Alike, On, Went, Half, Gone, HalfPcs, GonePcs

LEMMA FlowHalf ==
  ASSUME NEW l \in Locals, NEW m, Place(l), Flow(l, m), NEW p,
         l.pc \notin {"starting", "vacating", "count", "restart", "decommit"}
  PROVE  (Half(m, p) <=> Half(l, p)) /\ (Gone(m, p) <=> Gone(l, p))
<1> USE DEF Half, Gone, HalfPcs, GonePcs
<1>1. CASE l.pc \in {"region", "touch", "lookCount", "lookHeld"}
  BY <1>1 DEF Flow, MemoryFlow, On, Went
<1>2. CASE l.pc \notin {"region", "touch", "lookCount", "lookHeld"}
  <2>1. l.pc \notin HalfPcs
    BY <1>2
  <2>2. m.pc \notin HalfPcs
    <3>1. CASE l.pc \in {"start", "vacate", "unlock"}
      BY <3>1 DEF Flow, MemoryFlow, On, Went
    <3>2. CASE l.pc \notin {"start", "vacate", "unlock"}
      <4>1. l.pc \notin LockedPcs
        BY <1>2, <3>2 DEF LockedPcs, VacatePcs
      <4> QED
        BY <3>2, <4>1, FlowLocked DEF LockedPcs, VacatePcs
    <3> QED
      BY <3>1, <3>2
  <2> QED
    BY <2>1, <2>2
<1> QED
  BY <1>1, <1>2

\* What a step makes of the pages that have memory.
LEMMA LiveSteps ==
  ASSUME Typed, Typed', PlacesAreRight, BusyTells, StartedTells, NEW t \in Threads, Step(t)
  PROVE  /\ th[t].pc \notin {"count", "decommit"} => \A p \in Pages : Live(p)' <=> Live(p)
         /\ th[t].pc = "count" => /\ ~Live(th[t].victim)
                                  /\ \A p \in Pages : Live(p)' <=> Live(p) \/ p = th[t].victim
         /\ th[t].pc = "decommit" => /\ Live(th[t].victim)
                                     /\ \A p \in Pages : Live(p)' <=> Live(p) /\ p # th[t].victim
<1> DEFINE l == th[t]
           m == th'[t]
           OtherGone(p) == \E u \in Threads : u # t /\ Gone(th[u], p)
<1>0. /\ l \in Locals /\ Place(l) /\ Goes(t) /\ Flow(l, m) /\ HeadersStay(t)
      /\ page \in [Pages -> Headers] /\ page' \in [Pages -> Headers]
  BY StepShares, StepGoes DEF Typed, PlacesAreRight, Shares, Goes, Flow
<1>1. \A u \in Threads, p \in Pages : u # t => (Gone(th'[u], p) <=> Gone(th[u], p))
  BY <1>0, AlikeHalf DEF Goes
<1>2. \A p \in Pages : /\ Live(p) <=> page[p].started \/ OtherGone(p) \/ Gone(l, p)
                       /\ Live(p)' <=> page'[p].started \/ OtherGone(p) \/ Gone(m, p)
  BY <1>1 DEF Live
<1>3. l.pc \in LockedPcs => ~OtherGone(l.victim)
  BY LockedAlone DEF Gone, LockedPcs, VacatePcs, GonePcs
<1>4. l.pc \in LockedPcs => l.victim \in Pages
  BY <1>0, VictimIsPage
<1> HIDE DEF OtherGone
<1>5. CASE l.pc \notin {"starting", "vacating", "count", "restart", "decommit"}
  <2>1. \A p \in Pages : page'[p].started = page[p].started /\ (Gone(m, p) <=> Gone(l, p))
    BY <1>0, <1>5, FlowHalf DEF HeadersStay
  <2> QED
    BY <1>2, <1>5, <2>1
<1>6. CASE l.pc = "starting"
  <2>1. m.pc \in {"region", "count", "unlock"}
    BY <1>0, <1>6 DEF Flow, MemoryFlow, On, Went
  <2>2. \A p \in Pages : page'[p].started = page[p].started /\ ~Gone(m, p) /\ ~Gone(l, p)
    BY <1>0, <1>6, <2>1 DEF HeadersStay, Gone, GonePcs
  <2> QED
    BY <1>2, <1>6, <2>2
<1>7. CASE Started(t)
  <2>1. l.pc = "count" /\ \A p \in Pages : page'[p].started = IF p = l.victim THEN TRUE ELSE page[p].started
    BY <1>0, <1>7 DEF Started, Move, Headers
  <2>2. ~page[l.victim].started
    BY <2>1 DEF StartedTells, HalfPcs
  <2>3. \A p \in Pages : ~Gone(m, p) /\ ~Gone(l, p)
    BY <1>0, <2>1 DEF Flow, MemoryFlow, Went, Gone, GonePcs
  <2>4. l.pc \in LockedPcs
    BY <2>1 DEF LockedPcs
  <2> QED
    BY <1>2, <1>3, <1>4, <2>1, <2>2, <2>3, <2>4
<1>8. CASE Unstart(t)
  <2>1. l.pc = "vacating" /\ l.pc \in LockedPcs
        /\ \A p \in Pages : page'[p].started = IF p = l.victim THEN FALSE ELSE page[p].started
    BY <1>0, <1>8 DEF Unstart, Goto, Move, Headers, LockedPcs, VacatePcs
  <2>2. On(l, m, IF page[l.victim].started THEN "lookCount" ELSE "unlock")
    BY <1>8, GotoFacts DEF Unstart
  <2>3. \A p \in Pages : ~Gone(l, p) /\ (Gone(m, p) <=> p = l.victim /\ page[p].started)
    BY <2>1, <2>2 DEF On, Went, Gone, GonePcs
  <2> QED
    BY <1>2, <1>4, <2>1, <2>3
<1>9. CASE Restart(t)
  <2>1. l.pc = "restart" /\ l.pc \in LockedPcs
        /\ \A p \in Pages : page'[p].started = IF p = l.victim THEN TRUE ELSE page[p].started
    BY <1>0, <1>9 DEF Restart, Goto, Move, Headers, LockedPcs, VacatePcs
  <2>2. \A p \in Pages : ~Gone(m, p) /\ (Gone(l, p) <=> p = l.victim)
    BY <1>0, <2>1 DEF Flow, MemoryFlow, On, Went, Gone, GonePcs
  <2> QED
    BY <1>2, <1>4, <2>1, <2>2
<1>10. CASE Decommit(t)
  <2>1. l.pc = "decommit" /\ l.pc \in LockedPcs /\ page' = page
    BY <1>10 DEF Decommit, Goto, Move, LockedPcs, VacatePcs
  <2>2. \A p \in Pages : ~Gone(m, p) /\ (Gone(l, p) <=> p = l.victim)
    BY <1>0, <2>1 DEF Flow, MemoryFlow, On, Went, Gone, GonePcs
  <2>3. ~page[l.victim].started
    BY <2>1 DEF StartedTells, HalfPcs, GonePcs
  <2> QED
    BY <1>2, <1>3, <1>4, <2>1, <2>2, <2>3
<1> QED
  BY <1>5, <1>6, <1>7, <1>8, <1>9, <1>10, StepByPlace

\* A step keeps what the headers say of the memory right.
LEMMA StepStarted ==
  ASSUME Typed, Typed', PlacesAreRight, BusyTells, StartedTells, NEW t \in Threads, Step(t)
  PROVE  StartedTells'
<1> DEFINE l == th[t]
           m == th'[t]
           OtherHalf(p) == \E u \in Threads : u # t /\ Half(th[u], p)
<1>0. /\ l \in Locals /\ Place(l) /\ Goes(t) /\ Flow(l, m) /\ HeadersStay(t) /\ RestStays(t) /\ kind' = kind
      /\ page \in [Pages -> Headers] /\ page' \in [Pages -> Headers] /\ backed \subseteq Pages
  BY StepShares, StepGoes DEF Typed, PlacesAreRight, Shares, RestStays, Goes, Flow
<1>1. \A u \in Threads, p \in Pages : u # t => (Half(th'[u], p) <=> Half(th[u], p))
  BY <1>0, AlikeHalf DEF Goes
<1>2. \A u \in Threads : u # t => /\ th'[u].victim = th[u].victim
                                  /\ th'[u].pc \in HalfPcs => th[u].pc \in HalfPcs
  BY <1>0, AlikeHolds, AlikeLocked DEF Goes, Alike, On, Went, HalfPcs, GonePcs
<1>3. l.pc \in LockedPcs => ~OtherHalf(l.victim)
  BY LockedAlone DEF Half, LockedPcs, VacatePcs, HalfPcs, GonePcs
<1>4. \A u \in Threads : th[u].pc \in LockedPcs => th[u].victim \in Pages
  BY VictimIsPage DEF Typed, PlacesAreRight
<1>5. \A u \in Threads : th[u].pc \in HalfPcs => th[u].pc \in LockedPcs
  BY DEF LockedPcs, VacatePcs, HalfPcs, GonePcs
<1>6. m.pc \in HalfPcs => m.victim = l.victim /\ l.pc \in LockedPcs
  <2>1. CASE l.pc \in {"start", "vacate", "unlock"}
    BY <1>0, <2>1 DEF Flow, MemoryFlow, On, Went, HalfPcs, GonePcs
  <2>2. CASE l.pc \notin {"start", "vacate", "unlock"}
    BY <1>0, <2>2, FlowLocked DEF LockedPcs, VacatePcs, HalfPcs, GonePcs
  <2> QED
    BY <2>1, <2>2
\* The first part: a page that is half there is not started.
<1>7. (m.pc \in HalfPcs => ~page'[l.victim].started)
        /\ (\A p \in Pages : page'[p].started => page[p].started \/ (p = l.victim /\ l.pc \in LockedPcs))
  <2>1. CASE l.pc \notin {"starting", "vacating", "count", "restart", "decommit"}
    <3>1. \A p \in Pages : page'[p].started = page[p].started
      BY <1>0, <2>1 DEF HeadersStay
    <3>2. m.pc \in HalfPcs => Half(m, l.victim)
      BY <1>6 DEF Half
    <3>3. m.pc \in HalfPcs => Half(l, l.victim) /\ l.victim \in Pages
      BY <1>0, <1>4, <1>6, <2>1, <3>2, FlowHalf
    <3> QED
      BY <3>1, <3>3 DEF StartedTells, Half
  <2>2. CASE AlreadyStarted(t) \/ StartThrows(t)
    <3>1. \A p \in Pages : page'[p].started = page[p].started
      BY <1>0, <2>2 DEF AlreadyStarted, StartThrows, Headers
    <3>2. m.pc = "unlock"
      <4>1. CASE AlreadyStarted(t)
        BY <1>0, <4>1 DEF AlreadyStarted, Move, Typed, Locals
      <4>2. CASE StartThrows(t)
        BY <1>0, <4>2 DEF StartThrows, Move, Typed, Locals
      <4> QED
        BY <2>2, <4>1, <4>2
    <3> QED
      BY <3>1, <3>2 DEF HalfPcs, GonePcs
  <2>3. CASE StartPage(t)
    BY <2>3 DEF StartPage
  <2>4. CASE Started(t)
    <3>1. \A p \in Pages : page'[p].started = IF p = l.victim THEN TRUE ELSE page[p].started
      BY <1>0, <2>4 DEF Started, Headers
    <3>2. l.pc = "count" /\ m.pc = "unlock"
      BY <1>0, <2>4 DEF Started, Move, Flow, MemoryFlow, Went
    <3> QED
      BY <3>1, <3>2 DEF HalfPcs, GonePcs, LockedPcs
  <2>5. CASE Unstart(t)
    <3>1. \A p \in Pages : page'[p].started = IF p = l.victim THEN FALSE ELSE page[p].started
      BY <1>0, <2>5 DEF Unstart, Headers
    <3> QED
      BY <1>4, <1>6, <3>1
  <2>6. CASE Restart(t)
    <3>1. \A p \in Pages : page'[p].started = IF p = l.victim THEN TRUE ELSE page[p].started
      BY <1>0, <2>6 DEF Restart, Headers
    <3>2. l.pc = "restart" /\ m.pc = "unlock"
      BY <1>0, <2>6 DEF Restart, Goto, Move, Flow, MemoryFlow, On, Went
    <3> QED
      BY <3>1, <3>2 DEF HalfPcs, GonePcs, LockedPcs, VacatePcs
  <2>7. CASE Decommit(t)
    <3>1. l.pc = "decommit" /\ m.pc = "unlock" /\ page' = page
      BY <1>0, <2>7 DEF Decommit, Goto, Move, Flow, MemoryFlow, On, Went
    <3> QED
      BY <3>1 DEF HalfPcs, GonePcs
  <2> QED
    BY <2>1, <2>2, <2>3, <2>4, <2>5, <2>6, <2>7, StepByPlace
<1>8. \A u \in Threads : th'[u].pc \in HalfPcs => ~page'[th'[u].victim].started
  <2> SUFFICES ASSUME NEW u \in Threads, th'[u].pc \in HalfPcs
               PROVE  ~page'[th'[u].victim].started
    OBVIOUS
  <2>1. CASE u = t
    BY <1>6, <1>7, <2>1
  <2>2. CASE u # t
    <3>1. th[u].pc \in HalfPcs /\ th'[u].victim = th[u].victim /\ th[u].victim \in Pages
      BY <1>2, <1>4, <1>5, <2>2
    <3>2. ~page[th[u].victim].started
      BY <3>1 DEF StartedTells
    <3>3. l.pc \in LockedPcs => th[u].victim # l.victim
      BY <1>5, <2>2, <3>1, LockedAlone
    <3> QED
      BY <1>7, <3>1, <3>2, <3>3
  <2> QED
    BY <2>1, <2>2
\* The second part: the pages that have memory are those started or half there.
<1>9. ASSUME kind.value
      PROVE  \A p \in Pages : p \in backed' <=> page'[p].started \/ \E u \in Threads : Half(th'[u], p)
  <2> SUFFICES ASSUME NEW p \in Pages
               PROVE  p \in backed' <=> page'[p].started \/ \E u \in Threads : Half(th'[u], p)
    OBVIOUS
  <2>1. /\ p \in backed <=> page[p].started \/ OtherHalf(p) \/ Half(l, p)
        /\ (\E u \in Threads : Half(th'[u], p)) <=> OtherHalf(p) \/ Half(m, p)
    BY <1>1, <1>9 DEF StartedTells
  <2>2. l.pc \in LockedPcs /\ p = l.victim => ~OtherHalf(p)
    BY <1>3
  <2> HIDE DEF OtherHalf
  <2>3. CASE l.pc \notin {"starting", "vacating", "count", "restart", "decommit"}
    <3>1. page'[p].started = page[p].started /\ backed' = backed /\ (Half(m, p) <=> Half(l, p))
      BY <1>0, <2>3, FlowHalf DEF HeadersStay, RestStays
    <3> QED
      BY <2>1, <3>1
  <2>4. CASE AlreadyStarted(t) \/ StartThrows(t)
    <3>1. page'[p].started = page[p].started /\ backed' = backed /\ l.pc = "starting"
      BY <1>0, <2>4 DEF AlreadyStarted, StartThrows, Headers, memoryVars, Move
    <3>2. m.pc = "unlock"
      <4>1. CASE AlreadyStarted(t)
        BY <1>0, <4>1 DEF AlreadyStarted, Move, Typed, Locals
      <4>2. CASE StartThrows(t)
        BY <1>0, <4>2 DEF StartThrows, Move, Typed, Locals
      <4> QED
        BY <2>4, <4>1, <4>2
    <3>3. ~Half(l, p) /\ ~Half(m, p)
      BY <3>1, <3>2 DEF Half, HalfPcs, GonePcs
    <3> QED
      BY <2>1, <3>1, <3>3
  <2>5. CASE StartPage(t)
    <3>1. l.pc = "starting" /\ page' = page /\ backed' = backed \cup {l.victim}
      BY <1>9, <2>5 DEF StartPage, Goto, Move
    <3>2. m.pc \in {"region", "count"} /\ m.victim = l.victim
      BY <1>0, <2>5 DEF StartPage, Goto, Move, Typed, Locals
    <3>3. ~Half(l, p) /\ (Half(m, p) <=> p = l.victim)
      BY <3>1, <3>2 DEF Half, HalfPcs, GonePcs
    <3> QED
      BY <2>1, <3>1, <3>3
  <2>6. CASE Started(t)
    <3>1. l.pc = "count" /\ m.pc = "unlock" /\ backed' = backed
      BY <1>0, <2>6 DEF Started, Move, Flow, MemoryFlow, Went
    <3>2. page'[p].started = IF p = l.victim THEN TRUE ELSE page[p].started
      BY <1>0, <2>6 DEF Started, Headers
    <3>3. (Half(l, p) <=> p = l.victim) /\ ~Half(m, p)
      BY <3>1 DEF Half, HalfPcs, GonePcs
    <3> QED
      BY <2>1, <3>1, <3>2, <3>3
  <2>7. CASE Unstart(t)
    <3>1. l.pc = "vacating" /\ backed' = backed /\ On(l, m, IF page[l.victim].started THEN "lookCount" ELSE "unlock")
      BY <2>7, GotoFacts DEF Unstart, memoryVars
    <3>2. page'[p].started = IF p = l.victim THEN FALSE ELSE page[p].started
      BY <1>0, <2>7 DEF Unstart, Headers
    <3>3. ~Half(l, p) /\ (Half(m, p) <=> p = l.victim /\ page[p].started)
      BY <3>1 DEF On, Went, Half, HalfPcs, GonePcs
    <3> QED
      BY <2>1, <3>1, <3>2, <3>3
  <2>8. CASE Restart(t)
    <3>1. l.pc = "restart" /\ m.pc = "unlock" /\ backed' = backed
      BY <1>0, <2>8 DEF Restart, Goto, Move, Flow, MemoryFlow, On, Went, memoryVars
    <3>2. page'[p].started = IF p = l.victim THEN TRUE ELSE page[p].started
      BY <1>0, <2>8 DEF Restart, Headers
    <3>3. (Half(l, p) <=> p = l.victim) /\ ~Half(m, p)
      BY <3>1 DEF Half, HalfPcs, GonePcs
    <3> QED
      BY <2>1, <3>1, <3>2, <3>3
  <2>9. CASE Decommit(t)
    <3>1. l.pc = "decommit" /\ m.pc = "unlock" /\ page' = page /\ backed' = backed \ {l.victim}
      BY <1>0, <2>9 DEF Decommit, Goto, Move, Flow, MemoryFlow, On, Went
    <3>2. (Half(l, p) <=> p = l.victim) /\ ~Half(m, p)
      BY <3>1 DEF Half, HalfPcs, GonePcs
    <3>3. ~page[l.victim].started /\ l.pc \in LockedPcs
      BY <3>1 DEF StartedTells, HalfPcs, GonePcs, LockedPcs, VacatePcs
    <3> QED
      BY <2>1, <2>2, <3>1, <3>2, <3>3
  <2> QED
    BY <2>3, <2>4, <2>5, <2>6, <2>7, <2>8, <2>9, StepByPlace
<1> QED
  BY <1>0, <1>8, <1>9 DEF StartedTells

\* A step keeps m_pages the number of pages with memory.
LEMMA StepPages ==
  ASSUME Typed, Typed', PlacesAreRight, BusyTells, StartedTells, PagesAreCounted, NEW t \in Threads, Step(t)
  PROVE  PagesAreCounted'
<1> DEFINE l == th[t]
           L == {p \in Pages : Live(p)}
           M == {p \in Pages : Live(p)'}
<1>0. /\ l \in Locals /\ Place(l) /\ RestStays(t) /\ IsFiniteSet(L) /\ pages = Cardinality(L) /\ pages \in Nat
  BY StepShares, SlotsAreFinite, FS_Subset DEF Typed, PlacesAreRight, Shares, PagesAreCounted
<1>1. l.pc \in {"count", "decommit"} => l.victim \in Pages
  BY <1>0, VictimIsPage DEF LockedPcs, VacatePcs
<1>2. CASE l.pc \notin {"count", "decommit"}
  <2>1. M = L /\ pages' = pages
    BY <1>0, <1>2, LiveSteps DEF RestStays
  <2> QED
    BY <1>0, <2>1 DEF PagesAreCounted
<1>3. CASE Started(t)
  <2>1. l.pc = "count" /\ pages' = pages + 1
    BY <1>3 DEF Started, Move
  <2>2. M = L \cup {l.victim} /\ l.victim \notin L
    BY <1>1, <2>1, LiveSteps
  <2>3. Cardinality(M) = Cardinality(L) + 1
    BY <1>0, <2>2, FS_AddElement
  <2> QED
    BY <1>0, <2>1, <2>3 DEF PagesAreCounted
<1>4. CASE Decommit(t)
  <2>1. l.pc = "decommit" /\ pages' = pages - 1
    BY <1>4 DEF Decommit, Goto, Move
  <2>2. M = L \ {l.victim} /\ l.victim \in L
    BY <1>1, <2>1, LiveSteps
  <2>3. Cardinality(L \ {l.victim}) = Cardinality(L) - 1
    <3> HIDE DEF L
    <3> QED
      BY <1>0, <2>2, FS_RemoveElement
  <2> QED
    BY <1>0, <2>1, <2>2, <2>3 DEF PagesAreCounted
<1> QED
  BY <1>2, <1>3, <1>4, StepByPlace

\* A thread without a call needs no memory, and nor does one that is woken need more.
LEMMA IdleNeeds == ~Needs(Idle) /\ Idle.pc = "idle"
<1>1. Idle.pc = "idle"
  BY DEF Idle
<1> QED
  BY <1>1, IdleCounts DEF Needs

\* Who comes to need the memory of his page without having needed it before:
\* those that find a component there, or the memory.
LEMMA FlowNeeds ==
  ASSUME NEW l \in Locals, NEW m, Place(l), Flow(l, m), Needs(m),
         l.pc \notin {"held", "occupied", "starting", "count", "unmask", "wipe", "lookWord", "markWord"}
  PROVE  Needs(l) /\ m.page = l.page
<1>1. m.page = l.page
  BY FlowBecomes, IdleNeeds
<1>2. m.pc \notin {"change", "hooks"}
  <2> USE DEF Flow, On, Went, Idle, Finished, Place
  <2>1. CASE l.pc \in BitPcs \cup {"hooks"}
    BY <2>1 DEF BitFlow, BitPcs
  <2>2. CASE l.pc \in MakingPcs \cup {"setMask"}
    BY <2>2 DEF AddFlow, MemoryFlow, MakingPcs
  <2>3. CASE l.pc = "destroy" \/ l.pc \in EmptyPcs
    BY <2>3 DEF RemoveFlow, EmptyPcs
  <2>4. CASE l.pc \in SparePcs \cup {"trim"}
    BY <2>4 DEF SpareFlow, MemoryFlow, SparePcs
  <2>5. CASE l.pc \in VacatePcs \cup EndPcs
    BY <2>5 DEF MemoryFlow, VacatePcs, EndPcs, Locals
  <2> QED
    BY <2>1, <2>2, <2>3, <2>4, <2>5 DEF Locals, Pcs, MaskPcs
<1>3. Extra(m) # {} /\ m.pc \notin EarlyPcs
  BY <1>2 DEF Needs
<1>4. CASE l.pc = "occupy"
  BY <1>3, <1>4 DEF Flow, AddFlow, Went, EarlyPcs
<1>5. CASE l.pc \in {"construct", "setMask"}
  <2>1. Extra(l) # {}
    BY <1>5 DEF Extra, EarlyPcs, EndPcs, Coming, Place, MakingPcs, MaskPcs, Adders, Ops
  <2> QED
    BY <1>1, <1>5, <2>1 DEF Needs, EarlyPcs
<1>6. CASE l.pc = "forsake"
  <2>1. m = Idle \/ m.pc = "emptied" \/ (m.pc = "release" /\ m.op = l.op /\ l.op # "erase")
    BY <1>6 DEF Flow, RemoveFlow, On, Went, Place, EmptyPcs
  <2>2. Extra(m) = {}
    BY <2>1, IdleCounts DEF Extra, EarlyPcs, EndPcs, Coming
  <2> QED
    BY <1>3, <2>2
<1>7. CASE l.pc \notin {"occupy", "construct", "setMask", "forsake"}
  <2>1. Extra(m) = Extra(l)
    BY <1>7, FlowExtra
  <2>2. l.pc \notin EarlyPcs
    <3>1. l.pc \in {"start", "sleepStart", "region", "touch"} => m.pc \in EarlyPcs
      BY DEF Flow, MemoryFlow, On, Went, EarlyPcs
    <3> QED
      BY <1>3, <3>1 DEF EarlyPcs
  <2> QED
    BY <1>1, <1>3, <2>1, <2>2 DEF Needs
<1> QED
  BY <1>4, <1>5, <1>6, <1>7

LEMMA AlikeNeeds ==
  ASSUME NEW l, NEW m, Alike(l, m)
  PROVE  /\ Needs(m) <=> Needs(l)
         /\ m.pc \in EarlyPcs <=> l.pc \in EarlyPcs
         /\ m.pc \in {"change", "hooks", "lookHeld", "decommit"} => m.pc = l.pc
         /\ m.page = l.page
BY AlikeCounts, AlikeHolds DEF Alike, On, Went, Needs, EarlyPcs

\* A component was there, or the memory, when a thread came to need it.
LEMMA FoundThere ==
  ASSUME Typed, Typed', PlacesAreRight, AddedIsThere, NEW t \in Threads, Step(t), Needs(th'[t]), ~Needs(th[t])
  PROVE  /\ th'[t].page = th[t].page /\ th[t].page \in Pages
         /\ \/ page[th[t].page].mask # {}
            \/ th[t].pc \in {"occupied", "starting"} /\ th[t].victim = th[t].page /\ page[th[t].victim].started
            \/ th[t].pc = "count" /\ th[t].victim = th[t].page
<1> DEFINE l == th[t]
           m == th'[t]
<1>0. /\ l \in Locals /\ Place(l) /\ Goes(t) /\ Flow(l, m) /\ l.pc # "idle"
  BY StepGoes DEF Typed, PlacesAreRight, Goes, Flow
<1>1. l.pc \in {"held", "occupied", "starting", "count", "unmask", "wipe", "lookWord", "markWord"}
  BY <1>0, FlowNeeds
<1>2. m.page = l.page
  BY <1>0, FlowBecomes, IdleNeeds
<1>3. l.page \in Pages /\ page[l.page].mask \in SUBSET Slots
  <2>1. l.op # "trim"
    BY <1>0, <1>1 DEF Place, MakingPcs, MaskPcs, Adders, Erasers
  <2> QED
    BY <1>1, <2>1, CallHasPage
<1>4. CASE l.pc \in {"held", "unmask"}
  <2>1. PICK one \in Slots : l.slots = {one}
    BY <1>0, <1>4 DEF Place, Bitten, Erasers
  <2>2. Has(t) <=> one \in page[l.page].mask
    BY <2>1, SlotIsIt DEF Has, Mine
  <2>3. CASE Has(t)
    BY <1>2, <1>3, <2>2, <2>3
  <2>4. CASE ~Has(t) /\ l.pc = "held"
    <3>1. On(l, m, IF l.op = "replace" THEN "occupy" ELSE "release")
      BY <1>4, <2>4, StepByPlace, GotoFacts DEF HeldHas
    <3>2. l.left = {}
      BY <1>0, <2>4 DEF Place
    <3> QED
      BY <3>1, <3>2 DEF On, Went, Needs, Extra, EarlyPcs, EndPcs, Coming
  <2>5. CASE ~Has(t) /\ l.pc = "unmask"
    <3>1. Went(l, m, Finish(t), {}, l.ret, l.victim)
      <4>1. Unmask(t)
        BY <2>5, StepByPlace
      <4> QED
        BY <1>0, <4>1, <2>5 DEF Unmask, Move, Went, Locals, Typed, Finish
    <3> QED
      BY <3>1, IdleCounts DEF Finish, Went, Idle, Needs, Extra, EarlyPcs, EndPcs, Coming
  <2> QED
    BY <1>4, <2>3, <2>4, <2>5
<1>5. CASE l.pc = "occupied"
  <2>1. On(l, m, IF Mine(t).started THEN "construct" ELSE "start")
    BY <1>5, StepByPlace, GotoFacts DEF Occupied
  <2>2. page[l.page].started
    BY <2>1 DEF On, Went, Mine, Needs, EarlyPcs
  <2> QED
    BY <1>0, <1>2, <1>3, <1>5, <2>2 DEF Place
<1>6. CASE l.pc = "starting"
  <2>1. ~StartPage(t)
    <3>1. StartPage(t) => m.pc \in {"region", "count"}
      BY <1>0 DEF StartPage, Goto, Move, Typed, Locals
    <3> QED
      BY <3>1 DEF Needs, EarlyPcs
  <2>2. ~StartThrows(t)
    <3>1. StartThrows(t) => m.pc = "unlock" /\ m.ret = Finish(t)
      BY <1>0 DEF StartThrows, Move, Typed, Locals
    <3> QED
      BY <3>1 DEF Finish, Needs, Extra, EarlyPcs, EndPcs, Coming
  <2>3. page[l.victim].started
    BY <1>6, <2>1, <2>2, StepByPlace DEF AlreadyStarted
  <2> QED
    BY <1>0, <1>2, <1>3, <1>6, <2>3 DEF Place
<1>7. CASE l.pc = "count"
  BY <1>0, <1>2, <1>3, <1>7 DEF Place
<1>8. CASE l.pc = "wipe"
  <2>1. CASE WipePage(t)
    <3>1. m = [l EXCEPT !.pc = "forsake", !.left = page[l.page].mask \cap l.slots]
      BY <1>0, <2>1 DEF WipePage, Move, Mine, Typed, Locals
    <3>2. m.pc = "forsake" /\ m.left = page[l.page].mask \cap l.slots
      BY <1>0, <3>1 DEF Locals
    <3> QED
      BY <1>2, <1>3, <3>2 DEF Needs, Extra, EarlyPcs, EndPcs, Coming
  <2>2. CASE WipeIndex(t)
    <3>1. m = Idle \/ m.pc \in {"park", "vacate"}
      BY <1>0, <2>2 DEF Flow, RemoveFlow, Went, WipeIndex, Move
    <3> QED
      BY <3>1, IdleCounts DEF Idle, Needs, Extra, EarlyPcs, EndPcs, Coming
  <2> QED
    BY <1>8, <2>1, <2>2, StepByPlace
<1>9. CASE l.pc \in {"lookWord", "markWord"}
  <2>1. Later(l) = {}
    BY <1>9 DEF Needs, Extra, EarlyPcs, EndPcs, Coming
  <2>2. m = Idle \/ (m.pc = "release" /\ l.op # "erase" /\ m.op = l.op) \/ (m.pc = "hooks" /\ kind.hooked) \/ m.pc = "markWord"
    BY <1>0, <1>9, <2>1 DEF Flow, AddFlow, On, Went, Finished, Place, MaskPcs, Adders
  <2>3. m.pc # "markWord"
    <3>1. m.pc = "markWord" => On(l, m, "markWord")
      BY <1>0, <1>9, <2>1, IdleNeeds DEF Flow, AddFlow, Went, Finished
    <3>2. On(l, m, "markWord") => Extra(m) = {}
      BY <2>1 DEF On, Went, Extra, EarlyPcs, EndPcs, Coming, Later
    <3> QED
      BY <3>1, <3>2 DEF Needs
  <2>4. kind.hooked
    BY <2>2, <2>3, IdleCounts DEF Idle, Needs, Extra, EarlyPcs, EndPcs, Coming
  <2>5. Added(l) = l.slots /\ l.slots # {}
    BY <1>0, <1>9, <2>1 DEF Added, Coming, MaskPcs, Place, Adders, Ops
  <2> QED
    BY <1>2, <1>3, <2>4, <2>5, ColumnAssumption DEF AddedIsThere
<1> QED
  BY <1>1, <1>4, <1>5, <1>6, <1>7, <1>8, <1>9

\* Who makes a page's mask grow needs its memory already.
LEMMA MaskGrows ==
  ASSUME Typed, PlacesAreRight, NEW t \in Threads, Step(t), NEW p \in Pages, page'[p].mask # {}
  PROVE  page[p].mask # {} \/ (th[t].page = p /\ Needs(th[t]) /\ Extra(th[t]) # {} /\ th[t].pc \notin EarlyPcs)
<1> DEFINE l == th[t]
<1>1. Place(l) /\ l \in Locals
  BY DEF Typed, PlacesAreRight
<1> SUFFICES ASSUME page[p].mask = {}
             PROVE  p = l.page /\ Needs(l) /\ Extra(l) # {} /\ l.pc \notin EarlyPcs
  OBVIOUS
<1>2. p = l.page /\ Gain(l) # {}
  BY MaskFacts
<1>3. CASE l.pc = "setMask"
  BY <1>1, <1>2, <1>3 DEF Place, MaskPcs, Needs, Extra, EarlyPcs, EndPcs, Coming
<1>4. CASE l.pc = "construct"
  BY <1>1, <1>2, <1>4 DEF Gain, Needs, Extra, EarlyPcs
<1> QED
  BY <1>2, <1>3, <1>4 DEF Gain

\* A step takes no memory away that somebody needs.
LEMMA StepMemory ==
  ASSUME Typed, Typed', PlacesAreRight, BusyTells, StartedTells, AddedIsThere, MemoryIsThere, NobodyIsIn,
         NEW t \in Threads, Step(t)
  PROVE  MemoryIsThere'
<1> DEFINE l == th[t]
           m == th'[t]
           v == l.victim
<1>0. /\ l \in Locals /\ Place(l) /\ Goes(t)
  BY StepGoes DEF Typed, PlacesAreRight, Goes, Flow
<1>1. \A u \in Threads : u # t => (Needs(th'[u]) <=> Needs(th[u])) /\ th'[u].page = th[u].page
  BY <1>0, AlikeNeeds DEF Goes
<1>2. \A u \in Threads : Needs(th[u]) => th[u].page \in Pages
  <2> SUFFICES ASSUME NEW u \in Threads, Needs(th[u])
               PROVE  th[u].page \in Pages
    OBVIOUS
  <2>1. th[u] \in Locals /\ Place(th[u])
    BY DEF Typed, PlacesAreRight
  <2>2. th[u].op # "trim" /\ th[u].pc \notin {"idle", "trim"}
    <3>1. th[u].pc \in {"change", "hooks", "destroy", "forsake", "construct"} \cup EarlyPcs \cup MaskPcs
            \/ (th[u].pc \in EndPcs /\ th[u].ret = "construct") \/ (th[u].pc = "release" /\ th[u].op = "erase")
      BY DEF Needs, Extra, Coming, MaskPcs
    <3> QED
      BY <2>1, <3>1 DEF Place, EarlyPcs, MakingPcs, MaskPcs, EmptyPcs, EndPcs, Adders, Erasers, Ops
  <2> QED
    BY <2>2, CallHasPage
\* A page that somebody needs, or that has a component, keeps its memory.
<1>3. ASSUME NEW p \in Pages, Live(p), page[p].mask # {} \/ \E u \in Threads : th[u].page = p /\ Needs(th[u])
      PROVE  Live(p)'
  <2>1. CASE l.pc # "decommit"
    BY <1>3, <2>1, LiveSteps
  <2>2. CASE l.pc = "decommit"
    <3>1. p # v
      BY <1>3, <2>2 DEF NobodyIsIn, Needs
    <3> QED
      BY <1>3, <2>2, <3>1, LiveSteps
  <2> QED
    BY <2>1, <2>2
<1>4. ASSUME NEW p \in Pages, page'[p].mask # {}
      PROVE  Live(p)'
  BY <1>3, <1>4, MaskGrows DEF MemoryIsThere
<1>5. ASSUME NEW u \in Threads, Needs(th'[u])
      PROVE  \E p \in Pages : p = th'[u].page /\ Live(p)'
  <2>1. CASE Needs(th[u]) /\ th'[u].page = th[u].page
    BY <1>2, <1>3, <2>1 DEF MemoryIsThere
  <2>2. CASE u = t /\ ~(Needs(th[u]) /\ th'[u].page = th[u].page)
    <3>1. ~Needs(l)
      BY <1>0, <1>5, <2>2, FlowBecomes, IdleNeeds DEF Goes
    <3>2. /\ m.page = l.page /\ l.page \in Pages
          /\ \/ page[l.page].mask # {}
             \/ l.pc \in {"occupied", "starting"} /\ v = l.page /\ page[v].started
             \/ l.pc = "count" /\ v = l.page
      BY <1>5, <2>2, <3>1, FoundThere
    <3>3. CASE page[l.page].mask # {}
      BY <1>3, <2>2, <3>2, <3>3 DEF MemoryIsThere
    <3>4. CASE l.pc \in {"occupied", "starting"} /\ v = l.page /\ page[v].started
      <4>1. Live(v)
        BY <3>4 DEF Live
      <4> QED
        BY <2>2, <3>2, <3>4, <4>1, LiveSteps
    <3>5. CASE l.pc = "count" /\ v = l.page
      BY <2>2, <3>2, <3>5, LiveSteps
    <3> QED
      BY <3>2, <3>3, <3>4, <3>5
  <2> QED
    BY <1>1, <1>5, <2>1, <2>2
<1>6. (\A u \in Threads : Needs(th[u]) => Live(th[u].page))'
  BY <1>5
<1>7. \A p \in Pages : page'[p].mask # {} => Live(p)'
  BY <1>4
<1> QED
  BY <1>6, <1>7 DEF MemoryIsThere

\* A thread that uses a value has the bit of its index, or has counted it, or
\* there is a component in its place.
LEMMA UserIsSeen ==
  ASSUME Typed, PlacesAreRight, MakingTells, AddedIsThere, NEW u \in Threads, th[u].pc \in {"change", "hooks"}
  PROVE  /\ th[u].page \in Pages
         /\ \/ page[th[u].page].making # {}
            \/ page[th[u].page].mask # {}
            \/ Extra(th[u]) # {} /\ th[u].pc \notin EarlyPcs
<1> DEFINE l == th[u]
<1>0. l \in Locals /\ Place(l)
  BY DEF Typed, PlacesAreRight
<1>1. l.op # "trim"
  BY <1>0 DEF Place, Adders, Erasers
<1>2. l.page \in Pages /\ l.slots # {} /\ l.op \in Ops
  BY <1>0, <1>1, CallHasPage DEF Place
<1>3. CASE Bitten(l.op)
  <2>1. Holding(l)
    BY <1>0, <1>3 DEF Holding, Place
  <2>2. PICK s \in Slots : s \in l.slots
    BY <1>0, <1>2 DEF Locals
  <2> QED
    BY <1>2, <2>1, <2>2 DEF MakingTells
<1>4. CASE ~Bitten(l.op)
  <2>1. l.pc = "hooks" /\ kind.hooked /\ l.op \in {"emplace", "eraseLocal"}
    BY <1>0, <1>4 DEF Place, Bitten, Adders, Erasers
  <2>2. CASE l.op = "emplace"
    BY <1>2, <2>1, <2>2, ColumnAssumption DEF AddedIsThere, Added, MaskPcs, Erasers
  <2>3. CASE l.op = "eraseLocal"
    BY <1>0, <1>2, <2>1, <2>3 DEF Place, Erasers, Extra, EarlyPcs
  <2> QED
    BY <2>1, <2>2, <2>3
<1> QED
  BY <1>3, <1>4

\* Once vacate has found nobody, nobody comes to the page but to wait for it.
LEMMA StepNobody ==
  ASSUME Typed, Typed', PlacesAreRight, MakingTells, BusyTells, StartedTells, CountIsExact, AddedIsThere, NobodyIsIn,
         NEW t \in Threads, Step(t)
  PROVE  NobodyIsIn'
<1> DEFINE l == th[t]
           m == th'[t]
<1>0. /\ l \in Locals /\ Place(l) /\ Goes(t) /\ Flow(l, m) /\ l.pc # "idle" /\ HeadersStay(t)
  BY StepShares, StepGoes DEF Typed, PlacesAreRight, Shares, Goes, Flow
\* In the page that x is about to give up there is nothing, if the step is of another.
<1>1. ASSUME NEW x \in Threads, x # t, th'[x].pc \in {"lookHeld", "decommit"}
      PROVE  LET v == th'[x].victim IN
             /\ page'[v].mask = {}
             /\ \A u \in Threads :
                  /\ th'[u].page = v /\ Extra(th'[u]) # {} => th'[u].pc \in EarlyPcs
                  /\ th'[u].page = v /\ th'[x].pc = "decommit" => th'[u].pc \notin {"change", "hooks"}
  <2> DEFINE v == th[x].victim
  <2>1. th'[x].victim = v /\ th'[x].pc = th[x].pc /\ th[x].pc \in {"lookHeld", "decommit"}
    BY <1>0, <1>1, AlikeHolds, AlikeNeeds DEF Goes
  <2>2. v \in Pages /\ ~page[v].started /\ th[x].pc \in LockedPcs
    BY <2>1, VictimIsPage DEF Typed, PlacesAreRight, StartedTells, HalfPcs, GonePcs, LockedPcs, VacatePcs
  <2>3. /\ page[v].mask = {}
        /\ \A u \in Threads :
             /\ th[u].page = v /\ Extra(th[u]) # {} => th[u].pc \in EarlyPcs
             /\ th[u].page = v /\ th[x].pc = "decommit" => th[u].pc \notin {"change", "hooks"}
    BY <2>1 DEF NobodyIsIn
  <2>4. page'[v].mask = {}
    BY <2>2, <2>3, MaskGrows
  <2>5. l.pc \in LockedPcs => l.victim # v
    BY <1>1, <2>2, LockedAlone
  <2>6. ASSUME m.page = v, Needs(m)
        PROVE  Needs(l) /\ l.page = v
    <3>1. l.page = v
      BY <1>0, <2>6, FlowBecomes, IdleNeeds
    <3>2. CASE ~Needs(l)
      <4>1. \/ page[l.page].mask # {}
            \/ l.pc \in {"occupied", "starting"} /\ l.victim = l.page /\ page[l.victim].started
            \/ l.pc = "count" /\ l.victim = l.page
        BY <2>6, <3>2, FoundThere
      <4> QED
        BY <2>2, <2>3, <2>5, <3>1, <4>1 DEF LockedPcs
    <3> QED
      BY <3>1, <3>2
  <2>7. ASSUME m.page = v, Extra(m) # {}
        PROVE  m.pc \in EarlyPcs
    <3> SUFFICES ASSUME m.pc \notin EarlyPcs
                 PROVE  FALSE
      OBVIOUS
    <3>1. Needs(m) /\ Needs(l) /\ l.page = v
      BY <2>6, <2>7 DEF Needs
    <3>2. l.pc \in {"change", "hooks"} /\ Extra(l) = {}
      BY <2>3, <3>1 DEF Needs, EarlyPcs
    <3>3. Extra(m) = Extra(l)
      BY <1>0, <3>2, FlowExtra
    <3> QED
      BY <2>7, <3>2, <3>3
  <2>8. ASSUME m.page = v, th[x].pc = "decommit", m.pc \in {"change", "hooks"}
        PROVE  FALSE
    <3>1. Needs(l) /\ l.page = v
      BY <2>6, <2>8 DEF Needs
    <3> QED
      BY <2>3, <2>8, <3>1 DEF Needs
  <2>9. ASSUME NEW u \in Threads, u # t
        PROVE  /\ th'[u].page = v /\ Extra(th'[u]) # {} => th'[u].pc \in EarlyPcs
               /\ th'[u].page = v /\ th'[x].pc = "decommit" => th'[u].pc \notin {"change", "hooks"}
    BY <1>0, <2>1, <2>3, <2>9, AlikeNeeds, AlikeCounts DEF Goes
  <2> QED
    BY <2>1, <2>4, <2>7, <2>8, <2>9
\* If it is of the thread itself it has just looked.
<1>2. ASSUME m.pc \in {"lookHeld", "decommit"}
      PROVE  LET v == m.victim IN
             /\ page'[v].mask = {}
             /\ \A u \in Threads :
                  /\ th'[u].page = v /\ Extra(th'[u]) # {} => th'[u].pc \in EarlyPcs
                  /\ th'[u].page = v /\ m.pc = "decommit" => th'[u].pc \notin {"change", "hooks"}
  <2> DEFINE v == l.victim
  <2>1. l.pc \in {"lookCount", "lookHeld"}
    <3>1. m.pc \in LockedPcs /\ m.pc \notin {"starting", "vacating"}
      BY <1>2 DEF LockedPcs, VacatePcs
    <3>2. l.pc \in LockedPcs
      <4>1. CASE l.pc \in {"start", "vacate", "unlock"}
        BY <1>0, <1>2, <4>1 DEF Flow, MemoryFlow, On, Went
      <4>2. CASE l.pc \notin {"start", "vacate", "unlock"}
        BY <1>0, <3>1, <4>2, FlowLocked
      <4> QED
        BY <4>1, <4>2
    <3> QED
      BY <1>0, <1>2, <3>2 DEF Flow, MemoryFlow, On, Went, LockedPcs, VacatePcs
  <2>2. v \in Pages /\ m.victim = v
    BY <1>0, <2>1, VictimIsPage, FlowLocked DEF LockedPcs, VacatePcs
  <2>3. \A u \in Threads : u # t => Alike(th[u], th'[u])
    BY <1>0 DEF Goes
  <2>4. Extra(m) = {} /\ m.pc \notin {"change", "hooks"}
    BY <1>2 DEF Extra, EarlyPcs, EndPcs, Coming
  <2>5. CASE LookCount(t)
    <3>1. page' = page /\ On(l, m, IF page[v].count # 0 THEN "restart" ELSE "lookHeld")
      BY <2>5, GotoFacts DEF LookCount
    <3>2. page[v].count = 0 /\ m.pc = "lookHeld"
      BY <1>2, <3>1 DEF On, Went
    <3>3. page[v].mask = {} /\ \A u \in Threads : th[u].page = v => Extra(th[u]) = {}
      BY <2>2, <3>2, NothingCounted
    <3> QED
      BY <2>2, <2>3, <2>4, <3>1, <3>2, <3>3, AlikeCounts, AlikeNeeds
  <2>6. CASE anyHeld(t)
    <3>1. page' = page /\ On(l, m, IF page[v].making # {} THEN "restart" ELSE "decommit")
      BY <2>6, GotoFacts DEF anyHeld
    <3>2. page[v].making = {} /\ m.pc = "decommit"
      BY <1>2, <3>1 DEF On, Went
    <3>3. page[v].mask = {} /\ \A u \in Threads : th[u].page = v /\ Extra(th[u]) # {} => th[u].pc \in EarlyPcs
      BY <2>6 DEF NobodyIsIn, anyHeld, Goto, Move
    <3>4. \A u \in Threads : th[u].page = v => th[u].pc \notin {"change", "hooks"}
      BY <2>2, <3>2, <3>3, UserIsSeen
    <3> QED
      BY <2>2, <2>3, <2>4, <3>1, <3>2, <3>3, <3>4, AlikeCounts, AlikeNeeds
  <2> QED
    BY <2>1, <2>5, <2>6, StepByPlace
<1> QED
  BY <1>1, <1>2 DEF NobodyIsIn

-----------------------------------------------------------------------------
(* The spares. *)

\* Who carries a page to the spares or away from them changes in few places.
LEMMA AlikeCarries ==
  ASSUME NEW l, NEW m, Alike(l, m), NEW p
  PROVE  (Carries(m, p) <=> Carries(l, p)) /\ (Responsible(l, p) => Responsible(m, p))
BY DEF Alike, On, Went, Carries, Responsible

LEMMA FlowCarries ==
  ASSUME NEW l \in Locals, NEW m, Place(l), Flow(l, m), NEW p,
         l.pc \notin {"park", "swap", "trim", "unpark"}
  PROVE  Carries(m, p) <=> Carries(l, p)
<1> USE DEF Carries, Flow, On, Went, Idle, Finished, Place
<1>1. CASE l.pc \in BitPcs \cup {"hooks"}
  BY <1>1 DEF BitFlow, BitPcs
<1>2. CASE l.pc \in MakingPcs \cup MaskPcs
  BY <1>2 DEF AddFlow, MemoryFlow, MakingPcs, MaskPcs
<1>3. CASE l.pc \in {"unmask", "destroy", "wipe"} \cup EmptyPcs
  BY <1>3 DEF RemoveFlow, EmptyPcs
<1>4. CASE l.pc \in {"choose", "vacate", "sleepVacate"}
  BY <1>4 DEF SpareFlow, MemoryFlow
<1>5. CASE l.pc \in VacatePcs \cup EndPcs
  <2>1. m = Idle \/ m.pc \in VacatePcs \cup EndPcs \cup {"release", "construct", "trim"}
    BY <1>5 DEF MemoryFlow, VacatePcs, EndPcs, Locals
  <2> QED
    BY <1>5, <2>1 DEF VacatePcs, EndPcs
<1> QED
  BY <1>1, <1>2, <1>3, <1>4, <1>5 DEF Locals, Pcs, SparePcs

\* A step keeps a page among the spares at most once, and marked as long.
LEMMA StepSpares ==
  ASSUME Typed, Typed', PlacesAreRight, SparesTell, NEW t \in Threads, Step(t)
  PROVE  SparesTell'
<1> DEFINE l == th[t]
           m == th'[t]
           v == l.victim
           Others(p) == \E u \in Threads : u # t /\ Carries(th[u], p)
<1>0. /\ l \in Locals /\ Place(l) /\ Goes(t) /\ Flow(l, m) /\ HeadersStay(t) /\ RestStays(t)
      /\ page \in [Pages -> Headers] /\ page' \in [Pages -> Headers]
      /\ spares \in [Places -> Pages \cup {None}] /\ spares' \in [Places -> Pages \cup {None}] /\ None \notin Pages
  BY StepShares, StepGoes, ColumnAssumption DEF Typed, PlacesAreRight, Shares, Goes, Flow
<1>1. \A u \in Threads, p \in Pages : u # t => (Carries(th'[u], p) <=> Carries(th[u], p))
  BY <1>0, AlikeCarries DEF Goes
<1>2. /\ \A p \in Pages : page[p].parked <=> (\E n \in Places : spares[n] = p) \/ Others(p) \/ Carries(l, p)
      /\ \A n, k \in Places : spares[n] = spares[k] /\ spares[n] # None => n = k
      /\ \A u, w \in Threads, p \in Pages : Carries(th[u], p) /\ Carries(th[w], p) => u = w
      /\ \A u \in Threads, n \in Places : ~(spares[n] # None /\ Carries(th[u], spares[n]))
  BY DEF SparesTell
\* What is to show of the state that follows.
<1>3. ASSUME \A p \in Pages : page'[p].parked <=> (\E n \in Places : spares'[n] = p) \/ Others(p) \/ Carries(m, p),
             \A n, k \in Places : spares'[n] = spares'[k] /\ spares'[n] # None => n = k,
             \A p \in Pages : Others(p) => ~Carries(m, p),
             \A n \in Places : spares'[n] # None => ~Carries(m, spares'[n]) /\ ~Others(spares'[n])
      PROVE  SparesTell'
  <2>1. \A n \in Places : spares'[n] # None => spares'[n] \in Pages
    BY <1>0
  <2>2. \A p \in Pages : page'[p].parked <=> (\E n \in Places : spares'[n] = p) \/ \E u \in Threads : Carries(th'[u], p)
    BY <1>1, <1>3
  <2>3. \A u, w \in Threads, p \in Pages : Carries(th'[u], p) /\ Carries(th'[w], p) => u = w
    BY <1>1, <1>2, <1>3
  <2>4. \A u \in Threads, n \in Places : ~(spares'[n] # None /\ Carries(th'[u], spares'[n]))
    BY <1>1, <1>3, <2>1
  <2> QED
    BY <1>3, <2>2, <2>3, <2>4 DEF SparesTell
<1>4. \A n \in Places : spares[n] # None => spares[n] \in Pages /\ ~Others(spares[n]) /\ ~Carries(l, spares[n])
  BY <1>0, <1>2
<1>5. \A p \in Pages : Others(p) => ~Carries(l, p)
  BY <1>2
<1> HIDE DEF Others
<1>6. CASE l.pc \notin {"park", "swap", "trim", "unpark"}
  <2>1. /\ spares' = spares /\ \A p \in Pages : page'[p].parked = page[p].parked /\ (Carries(m, p) <=> Carries(l, p))
    BY <1>0, <1>6, FlowCarries DEF HeadersStay, RestStays
  <2> QED
    BY <1>2, <1>3, <1>4, <1>5, <2>1
<1>7. CASE Park(t)
  <2>1. l.pc = "park" /\ spares' = spares /\ v \in Pages
        /\ \A p \in Pages : page'[p].parked = IF p = v THEN TRUE ELSE page[p].parked
    BY <1>0, <1>7, VictimIsPage DEF Park, Goto, Move, Headers, spareVars, SparePcs
  <2>2. On(l, m, IF page[v].parked THEN l.ret ELSE "choose")
    BY <1>7, GotoFacts DEF Park
  <2>3. \A p \in Pages : ~Carries(l, p)
    BY <2>1 DEF Carries
  <2>4. CASE page[v].parked
    <3>1. \A p \in Pages : ~Carries(m, p)
      BY <1>0, <2>1, <2>2, <2>4, IdleNeeds DEF On, Went, Carries, Place, SparePcs
    <3> QED
      BY <1>2, <1>3, <1>4, <1>5, <2>1, <2>3, <2>4, <3>1
  <2>5. CASE ~page[v].parked
    <3>1. \A p \in Pages : Carries(m, p) <=> p = v
      BY <2>2, <2>5 DEF On, Went, Carries
    <3> QED
      BY <1>2, <1>3, <1>4, <1>5, <2>1, <2>3, <2>5, <3>1
  <2> QED
    BY <2>4, <2>5
<1>8. CASE Swap(t)
  <2> DEFINE d == l.place
             r == spares[d]
  <2>1. l.pc = "swap" /\ v \in Pages /\ d \in Places /\ \A p \in Pages : page'[p].parked = page[p].parked
    BY <1>0, <1>8, VictimIsPage, Fields DEF Swap, Move, SparePcs
  <2>2. \A n \in Places : spares'[n] = IF n = d THEN v ELSE spares[n]
    BY <1>0, <1>8 DEF Swap
  <2>3. \A p \in Pages : Carries(l, p) <=> p = v
    BY <2>1 DEF Carries
  <2>4. \A p \in Pages : Carries(m, p) <=> p = r
    <3>1. CASE r = None
      <4>1. m = Idle \/ m.pc = l.ret
        BY <1>0, <1>8, <3>1 DEF Swap, Move, Typed, Locals
      <4>2. m.pc \notin {"choose", "swap", "unpark"}
        BY <1>0, <2>1, <4>1, IdleNeeds DEF Place, SparePcs
      <4> QED
        BY <1>0, <3>1, <4>2 DEF Carries
    <3>2. CASE r # None
      <4>1. m = [l EXCEPT !.pc = "unpark", !.victim = r]
        BY <1>0, <1>8, <3>2 DEF Swap, Move, Typed, Locals
      <4>2. m.pc = "unpark" /\ m.victim = r
        BY <1>0, <4>1 DEF Locals
      <4> QED
        BY <4>2 DEF Carries
    <3> QED
      BY <3>1, <3>2
  <2>5. \A n \in Places : spares[n] # v
    BY <1>0, <1>4, <2>1, <2>3
  <2>6. ~Others(v) /\ page[v].parked /\ (r # None => r \in Pages /\ ~Others(r) /\ r # v)
    BY <1>2, <1>4, <1>5, <2>1, <2>3, <2>5
  <2> HIDE DEF r
  <2>7. r = spares[d]
    BY DEF r
  <2>8. \A p \in Pages : page'[p].parked <=> (\E n \in Places : spares'[n] = p) \/ Others(p) \/ Carries(m, p)
    <3> SUFFICES ASSUME NEW p \in Pages
                 PROVE  page'[p].parked <=> (\E n \in Places : spares'[n] = p) \/ Others(p) \/ Carries(m, p)
      OBVIOUS
    <3>1. page'[p].parked <=> (\E n \in Places : spares[n] = p) \/ Others(p) \/ p = v
      BY <1>2, <2>1, <2>3
    <3>2. (\E n \in Places : spares[n] = p) <=> p = r \/ \E n \in Places : n # d /\ spares[n] = p
      BY <2>1, <2>7
    <3>3. (\E n \in Places : spares'[n] = p) <=> p = v \/ \E n \in Places : n # d /\ spares[n] = p
      BY <2>1, <2>2
    <3> QED
      BY <2>4, <3>1, <3>2, <3>3
  <2>9. \A n, k \in Places : spares'[n] = spares'[k] /\ spares'[n] # None => n = k
    BY <1>2, <2>2, <2>5
  <2>10. \A p \in Pages : Others(p) => ~Carries(m, p)
    BY <1>0, <2>4, <2>6
  <2>11. \A n \in Places : spares'[n] # None => ~Carries(m, spares'[n]) /\ ~Others(spares'[n])
    BY <1>0, <1>2, <1>4, <2>1, <2>2, <2>4, <2>6, <2>7
  <2> QED
    BY <1>3, <2>8, <2>9, <2>10, <2>11
<1>9. CASE Trim(t)
  <2> DEFINE d == l.place
             r == spares[d]
  <2>1. l.pc = "trim" /\ d \in Places /\ \A p \in Pages : page'[p].parked = page[p].parked
    BY <1>0, <1>9, Fields DEF Trim, Move
  <2>2. \A n \in Places : spares'[n] = IF n = d THEN None ELSE spares[n]
    BY <1>0, <1>9 DEF Trim
  <2>3. \A p \in Pages : ~Carries(l, p)
    BY <2>1 DEF Carries
  <2>4. \A p \in Pages : Carries(m, p) <=> p = r
    <3>1. CASE r = None
      <4>1. m.pc \notin {"choose", "swap", "unpark"}
        BY <1>0, <1>9, <3>1, IdleNeeds DEF Trim, Move, Typed, Locals
      <4> QED
        BY <1>0, <3>1, <4>1 DEF Carries
    <3>2. CASE r # None
      <4>1. m.pc = "unpark" /\ m.victim = r
        BY <1>0, <1>9, <3>2 DEF Trim, Move, Typed, Locals
      <4> QED
        BY <4>1 DEF Carries
    <3> QED
      BY <3>1, <3>2
  <2>5. r # None => r \in Pages /\ ~Others(r)
    BY <1>4, <2>1
  <2> HIDE DEF r
  <2>7. r = spares[d]
    BY DEF r
  <2>8. \A p \in Pages : page'[p].parked <=> (\E n \in Places : spares'[n] = p) \/ Others(p) \/ Carries(m, p)
    <3> SUFFICES ASSUME NEW p \in Pages
                 PROVE  page'[p].parked <=> (\E n \in Places : spares'[n] = p) \/ Others(p) \/ Carries(m, p)
      OBVIOUS
    <3>1. page'[p].parked <=> (\E n \in Places : spares[n] = p) \/ Others(p)
      BY <1>2, <2>1, <2>3
    <3>2. (\E n \in Places : spares[n] = p) <=> p = r \/ \E n \in Places : n # d /\ spares[n] = p
      BY <2>1, <2>7
    <3>3. (\E n \in Places : spares'[n] = p) <=> \E n \in Places : n # d /\ spares[n] = p
      BY <1>0, <2>1, <2>2
    <3> QED
      BY <2>4, <3>1, <3>2, <3>3
  <2>9. \A n, k \in Places : spares'[n] = spares'[k] /\ spares'[n] # None => n = k
    BY <1>2, <2>2
  <2>10. \A p \in Pages : Others(p) => ~Carries(m, p)
    BY <1>0, <2>4, <2>5
  <2>11. \A n \in Places : spares'[n] # None => ~Carries(m, spares'[n]) /\ ~Others(spares'[n])
    BY <1>0, <1>2, <1>4, <2>1, <2>2, <2>4, <2>7
  <2> QED
    BY <1>3, <2>8, <2>9, <2>10, <2>11
<1>10. CASE Unpark(t)
  <2>1. l.pc = "unpark" /\ spares' = spares /\ v \in Pages
        /\ \A p \in Pages : page'[p].parked = IF p = v THEN FALSE ELSE page[p].parked
    BY <1>0, <1>10, VictimIsPage DEF Unpark, Goto, Move, Headers, spareVars, SparePcs
  <2>2. On(l, m, "vacate")
    BY <1>10, GotoFacts DEF Unpark
  <2>3. \A p \in Pages : ~Carries(m, p) /\ (Carries(l, p) <=> p = v)
    BY <2>1, <2>2 DEF On, Went, Carries
  <2>4. \A n \in Places : spares[n] # v
    BY <1>0, <1>4, <2>1, <2>3
  <2> QED
    BY <1>2, <1>3, <1>4, <1>5, <2>1, <2>3, <2>4
<1> QED
  BY <1>6, <1>7, <1>8, <1>9, <1>10, StepByPlace

\* Who is to park a page stays with it until it has done so.
LEMMA FlowResponsible ==
  ASSUME NEW l \in Locals, NEW m, Place(l), Flow(l, m), NEW p, Responsible(l, p),
         l.pc \notin {"park", "vacating", "lookCount", "lookHeld", "decommit"}
  PROVE  Responsible(m, p)
<1> USE DEF Responsible, Flow, On, Went, Place
<1>1. CASE l.pc \in {"emptied", "recount"}
  BY <1>1 DEF RemoveFlow
<1>2. CASE l.pc = "rebuild"
  BY <1>2 DEF RemoveFlow
<1>3. CASE l.pc \in {"vacate", "sleepVacate"}
  BY <1>3 DEF MemoryFlow
<1> QED
  BY <1>1, <1>2, <1>3

\* Only the thread that has the lock of a page can have taken its memory back.
LEMMA NobodyHasIt ==
  ASSUME Typed, PlacesAreRight, BusyTells, NEW t \in Threads, th[t].pc \in LockedPcs, th[t].pc \notin GonePcs,
         NEW p \in Pages, th[t].victim = p, ~page[p].started
  PROVE  ~Live(p)
<1> SUFFICES ASSUME NEW u \in Threads, Gone(th[u], p)
             PROVE  FALSE
  BY DEF Live
<1>1. u # t /\ th[u].pc \in LockedPcs /\ th[u].victim = p
  BY DEF Gone, LockedPcs, VacatePcs, GonePcs
<1> QED
  BY <1>1, LockedAlone

\* A step strands no page: the last one that counted something parks it.
LEMMA StepStranded ==
  ASSUME Typed, Typed', PlacesAreRight, CountIsExact, BusyTells, StartedTells, NoneIsStranded,
         NEW t \in Threads, Step(t)
  PROVE  NoneIsStranded'
<1> DEFINE l == th[t]
           m == th'[t]
           v == l.victim
<1>0. /\ l \in Locals /\ Place(l) /\ Goes(t) /\ Flow(l, m) /\ HeadersStay(t) /\ RestStays(t)
      /\ page \in [Pages -> Headers] /\ page' \in [Pages -> Headers]
  BY StepShares, StepGoes DEF Typed, PlacesAreRight, Shares, Goes, Flow
<1> SUFFICES ASSUME NEW p \in Pages, Live(p)'
             PROVE  \/ page'[p].count # 0 \/ page'[p].parked \/ p \in kept'
                    \/ \E u \in Threads : Responsible(th'[u], p)
  BY DEF NoneIsStranded
<1>1. CASE ~Live(p)
  <2>1. l.pc = "count" /\ p = v
    BY <1>1, LiveSteps
  <2>2. l.page = p /\ Extra(l) # {}
    BY <1>0, <2>1 DEF Place, Extra, EarlyPcs, MakingPcs, Adders, Ops
  <2>3. page[p].count # 0
    BY <2>2, NothingCounted
  <2> QED
    BY <1>0, <2>1, <2>3 DEF HeadersStay
<1>2. CASE page[p].count # 0
  <2> SUFFICES ASSUME page'[p].count = 0
               PROVE  Responsible(m, p)
    OBVIOUS
  <2>1. l.pc \in {"occupy", "starting", "wipe", "forsake"} /\ p = l.page
    BY <1>0, <1>2 DEF HeadersStay
  <2>2. page[p].count \in Nat /\ Cardinality(l.slots) \in Nat
    BY <1>0, SizeOfSlots DEF Headers, Locals, Size
  <2>3. CASE l.pc = "occupy"
    <3>0. Occupy(t)
      BY <2>3, StepByPlace
    <3>1. page'[p].count = page[p].count + Cardinality(l.slots)
      BY <1>0, <2>1, <3>0 DEF Occupy, Headers
    <3> QED
      BY <1>2, <2>2, <3>1
  <2>4. CASE l.pc = "wipe"
    <3>1. WipeIndex(t)
      <4>1. WipePage(t) => page'[p].count = page[p].count
        BY <1>0, <2>1 DEF WipePage, Headers
      <4> QED
        BY <1>2, <2>4, <4>1, StepByPlace
    <3>2. page[p].count = 1
      <4>1. \E w : page' = [page EXCEPT ![p].mask = @ \ l.slots, ![p].count = @ - 1, ![p].summary = w]
        BY <2>1, <3>1 DEF WipeIndex
      <4>2. page'[p].count = page[p].count - 1
        BY <1>0, <4>1 DEF Headers
      <4> QED
        BY <2>2, <4>2
    <3>3. m.pc \in {"park", "vacate"} /\ m.victim = p
      BY <1>0, <2>1, <3>1, <3>2 DEF WipeIndex, Mine, Move, Typed, Locals
    <3> QED
      BY <3>3 DEF Responsible
  <2>5. CASE l.pc = "forsake"
    <3>1. Forsake(t)
      BY <2>5, StepByPlace
    <3>2. page'[p].count = page[p].count - Cardinality(l.left)
      BY <1>0, <2>1, <3>1 DEF Forsake, Mine, Headers
    <3>3. On(l, m, "emptied")
      BY <2>1, <3>1, <3>2, GotoFacts DEF Forsake, Mine
    <3> QED
      BY <2>1, <3>3 DEF On, Went, Responsible
  <2>6. CASE l.pc = "starting"
    <3>1. ~page[p].started /\ v = p
      <4>1. StartThrows(t)
        BY <1>0, <1>2, <2>6, StepByPlace DEF AlreadyStarted, StartPage
      <4> QED
        BY <1>0, <2>1, <2>6, <4>1 DEF StartThrows, Place
    <3>2. ~Live(p)
      BY <2>6, <3>1, NobodyHasIt DEF LockedPcs, GonePcs
    <3> QED
      BY <2>6, <3>2, LiveSteps
  <2> QED
    BY <2>1, <2>3, <2>4, <2>5, <2>6
<1>3. CASE page[p].parked
  <2> SUFFICES ASSUME ~page'[p].parked
               PROVE  Responsible(m, p)
    OBVIOUS
  <2>1. l.pc = "unpark" /\ p = v
    <3>1. l.pc \in {"park", "unpark"} /\ p = v
      BY <1>0, <1>3 DEF HeadersStay
    <3>2. Park(t) => page'[p].parked
      BY <1>0, <3>1 DEF Park, Headers
    <3> QED
      BY <3>1, <3>2, StepByPlace
  <2> QED
    BY <1>0, <2>1 DEF Flow, SpareFlow, On, Went, Responsible
<1>4. CASE p \in kept
  <2>1. p \in kept'
    <3>1. CASE l.pc = "lookHeld"
      BY <1>4, <3>1, StepByPlace DEF anyHeld
    <3>2. CASE l.pc = "decommit"
      <4>1. p # v
        BY <3>2, LiveSteps
      <4> QED
        BY <1>4, <3>2, <4>1, StepByPlace DEF Decommit
    <3> QED
      BY <1>0, <1>4, <3>1, <3>2 DEF RestStays
  <2> QED
    BY <2>1
<1>5. ASSUME NEW u \in Threads, u # t, Responsible(th[u], p)
      PROVE  Responsible(th'[u], p)
  BY <1>0, <1>5, AlikeCarries DEF Goes
<1>6. CASE Responsible(l, p) /\ Live(p)
  <2>1. CASE l.pc \notin {"park", "vacating", "lookCount", "lookHeld", "decommit"}
    BY <1>0, <1>6, <2>1, FlowResponsible
  <2>2. CASE l.pc \in {"park", "vacating", "lookCount", "lookHeld", "decommit"}
    <3>1. v = p
      BY <1>6, <2>2 DEF Responsible
    <3>2. CASE l.pc = "park"
      <4>1. Park(t)
        BY <3>2, StepByPlace
      <4> QED
        BY <1>0, <3>1, <4>1 DEF Park, Headers
    <3>3. CASE l.pc = "vacating"
      <4>1. page[p].started
        BY <1>6, <3>1, <3>3, NobodyHasIt DEF LockedPcs, VacatePcs, GonePcs
      <4>2. On(l, m, "lookCount")
        BY <3>1, <3>3, <4>1, StepByPlace, GotoFacts DEF Unstart
      <4> QED
        BY <3>1, <4>2 DEF On, Went, Responsible
    <3>4. CASE l.pc = "lookCount"
      <4>1. On(l, m, IF page[p].count # 0 THEN "restart" ELSE "lookHeld") /\ page' = page
        BY <3>1, <3>4, StepByPlace, GotoFacts DEF LookCount
      <4> QED
        BY <3>1, <4>1 DEF On, Went, Responsible
    <3>5. CASE l.pc = "lookHeld"
      <4>1. anyHeld(t)
        BY <3>5, StepByPlace
      <4>2. CASE page[p].making # {}
        BY <3>1, <4>1, <4>2 DEF anyHeld
      <4>3. CASE page[p].making = {}
        <5>1. On(l, m, "decommit")
          BY <3>1, <4>1, <4>3, GotoFacts DEF anyHeld
        <5> QED
          BY <3>1, <5>1 DEF On, Went, Responsible
      <4> QED
        BY <4>2, <4>3
    <3>6. CASE l.pc = "decommit"
      BY <3>1, <3>6, LiveSteps
    <3> QED
      BY <2>2, <3>2, <3>3, <3>4, <3>5, <3>6
  <2> QED
    BY <2>1, <2>2
<1> QED
  BY <1>1, <1>2, <1>3, <1>4, <1>5, <1>6 DEF NoneIsStranded

-----------------------------------------------------------------------------
(* The invariant over a step of a thread.                                  *)

\* All of it together.
LEMMA StepKeeps ==
  ASSUME ColumnInv, NEW t \in Threads, Step(t)
  PROVE  ColumnInv'
<1>0. /\ Typed /\ PlacesAreRight
      /\ MakingTells /\ BitsAreOwn /\ CallsAreApart
      /\ FreshIsMissing /\ AliveTells /\ WipedIsThere /\ AddedIsThere /\ LoopsMissNothing
      /\ CountIsExact /\ BusyTells /\ StartedTells /\ PagesAreCounted /\ MemoryIsThere /\ NobodyIsIn
      /\ SparesTell /\ NoneIsStranded /\ TheEnd
  BY DEF ColumnInv
<1>1. Goes(t) /\ Shares(t) /\ kind' = kind /\ calls' = calls /\ th[t].pc # "idle"
  BY <1>0, StepGoes, StepShares DEF Shares, RestStays, Goes, Flow
<1>2. Typed'
  BY <1>0, CountsDo, StepTyped
<1>3. PlacesAreRight'
  BY <1>0, <1>1, StepPlaces
<1>4. MakingTells' /\ BitsAreOwn'
  BY <1>0, StepBits DEF BitsTell
<1>5. CallsAreApart' /\ FreshIsMissing' /\ AliveTells'
  BY <1>0, <1>1, StepApart, StepMissing, StepAlive
<1>6. WipedIsThere' /\ AddedIsThere'
  BY <1>0, StepWiped, StepAdded
<1>7. LoopsMissNothing'
  BY <1>0, <1>2, StepLoops
<1>8. CountIsExact'
  BY <1>0, <1>2, StepCount
<1>9. BusyTells' /\ StartedTells'
  BY <1>0, <1>2, StepBusy, StepStarted
<1>10. PagesAreCounted' /\ MemoryIsThere'
  BY <1>0, <1>2, StepPages, StepMemory
<1>11. NobodyIsIn' /\ SparesTell' /\ NoneIsStranded'
  BY <1>0, <1>2, StepNobody, StepSpares, StepStranded
<1>12. TheEnd'
  <2>1. th[t] # Idle
    BY <1>1, IdleNeeds
  <2>2. ~(calls > MaxCalls)
    BY <1>0, <2>1 DEF TheEnd, Quiet
  <2> QED
    BY <1>1, <2>2 DEF TheEnd
<1> QED
  BY <1>2, <1>3, <1>4, <1>5, <1>6, <1>7, <1>8, <1>9, <1>10, <1>11, <1>12 DEF ColumnInv

-----------------------------------------------------------------------------
(* Calls begin.                                                            *)

\* The locals of a call that has not done anything yet.
NewCall(l) ==
  /\ l.pc \in {"claim", "occupy", "take", "unmask", "wipe", "trim"} /\ Place(l) /\ ~Holding(l)
  /\ l.left = {} /\ l.ret = "idle" /\ l.victim = None

\* The thread t begins the call c.
Comes(t, c) ==
  /\ th[t] = Idle /\ th' = [th EXCEPT ![t] = c] /\ c \in Locals /\ NewCall(c) /\ Alone(t, c)
  /\ c.page # None => Missing(c) \cap page[c.page].mask = {}
  /\ c.pc = "wipe" /\ c.op = "eraseAlone" => c.slots \subseteq page[c.page].mask
  /\ calls < MaxCalls /\ calls' = calls + 1
  /\ UNCHANGED <<kind, page, memoryVars, spareVars, alive>>

\* A call that begins has nothing yet.
LEMMA NewCallShows ==
  ASSUME NEW l, NewCall(l)
  PROVE  /\ Coming(l) = {} /\ Going(l) = {} /\ Added(l) = {} /\ Extra(l) = {} /\ ~Needs(l) /\ ~Holding(l)
         /\ l.pc \notin LockedPcs \cup HalfPcs \cup GonePcs \cup EarlyPcs
         /\ \A p : ~Carries(l, p) /\ ~Half(l, p) /\ ~Gone(l, p)
BY DEF NewCall, Coming, Going, Added, Extra, Needs, MaskPcs, EarlyPcs, EndPcs, LockedPcs, VacatePcs, HalfPcs, GonePcs,
       Carries, Half, Gone

\* A call of an operation begins as it should, if its caller sees to the guards.
LEMMA CallComes ==
  ASSUME Typed, PlacesAreRight, NEW t \in Threads, NEW op \in Ops, NEW p \in Pages, NEW slots \in SUBSET Slots,
         Call(t, op, p, slots)
  PROVE  \E c : Comes(t, c)
<1> DEFINE c == [Idle EXCEPT !.pc = FirstStep(op), !.op = op, !.page = p, !.slots = slots]
<1>1. /\ slots # {} /\ slots \subseteq SlotsOf(p) /\ Alone(t, c) /\ WorthWhile(c)
      /\ op \notin {"emplace", "apply", "kill"} => \E s \in Slots : slots = {s}
      /\ calls < MaxCalls /\ calls' = calls + 1 /\ UNCHANGED <<kind, page, memoryVars, spareVars, alive>>
  <2>1. Cardinality(slots) = 1 => \E s : slots = {s}
    BY SizeOfSlots, FS_Singleton DEF Size
  <2> QED
    BY <2>1 DEF Call
<1>2. FirstStep(op) \in {"claim", "occupy", "take", "unmask", "wipe"}
  BY DEF FirstStep, Ops
<1>3. /\ c \in Locals
      /\ c.pc = FirstStep(op) /\ c.op = op /\ c.page = p /\ c.slots = slots
      /\ c.left = {} /\ c.ret = "idle" /\ c.victim = None
  <2>1. FirstStep(op) \in Pcs /\ op \in Ops \cup {"trim", "none"} /\ p \in Pages \cup {None}
    BY <1>2 DEF Pcs, MakingPcs, BitPcs
  <2>2. c \in Locals /\ c.pc = FirstStep(op) /\ c.op = op /\ c.page = p /\ c.slots = slots
    BY <2>1, IdleTyped DEF Locals
  <2> QED
    BY <2>2 DEF Idle
<1>4. th[t].pc = "idle" /\ th' = [th EXCEPT ![t] = c]
  BY <1>2, <1>3 DEF Call, Move
<1>5. th[t] = Idle
  BY <1>4 DEF PlacesAreRight, Place
<1>6. p # None
  BY ColumnAssumption
<1> HIDE DEF c
<1>7. op = "runHooks" => kind.hooked
  BY <1>1, <1>3 DEF WorthWhile
<1>8. /\ FirstStep(op) = "occupy" => op \in {"emplace", "apply"}
      /\ FirstStep(op) = "claim" => op = "tryEmplace"
      /\ FirstStep(op) = "wipe" => op \in {"kill", "eraseAlone"}
      /\ FirstStep(op) = "take" => Bitten(op) /\ op # "tryEmplace"
      /\ FirstStep(op) = "unmask" => op \in {"erase", "eraseLocal"} /\ ~Bitten(op)
  BY <1>2 DEF FirstStep, Ops, Bitten
<1>9. Place(c)
  BY <1>1, <1>2, <1>3, <1>6, <1>7, <1>8
  DEF Place, Ops, Bitten, MakingPcs, MaskPcs, EmptyPcs, SparePcs, VacatePcs, EndPcs, Adders, Erasers
<1>10. ~Holding(c)
  BY <1>2, <1>3, <1>8 DEF Holding, Bitten
<1>11. NewCall(c)
  BY <1>2, <1>3, <1>9, <1>10 DEF NewCall
<1>12. Missing(c) \cap page[c.page].mask = {}
  <2>1. op = "emplace" => slots \cap page[p].mask = {}
    BY <1>1, <1>3 DEF WorthWhile
  <2>2. Fresh(c) => op = "emplace"
    BY <1>2, <1>3, <1>8 DEF Fresh, MakingPcs, EndPcs
  <2> QED
    BY <1>3, <1>11, <2>1, <2>2, NewCallShows DEF Missing
<1>13. c.op = "eraseAlone" => c.slots \subseteq page[c.page].mask
  <2>1. op = "eraseAlone" => slots \cap page[p].mask # {}
    BY <1>1, <1>3 DEF WorthWhile
  <2> QED
    BY <1>1, <1>3, <2>1
<1> QED
  BY <1>1, <1>3, <1>4, <1>5, <1>11, <1>12, <1>13 DEF Comes

\* And so does trim.
LEMMA TrimComes ==
  ASSUME Typed, PlacesAreRight, NEW t \in Threads, CallTrim(t)
  PROVE  \E c : Comes(t, c)
<1> DEFINE c == [Idle EXCEPT !.pc = "trim", !.op = "trim"]
<1>1. /\ c \in Locals /\ c.pc = "trim" /\ c.op = "trim" /\ c.page = None /\ c.slots = {}
      /\ c.left = {} /\ c.ret = "idle" /\ c.victim = None
  <2>1. c \in Locals /\ c.pc = "trim" /\ c.op = "trim"
    BY IdleTyped DEF Locals, Pcs
  <2> QED
    BY <2>1 DEF Idle
<1>2. th[t].pc = "idle" /\ th' = [th EXCEPT ![t] = c] /\ Alone(t, c) /\ calls < MaxCalls /\ calls' = calls + 1
      /\ UNCHANGED <<kind, page, memoryVars, spareVars, alive>>
  BY <1>1 DEF CallTrim, Move
<1>3. th[t] = Idle
  BY <1>2 DEF PlacesAreRight, Place
<1> HIDE DEF c
<1>4. ~Bitten(c.op)
  BY <1>1 DEF Bitten
<1>5. Place(c)
  BY <1>1, <1>4 DEF Place, Ops, MakingPcs, MaskPcs, EmptyPcs, SparePcs, VacatePcs, EndPcs
<1>6. NewCall(c)
  BY <1>1, <1>4, <1>5 DEF NewCall, Holding
<1> QED
  BY <1>1, <1>2, <1>3, <1>6 DEF Comes

\* A thread without a call has nothing, and does nothing.
LEMMA IdleIsNowhere ==
  /\ Extra(Idle) = {} /\ ~Needs(Idle) /\ ~Holding(Idle) /\ Missing(Idle) = {} /\ Coming(Idle) = {} /\ Going(Idle) = {}
  /\ Added(Idle) = {} /\ Idle.pc = "idle" /\ Idle.page = None
  /\ \A p : ~Carries(Idle, p) /\ ~Half(Idle, p) /\ ~Gone(Idle, p) /\ ~Responsible(Idle, p)
<1>1. Idle.pc = "idle" /\ Idle.page = None
  BY DEF Idle
<1> QED
  BY <1>1, IdleCounts, IdleNeeds, IdleShows DEF Holding, Carries, Half, HalfPcs, Gone, GonePcs, Responsible

\* A call that begins keeps the invariant.
LEMMA CallKeeps ==
  ASSUME ColumnInv, NEW t \in Threads, NEW c, Comes(t, c)
  PROVE  ColumnInv'
<1> USE DEF memoryVars, spareVars
<1>0. /\ Typed /\ PlacesAreRight
      /\ MakingTells /\ BitsAreOwn /\ CallsAreApart
      /\ FreshIsMissing /\ AliveTells /\ WipedIsThere /\ AddedIsThere /\ LoopsMissNothing
      /\ CountIsExact /\ BusyTells /\ StartedTells /\ PagesAreCounted /\ MemoryIsThere /\ NobodyIsIn
      /\ SparesTell /\ NoneIsStranded /\ TheEnd
  BY DEF ColumnInv
<1>1. /\ kind' = kind /\ page' = page /\ pages' = pages /\ backed' = backed /\ kept' = kept /\ alive' = alive
      /\ spares' = spares /\ nextSpare' = nextSpare /\ calls < MaxCalls /\ calls' = calls + 1
  BY DEF Comes
<1>2. /\ c \in Locals /\ NewCall(c) /\ Place(c) /\ Alone(t, c)
      /\ c.page # None => Missing(c) \cap page[c.page].mask = {}
      /\ c.pc = "wipe" /\ c.op = "eraseAlone" => c.slots \subseteq page[c.page].mask
  BY DEF Comes, NewCall
<1>3. /\ th[t] = Idle /\ th'[t] = c
      /\ \A u \in Threads : u # t => th'[u] = th[u]
      /\ th' \in [Threads -> Locals]
  BY <1>0 DEF Comes, Typed
<1>4. th[t].pc = "idle"
  BY <1>3, IdleIsNowhere
<1>5. Typed'
  BY <1>0, <1>1, <1>3, ColumnAssumption DEF Typed
<1>6. PlacesAreRight'
  <2>1. \A u \in Threads : Place(th'[u])
    BY <1>0, <1>2, <1>3 DEF PlacesAreRight
  <2> QED
    BY <1>1, <2>1, PlaceStays DEF PlacesAreRight
<1>7. MakingTells' /\ BitsAreOwn'
  <2>1. \A u \in Threads :
          /\ Holding(th'[u]) <=> Holding(th[u])
          /\ Holding(th[u]) => th'[u].page = th[u].page /\ th'[u].slots = th[u].slots
    BY <1>2, <1>3, NewCallShows, IdleIsNowhere
  <2> QED
    BY <1>0, <1>1, <2>1, BitsStay DEF BitsTell
<1>8. CallsAreApart'
  <2>1. \A u \in Threads : u # t /\ th[u].pc # "idle" => Apart(c, th[u]) /\ Apart(th[u], c)
    BY <1>2 DEF Alone, Apart
  <2> QED
    BY <1>0, <1>3, <2>1 DEF CallsAreApart
<1>9. FreshIsMissing'
  BY <1>0, <1>1, <1>2, <1>3 DEF FreshIsMissing
<1>10. AliveTells'
  <2>1. \A p, s : (IsComing(p, s)' <=> IsComing(p, s)) /\ (IsGoing(p, s)' <=> IsGoing(p, s))
    BY <1>2, <1>3, NewCallShows, IdleIsNowhere DEF IsComing, IsGoing
  <2> QED
    BY <1>0, <1>1, <2>1 DEF AliveTells
<1>11. WipedIsThere' /\ AddedIsThere'
  BY <1>0, <1>1, <1>2, <1>3, NewCallShows DEF WipedIsThere, AddedIsThere
<1>12. LoopsMissNothing'
  <2>1. \A p, w : SummaryIsDue(p, w) => SummaryIsDue(p, w)'
    BY <1>3, <1>4 DEF SummaryIsDue
  <2> QED
    BY <1>0, <1>1, <2>1 DEF LoopsMissNothing
<1>13. CountIsExact'
  <2>1. \A p : HoldersOf(page[p].mask, th', p) = HoldersOf(page[p].mask, th, p)
    BY <1>2, <1>3, NewCallShows, IdleIsNowhere DEF HoldersOf
  <2> QED
    BY <1>0, <1>1, <2>1 DEF CountIsExact, Holders
<1>14. BusyTells'
  <2>1. \A u \in Threads : th'[u].pc \in LockedPcs <=> th[u].pc \in LockedPcs
    BY <1>2, <1>3, <1>4, NewCallShows DEF LockedPcs, VacatePcs
  <2>2. \A u \in Threads : th[u].pc \in LockedPcs => th'[u] = th[u]
    BY <1>3, <1>4 DEF LockedPcs, VacatePcs
  <2>3. \A p \in Pages : page[p].busy # None => page[p].busy \in Threads
    BY <1>0 DEF Typed, Headers
  <2> QED
    BY <1>0, <1>1, <2>1, <2>2, <2>3 DEF BusyTells
<1>15. \A p : (Live(p)' <=> Live(p)) /\ ((\E u \in Threads : Half(th'[u], p)) <=> \E u \in Threads : Half(th[u], p))
  BY <1>1, <1>2, <1>3, NewCallShows, IdleIsNowhere DEF Live
<1>16. StartedTells'
  BY <1>0, <1>1, <1>2, <1>3, <1>15, NewCallShows DEF StartedTells
<1>17. PagesAreCounted'
  BY <1>0, <1>1, <1>15 DEF PagesAreCounted
<1>18. MemoryIsThere'
  <2>1. \A u \in Threads : Needs(th'[u]) => th'[u] = th[u]
    BY <1>2, <1>3, NewCallShows
  <2>2. \A u \in Threads : Needs(th'[u]) => \E p : p = th'[u].page /\ Live(p)'
    BY <1>0, <1>15, <2>1 DEF MemoryIsThere
  <2>3. \A p \in Pages : page'[p].mask # {} => Live(p)'
    BY <1>0, <1>1, <1>15 DEF MemoryIsThere
  <2>4. (\A u \in Threads : Needs(th[u]) => Live(th[u].page))'
    BY <2>2
  <2> QED
    BY <2>3, <2>4 DEF MemoryIsThere
<1>19. NobodyIsIn'
  <2>1. \A u \in Threads : th'[u].pc \in {"lookHeld", "decommit"} => th'[u] = th[u]
    BY <1>2, <1>3 DEF NewCall
  <2>2. \A u \in Threads : th'[u] # th[u] => Extra(th'[u]) = {} /\ th'[u].pc \notin {"change", "hooks"}
    BY <1>2, <1>3, NewCallShows DEF NewCall
  <2> QED
    BY <1>0, <1>1, <2>1, <2>2 DEF NobodyIsIn
<1>20. SparesTell'
  <2>1. \A u \in Threads : \A p : Carries(th'[u], p) <=> Carries(th[u], p)
    BY <1>2, <1>3, NewCallShows, IdleIsNowhere
  <2> QED
    BY <1>0, <1>1, <2>1 DEF SparesTell
<1>21. NoneIsStranded'
  <2>1. \A u \in Threads : \A p : Responsible(th[u], p) => Responsible(th'[u], p)
    BY <1>3, IdleIsNowhere
  <2> QED
    BY <1>0, <1>1, <1>15, <2>1 DEF NoneIsStranded
<1>22. TheEnd'
  BY <1>0, <1>1, ColumnAssumption DEF TheEnd, Typed
<1> QED
  BY <1>5, <1>6, <1>7, <1>8, <1>9, <1>10, <1>11, <1>12, <1>13, <1>14, <1>16, <1>17, <1>18, <1>19, <1>20, <1>21, <1>22
  DEF ColumnInv

-----------------------------------------------------------------------------
(* The destructor.                                                         *)

\* Between calls the pages with memory are those whose headers say so.
LEMMA LiveWhenQuiet ==
  ASSUME Quiet
  PROVE  \A p : Live(p) <=> page[p].started
BY IdleIsNowhere DEF Quiet, Live

\* The destructor sees every page that has memory: m_pages is their number.
LEMMA SeesAllPages ==
  ASSUME Typed, Quiet, PagesAreCounted, NEW p \in Pages, page[p].started
  PROVE  Cardinality({q \in Pages : page[q].started /\ q < p}) < pages
<1> DEFINE L == {q \in Pages : page[q].started}
           B == {q \in Pages : page[q].started /\ q < p}
<1>1. L = {q \in Pages : Live(q)}
  BY LiveWhenQuiet
<1>2. pages = Cardinality(L)
  BY <1>1 DEF PagesAreCounted
<1>3. p \in L /\ p \notin B /\ B \subseteq L
  <2>1. p \in Nat
    BY ColumnAssumption DEF Pages
  <2> QED
    BY <2>1
<1> HIDE DEF L, B
<1>4. IsFiniteSet(L) /\ IsFiniteSet(Pages)
  <2>1. L \subseteq Pages
    BY DEF L
  <2> QED
    BY <2>1, SlotsAreFinite, FS_Subset
<1>5. IsFiniteSet(B)
  BY <1>3, <1>4, FS_Subset
<1>6. IsFiniteSet(B \cup {p}) /\ Cardinality(B \cup {p}) = Cardinality(B) + 1
  BY <1>3, <1>5, FS_AddElement
<1>7. B \cup {p} \in SUBSET L
  BY <1>3
<1>8. Cardinality(B \cup {p}) <= Cardinality(L)
  BY <1>4, <1>7, FS_Subset
<1>9. Cardinality(B) \in Nat /\ Cardinality(L) \in Nat
  BY <1>4, <1>5, FS_CardinalityType
<1> QED
  BY <1>2, <1>6, <1>8, <1>9 DEF B

\* The destructor leaves a column without components and without memory.
LEMMA DestructorKeeps ==
  ASSUME ColumnInv, Destructor
  PROVE  ColumnInv'
<1> USE DEF memoryVars, spareVars
<1>0. /\ Typed /\ PlacesAreRight
      /\ MakingTells /\ BitsAreOwn /\ CallsAreApart
      /\ FreshIsMissing /\ AliveTells /\ WipedIsThere /\ AddedIsThere /\ LoopsMissNothing
      /\ CountIsExact /\ BusyTells /\ StartedTells /\ PagesAreCounted /\ MemoryIsThere /\ NobodyIsIn
      /\ SparesTell /\ NoneIsStranded /\ TheEnd
  BY DEF ColumnInv
<1>1. /\ Quiet /\ calls = MaxCalls /\ calls' = MaxCalls + 1 /\ th' = th /\ kind' = kind /\ nextSpare' = nextSpare
      /\ backed' = {} /\ kept' = {} /\ pages' = 0 /\ spares' = [n \in Places |-> None]
      /\ page' = [p \in Pages |-> [page[p] EXCEPT !.mask = {}, !.summary = {}, !.count = 0, !.started = FALSE,
                                                  !.parked = FALSE]]
  BY DEF Destructor
<1>2. \A u \in Threads : th[u] = Idle /\ th'[u] = Idle
  BY <1>1 DEF Quiet
<1>3. \A p \in Pages :
        /\ page'[p].mask = {} /\ page'[p].count = 0 /\ ~page'[p].started /\ ~page'[p].parked
        /\ page'[p].making = page[p].making /\ page'[p].busy = page[p].busy
  BY <1>0, <1>1 DEF Typed, Headers
<1>4. alive' \subseteq alive /\ (kind.destroys => alive' = {})
  <2> SUFFICES ASSUME kind.destroys, NEW i \in alive
               PROVE  i \notin alive'
    BY DEF Destructor
  <2>1. i[1] \in Pages /\ i[2] \in Slots /\ i = <<i[1], i[2]>>
    BY <1>0, ColumnAssumption DEF Typed, Pages, Slots
  <2>2. i[2] \in page[i[1]].mask
    BY <1>0, <1>2, <2>1, IdleIsNowhere DEF AliveTells, IsComing, IsGoing
  <2>3. page[i[1]].started
    BY <1>0, <1>1, <2>1, <2>2, LiveWhenQuiet DEF MemoryIsThere
  <2>4. Cardinality({q \in Pages : page[q].started /\ q < i[1]}) < pages
    BY <1>0, <1>1, <2>1, <2>3, SeesAllPages
  <2> QED
    BY <2>1, <2>2, <2>3, <2>4 DEF Destructor
<1>5. Typed'
  <2>1. page' \in [Pages -> Headers]
    BY <1>0, <1>1 DEF Typed, Headers
  <2>2. spares' \in [Places -> Pages \cup {None}] /\ nextSpare' \in Places
    BY <1>0, <1>1 DEF Typed
  <2>3. kind' \in Kinds /\ th' \in [Threads -> Locals] /\ alive' \subseteq Indices
    BY <1>0, <1>1, <1>4 DEF Typed
  <2>4. pages' \in Nat /\ backed' \subseteq Pages /\ calls' \in Nat
    <3>1. MaxCalls \in Nat
      BY ColumnAssumption
    <3>2. MaxCalls + 1 \in Nat
      BY <3>1
    <3>3. calls' = MaxCalls + 1 /\ pages' = 0 /\ backed' = {}
      BY <1>1
    <3> QED
      BY <3>2, <3>3
  <2> QED
    BY <2>1, <2>2, <2>3, <2>4 DEF Typed
<1>6. PlacesAreRight'
  <2>1. \A u \in Threads : Place(th'[u])
    BY <1>2, IdlePlace
  <2> QED
    BY <1>1, <2>1, PlaceStays DEF PlacesAreRight
<1>7. MakingTells' /\ BitsAreOwn'
  BY <1>0, <1>1, <1>3, BitsStay DEF BitsTell
<1>8. CallsAreApart' /\ FreshIsMissing' /\ WipedIsThere' /\ AddedIsThere' /\ NobodyIsIn'
  <2>1. Idle.pc = "idle" /\ Missing(Idle) = {} /\ Added(Idle) = {}
    BY IdleIsNowhere
  <2> QED
    BY <1>2, <2>1 DEF CallsAreApart, FreshIsMissing, WipedIsThere, AddedIsThere, NobodyIsIn
<1>9. AliveTells'
  <2>1. \A p \in Pages, s \in Slots : ~(s \in page'[p].mask \/ IsComing(p, s)' \/ IsGoing(p, s)')
    BY <1>2, <1>3, IdleIsNowhere DEF IsComing, IsGoing
  <2> QED
    BY <1>1, <1>4, <2>1 DEF AliveTells
<1>10. LoopsMissNothing'
  BY <1>3 DEF LoopsMissNothing, WordsOf
<1>11. CountIsExact'
  <2>1. \A p : HoldersOf({}, th', p) = {}
    BY <1>2, IdleIsNowhere DEF HoldersOf
  <2> QED
    BY <1>3, <2>1, FS_EmptySet DEF CountIsExact, Holders
<1>12. BusyTells'
  <2>1. \A u \in Threads : th'[u].pc \notin LockedPcs
    BY <1>2, IdleIsNowhere DEF LockedPcs, VacatePcs
  <2>2. \A p \in Pages : page[p].busy = None
    <3>1. \A p \in Pages : page[p].busy \in Threads \cup {None}
      BY <1>0 DEF Typed, Headers
    <3> QED
      BY <1>0, <1>1, <2>1, <3>1 DEF BusyTells
  <2> QED
    BY <1>3, <2>1, <2>2 DEF BusyTells
<1>13. \A p : (Live(p)' <=> page'[p].started) /\ \A u \in Threads : ~Half(th'[u], p)
  BY <1>2, IdleIsNowhere DEF Live
<1>14. StartedTells'
  BY <1>1, <1>2, <1>3, <1>13, IdleIsNowhere DEF StartedTells, HalfPcs, GonePcs
<1>15. PagesAreCounted'
  <2>1. {p \in Pages : Live(p)'} = {}
    BY <1>3, <1>13
  <2> QED
    BY <1>1, <2>1, FS_EmptySet DEF PagesAreCounted
<1>16. MemoryIsThere'
  BY <1>2, <1>3, IdleIsNowhere DEF MemoryIsThere
<1>17. SparesTell'
  <2>1. \A n \in Places : spares'[n] = None
    BY <1>1
  <2>2. None \notin Pages
    BY ColumnAssumption
  <2> QED
    BY <1>2, <1>3, <2>1, <2>2, IdleIsNowhere DEF SparesTell
<1>18. NoneIsStranded'
  BY <1>3, <1>13 DEF NoneIsStranded
<1>19. TheEnd'
  BY <1>1, <1>4 DEF TheEnd, Quiet
<1> QED
  BY <1>5, <1>6, <1>7, <1>8, <1>9, <1>10, <1>11, <1>12, <1>14, <1>15, <1>16, <1>17, <1>18, <1>19 DEF ColumnInv

-----------------------------------------------------------------------------
(* The initial states.                                                     *)

\* Each spare has a place of its own: there are as many places as spares.
LEMMA SparesAreApart ==
  ASSUME NEW emptied \in SUBSET Pages, Cardinality(emptied) <= SparePages,
         spares \in [Places -> emptied \cup {None}],
         \A p \in emptied : \E n \in Places : spares[n] = p,
         \A n \in Places : spares[n] # None <=> n < Cardinality(emptied)
  PROVE  \A n, m \in Places : spares[n] = spares[m] /\ spares[n] # None => n = m
<1> DEFINE k == Cardinality(emptied)
           D == 0 .. k - 1
           f == [n \in D |-> spares[n]]
<1>1. IsFiniteSet(emptied) /\ k \in Nat /\ None \notin emptied /\ SparePages \in Nat \ {0}
  BY SlotsAreFinite, FS_Subset, FS_CardinalityType, ColumnAssumption
<1>2. k <= SparePages
  OBVIOUS
<1> HIDE DEF k
<1>3. D \subseteq Places /\ \A n \in Places : spares[n] # None <=> n \in D
  <2>1. \A n \in Places : spares[n] # None <=> n < k
    BY DEF k
  <2> QED
    BY <1>1, <1>2, <2>1 DEF Places
<1>4. IsFiniteSet(D) /\ Cardinality(D) = k
  BY <1>1, FS_Interval
<1>5. f \in Surjection(D, emptied)
  <2>1. \A n \in D : spares[n] \in emptied
    BY <1>3
  <2>2. \A p \in emptied : \E n \in D : f[n] = p
    BY <1>1, <1>3
  <2> QED
    BY <2>1, <2>2 DEF Surjection
<1>6. f \in Injection(D, emptied)
  <2>1. Cardinality(D) = Cardinality(emptied)
    BY <1>4 DEF k
  <2> HIDE DEF D, f
  <2> QED
    BY <1>4, <1>5, <2>1, FS_SurjSameCardinalityImpliesInj
<1> QED
  BY <1>3, <1>6 DEF Injection, IsInjective

\* The initial states have the invariant.
LEMMA InitKeeps ==
  ASSUME Init
  PROVE  ColumnInv
<1>0. None \notin Pages /\ None \notin Threads /\ MaxCalls \in Nat /\ SparePages \in Nat \ {0} /\ Places = 0 .. SparePages - 1
  BY ColumnAssumption DEF Places
<1>1. PICK there \in Starts, k \in Kinds, emptied \in SUBSET Pages :
        /\ emptied \subseteq Pages \ {i[1] : i \in there}
        /\ LET slots(p) == {s \in Slots : <<p, s>> \in there}
             memory == {i[1] : i \in there} \cup emptied
         IN
         /\ Cardinality(emptied) <= IF k.value THEN SparePages ELSE 0
         /\ kind = k
         /\ page = [p \in Pages |->
              [mask |-> slots(p), making |-> {}, summary |-> WordsOf(slots(p)), count |-> Cardinality(slots(p)),
               started |-> p \in memory, busy |-> None, parked |-> p \in emptied]]
         /\ backed = IF k.value THEN memory ELSE {}
         /\ pages = Cardinality(memory)
         /\ spares \in [Places -> emptied \cup {None}]
         /\ \A p \in emptied : \E n \in Places : spares[n] = p
         /\ \A n \in Places : spares[n] # None <=> n < Cardinality(emptied)
         /\ nextSpare = Cardinality(emptied) % SparePages
         /\ alive = there
         /\ th = [t \in Threads |-> Idle]
         /\ kept = {}
         /\ calls = 0
  BY DEF Init
<1> DEFINE used == {i[1] : i \in there}
           memory == used \cup emptied
           slots(p) == {s \in Slots : <<p, s>> \in there}
<1>2. /\ there \subseteq Indices /\ used \subseteq Pages /\ memory \subseteq Pages
      /\ \A p \in Pages : slots(p) \in SUBSET Slots /\ (p \in used <=> slots(p) # {})
  <2>1. there \subseteq Indices
    BY ColumnAssumption
  <2>2. \A i \in there : i = <<i[1], i[2]>> /\ i[1] \in Pages /\ i[2] \in Slots
    BY <2>1, ColumnAssumption DEF Pages, Slots
  <2> QED
    BY <2>1, <2>2
<1>3. \A p \in Pages :
        /\ page[p].mask = slots(p) /\ page[p].making = {} /\ page[p].summary = WordsOf(slots(p))
        /\ page[p].count = Cardinality(slots(p)) /\ (page[p].started <=> p \in memory)
        /\ page[p].busy = None /\ (page[p].parked <=> p \in emptied)
  BY <1>1
<1>4. /\ \A u \in Threads : th[u] = Idle
      /\ alive = there /\ kept = {} /\ calls = 0 /\ pages = Cardinality(memory) /\ backed = IF kind.value THEN memory ELSE {}
      /\ spares \in [Places -> emptied \cup {None}]
      /\ \A p \in emptied : \E n \in Places : spares[n] = p
  BY <1>1
<1>5. \A p \in Pages : Cardinality(slots(p)) \in Nat /\ WordsOf(slots(p)) \in SUBSET Nat
                       /\ (Cardinality(slots(p)) = 0 <=> slots(p) = {})
  <2> HIDE DEF slots
  <2> QED
    BY <1>2, SizeOfSlots, WordsAreNats DEF Size
<1>6. Cardinality(memory) \in Nat /\ Cardinality(emptied) \in Nat
  <2>1. memory \in SUBSET Pages /\ emptied \in SUBSET Pages
    BY <1>2
  <2> HIDE DEF memory
  <2> QED
    BY <2>1, SlotsAreFinite, FS_Subset, FS_CardinalityType
<1>7. Typed
  <2>1. page \in [Pages -> Headers]
    <3>1. \A p \in Pages :
            [mask |-> slots(p), making |-> {}, summary |-> WordsOf(slots(p)), count |-> Cardinality(slots(p)),
             started |-> p \in memory, busy |-> None, parked |-> p \in emptied] \in Headers
      BY <1>2, <1>5 DEF Headers
    <3> QED
      BY <1>1, <3>1
  <2>2. th \in [Threads -> Locals]
    BY <1>1, IdleTyped
  <2>3. nextSpare \in Places /\ spares \in [Places -> Pages \cup {None}]
    BY <1>0, <1>1, <1>6
  <2> QED
    BY <1>1, <1>2, <1>4, <1>6, <2>1, <2>2, <2>3 DEF Typed
<1> HIDE DEF slots, memory, used
<1>8. PlacesAreRight
  BY <1>4, IdlePlace DEF PlacesAreRight
<1>9. MakingTells /\ BitsAreOwn /\ CallsAreApart /\ FreshIsMissing /\ WipedIsThere /\ AddedIsThere /\ NobodyIsIn
  BY <1>3, <1>4, IdleIsNowhere DEF MakingTells, BitsAreOwn, CallsAreApart, FreshIsMissing, WipedIsThere,
     AddedIsThere, NobodyIsIn
<1>10. AliveTells
  <2>1. \A p \in Pages, s \in Slots : s \in page[p].mask <=> <<p, s>> \in alive
    BY <1>3, <1>4 DEF slots
  <2>2. \A p, s : ~IsComing(p, s) /\ ~IsGoing(p, s)
    BY <1>4, IdleIsNowhere DEF IsComing, IsGoing
  <2> QED
    BY <2>1, <2>2 DEF AliveTells
<1>11. LoopsMissNothing
  BY <1>3 DEF LoopsMissNothing
<1>12. CountIsExact
  <2> SUFFICES ASSUME NEW p \in Pages
               PROVE  page[p].count = Cardinality(Holders(p))
    BY DEF CountIsExact
  <2>1. Holders(p) = {None} \X slots(p)
    BY <1>3, <1>4, IdleIsNowhere DEF Holders, HoldersOf
  <2> QED
    BY <1>2, <1>3, <2>1, SizeOfRow DEF Size
<1>13. BusyTells
  BY <1>3, <1>4, IdleIsNowhere DEF BusyTells, LockedPcs, VacatePcs
<1>14. \A p : (Live(p) <=> page[p].started) /\ \A u \in Threads : ~Half(th[u], p)
  BY <1>4, IdleIsNowhere DEF Live
<1>15. StartedTells
  BY <1>3, <1>4, <1>14, IdleIsNowhere DEF StartedTells, HalfPcs, GonePcs
<1>16. PagesAreCounted
  <2>1. {p \in Pages : Live(p)} = memory
    BY <1>2, <1>3, <1>14
  <2> QED
    BY <1>4, <2>1 DEF PagesAreCounted
<1>17. MemoryIsThere
  BY <1>2, <1>3, <1>4, <1>14, IdleIsNowhere DEF MemoryIsThere, memory
<1>18. SparesTell
  <2>1. \A n, m \in Places : spares[n] = spares[m] /\ spares[n] # None => n = m
    <3>1. Cardinality(emptied) <= SparePages
      BY <1>0, <1>1, <1>6
    <3> QED
      BY <1>1, <3>1, SparesAreApart
  <2>2. \A p \in Pages : page[p].parked <=> \E n \in Places : spares[n] = p
    BY <1>0, <1>3, <1>4
  <2>3. \A u \in Threads : \A p : ~Carries(th[u], p)
    BY <1>4, IdleIsNowhere
  <2> QED
    BY <2>1, <2>2, <2>3 DEF SparesTell
<1>19. NoneIsStranded
  BY <1>2, <1>3, <1>5, <1>14 DEF NoneIsStranded, memory
<1>20. TheEnd
  BY <1>0, <1>4 DEF TheEnd
<1> QED
  BY <1>7, <1>8, <1>9, <1>10, <1>11, <1>12, <1>13, <1>15, <1>16, <1>17, <1>18, <1>19, <1>20 DEF ColumnInv

-----------------------------------------------------------------------------
(* What always holds.                                                      *)

\* Where nothing changes the invariant stays, and a step of Next keeps it.
LEMMA StutterKeeps ==
  ASSUME ColumnInv, UNCHANGED vars
  PROVE  ColumnInv'
<1>0. /\ Typed /\ PlacesAreRight
      /\ MakingTells /\ BitsAreOwn /\ CallsAreApart
      /\ FreshIsMissing /\ AliveTells /\ WipedIsThere /\ AddedIsThere /\ LoopsMissNothing
      /\ CountIsExact /\ BusyTells /\ StartedTells /\ PagesAreCounted /\ MemoryIsThere /\ NobodyIsIn
      /\ SparesTell /\ NoneIsStranded /\ TheEnd
  BY DEF ColumnInv
<1>1. /\ kind' = kind /\ page' = page /\ th' = th /\ spares' = spares /\ nextSpare' = nextSpare /\ alive' = alive
      /\ pages' = pages /\ backed' = backed /\ kept' = kept /\ calls' = calls
  BY DEF vars, memoryVars, spareVars
<1>2. Typed'
  BY <1>0, <1>1 DEF Typed
<1>3. PlacesAreRight'
  <2>1. \A u \in Threads : Place(th'[u])
    BY <1>0, <1>1 DEF PlacesAreRight
  <2> QED
    BY <1>1, <2>1, PlaceStays DEF PlacesAreRight
<1>4. MakingTells' /\ BitsAreOwn'
  BY <1>0, <1>1, BitsStay DEF BitsTell
<1>5. CallsAreApart' /\ FreshIsMissing' /\ WipedIsThere' /\ AddedIsThere'
  BY <1>0, <1>1 DEF CallsAreApart, FreshIsMissing, WipedIsThere, AddedIsThere
<1>6. AliveTells'
  BY <1>0, <1>1 DEF AliveTells, IsComing, IsGoing
<1>7. LoopsMissNothing'
  BY <1>0, <1>1 DEF LoopsMissNothing, SummaryIsDue
<1>8. CountIsExact' /\ BusyTells'
  BY <1>0, <1>1 DEF CountIsExact, Holders, BusyTells
<1>9. \A p : Live(p)' <=> Live(p)
  BY <1>1 DEF Live
<1>10. StartedTells' /\ NobodyIsIn' /\ SparesTell'
  BY <1>0, <1>1 DEF StartedTells, NobodyIsIn, SparesTell
<1>11. PagesAreCounted' /\ NoneIsStranded'
  BY <1>0, <1>1, <1>9 DEF PagesAreCounted, NoneIsStranded
<1>12. MemoryIsThere'
  BY <1>0, <1>1 DEF MemoryIsThere, Live
<1>13. TheEnd'
  BY <1>0, <1>1 DEF TheEnd, Quiet
<1> QED
  BY <1>2, <1>3, <1>4, <1>5, <1>6, <1>7, <1>8, <1>10, <1>11, <1>12, <1>13 DEF ColumnInv

LEMMA NextKeeps ==
  ASSUME ColumnInv, [Next]_vars
  PROVE  ColumnInv'
<1>1. Typed /\ PlacesAreRight
  BY DEF ColumnInv
<1>2. ASSUME NEW t \in Threads, NEW op \in Ops, NEW p \in Pages, NEW slots \in SUBSET Slots, Call(t, op, p, slots)
      PROVE  ColumnInv'
  BY <1>1, <1>2, CallComes, CallKeeps
<1>3. ASSUME NEW t \in Threads, CallTrim(t)
      PROVE  ColumnInv'
  BY <1>1, <1>3, TrimComes, CallKeeps
<1>4. ASSUME NEW t \in Threads, Step(t)
      PROVE  ColumnInv'
  BY <1>4, StepKeeps
<1>5. CASE Destructor
  BY <1>5, DestructorKeeps
<1>6. CASE Done \/ UNCHANGED vars
  BY <1>6, StutterKeeps DEF Done
<1> QED
  BY <1>2, <1>3, <1>4, <1>5, <1>6 DEF Next

\* The invariant of the column: every conjunct of it needs others of them.
THEOREM ColumnStaysRight == Spec => []ColumnInv
<1>1. Init => ColumnInv
  BY InitKeeps
<1>2. ColumnInv /\ [Next]_vars => ColumnInv'
  BY NextKeeps
<1> QED
  BY <1>1, <1>2, PTL DEF Spec

\* A page that is live has memory for its values, if they have members.
LEMMA LiveIsBacked ==
  ASSUME ColumnInv, kind.value, NEW p \in Pages, Live(p)
  PROVE  p \in backed
<1>1. page[p].started \/ \E u \in Threads : Half(th[u], p)
  BY DEF Live, Gone, Half, HalfPcs
<1> QED
  BY <1>1 DEF ColumnInv, StartedTells

\* Who uses a value needs the memory of its page and has the index for himself.
LEMMA UsersOwn ==
  ASSUME ColumnInv, NEW t \in Threads, UsesValue(t)
  PROVE  /\ th[t] \in Locals /\ Place(th[t]) /\ th[t].page \in Pages /\ th[t].pc # "idle" /\ th[t].op \in Ops
         /\ Needs(th[t]) /\ Owns(th[t])
<1> DEFINE l == th[t]
<1>0. Typed /\ PlacesAreRight /\ l \in Locals /\ Place(l) /\ l.pc \in {"construct", "change", "hooks", "destroy"}
  BY DEF ColumnInv, Typed, PlacesAreRight, UsesValue
<1>1. l.op # "trim"
  BY <1>0 DEF Place, MakingPcs, Adders, Erasers
<1>2. l.page \in Pages /\ l.op \in Ops /\ l.slots # {}
  BY <1>0, <1>1, CallHasPage DEF Place
<1>3. Needs(l)
  BY <1>0, <1>2 DEF Needs, Extra, EarlyPcs, Place
<1>4. Owns(l)
  <2>1. CASE l.pc = "construct"
    <3>1. l.op \in {"emplace", "apply", "tryEmplace", "replace"}
      BY <1>0, <2>1 DEF Place, MakingPcs, Adders
    <3> QED
      BY <2>1, <3>1 DEF Owns, Holding, Bitten
  <2>2. CASE l.pc = "change"
    BY <1>0, <2>2 DEF Place, Owns, Holding, Bitten
  <2>3. CASE l.pc = "hooks"
    BY <1>0, <2>3 DEF Place, Owns, Holding, Bitten, Adders, Erasers
  <2>4. CASE l.pc = "destroy"
    BY <1>0, <2>4 DEF Place, Owns, Holding, Bitten, Erasers
  <2> QED
    BY <1>0, <2>1, <2>2, <2>3, <2>4
<1> QED
  BY <1>0, <1>2, <1>3, <1>4

\* The maker of a component finds none in its place that is not in the mask, and
\* whoever uses one finds it there.
LEMMA UsersFind ==
  ASSUME ColumnInv, NEW t \in Threads, UsesValue(t), kind.destroys
  PROVE  IF th[t].pc = "construct" THEN At(t) \cap alive \subseteq {th[t].page} \X Mine(t).mask
         ELSE At(t) \subseteq alive
<1> DEFINE l == th[t]
           q == l.page
<1>0. /\ Typed /\ PlacesAreRight /\ BitsAreOwn /\ CallsAreApart /\ FreshIsMissing /\ AliveTells /\ AddedIsThere
      /\ l \in Locals /\ Place(l) /\ q \in Pages /\ l.pc # "idle" /\ Owns(l) /\ l.slots \in SUBSET Slots
      /\ l.pc \in {"construct", "change", "hooks", "destroy"}
  BY UsersOwn, Fields DEF ColumnInv, UsesValue
<1>1. ASSUME l.pc = "construct", NEW s \in l.slots, <<q, s>> \in alive
      PROVE  s \in page[q].mask
  <2>0. s \in Slots
    BY <1>0
  <2>1. Coming(l) = {} /\ Going(l) = {}
    BY <1>1 DEF Coming, Going
  <2>2. s \in page[q].mask \/ OthersComing(t, q, s) \/ OthersGoing(t, q, s)
    BY <1>0, <1>1, <2>0, <2>1 DEF AliveTells, IsComing, IsGoing, OthersComing, OthersGoing
  <2>3. ~OthersComing(t, q, s) /\ ~OthersGoing(t, q, s)
    BY <1>0, <1>1, <2>0, OthersApart
  <2> QED
    BY <2>2, <2>3
<1>2. ASSUME l.pc # "construct", NEW s \in l.slots
      PROVE  <<q, s>> \in alive
  <2>0. s \in Slots /\ q # None
    BY <1>0, ColumnAssumption
  <2>1. CASE l.pc = "change" \/ (l.pc = "hooks" /\ l.op \notin Erasers)
    <3>1. Added(l) = l.slots
      BY <2>1 DEF Added, MaskPcs
    <3>2. s \in page[q].mask
      BY <1>0, <1>2, <2>0, <3>1 DEF AddedIsThere
    <3> QED
      BY <1>0, <2>0, <3>2 DEF AliveTells
  <2>2. CASE l.pc = "destroy" \/ (l.pc = "hooks" /\ l.op \in Erasers)
    <3>1. Going(l) = l.slots
      BY <1>0, <2>2 DEF Going, Place
    <3>2. IsGoing(q, s)
      BY <1>2, <3>1 DEF IsGoing
    <3> QED
      BY <1>0, <2>0, <3>2 DEF AliveTells
  <2> QED
    BY <1>0, <1>2, <2>1, <2>2
<1> QED
  BY <1>1, <1>2 DEF At, Mine

\* Values are used while their page has memory, by one thread at a time, and
\* while there is a component in their place: what a page keeps its memory for is
\* its count, and the making bits that vacate looks at after it.
THEOREM UsedSafely == Spec => []ValuesAreUsedSafely
<1>1. ColumnInv => ValuesAreUsedSafely
  <2> SUFFICES ASSUME ColumnInv, NEW t \in Threads, UsesValue(t)
               PROVE  /\ th[t].page \in backed
                      /\ kind.destroys =>
                           IF th[t].pc = "construct" THEN At(t) \cap alive \subseteq {th[t].page} \X Mine(t).mask
                           ELSE At(t) \subseteq alive
                      /\ \A u \in Threads \ {t} : UsesValue(u) => At(t) \cap At(u) = {}
    BY DEF ValuesAreUsedSafely
  <2>1. th[t].page \in backed
    <3>1. Live(th[t].page)
      BY UsersOwn DEF ColumnInv, MemoryIsThere
    <3> QED
      BY <3>1, UsersOwn, LiveIsBacked DEF UsesValue
  <2>2. ASSUME NEW u \in Threads, u # t, UsesValue(u)
        PROVE  At(t) \cap At(u) = {}
    <3>1. Owns(th[t]) /\ Owns(th[u]) /\ th[t].pc # "idle" /\ th[u].pc # "idle"
      BY <2>2, UsersOwn
    <3>2. ~Meet(th[t], th[u])
      BY <2>2, <3>1, OwnersApart DEF ColumnInv
    <3> QED
      BY <3>2 DEF Meet, At
  <2> QED
    BY <2>1, <2>2, UsersFind
<1> QED
  BY <1>1, ColumnStaysRight, PTL

\* Who finds an index in the mask finds the component made, and its memory.
THEOREM MaskTells == Spec => []MaskTellsWhatIsThere
<1>1. ColumnInv => MaskTellsWhatIsThere
  <2> SUFFICES ASSUME ColumnInv, NEW i \in Indices, i[2] \in page[i[1]].mask
               PROVE  i \in alive /\ (kind.value => i[1] \in backed)
    BY DEF MaskTellsWhatIsThere
  <2>1. i = <<i[1], i[2]>> /\ i[1] \in Pages /\ i[2] \in Slots
    BY ColumnAssumption DEF Pages, Slots
  <2>2. i \in alive
    BY <2>1 DEF ColumnInv, AliveTells
  <2>3. Live(i[1])
    BY <2>1 DEF ColumnInv, MemoryIsThere
  <2> QED
    BY <2>1, <2>2, <2>3, LiveIsBacked
<1> QED
  BY <1>1, ColumnStaysRight, PTL

\* A word of the mask with a bit is in the summary, or somebody is about to see
\* to it: markWord races with emptied, and one of the two puts it right.
THEOREM LoopsFindAll == Spec => []LoopsMissNothing
<1>1. ColumnInv => LoopsMissNothing
  BY DEF ColumnInv
<1> QED
  BY <1>1, ColumnStaysRight, PTL

\* Between calls count, memory, spares and m_pages agree, no page is stranded
\* with its memory, and the destructor leaves no component behind.
THEOREM MemoryIsAccounted == Spec => []MemoryIsAccountedFor
<1>1. ColumnInv => MemoryIsAccountedFor
  <2> SUFFICES ASSUME ColumnInv, Quiet
               PROVE  /\ calls > MaxCalls /\ kind.destroys => alive = {}
                      /\ \A p \in Pages : LET h == page[p] IN
                           /\ h.count = Cardinality(h.mask)
                           /\ h.making = {} /\ h.busy = None
                           /\ h.mask # {} => h.started
                           /\ kind.value => (h.started <=> p \in backed)
                           /\ h.parked <=> \E n \in Places : spares[n] = p
                           /\ h.started /\ h.mask = {} => h.parked \/ p \in kept
                      /\ pages = Cardinality({p \in Pages : page[p].started})
                      /\ \A n, m \in Places : spares[n] = spares[m] /\ spares[n] # None => n = m
    BY DEF MemoryIsAccountedFor
  <2>0. /\ Typed /\ MakingTells /\ CountIsExact /\ BusyTells /\ StartedTells /\ PagesAreCounted /\ MemoryIsThere
        /\ SparesTell /\ NoneIsStranded /\ TheEnd
        /\ \A u \in Threads : th[u] = Idle
        /\ \A p : Live(p) <=> page[p].started
    BY LiveWhenQuiet DEF ColumnInv, Quiet
  <2>1. ASSUME NEW p \in Pages
        PROVE  /\ page[p].count = Cardinality(page[p].mask) /\ (page[p].count = 0 <=> page[p].mask = {})
               /\ page[p].making = {} /\ page[p].busy = None
    <3>1. page[p] \in Headers /\ page[p].mask \in SUBSET Slots /\ page[p].making \in SUBSET Slots
          /\ page[p].busy \in Threads \cup {None}
      BY <2>0 DEF Typed, Headers
    <3>2. Holders(p) = {None} \X page[p].mask
      BY <2>0, IdleIsNowhere DEF Holders, HoldersOf
    <3>3. page[p].count = Cardinality(page[p].mask) /\ (page[p].count = 0 <=> page[p].mask = {})
      <4>1. page[p].count = Cardinality({None} \X page[p].mask)
        BY <2>0, <3>2 DEF CountIsExact
      <4>2. Cardinality({None} \X page[p].mask) = Cardinality(page[p].mask)
        BY <3>1, SizeOfRow DEF Size
      <4>3. Cardinality(page[p].mask) = 0 <=> page[p].mask = {}
        BY <3>1, SizeOfSlots DEF Size
      <4> QED
        BY <4>1, <4>2, <4>3
    <3>4. page[p].making = {}
      BY <2>0, <3>1, IdleIsNowhere DEF MakingTells
    <3>5. page[p].busy = None
      BY <2>0, <3>1, IdleIsNowhere DEF BusyTells, LockedPcs, VacatePcs
    <3> QED
      BY <3>3, <3>4, <3>5
  <2>2. ASSUME NEW p \in Pages
        PROVE  /\ page[p].mask # {} => page[p].started
               /\ kind.value => (page[p].started <=> p \in backed)
    BY <2>0, IdleIsNowhere DEF MemoryIsThere, StartedTells
  <2>3. ASSUME NEW p \in Pages
        PROVE  /\ page[p].parked <=> \E n \in Places : spares[n] = p
               /\ page[p].started /\ page[p].mask = {} => page[p].parked \/ p \in kept
    BY <2>0, <2>1, IdleIsNowhere DEF SparesTell, NoneIsStranded
  <2>4. pages = Cardinality({p \in Pages : page[p].started})
    <3>1. {p \in Pages : Live(p)} = {p \in Pages : page[p].started}
      BY <2>0
    <3> QED
      BY <2>0, <3>1 DEF PagesAreCounted
  <2>5. \A n, m \in Places : spares[n] = spares[m] /\ spares[n] # None => n = m
    BY <2>0 DEF SparesTell
  <2>6. calls > MaxCalls /\ kind.destroys => alive = {}
    BY <2>0 DEF TheEnd
  <2> QED
    BY <2>1, <2>2, <2>3, <2>4, <2>5, <2>6
<1> QED
  BY <1>1, ColumnStaysRight, PTL

=============================================================================
