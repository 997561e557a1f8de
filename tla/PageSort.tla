------------------------------- MODULE PageSort -------------------------------
(***************************************************************************)
(* PageSort of src/sc/ecs/world.hpp: items sorted by the page of their     *)
(* entity, keeping their order, by several threads.  count gives every     *)
(* page that has items a number, which threads race for, and counts the    *)
(* items of every segment per number; place puts them in order.  The       *)
(* loops on the pool are module ParallelLoop: here the segments are taken  *)
(* in order by the threads that take part.                                 *)
(*                                                                         *)
(* An item is [of |-> what it is, index |-> the index of its entity].      *)
(* Numbers of pages start at 0 as in the code, sequences at 1.             *)
(***************************************************************************)
EXTENDS Integers, Sequences, FiniteSets, SequencesExt

CONSTANTS
  Threads,      \* 1 .. n; 1 calls, t helps if t - 1 helpers are asked for
  PAGE_SIZE,    \* indices per page
  PAGE_COUNT,   \* pages; an index past them is that of the null entity
  SEGMENT,      \* items per segment
  NOTED_ITEMS,  \* items up to which count notes their numbers for place
  SCAN_SPREAD,  \* see FoundPages
  Sorts         \* the objects of the class

ASSUME SortAssumption ==
  /\ {PAGE_SIZE, PAGE_COUNT, SEGMENT} \subseteq Nat \ {0}
  /\ {NOTED_ITEMS, SCAN_SPREAD} \subseteq Nat
  /\ Threads \subseteq Nat /\ 1 \in Threads

VARIABLES
  numbers,      \* m_numbers of every object: number plus one, or 0
  segments,     \* m_segments of the object in use, as all below
  used,         \* m_used
  counts,       \* m_counts, from place on where the next item goes
  numbered,     \* m_numbered
  itemNumbers,  \* m_itemNumbers, by segment
  found,        \* m_found
  offsets,      \* m_offsets
  order,        \* m_order
  units,        \* the loop that runs: [next, last, helpers]
  worker        \* what each thread is at

sortVars == <<numbers, segments, used, counts, numbered, itemNumbers, found, offsets, order>>

INDEX_LIMIT == PAGE_COUNT * PAGE_SIZE
Pages == 0 .. PAGE_COUNT - 1
PageOf(index) == index \div PAGE_SIZE
NO_PAGE == -1
Idle == [at |-> "idle"]
NoUnits == [next |-> 1, last |-> 0, helpers |-> 0]

SortInit ==
  /\ numbers = [s \in Sorts |-> [p \in Pages |-> 0]]
  /\ segments = <<>> /\ used = 0
  /\ counts = <<>> /\ numbered = <<>> /\ itemNumbers = <<>>
  /\ found = <<>> /\ offsets = <<>> /\ order = <<>>
  /\ units = NoUnits /\ worker = [t \in Threads |-> Idle]

-----------------------------------------------------------------------------
(* parallelFor, one unit at a time. *)

(* A loop over so many units. *)
Loop(count, helpers) == units' = [next |-> 1, last |-> count, helpers |-> helpers]

(* A thread takes the next unit. *)
TakeUnit(t) ==
  /\ worker[t] = Idle /\ t <= units.helpers + 1
  /\ units.next <= units.last
  /\ units' = [units EXCEPT !.next = @ + 1]

LoopIsOver == units.next > units.last /\ \A t \in Threads : worker[t] = Idle

-----------------------------------------------------------------------------
(* count *)

(* add: the items of a span in pieces of SEGMENT. *)
Pieces(items) ==
  [s \in 1 .. (Len(items) + SEGMENT - 1) \div SEGMENT |->
     SubSeq(items, (s - 1) * SEGMENT + 1,
                   IF s * SEGMENT < Len(items) THEN s * SEGMENT ELSE Len(items))]

Items == FlattenSeq(segments)
noted == Len(Items) <= NOTED_ITEMS

(* clear, add of every span, and the start of count. *)
StartCount(spans, helpers) ==
  LET pieces == FlattenSeq([s \in DOMAIN spans |-> Pieces(spans[s])])
      none == [s \in DOMAIN pieces |-> <<>>]
  IN  /\ segments' = pieces
      /\ used' = 0 /\ counts' = none /\ numbered' = none /\ itemNumbers' = none
      /\ Loop(Len(pieces), helpers)
      /\ UNCHANGED <<numbers, found, offsets, order, worker>>

CountSegment(t) ==
  /\ TakeUnit(t)
  /\ worker' = [worker EXCEPT ![t] = [at |-> "count", segment |-> units.next, k |-> 1,
                                      last |-> [page |-> NO_PAGE, number |-> 0]]]
  /\ UNCHANGED sortVars

ItemOf(t) == segments[worker[t].segment][worker[t].k]
HasItem(t) == worker[t].at = "count" /\ worker[t].k <= Len(segments[worker[t].segment])

(* The item is one of the number: the end of numberOf and of the loop of   *)
(* countSegment.                                                           *)
CountAs(t, page, number) ==
  LET s == worker[t].segment
      sofar == counts[s]
      grown == IF number < Len(sofar) THEN sofar
               ELSE sofar \o [n \in 1 .. number + 1 - Len(sofar) |-> 0]
  IN  /\ counts' = [counts EXCEPT ![s] = [grown EXCEPT ![number + 1] = @ + 1]]
      /\ itemNumbers' = [itemNumbers EXCEPT ![s] = Append(@, number)]
      /\ worker' = [worker EXCEPT ![t] = [at |-> "count", segment |-> s, k |-> @.k + 1,
                                          last |-> [page |-> page, number |-> number]]]

(* The null entity has no page; what is done with the item instead is up   *)
(* to the caller of count.                                                 *)
CountNone(t) ==
  /\ HasItem(t) /\ ItemOf(t).index >= INDEX_LIMIT
  /\ itemNumbers' = [itemNumbers EXCEPT ![worker[t].segment] = Append(@, NO_PAGE)]
  /\ worker' = [worker EXCEPT ![t].k = @ + 1]
  /\ UNCHANGED <<numbers, segments, used, counts, numbered, found, offsets, order, units>>

(* numberOf: the page of the item before, or one that has a number. *)
CountKnown(sort, t) ==
  /\ HasItem(t) /\ ItemOf(t).index < INDEX_LIMIT
  /\ LET page == PageOf(ItemOf(t).index) IN
     \/ /\ page = worker[t].last.page
        /\ CountAs(t, page, worker[t].last.number)
     \/ /\ page # worker[t].last.page /\ numbers[sort][page] # 0
        /\ CountAs(t, page, numbers[sort][page] - 1)
  /\ UNCHANGED <<numbers, segments, used, numbered, found, offsets, order, units>>

(* numberOf: the page has none, so the thread takes one. *)
TakeNumber(sort, t) ==
  /\ HasItem(t) /\ ItemOf(t).index < INDEX_LIMIT
  /\ LET page == PageOf(ItemOf(t).index)
     IN  page # worker[t].last.page /\ numbers[sort][page] = 0
  /\ worker' = [worker EXCEPT ![t].at = "take"]
  /\ UNCHANGED <<sortVars, units>>

(* m_used.fetch_add(1) *)
Taken(t) ==
  /\ worker[t].at = "take"
  /\ used' = used + 1
  /\ worker' = [worker EXCEPT ![t] = [at |-> "give", segment |-> @.segment, k |-> @.k, taken |-> used]]
  /\ UNCHANGED <<numbers, segments, counts, numbered, itemNumbers, found, offsets, order, units>>

(* compare_exchange: the page gets the number unless another thread was    *)
(* faster, whose number it is then.                                        *)
GiveNumber(sort, t) ==
  /\ worker[t].at = "give"
  /\ LET page == PageOf(ItemOf(t).index)
         taken == worker[t].taken
     IN  \/ /\ numbers[sort][page] = 0
            /\ numbers' = [numbers EXCEPT ![sort][page] = taken + 1]
            /\ numbered' = [numbered EXCEPT ![worker[t].segment] = Append(@, [page |-> page, number |-> taken])]
            /\ CountAs(t, page, taken)
         \/ /\ numbers[sort][page] # 0
            /\ CountAs(t, page, numbers[sort][page] - 1)
            /\ UNCHANGED <<numbers, numbered>>
  /\ UNCHANGED <<segments, used, found, offsets, order, units>>

SegmentCounted(t) ==
  /\ worker[t].at = "count" /\ ~HasItem(t)
  /\ worker' = [worker EXCEPT ![t] = Idle]
  /\ UNCHANGED <<sortVars, units>>

(* The pages that have items by number: straight from m_numbers where they *)
(* lie close together, otherwise what the segments gave a number, sorted.  *)
FoundPages(sort) ==
  LET all == FlattenSeq(numbered)
      pages == {all[i].page : i \in DOMAIN all}
      lowest == CHOOSE p \in pages : \A q \in pages : p <= q
      highest == CHOOSE p \in pages : \A q \in pages : p >= q
      Scanned == [i \in 1 .. highest - lowest + 1 |->
                    [page |-> lowest + i - 1, number |-> numbers[sort][lowest + i - 1] - 1]]
  IN  IF all # <<>> /\ highest - lowest < SCAN_SPREAD * Len(all)
      THEN SelectSeq(Scanned, LAMBDA f : f.number >= 0)
      ELSE SortSeq(all, LAMBDA f, g : f.page < g.page)

(* The end of count. *)
FindPages(sort) ==
  /\ LoopIsOver
  /\ found' = FoundPages(sort)
  /\ UNCHANGED <<numbers, segments, used, counts, numbered, itemNumbers, offsets, order, worker>>

-----------------------------------------------------------------------------
(* place *)

(* The numbers of a sequence added up. *)
Total(s) == FoldLeft(LAMBDA a, b : a + b, 0, s)

(* How many items of the number the first so many segments have. *)
CountedIn(number, last) ==
  Total([s \in 1 .. last |-> IF number < Len(counts[s]) THEN counts[s][number + 1] ELSE 0])

(* Where the items of found[i] start; i may be one past the last. *)
OffsetOf(i) == Total([j \in 1 .. i - 1 |-> CountedIn(found[j].number, Len(segments))])

(* Where the segment puts its first item of the number: past those of the  *)
(* pages before and those of the segments before.                          *)
PlaceOf(number, segment) ==
  LET i == SelectInSeq(found, LAMBDA f : f.number = number)
  IN  (IF i = 0 THEN 0 ELSE OffsetOf(i)) + CountedIn(number, segment - 1)

(* The start of place. *)
StartPlace(helpers) ==
  /\ offsets' = [i \in 1 .. Len(found) + 1 |-> OffsetOf(i)]
  /\ counts' = [s \in DOMAIN counts |-> [n \in DOMAIN counts[s] |-> PlaceOf(n - 1, s)]]
  /\ order' = [i \in 1 .. OffsetOf(Len(found) + 1) |-> "nothing"]
  /\ Loop(Len(segments), helpers)
  /\ UNCHANGED <<numbers, segments, used, numbered, itemNumbers, found, worker>>

(* The numbers of the items of a segment, noted or looked up again. *)
NumbersOf(sort, s) ==
  IF noted THEN itemNumbers[s]
  ELSE [k \in DOMAIN segments[s] |->
          LET index == segments[s][k].index
          IN  IF index < INDEX_LIMIT THEN numbers[sort][PageOf(index)] - 1 ELSE NO_PAGE]

(* A thread puts the items of a segment in their places; no other segment  *)
(* has these places, which SortIsStable is about, so in one step.          *)
PlaceSegment(sort, t) ==
  /\ TakeUnit(t)
  /\ LET s == units.next
         number == NumbersOf(sort, s)
         Place(k) == counts[s][number[k] + 1] + Cardinality({j \in 1 .. k - 1 : number[j] = number[k]}) + 1
         placed == {k \in DOMAIN number : number[k] # NO_PAGE}
     IN  order' = [i \in DOMAIN order |->
                     IF \E k \in placed : Place(k) = i
                     THEN segments[s][CHOOSE k \in placed : Place(k) = i].of
                     ELSE order[i]]
  /\ UNCHANGED <<numbers, segments, used, counts, numbered, itemNumbers, found, offsets, worker>>

(* uncount: the numbers of the pages are free for the next sort. *)
Uncount(sort) ==
  numbers' = [numbers EXCEPT ![sort] = [p \in Pages |->
                IF \E i \in DOMAIN found : found[i].page = p THEN 0 ELSE @[p]]]

(* What counting leaves behind is not read again: it is forgotten here, so *)
(* that states differ by what matters.                                     *)
ForgetCounts ==
  /\ used' = 0 /\ counts' = <<>> /\ numbered' = <<>> /\ itemNumbers' = <<>>

(* page: the items of found[i], after place. *)
PageItems(i) == SubSeq(order, offsets[i] + 1, offsets[i + 1])

(* What a sort is for, said without numbers: the items of every page, one  *)
(* page after the other, in the order they were added.                     *)
StablySorted ==
  LET OfPage(p) == SelectSeq(Items, LAMBDA item : PageOf(item.index) = p)
      InOrder == FlattenSeq([p \in 1 .. PAGE_COUNT |-> OfPage(p - 1)])
  IN  /\ order = [i \in DOMAIN InOrder |-> InOrder[i].of]
      /\ {found[i].page : i \in DOMAIN found} = {p \in Pages : OfPage(p) # <<>>}
      /\ \A i \in DOMAIN found : PageItems(i) = [k \in DOMAIN OfPage(found[i].page) |-> OfPage(found[i].page)[k].of]
===============================================================================
