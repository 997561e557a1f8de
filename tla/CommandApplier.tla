---------------------------- MODULE CommandApplier ----------------------------
(***************************************************************************)
(* The command lists of src/sc/ecs/scheduler.hpp and what is done with     *)
(* them after a stage: CommandList, finishEmplace and finishModify,        *)
(* PageAdds, CommandApplier, and of src/sc/ecs/world.hpp the destroy of    *)
(* many entities (parallelDestroy, destroyQuietly).                        *)
(*                                                                         *)
(* An entity is <<index, generation>>.  The value a change was recorded    *)
(* with is the number of the change; a component is the sequence of the    *)
(* changes that made it what it is, 0 for one that was there before.       *)
(***************************************************************************)
EXTENDS PageSort, Bags

CONSTANTS
  Columns,
  AddHooked,            \* the columns with onAdd hooks
  RemoveHooked,         \* the columns with onRemove hooks
  Changes,              \* the changes systems record
  Doomed,               \* the handles they record to be destroyed
  Lists,                \* the number of lists, one per thread
  CHANGES_PER_THREAD, ENTITIES_PER_THREAD,
  WORD,                 \* entities per word of a kill mask (64)
  MaxChanges,           \* bound: changes recorded
  MaxInPage,            \* bound: the same where they are all in one list and one page
  MaxDestroyed,         \* bound: entities recorded to be destroyed
  MaxRecorded,          \* bound: both together, but for destroys in one list
  MaxApplies            \* bound: calls of apply

ASSUME ApplierAssumption ==
  /\ AddHooked \subseteq Columns /\ RemoveHooked \subseteq Columns
  /\ Doomed \subseteq (0 .. INDEX_LIMIT) \X Nat
  /\ Changes \subseteq [entity : Doomed, column : Columns,
                        finish : {"null", "emplace", "replace", "modify"}, throws : BOOLEAN]
  /\ {CHANGES_PER_THREAD, ENTITIES_PER_THREAD, WORD, Lists} \subseteq Nat \ {0}
  /\ PAGE_SIZE % WORD = 0
  /\ {"changes", "destroy"} = Sorts
  /\ {MaxChanges, MaxInPage, MaxDestroyed, MaxRecorded, MaxApplies} \subseteq Nat /\ MaxChanges <= MaxInPage

VARIABLES
  columns,    \* of each column the components (value) and the counts of its pages (count)
  generation, \* EntityAllocator: of each index
  freed,      \* m_freed, by page of the sort
  given,      \* the indices given back to the free lists
  lists,      \* CommandList: [changes, destroyed] of each list
  apply,      \* where apply is
  failed,     \* applySpread: failed, and error with it
  hooked,     \* m_hooked
  stashes,    \* m_stashes, the items of each
  drops,      \* how often the value of each change was dropped
  added,      \* the components onAdd hooks were called for
  removed,    \* the components onRemove hooks were called for
  tally,      \* how many changes, values, destroys and applies there were
  before,     \* columns, changes and born when apply began
  born        \* the components there have been

applierVars == <<columns, generation, freed, given, lists, apply, failed, hooked, stashes, drops,
                 added, removed, tally, before, born>>
vars == <<sortVars, units, worker, applierVars>>

Indices == 0 .. INDEX_LIMIT - 1
None == <<>>
Ids == 1 .. MaxInPage
Token(c, i, value) == <<c, i, Head(value)>>

valid(entity) == entity[1] < INDEX_LIMIT /\ generation[entity[1]] = entity[2]
Has(c, i) == columns[c].value[i] # None
Present == {Token(c, i, columns[c].value[i]) : <<c, i>> \in {x \in Columns \X Indices : Has(x[1], x[2])}}
InPage(value, p) == {i \in Indices : PageOf(i) = p /\ value[i] # None}

Init ==
  /\ SortInit
  /\ \E there \in {{}, {i \in Indices : \E e \in Doomed : e[1] = i}} :
       LET value == [i \in Indices |-> IF i \in there THEN <<0>> ELSE None]
       IN  columns = [c \in Columns |-> [value |-> value,
                                         count |-> [p \in Pages |-> Cardinality(InPage(value, p))]]]
  /\ generation = [i \in Indices |-> 1] /\ freed = <<>> /\ given = <<>>
  /\ lists = [l \in 1 .. Lists |-> [changes |-> <<>>, destroyed |-> <<>>]]
  /\ apply = "no" /\ failed = FALSE
  /\ hooked = <<>> /\ stashes = <<>>
  /\ drops = [n \in Ids |-> 0]
  /\ added = EmptyBag /\ removed = EmptyBag
  /\ tally = [changes |-> 0, values |-> 0, destroyed |-> 0, applies |-> 0]
  /\ born = Present
  /\ before = [columns |-> columns, changes |-> <<>>, born |-> born]

-----------------------------------------------------------------------------
(* CommandList: what systems record. *)

AllChanges == FlattenSeq([l \in 1 .. Lists |-> lists[l].changes])
AllDestroyed == FlattenSeq([l \in 1 .. Lists |-> lists[l].destroyed])

(* note: the page all changes of the list are in, or NO_PAGE. *)
PageOfList(l) ==
  LET changes == lists[l].changes
      page == PageOf(changes[1].entity[1])
  IN  IF \A k \in DOMAIN changes : PageOf(changes[k].entity[1]) = page THEN page ELSE NO_PAGE

(* The bound on changes. *)
MayRecord(l, change) ==
  \/ tally.changes < MaxChanges /\ tally.changes + tally.destroyed < MaxRecorded
  \/ /\ tally.changes < MaxInPage /\ tally.destroyed = 0 /\ l = 1
     /\ Len(lists[1].changes) = tally.changes
     /\ \A k \in DOMAIN lists[1].changes : PageOf(lists[1].changes[k].entity[1]) = PageOf(change.entity[1])

(* emplace, emplaceOrReplace, modify and erase. *)
Record(l, change) ==
  /\ apply = "no" /\ tally.applies < MaxApplies /\ MayRecord(l, change)
  /\ lists' = [lists EXCEPT ![l].changes =
                 Append(@, change @@ [number |-> IF change.finish = "null" THEN 0 ELSE tally.values + 1])]
  /\ tally' = [tally EXCEPT !.changes = @ + 1, !.values = IF change.finish = "null" THEN @ ELSE @ + 1]
  /\ UNCHANGED <<sortVars, units, worker, columns, generation, freed, given, apply, failed, hooked, stashes, drops,
                 added, removed, before, born>>

RecordDestroy(l, entity) ==
  /\ apply = "no" /\ tally.applies < MaxApplies /\ tally.destroyed < MaxDestroyed
  /\ \/ tally.changes + tally.destroyed < MaxRecorded
     \/ tally.changes = 0 /\ l = 1 /\ Len(lists[1].destroyed) = tally.destroyed
  /\ lists' = [lists EXCEPT ![l].destroyed = Append(@, entity)]
  /\ tally' = [tally EXCEPT !.destroyed = @ + 1]
  /\ UNCHANGED <<sortVars, units, worker, columns, generation, freed, given, apply, failed, hooked, stashes, drops,
                 added, removed, before, born>>

-----------------------------------------------------------------------------
(* A page of changes: applyPage, applyList. *)

NoKills == [c \in Columns |-> {}]
NoAdds == [c \in Columns |-> [counted |-> 0, added |-> 0]]

(* A thread starts with the changes, given by list and place. *)
Applying(number, changes, spread) ==
  [at |-> "apply", number |-> number, changes |-> changes, spread |-> spread, k |-> 1,
   step |-> IF Len(changes) < PAGE_SIZE THEN Len(changes) ELSE PAGE_SIZE,
   kills |-> NoKills, adds |-> NoAdds, hooked |-> <<>>, removed |-> <<>>]

ChangeAt(t) == LET at == worker[t].changes[worker[t].k] IN lists[at[1]].changes[at[2]]
HasChange(t) == worker[t].at = "apply" /\ worker[t].k <= Len(worker[t].changes)

(* Column::eraseAlone of kill pages. *)
Erased(cols, kills) ==
  [c \in Columns |->
     [value |-> [i \in Indices |-> IF i \in kills[c] THEN None ELSE cols[c].value[i]],
      count |-> [p \in Pages |-> cols[c].count[p] - Cardinality(InPage(cols[c].value, p) \cap kills[c])]]]

(* The change is done: finish is null, and the value is dropped. *)
Finish(t) ==
  LET at == worker[t].changes[worker[t].k] IN
  /\ lists' = [lists EXCEPT ![at[1]].changes[at[2]].finish = "null"]
  /\ drops' = [drops EXCEPT ![ChangeAt(t).number] = @ + 1]

(* kill: an erase is gathered; a component with onRemove hooks is moved    *)
(* into the stash.                                                         *)
KillChange(t) ==
  /\ HasChange(t)
  /\ LET change == ChangeAt(t)
         c == change.column
         i == change.entity[1]
         stashed == c \in RemoveHooked /\ i \notin worker[t].kills[c] /\ Has(c, i)
     IN  /\ change.finish = "null" /\ valid(change.entity)
         /\ worker' = [worker EXCEPT ![t].k = @ + 1, ![t].kills[c] = @ \cup {i},
              ![t].removed = IF stashed THEN Append(@, Token(c, i, columns[c].value[i])) ELSE @]
  /\ UNCHANGED <<sortVars, units, applierVars>>

(* The erase of an entity that is gone, or a change that is done already.  *)
SkipChange(t) ==
  /\ HasChange(t) /\ ChangeAt(t).finish = "null" /\ ~valid(ChangeAt(t).entity)
  /\ worker' = [worker EXCEPT ![t].k = @ + 1]
  /\ UNCHANGED <<sortVars, units, applierVars>>

(* A mistake in applyChange: the gathered erases are done at the end only. *)
FlushNothing(t) == columns

(* flush: the gathered erases are done before any other change. *)
Flush(t) == Erased(columns, worker[t].kills)

(* The change of an entity that is gone only drops its value. *)
DropChange(t) ==
  /\ HasChange(t) /\ ChangeAt(t).finish # "null" /\ ~valid(ChangeAt(t).entity)
  /\ Finish(t)
  /\ columns' = Flush(t)
  /\ worker' = [worker EXCEPT ![t].k = @ + 1, ![t].kills = NoKills]
  /\ UNCHANGED <<sortVars, units, generation, freed, given, apply, failed, hooked, stashes, added, removed, tally, before, born>>

(* A mistake in PageAdds: it counts ahead once and not again. *)
ReserveOnce(adds, step) ==
  IF adds.counted = 0 THEN step ELSE 0

(* PageAdds::reserve: how many more the page is counted ahead by. *)
Reserve(adds, step) ==
  IF adds.added = adds.counted THEN step ELSE 0

(* A mistake in ~Keep: the adds are kept only if something was removed.    *)
KeptWithRemoved(t) == IF worker[t].removed = <<>> THEN <<>> ELSE worker[t].hooked

(* ~Keep: the adds with hooks go to m_hooked. *)
Kept(t) == worker[t].hooked

(* What a page does when it is left, by an exception or not: ~PageAdds     *)
(* counts back, what hooks are to run for is kept.                         *)
Leave(t, cols) ==
  LET w == worker[t] IN
  /\ columns' = [c \in Columns |-> [cols[c] EXCEPT !.count = [p \in Pages |->
                   IF p = w.number THEN @[p] - (w.adds[c].counted - w.adds[c].added) ELSE @[p]]]]
  /\ hooked' = hooked \o Kept(t)
  /\ stashes' = IF w.removed = <<>> THEN stashes ELSE Append(stashes, w.removed)
  /\ worker' = [worker EXCEPT ![t] = Idle]

(* finishEmplace of a component the entity does not have, or that it has   *)
(* and keeps.                                                              *)
EmplaceChange(t) ==
  /\ HasChange(t)
  /\ LET change == ChangeAt(t)
         c == change.column
         i == change.entity[1]
         cols == Flush(t)
         has == cols[c].value[i] # None
         more == Reserve(worker[t].adds[c], worker[t].step)
         made == <<change.number>>
     IN  /\ valid(change.entity)
         /\ change.finish = "emplace" \/ (change.finish = "replace" /\ ~has)
         /\ has \/ ~change.throws
         /\ columns' = [cols EXCEPT ![c].count[worker[t].number] = @ + more,
                                    ![c].value[i] = IF has THEN @ ELSE made]
         /\ born' = IF has THEN born ELSE born \cup {Token(c, i, made)}
         /\ worker' = [worker EXCEPT ![t].k = @ + 1, ![t].kills = NoKills,
              ![t].adds[c] = [counted |-> @.counted + more, added |-> @.added + IF has THEN 0 ELSE 1],
              ![t].hooked = IF ~has /\ c \in AddHooked THEN Append(@, <<change.entity, c>>) ELSE @]
  /\ Finish(t)
  /\ UNCHANGED <<sortVars, units, generation, freed, given, apply, failed, hooked, stashes, added, removed, tally, before>>

(* finishEmplace with REPLACE of a component the entity has, finishModify. *)
ModifyChange(t) ==
  /\ HasChange(t)
  /\ LET change == ChangeAt(t)
         c == change.column
         i == change.entity[1]
         cols == Flush(t)
         has == cols[c].value[i] # None
     IN  /\ valid(change.entity)
         /\ change.finish = "modify" \/ (change.finish = "replace" /\ has)
         /\ ~(has /\ change.throws)
         /\ columns' = IF has THEN [cols EXCEPT ![c].value[i] = Append(@, change.number)] ELSE cols
         /\ worker' = [worker EXCEPT ![t].k = @ + 1, ![t].kills = NoKills]
  /\ Finish(t)
  /\ UNCHANGED <<sortVars, units, generation, freed, given, apply, failed, hooked, stashes, added, removed, tally, before, born>>

(* Making the component, assigning it or the function of modify throws:    *)
(* the page is left.  A function may have changed the component by then.   *)
ThrowChange(t) ==
  /\ HasChange(t)
  /\ LET change == ChangeAt(t)
         c == change.column
         i == change.entity[1]
         cols == Flush(t)
         has == cols[c].value[i] # None
     IN  /\ valid(change.entity) /\ change.throws
         /\ IF has THEN change.finish \in {"replace", "modify"} ELSE change.finish \in {"emplace", "replace"}
         /\ Leave(t, IF change.finish = "modify" THEN [cols EXCEPT ![c].value[i] = Append(@, change.number)] ELSE cols)
  /\ Finish(t)
  /\ IF worker[t].spread THEN failed' = TRUE /\ UNCHANGED apply
                         ELSE apply' = "threw" /\ UNCHANGED failed
  /\ UNCHANGED <<sortVars, units, generation, freed, given, added, removed, tally, before, born>>

EndPage(t) ==
  /\ worker[t].at = "apply" /\ ~HasChange(t)
  /\ Leave(t, Erased(columns, worker[t].kills))
  /\ apply' = IF worker[t].spread THEN apply ELSE "stashed"
  /\ UNCHANGED <<sortVars, units, generation, freed, given, lists, failed, drops, added, removed, tally, before, born>>

-----------------------------------------------------------------------------
(* apply: the changes. *)

References == [l \in 1 .. Lists |-> [k \in DOMAIN lists[l].changes |-> <<l, k>>]]
ChangeItems ==
  [l \in 1 .. Lists |-> [k \in DOMAIN lists[l].changes |->
     [of |-> <<l, k>>, index |-> lists[l].changes[k].entity[1]]]]

(* onePage: the lists with changes are all in the same page. *)
Noted == {PageOfList(l) : l \in {l \in 1 .. Lists : lists[l].changes # <<>>}}
onePage == Cardinality(Noted) <= 1 /\ NO_PAGE \notin Noted

(* applyInOrder: every change on the calling thread. *)
ApplyInOrder(number) ==
  /\ worker' = [worker EXCEPT ![1] = Applying(number, FlattenSeq(References), FALSE)]
  /\ apply' = "inorder"

Apply ==
  /\ apply = "no" /\ AllChanges \o AllDestroyed # <<>>
  /\ tally.applies < MaxApplies /\ tally' = [tally EXCEPT !.applies = @ + 1]
  /\ before' = [columns |-> columns, changes |-> AllChanges, born |-> born]
  /\ \/ /\ onePage
        /\ ApplyInOrder(IF Noted \subseteq Pages /\ Noted # {} THEN CHOOSE p \in Noted : TRUE ELSE NO_PAGE)
        /\ UNCHANGED <<sortVars, units>>
     \/ /\ ~onePage
        /\ StartCount(ChangeItems, Len(AllChanges) \div CHANGES_PER_THREAD)
        /\ apply' = "count"
  /\ UNCHANGED <<columns, generation, freed, given, lists, failed, hooked, stashes, drops, added, removed, born>>

SortUnchanged == UNCHANGED applierVars

(* count of the changes; one of the null entity drops its value. *)
CountChanges(t) ==
  /\ apply = "count"
  /\ \/ CountSegment(t) /\ SortUnchanged
     \/ /\ \/ CountKnown("changes", t) \/ TakeNumber("changes", t) \/ Taken(t)
           \/ GiveNumber("changes", t) \/ SegmentCounted(t)
        /\ SortUnchanged

CountNull(t) ==
  /\ apply = "count" /\ CountNone(t)
  /\ LET at == ItemOf(t).of
         change == lists[at[1]].changes[at[2]]
     IN  IF change.finish = "null" THEN UNCHANGED <<lists, drops>>
         ELSE /\ lists' = [lists EXCEPT ![at[1]].changes[at[2]].finish = "null"]
              /\ drops' = [drops EXCEPT ![change.number] = @ + 1]
  /\ UNCHANGED <<columns, generation, freed, given, apply, failed, hooked, stashes, added, removed, tally, before, born>>

ChangesCounted ==
  /\ apply = "count" /\ FindPages("changes")
  /\ apply' = "counted"
  /\ UNCHANGED <<units, columns, generation, freed, given, lists, failed, hooked, stashes, drops, added, removed, tally, before, born>>

(* Only one page after all, or several to place. *)
OnlyOnePage ==
  /\ apply = "counted" /\ Len(found) <= 1
  /\ Uncount("changes") /\ ForgetCounts
  /\ ApplyInOrder(IF found = <<>> THEN NO_PAGE ELSE found[1].page)
  /\ UNCHANGED <<segments, found, offsets, order, units,
                 columns, generation, freed, given, lists, failed, hooked, stashes, drops, added, removed, tally, before, born>>

PlaceChanges ==
  /\ apply = "counted" /\ Len(found) > 1
  /\ StartPlace(Len(AllChanges) \div CHANGES_PER_THREAD)
  /\ apply' = "place"
  /\ UNCHANGED <<columns, generation, freed, given, lists, failed, hooked, stashes, drops, added, removed, tally, before, born>>

PlaceChangesOf(t) == apply = "place" /\ PlaceSegment("changes", t) /\ SortUnchanged

(* The end of place and the start of the loop over the pages. *)
ChangesPlaced ==
  /\ apply = "place" /\ LoopIsOver
  /\ Uncount("changes") /\ ForgetCounts
  /\ Loop(Len(found), Len(AllChanges) \div CHANGES_PER_THREAD)
  /\ apply' = "pages" /\ failed' = FALSE
  /\ UNCHANGED <<segments, found, offsets, order, worker,
                 columns, generation, freed, given, lists, hooked, stashes, drops, added, removed, tally, before, born>>

(* A thread takes a page, unless it sees that one failed; it may not see   *)
(* that yet.                                                               *)
TakePage(t) ==
  /\ apply = "pages" /\ TakeUnit(t)
  /\ \/ failed /\ UNCHANGED worker
     \/ worker' = [worker EXCEPT ![t] = Applying(found[units.next].page, PageItems(units.next), TRUE)]
  /\ UNCHANGED <<sortVars, applierVars>>

PagesDone ==
  /\ apply = "pages" /\ LoopIsOver
  /\ apply' = IF failed THEN "threw" ELSE "stashed"
  /\ UNCHANGED <<sortVars, units, worker, columns, generation, freed, given, lists, failed, hooked, stashes, drops,
                 added, removed, tally, before, born>>

-----------------------------------------------------------------------------
(* apply: the hooks. *)

(* runStashed: onRemove with the components that were moved out. *)
RunStashed ==
  /\ apply = "stashed"
  /\ removed' = FoldLeft(LAMBDA bag, token : bag (+) SetToBag({token}), removed, FlattenSeq(stashes))
  /\ stashes' = <<>>
  /\ apply' = "hooked"
  /\ UNCHANGED <<sortVars, units, worker, columns, generation, freed, given, lists, failed, hooked, drops,
                 added, tally, before, born>>

(* runHooked, and a hook that throws: then some have run. *)
Told(run) ==
  FoldLeft(LAMBDA bag, k :
             LET e == hooked[k][1]
                 c == hooked[k][2]
             IN  IF k \in run /\ valid(e) /\ Has(c, e[1])
                 THEN bag (+) SetToBag({Token(c, e[1], columns[c].value[e[1]])}) ELSE bag,
           added, [k \in DOMAIN hooked |-> k])

RunHooked ==
  /\ apply = "hooked"
  /\ \/ /\ added' = Told(DOMAIN hooked)
        /\ hooked' = <<>>
        /\ apply' = "gather"
     \/ /\ hooked # <<>>
        /\ \E run \in SUBSET DOMAIN hooked : added' = Told(run)
        /\ apply' = "threw" /\ UNCHANGED hooked
  /\ UNCHANGED <<sortVars, units, worker, columns, generation, freed, given, lists, failed, stashes, drops,
                 removed, tally, before, born>>

(* runDestroyHooks: the entities by index, those of one index in any       *)
(* order, one left out that equals the one before it.                      *)
ByIndex(entities) ==
  {s \in {[k \in DOMAIN entities |-> entities[p[k]]] : p \in Permutations(DOMAIN entities)} :
     \A j, k \in DOMAIN s : j < k => s[j][1] <= s[k][1]}
HooksOf(entity) ==
  {Token(c, entity[1], columns[c].value[entity[1]]) : c \in {c \in RemoveHooked : Has(c, entity[1])}}

DestroyHooks ==
  /\ apply = "gather"
  /\ \E s \in ByIndex(AllDestroyed) :
       LET each == {k \in DOMAIN s : k = 1 \/ s[k] # s[k - 1]}
       IN  removed' = FoldLeft(LAMBDA bag, k : IF k \in each /\ valid(s[k]) THEN bag (+) SetToBag(HooksOf(s[k])) ELSE bag,
                               removed, [k \in DOMAIN s |-> k])
  /\ apply' = IF AllDestroyed = <<>> THEN "clear" ELSE "destroy"
  /\ UNCHANGED <<sortVars, units, worker, columns, generation, freed, given, lists, failed, hooked, stashes, drops,
                 added, tally, before, born>>

-----------------------------------------------------------------------------
(* apply: the entities to destroy. *)

(* The indices whose entity is ended by going through the entities in      *)
(* order: one given twice is gone the second time.                         *)
Victims(entities) ==
  LET first == SelectSeq([k \in DOMAIN entities |-> k],
                 LAMBDA k : valid(entities[k]) /\ \A j \in 1 .. k - 1 : entities[j] # entities[k])
  IN  [n \in DOMAIN first |-> entities[first[n]][1]]

(* addKills: the bits gathered for a word go to its page. *)
AddKills(acc) ==
  IF acc.bits = {} THEN acc.pages
  ELSE [acc.pages EXCEPT ![acc.place].kills = @ \cup acc.bits]

(* A mistake in destroyQuietly: the bits are not written when the page     *)
(* changes.                                                                *)
GatherForgetting(acc, index) ==
  LET number == PageOf(index)
      new == acc.placeOf[number] = 0
      pages == IF new THEN Append(acc.pages, [number |-> number, kills |-> {}]) ELSE AddKills(acc)
      place == IF new THEN Len(pages) ELSE acc.placeOf[number]
  IN  IF index \div WORD = acc.word THEN [acc EXCEPT !.bits = @ \cup {index}]
      ELSE [word |-> index \div WORD, bits |-> {index}, place |-> place, pages |-> pages,
            placeOf |-> [acc.placeOf EXCEPT ![number] = place]]

(* destroyQuietly: the index is gathered with others of its word, each     *)
(* word in the kill page of its page.                                      *)
Gather(acc, index) ==
  LET number == PageOf(index)
      new == acc.placeOf[number] = 0
      pages == IF new THEN Append(AddKills(acc), [number |-> number, kills |-> {}]) ELSE AddKills(acc)
      place == IF new THEN Len(pages) ELSE acc.placeOf[number]
  IN  IF index \div WORD = acc.word THEN [acc EXCEPT !.bits = @ \cup {index}]
      ELSE [word |-> index \div WORD, bits |-> {index}, place |-> place, pages |-> pages,
            placeOf |-> [acc.placeOf EXCEPT ![number] = place]]

KillPages(indices) ==
  LET start == [word |-> -1, bits |-> {}, place |-> 0, pages |-> <<>>, placeOf |-> [p \in Pages |-> 0]]
  IN  AddKills(FoldLeft(Gather, start, indices))

Ended(indices) ==
  generation' = [i \in Indices |-> IF i \in ToSet(indices) THEN generation[i] + 1 ELSE generation[i]]

(* destroyQuietly: all on the calling thread. *)
DestroyQuietly ==
  LET indices == Victims(AllDestroyed)
      pages == KillPages(indices)
      kills == UNION {pages[k].kills : k \in DOMAIN pages}
  IN  /\ Ended(indices)
      /\ columns' = Erased(columns, [c \in Columns |-> kills])
      /\ given' = given \o indices
      /\ apply' = "clear"

(* parallelDestroy: few entities on this thread, many sorted by page. *)
DestroyHelpers == Len(AllDestroyed) \div ENTITIES_PER_THREAD

ParallelDestroy ==
  /\ apply = "destroy"
  /\ \/ /\ DestroyHelpers = 0
        /\ DestroyQuietly
        /\ UNCHANGED <<sortVars, units, worker>>
     \/ /\ DestroyHelpers > 0
        /\ StartCount(<<[k \in DOMAIN AllDestroyed |-> [of |-> AllDestroyed[k], index |-> AllDestroyed[k][1]]]>>,
                      DestroyHelpers)
        /\ apply' = "countDestroyed"
        /\ UNCHANGED <<columns, generation, given>>
  /\ UNCHANGED <<freed, lists, failed, hooked, stashes, drops, added, removed, tally, before, born>>

CountDestroyed(t) ==
  /\ apply = "countDestroyed"
  /\ \/ CountSegment(t) /\ SortUnchanged
     \/ CountNone(t) /\ SortUnchanged
     \/ /\ \/ CountKnown("destroy", t) \/ TakeNumber("destroy", t) \/ Taken(t)
           \/ GiveNumber("destroy", t) \/ SegmentCounted(t)
        /\ SortUnchanged

DestroyedCounted ==
  /\ apply = "countDestroyed" /\ FindPages("destroy")
  /\ apply' = "destroyedCounted"
  /\ UNCHANGED <<units, columns, generation, freed, given, lists, failed, hooked, stashes, drops, added, removed, tally, before, born>>

DestroyOnlyOnePage ==
  /\ apply = "destroyedCounted" /\ Len(found) <= 1
  /\ Uncount("destroy") /\ ForgetCounts
  /\ DestroyQuietly
  /\ UNCHANGED <<segments, found, offsets, order, units, worker,
                 freed, lists, failed, hooked, stashes, drops, added, removed, tally, before, born>>

PlaceDestroyed ==
  /\ apply = "destroyedCounted" /\ Len(found) > 1
  /\ StartPlace(DestroyHelpers)
  /\ apply' = "placeDestroyed"
  /\ UNCHANGED <<columns, generation, freed, given, lists, failed, hooked, stashes, drops, added, removed, tally, before, born>>

PlaceDestroyedOf(t) == apply = "placeDestroyed" /\ PlaceSegment("destroy", t) /\ SortUnchanged

DestroyedPlaced ==
  /\ apply = "placeDestroyed" /\ LoopIsOver
  /\ Uncount("destroy") /\ ForgetCounts
  /\ Loop(Len(found), DestroyHelpers)
  /\ freed' = [k \in DOMAIN found |-> <<>>]
  /\ apply' = "killPages"
  /\ UNCHANGED <<segments, found, offsets, order, worker,
                 columns, generation, given, lists, failed, hooked, stashes, drops, added, removed, tally, before, born>>

(* A thread ends the entities of a page and takes their components away;   *)
(* no other thread touches the page, so in one step.                       *)
KillPage(t) ==
  /\ apply = "killPages" /\ TakeUnit(t)
  /\ LET indices == Victims(PageItems(units.next))
     IN  /\ Ended(indices)
         /\ freed' = [freed EXCEPT ![units.next] = indices]
         /\ columns' = Erased(columns, [c \in Columns |-> ToSet(indices)])
  /\ UNCHANGED <<sortVars, worker, given, lists, apply, failed, hooked, stashes, drops, added, removed, tally, before, born>>

GiveMany ==
  /\ apply = "killPages" /\ LoopIsOver
  /\ given' = given \o FlattenSeq(freed)
  /\ freed' = <<>>
  /\ apply' = "clear"
  /\ UNCHANGED <<sortVars, units, worker, columns, generation, lists, failed, hooked, stashes, drops,
                 added, removed, tally, before, born>>

-----------------------------------------------------------------------------
(* The end of apply. *)

NoLists == [l \in 1 .. Lists |-> [changes |-> <<>>, destroyed |-> <<>>]]
ForgetSort == /\ segments' = <<>> /\ found' = <<>> /\ offsets' = <<>> /\ order' = <<>>
              /\ units' = NoUnits /\ UNCHANGED <<numbers, used, counts, numbered, itemNumbers, worker>>

(* clearDone of every list. *)
ClearDone ==
  /\ apply = "clear"
  /\ lists' = NoLists /\ apply' = "no"
  /\ ForgetSort
  /\ UNCHANGED <<columns, generation, freed, given, failed, hooked, stashes, drops, added, removed, tally, before, born>>

(* A mistake in clear: it drops the value of every change. *)
DropAllValues ==
  drops' = [n \in Ids |-> IF \E k \in DOMAIN AllChanges : AllChanges[k].number = n THEN drops[n] + 1 ELSE drops[n]]

(* clear: the values of the changes that are not done. *)
DropValues ==
  drops' = [n \in Ids |-> IF \E k \in DOMAIN AllChanges : AllChanges[k].number = n /\ AllChanges[k].finish # "null"
                          THEN drops[n] + 1 ELSE drops[n]]

(* What the scheduler does after an exception: clear of every list and     *)
(* dropHooked.                                                             *)
Drop ==
  /\ apply = "threw"
  /\ DropValues
  /\ lists' = NoLists /\ apply' = "no" /\ failed' = FALSE
  /\ hooked' = <<>> /\ stashes' = <<>>
  /\ ForgetSort
  /\ UNCHANGED <<columns, generation, freed, given, added, removed, tally, before, born>>

Next ==
  \/ \E l \in 1 .. Lists :
       \/ \E change \in Changes : Record(l, change)
       \/ \E entity \in Doomed : RecordDestroy(l, entity)
  \/ Apply \/ ChangesCounted \/ OnlyOnePage \/ PlaceChanges \/ ChangesPlaced \/ PagesDone
  \/ RunStashed \/ RunHooked \/ DestroyHooks
  \/ ParallelDestroy \/ DestroyedCounted \/ DestroyOnlyOnePage \/ PlaceDestroyed \/ DestroyedPlaced \/ GiveMany
  \/ ClearDone \/ Drop
  \/ \E t \in Threads :
       \/ CountChanges(t) \/ CountNull(t) \/ PlaceChangesOf(t) \/ TakePage(t)
       \/ KillChange(t) \/ SkipChange(t) \/ DropChange(t)
       \/ EmplaceChange(t) \/ ModifyChange(t) \/ ThrowChange(t) \/ EndPage(t)
       \/ CountDestroyed(t) \/ PlaceDestroyedOf(t) \/ KillPage(t)

Spec == Init /\ [][Next]_vars

-----------------------------------------------------------------------------
(* Properties. *)

(* PageSort: whoever wins the race for the number of a page, all items end *)
(* up page by page in the order they were added, and between two sorts no  *)
(* page has a number.                                                      *)
SortIsStable ==
  /\ apply \in {"pages", "killPages"} => StablySorted
  /\ apply \notin {"count", "counted", "place"} => \A p \in Pages : numbers["changes"][p] = 0
  /\ apply \notin {"countDestroyed", "destroyedCounted", "placeDestroyed"} => \A p \in Pages : numbers["destroy"][p] = 0

(* One change done alone, on [value, threw]. *)
DoneAlone(acc, change) ==
  LET c == change.column
      i == change.entity[1]
      has == acc.value[c][i] # None
      After(v) == [acc EXCEPT !.value[c][i] = v]
      changed == After(Append(acc.value[c][i], change.number))
      made == After(<<change.number>>)
  IN  IF acc.threw \/ ~valid(change.entity) THEN acc
      ELSE CASE change.finish = "null" -> After(None)
             [] change.finish = "emplace" -> IF has THEN acc ELSE [made EXCEPT !.threw = change.throws]
             [] change.finish = "modify" -> IF has THEN [changed EXCEPT !.threw = change.throws] ELSE acc
             [] change.finish = "replace" -> [(IF has THEN changed ELSE made) EXCEPT !.threw = change.throws]

(* What the page is after its changes, one after the other up to one that  *)
(* throws.  Only a function of modify leaves a trace when it throws.       *)
OneAfterTheOther(p) ==
  LET Of(change) == PageOf(change.entity[1]) = p
      start == [value |-> [c \in Columns |-> before.columns[c].value], threw |-> FALSE]
      Next1(acc, change) ==
        LET next == DoneAlone(acc, change)
        IN  IF next.threw /\ ~acc.threw /\ change.finish # "modify" THEN [acc EXCEPT !.threw = TRUE] ELSE next
  IN  FoldLeft(Next1, start, SelectSeq(before.changes, Of))

PageIs(p, value) == \A c \in Columns, i \in Indices : PageOf(i) = p => columns[c].value[i] = value[c][i]

(* CommandApplier: whatever threads the pages went to and whenever the     *)
(* erases were done, every entity is what its changes make of it one after *)
(* the other, in the order of the lists.  After an exception every page is *)
(* so up to the change that threw, or untouched.                           *)
AppliesInOrder ==
  /\ apply = "stashed" => \A p \in Pages : PageIs(p, OneAfterTheOther(p).value) /\ ~OneAfterTheOther(p).threw
  /\ apply = "threw" =>
       /\ \A p \in Pages : \/ PageIs(p, OneAfterTheOther(p).value)
                           \/ PageIs(p, [c \in Columns |-> before.columns[c].value])
       /\ hooked = <<>> => \E p \in Pages : OneAfterTheOther(p).threw

(* The sort by page and the threads that take pages change the order of    *)
(* the changes of different pages only.                                    *)
ChangesKeepTheirOrder == SortIsStable /\ AppliesInOrder

(* PageAdds and flush: a page never counts fewer components than it has,   *)
(* or it would be let go with them, and counts exactly those once no       *)
(* thread is at it, also after an exception.                               *)
CountCoversComponents ==
  \A c \in Columns, p \in Pages :
    LET there == Cardinality(InPage(columns[c].value, p))
    IN  /\ columns[c].count[p] >= there
        /\ (\A t \in Threads : worker[t] = Idle) => columns[c].count[p] = there

(* finish, count, clear and clearDone: the value of every recorded change  *)
(* is dropped exactly once, also where the change is of an entity that is  *)
(* gone or of none, and where another one throws; components moved out for *)
(* hooks are not left behind.                                              *)
EndedOnce ==
  /\ \A n \in Ids : drops[n] <= 1
  /\ apply = "no" =>
       /\ \A n \in 1 .. tally.values : drops[n] = 1 \/ \E k \in DOMAIN AllChanges : AllChanges[k].number = n
       /\ hooked = <<>> /\ stashes = <<>>

(* runStashed, runHooked and runDestroyHooks: when apply ends without an   *)
(* exception, the onRemove hooks have been called for every component that *)
(* went with it and for none that is still there, and the onAdd hooks for  *)
(* every new one that stayed until they ran.                               *)
EveryChangeIsTold ==
  LET new == born \ before.born
      old == {Token(c, i, before.columns[c].value[i]) :
                <<c, i>> \in {x \in Columns \X Indices : before.columns[x[1]].value[x[2]] # None}}
  IN  /\ apply = "gather" => \A token \in new \cap Present : token[1] \in AddHooked => BagIn(token, added)
      /\ apply = "clear" => \A token \in new \cup old :
           token[1] \in RemoveHooked => (BagIn(token, removed) <=> token \notin Present)

(* parallelDestroy and destroyQuietly: every entity to destroy is gone     *)
(* with all of its components, and its index goes back once, however often *)
(* it was named and through whichever handle.                              *)
DestroyedOnce ==
  /\ IsInjective(given)
  /\ apply \in {"no", "clear"} =>
       \A i \in Indices : /\ generation[i] = IF i \in ToSet(given) THEN 2 ELSE 1
                          /\ i \in ToSet(given) => \A c \in Columns : ~Has(c, i)
  /\ apply = "clear" => \A k \in DOMAIN AllDestroyed : ~valid(AllDestroyed[k])

(* runDestroyHooks, scheduler.hpp:498: "The onRemove hooks of the entities *)
(* to destroy, once each".                                                 *)
RemovalIsToldOnce == \A token \in BagToSet(removed) : CopiesIn(token, removed) = 1
====
