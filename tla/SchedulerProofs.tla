--------------------------- MODULE SchedulerProofs ---------------------------
(***************************************************************************)
(* The stages of a scheduler for any components, events, systems,          *)
(* listeners and hooks: they keep the order of systems that conflict, none *)
(* is there for nothing, and what must not meet within a system is         *)
(* refused.  Then Scheduler::run: it goes by stages that are right for     *)
(* what there is, so that systems that run at the same time do not meet;   *)
(* every command ends; Changed tells the truth; and a task that was        *)
(* cancelled is not called.                                                *)
(***************************************************************************)
EXTENDS Scheduler, TLAPS

Number == 1 .. Len(systems)

\* The access a says all that the accesses in S use together, and no more.
Joins(a, S) ==
  /\ a.reads = UNION {x.reads : x \in S}
  /\ a.writes = UNION {x.writes : x \in S}
  /\ a.emits = UNION {x.emits : x \in S}
  /\ a.modified = UNION {x.modified : x \in S}
  /\ a.gotten = UNION {x.gotten : x \in S}
  /\ a.exclusive <=> \E x \in S : x.exclusive

With(i, others) == {systems[i].access} \cup {x.access : x \in others}

\* effectiveAccess found everything the system sets off, and no rule is broken.
Understood(i, world) ==
  /\ Joins(effective[i], Uses(i, world))
  /\ \A x \in SetsOff(i, world) : x.access.modified \cap systems[i].access.localEdited = {}
  /\ effective[i].modified \cap effective[i].gotten = {}
  /\ systems[i].loop => effective[i].writes \cap (Globals \cup Caches) = {}

\* The stage of system j as far as the systems 1 .. n demand one.
Placed(j, n) ==
  /\ \A k \in 1 .. n : ConflictsWith(effective[j], effective[k]) => stageOf[k] < stageOf[j]
  /\ stageOf[j] > 0 =>
       \E k \in 1 .. n : stageOf[k] + 1 = stageOf[j] /\ ConflictsWith(effective[j], effective[k])

Complete(world) ==
  /\ \A j \in Number : Understood(j, world)
  /\ \A j \in Number : Placed(j, j - 1)

\* What effectiveAccess took so far, by the events and components it is done with.
Taken(world, emitted, hooked) ==
  {l \in listeners : l.event \in emitted} \cup {h \in HooksOf(world) : h.component \in hooked}

TakenNow == Taken(build.world, build.emitted, build.hooked)

Gathering ==
  /\ build.i \in Number
  /\ \A j \in 1 .. build.i - 1 : Understood(j, build.world)
  /\ TakenNow \subseteq SetsOff(build.i, build.world)
  /\ Joins(build.access, With(build.i, TakenNow))
  /\ build.foreign = UNION {x.access.modified : x \in TakenNow}
  /\ \A j \in Number : stageOf[j] = 0

Comparing ==
  /\ build.i \in 1 .. Len(systems) + 1
  /\ build.earlier \in Nat \ {0} /\ build.earlier <= build.i
  /\ \A j \in Number : Understood(j, build.world)
  /\ \A j \in 1 .. build.i - 1 : Placed(j, j - 1)
  /\ build.i \in Number => Placed(build.i, build.earlier - 1)
  /\ \A j \in Number : j > build.i => stageOf[j] = 0

Accesses == {DeclareOrAlone(f.loop, f.params) : f \in Systems}

Typed ==
  /\ systems \in Seq([access : Accesses, loop : BOOLEAN])
  /\ hookVersion \in Nat /\ stagesHookVersion \in Nat /\ stagesHookVersion <= hookVersion
  /\ build.at \in {"idle", "ready", "gather", "stage"}
  /\ build.at \in {"gather", "stage"} =>
       /\ ~stagesValid
       /\ effective = [i \in Number |-> effective[i]]
       /\ stageOf \in [Number -> Nat]

\* stageOf of stages that are there.
StagesTyped == StagesAreFor(stagesWorld) => \A j \in Number : stageOf[j] \in Nat

IInv ==
  /\ Typed
  /\ StagesTyped
  /\ build.at = "ready" => StagesAreFor(stagesWorld)
  /\ StagesAreFor(stagesWorld) => Complete(stagesWorld)
  /\ build.at = "gather" => Gathering
  /\ build.at = "stage" => Comparing

-----------------------------------------------------------------------------
(* What a system sets off is the smallest closed set.                      *)

LEMMA SetsOffIsLeast ==
  ASSUME NEW i, NEW world, NEW S \in SUBSET (listeners \cup HooksOf(world)),
         SetOffBy(systems[i].access, world) \subseteq S,
         \A x \in S : SetOffBy(x.access, world) \subseteq S
  PROVE  SetsOff(i, world) \subseteq S
BY DEF SetsOff

LEMMA SetsOffStarts ==
  ASSUME NEW i, NEW world
  PROVE  SetOffBy(systems[i].access, world) \subseteq SetsOff(i, world)
BY DEF SetsOff, SetOffBy

LEMMA SetsOffGoesOn ==
  ASSUME NEW i, NEW world, NEW x \in SetsOff(i, world)
  PROVE  SetOffBy(x.access, world) \subseteq SetsOff(i, world)
BY DEF SetsOff, SetOffBy

-----------------------------------------------------------------------------
(* Joining accesses.                                                       *)

LEMMA MergeJoins ==
  ASSUME NEW a, NEW S, NEW others, Joins(a, S)
  PROVE  Joins(Merge(a, others), S \cup others)
<1> DEFINE m == Merge(a, others)
<1>1. m.reads = UNION {x.reads : x \in S \cup others}
  BY DEF Joins, Merge
<1>2. m.writes = UNION {x.writes : x \in S \cup others}
  BY DEF Joins, Merge
<1>3. m.emits = UNION {x.emits : x \in S \cup others}
  BY DEF Joins, Merge
<1>4. m.modified = UNION {x.modified : x \in S \cup others}
  BY DEF Joins, Merge
<1>5. m.gotten = UNION {x.gotten : x \in S \cup others}
  BY DEF Joins, Merge
<1>6. m.exclusive <=> \E x \in S \cup others : x.exclusive
  BY DEF Joins, Merge
<1> QED
  BY <1>1, <1>2, <1>3, <1>4, <1>5, <1>6 DEF Joins

LEMMA JoinOfOne ==
  ASSUME NEW a
  PROVE  Joins(a, {a})
BY DEF Joins

\* Two accesses conflict if two of what they are made of do.
LEMMA JoinsConflict ==
  ASSUME NEW a, NEW b, NEW S, NEW T, Joins(a, S), Joins(b, T), S # {}, T # {}
  PROVE  ConflictsWith(a, b) <=> \E x \in S, y \in T : ConflictsWith(x, y)
BY DEF Joins, ConflictsWith, Overlap

LEMMA ConflictsBothWays ==
  ASSUME NEW a, NEW b
  PROVE  ConflictsWith(a, b) <=> ConflictsWith(b, a)
BY DEF ConflictsWith, Overlap

-----------------------------------------------------------------------------
(* What a step leaves alone.                                               *)

LEMMA UsesStay ==
  ASSUME NEW i, NEW world, UNCHANGED <<systems, listeners>>, hooks' = hooks \/ world = FALSE
  PROVE  SetsOff(i, world)' = SetsOff(i, world) /\ Uses(i, world)' = Uses(i, world)
<1>1. HooksOf(world)' = HooksOf(world)
  BY DEF HooksOf
<1>2. SetsOff(i, world)' = SetsOff(i, world)
  BY <1>1 DEF SetsOff, SetOffBy
<1> QED
  BY <1>2 DEF Uses

LEMMA UnderstoodStays ==
  ASSUME NEW i, NEW world, UNCHANGED <<systems, listeners>>, hooks' = hooks \/ world = FALSE,
         effective'[i] = effective[i], Understood(i, world)
  PROVE  Understood(i, world)'
BY UsesStay DEF Understood, Joins

LEMMA PlacedStays ==
  ASSUME NEW j \in Nat \ {0}, NEW n \in Nat, n <= j, Placed(j, n), effective' = effective,
         \A k \in 1 .. j : stageOf'[k] = stageOf[k]
  PROVE  Placed(j, n)'
BY DEF Placed

\* Nothing but build changes, and only from idle to ready or back.
LEMMA StagesStay ==
  ASSUME IInv, UNCHANGED <<systems, listeners, hooks, hookVersion, stagesValid, stagesWorld,
                           stagesHookVersion, stageOf, effective>>,
         build'.at = "idle" \/ (build'.at = "ready" /\ StagesAreFor(stagesWorld))
  PROVE  IInv'
<1>1. Typed' /\ StagesTyped'
  BY DEF IInv, Typed, StagesTyped, StagesAreFor, Version, Number
<1>2. StagesAreFor(stagesWorld)' => Complete(stagesWorld)'
  <2> SUFFICES ASSUME StagesAreFor(stagesWorld)
               PROVE  Complete(stagesWorld)'
    BY DEF StagesAreFor, Version
  <2> USE DEF IInv, Complete, Number
  <2>1. ASSUME NEW j \in Number
        PROVE  Understood(j, stagesWorld)' /\ Placed(j, j - 1)'
    BY <2>1, UsesStay DEF Understood, Joins, Placed
  <2> QED
    BY <2>1
<1> QED
  BY <1>1, <1>2 DEF IInv, StagesAreFor, Version

-----------------------------------------------------------------------------
(* The invariant holds at first, and what is added keeps it.               *)

LEMMA InitInv == StagesInit => IInv
BY DEF StagesInit, IInv, Typed, StagesTyped, Complete, Idle, Number

LEMMA AddSystemInv ==
  ASSUME IInv, NEW f \in Systems, AddSystem(f)
  PROVE  IInv'
<1>1. DeclareOrAlone(f.loop, f.params) \in Accesses
  BY DEF Accesses
<1>2. systems' \in Seq([access : Accesses, loop : BOOLEAN])
  BY <1>1 DEF IInv, Typed, AddSystem
<1> QED
  BY <1>2 DEF IInv, Typed, StagesTyped, AddSystem, Idle, StagesAreFor

LEMMA OnInv ==
  ASSUME IInv, NEW l \in Listeners, On(l)
  PROVE  IInv'
BY DEF IInv, Typed, StagesTyped, On, Idle, StagesAreFor

\* Stages with the hooks of the world are out of date with the new version.
LEMMA OnAddInv ==
  ASSUME IInv, NEW h \in Hooks, OnAdd(h)
  PROVE  IInv'
<1>1. Typed' /\ build'.at = "idle"
  BY DEF IInv, Typed, OnAdd, Idle
<1>2. ASSUME StagesAreFor(stagesWorld)'
      PROVE  stagesWorld = FALSE /\ StagesAreFor(stagesWorld)
  BY <1>2 DEF IInv, Typed, OnAdd, StagesAreFor, Version
<1>3. ASSUME StagesAreFor(stagesWorld)'
      PROVE  Complete(stagesWorld)' /\ StagesTyped'
  <2>1. ASSUME NEW j \in Number
        PROVE  Understood(j, stagesWorld)' /\ Placed(j, j - 1)'
    BY <1>2, <1>3, <2>1, UnderstoodStays DEF IInv, Complete, OnAdd, Placed
  <2> QED
    BY <1>2, <1>3, <2>1 DEF IInv, Complete, StagesTyped, OnAdd, Number
<1> QED
  BY <1>1, <1>2, <1>3 DEF IInv, StagesTyped

-----------------------------------------------------------------------------
(* effectiveAccess.                                                        *)

\* The next system, or all of them are understood.
LEMMA NextSystem ==
  ASSUME NEW world, NEW i \in 1 .. Len(systems) + 1, IInv, build' = Gather(world, i),
         UNCHANGED <<systems, listeners, hooks, hookVersion, stagesWorld, stagesHookVersion>>,
         ~stagesValid', effective' = [j \in Number |-> effective'[j]],
         stageOf' \in [Number -> Nat], \A j \in Number : stageOf'[j] = 0,
         \A j \in 1 .. i - 1 : Understood(j, world)'
  PROVE  IInv'
<1> USE DEF IInv, Typed
<1>1. Typed' /\ ~StagesAreFor(stagesWorld)'
  BY DEF Gather, Staging, Number, StagesAreFor
<1>2. CASE i > Len(systems)
  <2>1. build' = Staging(world, 1, 1)
    BY <1>2 DEF Gather
  <2>2. Comparing'
    <3>1. \A j \in Number' : Understood(j, world)'
      BY <1>2 DEF Number
    <3>2. Placed(1, 0)' \/ Len(systems) = 0
      BY DEF Placed, Number
    <3> QED
      BY <2>1, <3>1, <3>2 DEF Comparing, Staging, Number
  <2> QED
    BY <1>1, <2>1, <2>2 DEF StagesTyped, Staging
<1>3. CASE i <= Len(systems)
  <2>1. build'.at = "gather" /\ build'.i = i /\ build'.world = world /\ build'.access = systems[i].access
    BY <1>3 DEF Gather
  <2>2. build'.emitted = {} /\ build'.hooked = {} /\ build'.foreign = {}
    BY <1>3 DEF Gather
  <2>3. TakenNow' = {}
    BY <2>2 DEF TakenNow, Taken
  <2>4. Joins(systems[i].access, With(i, {}))
    <3>1. With(i, {}) = {systems[i].access}
      BY DEF With
    <3> QED
      BY <3>1, JoinOfOne
  <2>5. Joins(build.access, With(build.i, TakenNow))'
    BY <2>1, <2>3, <2>4 DEF Joins, With
  <2>6. Gathering'
    BY <1>3, <2>1, <2>2, <2>3, <2>5 DEF Gathering, Number
  <2> QED
    BY <1>1, <2>1, <2>6 DEF StagesTyped
<1> QED
  BY <1>2, <1>3

LEMMA StagesForInv ==
  ASSUME IInv, NEW world \in BOOLEAN, StagesFor(world)
  PROVE  IInv'
<1>1. CASE StagesAreFor(world)
  <2>1. build'.at = "ready" /\ UNCHANGED <<stagesValid, stageOf, effective>>
    BY <1>1 DEF StagesFor
  <2>2. stagesWorld = world
    BY <1>1 DEF StagesAreFor
  <2> QED
    BY <1>1, <2>1, <2>2, StagesStay DEF StagesFor
<1>2. CASE ~StagesAreFor(world)
  <2>1. build' = Gather(world, 1) /\ ~stagesValid'
    BY <1>2 DEF StagesFor
  <2>2. effective' = [j \in Number |-> effective'[j]]
    BY <1>2 DEF StagesFor, Number
  <2>3. stageOf' \in [Number -> Nat] /\ \A j \in Number : stageOf'[j] = 0
    BY <1>2 DEF StagesFor, Number
  <2>4. UNCHANGED <<systems, listeners, hooks, hookVersion, stagesWorld, stagesHookVersion>>
    BY DEF StagesFor
  <2>5. 1 \in 1 .. Len(systems) + 1 /\ \A j \in 1 .. 1 - 1 : Understood(j, world)'
    BY DEF IInv, Typed
  <2> QED
    BY <2>1, <2>2, <2>3, <2>4, <2>5, NextSystem
<1> QED
  BY <1>1, <1>2

\* An event or component more is looked up, which the system does set off.
LEMMA TakeInv ==
  ASSUME IInv, build.at = "gather", NEW i, i = build.i, NEW world, world = build.world,
         NEW emitted, NEW hooked, NEW new,
         emitted \subseteq build.access.emits, hooked \subseteq build.access.modified,
         new = Taken(world, emitted, hooked),
         build' = Take({x.access : x \in new}, emitted, hooked), UnchangedButBuild
  PROVE  IInv'
<1>1. Gathering
  BY DEF IInv
<1>2. UNCHANGED <<systems, listeners, hooks, hookVersion, stagesValid, stagesWorld, stagesHookVersion,
                  stageOf, effective>>
  BY DEF UnchangedButBuild
<1>3. /\ build'.at = "gather" /\ build'.i = i /\ build'.world = world
      /\ build'.access = Merge(build.access, {x.access : x \in new})
      /\ build'.emitted = build.emitted \cup emitted /\ build'.hooked = build.hooked \cup hooked
      /\ build'.foreign = build.foreign \cup UNION {x.modified : x \in {y.access : y \in new}}
  BY DEF Take
<1>4. TakenNow' = TakenNow \cup new
  BY <1>2, <1>3 DEF TakenNow, Taken, HooksOf
<1>5. new \subseteq SetsOff(i, world)
  <2>1. ASSUME NEW e \in emitted, NEW l \in listeners, l.event = e
        PROVE  l \in SetsOff(i, world)
    <3>1. PICK a \in With(i, TakenNow) : e \in a.emits
      BY <1>1, <2>1 DEF Gathering, Joins
    <3>2. CASE a = systems[i].access
      BY <2>1, <3>1, <3>2, SetsOffStarts DEF SetOffBy
    <3>3. CASE a # systems[i].access
      <4>1. PICK x \in TakenNow : a = x.access
        BY <3>3 DEF With
      <4> QED
        BY <1>1, <2>1, <3>1, <4>1, SetsOffGoesOn DEF SetOffBy, Gathering
    <3> QED
      BY <3>2, <3>3
  <2>2. ASSUME NEW c \in hooked, NEW h \in HooksOf(world), h.component = c
        PROVE  h \in SetsOff(i, world)
    <3>1. PICK a \in With(i, TakenNow) : c \in a.modified
      BY <1>1, <2>2 DEF Gathering, Joins
    <3>2. CASE a = systems[i].access
      BY <2>2, <3>1, <3>2, SetsOffStarts DEF SetOffBy
    <3>3. CASE a # systems[i].access
      <4>1. PICK x \in TakenNow : a = x.access
        BY <3>3 DEF With
      <4> QED
        BY <1>1, <2>2, <3>1, <4>1, SetsOffGoesOn DEF SetOffBy, Gathering
    <3> QED
      BY <3>2, <3>3
  <2> QED
    BY <2>1, <2>2 DEF Taken
<1>6. SetsOff(i, world)' = SetsOff(i, world)
  BY <1>2, UsesStay
<1>7. Joins(build.access, With(build.i, TakenNow))'
  <2>1. Joins(Merge(build.access, {x.access : x \in new}), With(i, TakenNow) \cup {x.access : x \in new})
    BY <1>1, MergeJoins DEF Gathering
  <2>2. With(i, TakenNow) \cup {x.access : x \in new} = With(i, TakenNow \cup new)
    BY DEF With
  <2>3. With(build.i, TakenNow)' = With(i, TakenNow \cup new)
    BY <1>2, <1>3, <1>4 DEF With
  <2>4. Joins(build'.access, With(build.i, TakenNow)')
    BY <1>3, <2>1, <2>2, <2>3
  <2> QED
    BY <2>4 DEF Joins
<1>8. build'.foreign = UNION {x.access.modified : x \in TakenNow'}
  BY <1>1, <1>3, <1>4 DEF Gathering
<1>9. \A j \in 1 .. i - 1 : Understood(j, world)'
  BY <1>1, <1>2, UnderstoodStays DEF Gathering
<1>10. Gathering'
  BY <1>1, <1>2, <1>3, <1>4, <1>5, <1>6, <1>7, <1>8, <1>9 DEF Gathering, Number
<1>11. Typed' /\ ~StagesAreFor(stagesWorld)'
  BY <1>2, <1>3 DEF IInv, Typed, Number, StagesAreFor
<1> QED
  BY <1>3, <1>10, <1>11 DEF IInv, StagesTyped

LEMMA TakeEventInv ==
  ASSUME IInv, TakeEvent
  PROVE  IInv'
<1>1. PICK e \in build.access.emits \ build.emitted :
        build' = Take({l.access : l \in {x \in listeners : x.event = e}}, {e}, {})
  BY DEF TakeEvent
<1>2. Taken(build.world, {e}, {}) = {x \in listeners : x.event = e}
  BY DEF Taken
<1>3. {e} \subseteq build.access.emits /\ {} \subseteq build.access.modified
  BY <1>1
<1> QED
  BY <1>1, <1>2, <1>3, TakeInv DEF TakeEvent

LEMMA TakeHooksInv ==
  ASSUME IInv, TakeHooks
  PROVE  IInv'
<1>1. PICK c \in build.access.modified \ build.hooked :
        build' = Take({h.access : h \in {x \in HooksOf(build.world) : x.component = c}}, {}, {c})
  BY DEF TakeHooks
<1>2. Taken(build.world, {}, {c}) = {x \in HooksOf(build.world) : x.component = c}
  BY DEF Taken
<1>3. {} \subseteq build.access.emits /\ {c} \subseteq build.access.modified
  BY <1>1
<1>4. build' = Take({x.access : x \in Taken(build.world, {}, {c})}, {}, {c})
  BY <1>1, <1>2
<1>5. build.at = "gather" /\ UnchangedButBuild
  BY DEF TakeHooks
<1> QED
  BY <1>3, <1>4, <1>5, TakeInv

\* When nothing is left to look up, everything the system sets off is there.
LEMMA GatheredAll ==
  ASSUME Gathering, NEW i, i = build.i, NEW world, world = build.world,
         build.access.emits \subseteq build.emitted, build.access.modified \subseteq build.hooked
  PROVE  TakenNow = SetsOff(i, world)
<1>1. TakenNow \in SUBSET (listeners \cup HooksOf(world))
  BY DEF TakenNow, Taken
<1>2. SetOffBy(systems[i].access, world) \subseteq TakenNow
  <2>1. systems[i].access \in With(i, TakenNow)
    BY DEF With
  <2>2. systems[i].access.emits \subseteq build.emitted /\ systems[i].access.modified \subseteq build.hooked
    BY <2>1 DEF Gathering, Joins
  <2> QED
    BY <2>2 DEF SetOffBy, TakenNow, Taken
<1>3. ASSUME NEW x \in TakenNow
      PROVE  SetOffBy(x.access, world) \subseteq TakenNow
  <2>1. x.access \in With(i, TakenNow)
    BY <1>3 DEF With
  <2>2. x.access.emits \subseteq build.emitted /\ x.access.modified \subseteq build.hooked
    BY <2>1 DEF Gathering, Joins
  <2> QED
    BY <2>2 DEF SetOffBy, TakenNow, Taken
<1>4. SetsOff(i, world) \subseteq TakenNow
  BY <1>1, <1>2, <1>3, SetsOffIsLeast
<1> QED
  BY <1>4 DEF Gathering

LEMMA GatheredInv ==
  ASSUME IInv, Gathered
  PROVE  IInv'
<1> DEFINE breaks == Breaks(systems[build.i], build.access, build.foreign)
<1>1. /\ build.at = "gather" /\ build.access.emits \subseteq build.emitted
      /\ build.access.modified \subseteq build.hooked
      /\ UNCHANGED <<systems, listeners, hooks, hookVersion, stagesValid, stagesWorld, stagesHookVersion, stageOf>>
  BY DEF Gathered
<1>2. Gathering /\ Typed /\ ~stagesValid
  BY <1>1 DEF IInv, Typed
<1>3. CASE breaks
  <2>1. build'.at = "idle" /\ UNCHANGED effective
    BY <1>3 DEF Gathered, Idle
  <2> QED
    BY <1>1, <1>2, <2>1 DEF IInv, Typed, StagesTyped, StagesAreFor, Number
<1>4. CASE ~breaks
  <2>1. PICK i, world : i \in Number /\ i = build.i /\ world = build.world
    BY <1>2 DEF Gathering
  <2>2. TakenNow = SetsOff(i, world)
    BY <1>1, <1>2, <2>1, GatheredAll
  <2>3. effective' = [effective EXCEPT ![i] = build.access] /\ build' = Gather(world, i + 1)
    BY <1>4, <2>1 DEF Gathered
  <2>4. effective'[i] = build.access /\ effective' = [j \in Number |-> effective'[j]]
    BY <1>1, <1>2, <2>1, <2>3 DEF Typed, Number
  <2>5. Joins(build.access, Uses(i, world))
    BY <1>2, <2>1, <2>2 DEF Gathering, Uses, With
  <2>6. Understood(i, world)'
    <3>1. SetsOff(i, world)' = SetsOff(i, world) /\ Uses(i, world)' = Uses(i, world)
      BY <1>1, UsesStay
    <3>2. Joins(effective'[i], Uses(i, world)')
      BY <2>4, <2>5, <3>1
    <3>3. /\ \A x \in SetsOff(i, world) : x.access.modified \cap systems[i].access.localEdited = {}
          /\ build.access.modified \cap build.access.gotten = {}
          /\ systems[i].loop => build.access.writes \cap (Globals \cup Caches) = {}
      BY <1>2, <1>4, <2>1, <2>2 DEF Breaks, ModifiesGotten, WritesGlobal, WritesCache, Gathering
    <3> QED
      BY <1>1, <2>4, <3>1, <3>2, <3>3 DEF Understood, Joins
  <2>7. ASSUME NEW j \in 1 .. i - 1
        PROVE  Understood(j, world)'
    <3>1. effective'[j] = effective[j] /\ Understood(j, world)
      BY <1>2, <2>1, <2>3, <2>7 DEF Gathering, Typed, Number
    <3> QED
      BY <1>1, <3>1, UnderstoodStays
  <2>8. \A j \in 1 .. (i + 1) - 1 : Understood(j, world)'
    <3> SUFFICES ASSUME NEW j \in 1 .. (i + 1) - 1
                 PROVE  Understood(j, world)'
      OBVIOUS
    <3>1. i \in Nat /\ (j = i \/ j \in 1 .. i - 1)
      BY <1>2, <2>1 DEF Number, Typed
    <3> QED
      BY <2>6, <2>7, <3>1
  <2>9. i + 1 \in 1 .. Len(systems) + 1
    BY <1>2, <2>1 DEF Number, Typed
  <2>10. /\ ~stagesValid' /\ stageOf' \in [Number -> Nat]
         /\ \A j \in Number : stageOf'[j] = 0
    BY <1>1, <1>2 DEF Typed, Gathering
  <2> QED
    BY <1>1, <2>3, <2>4, <2>8, <2>9, <2>10, NextSystem
<1> QED
  BY <1>3, <1>4

-----------------------------------------------------------------------------
(* The stages.                                                             *)

LEMMA CompareInv ==
  ASSUME IInv, Compare
  PROVE  IInv'
<1>1. /\ build.at = "stage" /\ build.i <= Len(systems)
      /\ UNCHANGED <<systems, listeners, hooks, hookVersion, stagesValid, stagesWorld, stagesHookVersion,
                     effective>>
  BY DEF Compare
<1>2. Comparing /\ Typed /\ ~stagesValid /\ stageOf \in [Number -> Nat]
  BY <1>1 DEF IInv, Typed
<1>3. PICK i, j, world : /\ i \in Number /\ i = build.i
                         /\ j \in 1 .. i /\ j = build.earlier
                         /\ world = build.world
  BY <1>1, <1>2 DEF Comparing, Number, Typed
<1>4. \A k \in Number : Understood(k, world)'
  BY <1>1, <1>2, <1>3, UnderstoodStays DEF Comparing, Number
<1>5. CASE j < i
  <2>1. build' = Staging(world, i, j + 1)
    BY <1>3, <1>5 DEF Compare
  <2> DEFINE moves == ConflictsWith(effective[i], effective[j]) /\ stageOf[i] < stageOf[j] + 1
  <2>2. stageOf' = IF moves THEN [stageOf EXCEPT ![i] = stageOf[j] + 1] ELSE stageOf
    BY <1>3, <1>5 DEF Compare, After
  <2>3. stageOf' \in [Number -> Nat] /\ \A k \in Number \ {i} : stageOf'[k] = stageOf[k]
    BY <1>2, <1>3, <1>5, <2>2 DEF Number
  <2>4. \A k \in 1 .. i - 1 : Placed(k, k - 1)'
    <3> SUFFICES ASSUME NEW k \in 1 .. i - 1
                 PROVE  Placed(k, k - 1)'
      OBVIOUS
    <3>1. Placed(k, k - 1) /\ k \in Nat \ {0} /\ k - 1 \in Nat
      BY <1>2, <1>3 DEF Comparing, Number
    <3>2. \A l \in 1 .. k : stageOf'[l] = stageOf[l]
      BY <1>3, <2>3 DEF Number
    <3> QED
      BY <1>1, <3>1, <3>2, PlacedStays
  <2>5. Placed(i, j)'
    <3>1. Placed(i, j - 1)
      BY <1>2, <1>3 DEF Comparing
    <3>2. j \in Number /\ i \in Number /\ stageOf[i] \in Nat /\ stageOf[j] \in Nat
      BY <1>2, <1>3, <1>5 DEF Number
    <3>3. \A k \in 1 .. j : stageOf'[k] = stageOf[k] /\ stageOf[k] \in Nat
      BY <1>2, <1>3, <1>5, <2>3 DEF Number
    <3>4. CASE moves
      <4>1. stageOf'[i] = stageOf[j] + 1 /\ ConflictsWith(effective[i], effective[j])
        BY <1>2, <2>2, <3>2, <3>4
      <4>2. \A k \in 1 .. j : ConflictsWith(effective[i], effective[k]) => stageOf[k] < stageOf[j] + 1
        <5>1. \A k \in 1 .. j - 1 : ConflictsWith(effective[i], effective[k]) => stageOf[k] < stageOf[i]
          BY <3>1 DEF Placed
        <5>2. \A k \in 1 .. j : k = j \/ k \in 1 .. j - 1
          BY <3>2 DEF Number
        <5> QED
          BY <3>2, <3>3, <3>4, <5>1, <5>2
      <4> QED
        BY <1>1, <1>3, <3>3, <4>1, <4>2 DEF Placed
    <3>5. CASE ~moves
      <4>1. stageOf' = stageOf
        BY <2>2, <3>5
      <4>2. ConflictsWith(effective[i], effective[j]) => stageOf[j] < stageOf[i]
        BY <3>2, <3>5
      <4>3. \A k \in 1 .. j : k = j \/ k \in 1 .. j - 1
        BY <3>2 DEF Number
      <4>4. \A k \in 1 .. j - 1 : k \in 1 .. j
        BY <3>2 DEF Number
      <4> QED
        BY <1>1, <3>1, <4>1, <4>2, <4>3, <4>4 DEF Placed
    <3> QED
      BY <3>4, <3>5
  <2>6. \A k \in Number : k > i => stageOf'[k] = 0
    BY <1>2, <1>3, <2>3 DEF Comparing, Number
  <2>7. Comparing'
    BY <1>1, <1>3, <1>4, <1>5, <2>1, <2>4, <2>5, <2>6 DEF Comparing, Staging, Number
  <2> QED
    BY <1>1, <1>2, <2>1, <2>3, <2>7 DEF IInv, Typed, StagesTyped, StagesAreFor, Staging, Number
<1>6. CASE ~(j < i)
  <2>1. build' = Staging(world, i + 1, 1) /\ UNCHANGED stageOf
    BY <1>3, <1>6 DEF Compare
  <2>2. \A k \in 1 .. i : Placed(k, k - 1)'
    <3>1. \A k \in 1 .. i : Placed(k, k - 1)
      BY <1>2, <1>3, <1>6 DEF Comparing, Number
    <3> QED
      BY <1>1, <2>1, <3>1 DEF Placed
  <2>3. i + 1 \in Number => Placed(i + 1, 0)'
    BY <1>1, <1>2, <1>3, <2>1 DEF Comparing, Placed, Number
  <2>4. Comparing'
    BY <1>1, <1>2, <1>3, <1>4, <2>1, <2>2, <2>3 DEF Comparing, Staging, Number, Typed
  <2> QED
    BY <1>1, <1>2, <2>1, <2>4 DEF IInv, Typed, StagesTyped, StagesAreFor, Staging, Number
<1> QED
  BY <1>5, <1>6

LEMMA StagedInv ==
  ASSUME IInv, Staged
  PROVE  IInv'
<1>1. /\ build.at = "stage" /\ build.i > Len(systems)
      /\ UNCHANGED <<systems, listeners, hooks, hookVersion, stageOf, effective>>
  BY DEF Staged
<1>2. Comparing /\ Typed /\ ~stagesValid /\ stageOf \in [Number -> Nat]
  BY <1>1 DEF IInv, Typed
<1>3. CASE ModifiesGotten(HooksTogether(build.world))
  BY <1>1, <1>2, <1>3 DEF IInv, Typed, StagesTyped, StagesAreFor, Staged, Idle, Number
<1>4. CASE ~ModifiesGotten(HooksTogether(build.world))
  <2>1. PICK world : world = build.world
    OBVIOUS
  <2>2. /\ build'.at = "ready" /\ stagesValid' /\ stagesWorld' = world
        /\ stagesHookVersion' = Version(world)
    BY <1>4, <2>1 DEF Staged
  <2>3. ASSUME NEW j \in Number
        PROVE  Understood(j, world)' /\ Placed(j, j - 1)'
    <3>1. Understood(j, world) /\ Placed(j, j - 1)
      BY <1>1, <1>2, <2>1, <2>3 DEF Comparing, Number, Typed
    <3> QED
      BY <1>1, <3>1, UnderstoodStays DEF Placed
  <2>4. Complete(stagesWorld)'
    BY <1>1, <2>2, <2>3 DEF Complete, Understood, Placed, Number
  <2>5. Typed' /\ StagesTyped' /\ StagesAreFor(stagesWorld)'
    BY <1>1, <1>2, <2>2 DEF Typed, StagesTyped, StagesAreFor, Version, Number
  <2> QED
    BY <2>2, <2>4, <2>5 DEF IInv
<1> QED
  BY <1>3, <1>4

LEMMA ReturnInv ==
  ASSUME IInv, Return
  PROVE  IInv'
BY StagesStay DEF Return, UnchangedButBuild, Idle

-----------------------------------------------------------------------------
(* The theorems.                                                           *)

LEMMA NextInv ==
  ASSUME IInv, [StagesNext]_stageVars
  PROVE  IInv'
<1>1. CASE UNCHANGED stageVars
  <2>1. UNCHANGED <<systems, listeners, hooks, hookVersion, stagesValid, stagesWorld, stagesHookVersion,
                    stageOf, effective, build>>
    BY <1>1 DEF stageVars
  <2>2. CASE build.at \in {"idle", "ready"}
    BY <2>1, <2>2, StagesStay DEF IInv
  <2>3. CASE build.at \in {"gather", "stage"}
    <3>1. Typed' /\ ~StagesAreFor(stagesWorld)'
      BY <2>1, <2>3 DEF IInv, Typed, StagesAreFor, Number
    <3>2. CASE build.at = "gather"
      <4>1. PICK i, world : i = build.i /\ world = build.world
        OBVIOUS
      <4>2. Gathering
        BY <3>2 DEF IInv
      <4>3. SetsOff(i, world)' = SetsOff(i, world) /\ TakenNow' = TakenNow
        BY <2>1, UsesStay DEF TakenNow, Taken, HooksOf
      <4>4. Joins(build.access, With(build.i, TakenNow))'
        BY <2>1, <4>2, <4>3 DEF Gathering, Joins, With
      <4>5. \A j \in 1 .. i - 1 : Understood(j, world)'
        BY <2>1, <4>1, <4>2, UnderstoodStays DEF Gathering
      <4>6. Gathering'
        BY <2>1, <4>1, <4>2, <4>3, <4>4, <4>5 DEF Gathering, Number
      <4> QED
        BY <2>1, <3>1, <3>2, <4>6 DEF IInv, StagesTyped
    <3>3. CASE build.at = "stage"
      <4>1. PICK world : world = build.world
        OBVIOUS
      <4>2. Comparing
        BY <3>3 DEF IInv
      <4>3. \A j \in Number : Understood(j, world)'
        BY <2>1, <4>1, <4>2, UnderstoodStays DEF Comparing
      <4>4. Comparing'
        BY <2>1, <4>1, <4>2, <4>3 DEF Comparing, Placed, Number
      <4> QED
        BY <2>1, <3>1, <3>3, <4>4 DEF IInv, StagesTyped
    <3> QED
      BY <2>3, <3>2, <3>3
  <2> QED
    BY <2>2, <2>3 DEF IInv, Typed
<1>2. CASE StagesNext
  <2>1. CASE Adding
    BY <2>1, AddSystemInv, OnInv, OnAddInv DEF Adding
  <2>2. CASE \E world \in BOOLEAN : StagesFor(world)
    BY <2>2, StagesForInv
  <2>3. CASE TakeEvent
    BY <2>3, TakeEventInv
  <2>4. CASE TakeHooks
    BY <2>4, TakeHooksInv
  <2>5. CASE Gathered
    BY <2>5, GatheredInv
  <2>6. CASE Compare
    BY <2>6, CompareInv
  <2>7. CASE Staged
    BY <2>7, StagedInv
  <2>8. CASE Return
    BY <2>8, ReturnInv
  <2> QED
    BY <1>2, <2>1, <2>2, <2>3, <2>4, <2>5, <2>6, <2>7, <2>8 DEF StagesNext, Building
<1> QED
  BY <1>1, <1>2

\* Scheduler::stagesFor keeps the inductive invariant, whatever is added in
\* between: stages that count as up to date are those of what there is now.
THEOREM StagesInvariant == StagesSpec => []IInv
<1>1. StagesInit => IInv
  BY InitInv
<1>2. IInv /\ [StagesNext]_stageVars => IInv'
  BY NextInv
<1> QED
  BY <1>1, <1>2, PTL DEF StagesSpec

\* Two systems must not meet exactly if what effectiveAccess made of them conflicts.
LEMMA MeetingIsConflict ==
  ASSUME NEW i, NEW j, NEW world, Understood(i, world), Understood(j, world)
  PROVE  MustNotMeet(i, j, world) <=> ConflictsWith(effective[j], effective[i])
<1>1. Uses(i, world) # {} /\ Uses(j, world) # {}
  BY DEF Uses
<1>2. MustNotMeet(i, j, world) <=> ConflictsWith(effective[i], effective[j])
  BY <1>1, JoinsConflict DEF Understood, MustNotMeet
<1> QED
  BY <1>2, ConflictsBothWays

LEMMA ExactWhenComplete ==
  ASSUME IInv
  PROVE  StagesAreExact
<1> SUFFICES ASSUME Ready
             PROVE  StagesAreExact
  BY DEF StagesAreExact, ConflictsKeepTheirOrder, NoStageForNothing
<1>1. /\ Complete(stagesWorld) /\ Len(systems) \in Nat
      /\ \A j \in Number : stageOf[j] \in Nat
  BY DEF Ready, IInv, Typed, StagesTyped
<1>2. ASSUME NEW j \in 1 .. Len(systems), NEW i \in 1 .. j - 1
      PROVE  /\ stageOf[i] \in Nat /\ stageOf[j] \in Nat
             /\ MustNotMeet(i, j, stagesWorld) <=> ConflictsWith(effective[j], effective[i])
  <2>1. i \in Number /\ j \in Number
    BY <1>1, <1>2 DEF Number
  <2> QED
    BY <1>1, <2>1, MeetingIsConflict DEF Complete
<1>3. ConflictsKeepTheirOrder
  BY <1>1, <1>2 DEF ConflictsKeepTheirOrder, Complete, Placed, Number
<1>4. NoStageForNothing
  <2> SUFFICES ASSUME NEW j \in 1 .. Len(systems), stageOf[j] > 0
               PROVE  \E i \in 1 .. j - 1 : stageOf[i] = stageOf[j] - 1 /\ MustNotMeet(i, j, stagesWorld)
    BY DEF NoStageForNothing
  <2>1. PICK i \in 1 .. j - 1 : stageOf[i] + 1 = stageOf[j] /\ ConflictsWith(effective[j], effective[i])
    BY <1>1 DEF Complete, Placed, Number
  <2> QED
    BY <1>2, <2>1
<1> QED
  BY <1>3, <1>4 DEF StagesAreExact

LEMMA NoRaceWhenComplete ==
  ASSUME IInv
  PROVE  NoRaceWithinASystem
<1> SUFFICES ASSUME Ready, NEW i \in Number
             PROVE  /\ \A x \in SetsOff(i, stagesWorld) :
                          x.access.modified \cap systems[i].access.localEdited = {}
                    /\ \A a, b \in Uses(i, stagesWorld) : a.modified \cap b.gotten = {}
                    /\ systems[i].loop =>
                         \A a \in Uses(i, stagesWorld) : a.writes \cap (Globals \cup Caches) = {}
  BY DEF NoRaceWithinASystem, Number
<1>1. Understood(i, stagesWorld)
  BY DEF Ready, IInv, Complete
<1>2. \A x \in SetsOff(i, stagesWorld) : x.access.modified \cap systems[i].access.localEdited = {}
  BY <1>1 DEF Understood
<1>3. ASSUME NEW a \in Uses(i, stagesWorld), NEW b \in Uses(i, stagesWorld)
      PROVE  a.modified \cap b.gotten = {}
  <2>1. a.modified \subseteq effective[i].modified /\ b.gotten \subseteq effective[i].gotten
    BY <1>1, <1>3 DEF Understood, Joins
  <2> QED
    BY <1>1, <2>1 DEF Understood
<1>4. ASSUME systems[i].loop, NEW a \in Uses(i, stagesWorld)
      PROVE  a.writes \cap (Globals \cup Caches) = {}
  <2>1. a.writes \subseteq effective[i].writes
    BY <1>1, <1>4 DEF Understood, Joins
  <2> QED
    BY <1>1, <1>4, <2>1 DEF Understood
<1> QED
  BY <1>2, <1>3, <1>4

\* Whatever systems, listeners and hooks there are and in whatever order they
\* came: systems that must not meet keep their order in the stages that run
\* goes by, and no stage is there that no conflict asks for (stagesFor).
THEOREM StagesExact == StagesSpec => []StagesAreExact
<1>1. IInv => StagesAreExact
  BY ExactWhenComplete
<1> QED
  BY <1>1, StagesInvariant, PTL

\* What stagesFor lets pass has no system that edits what it, or anything it
\* sets off however far, queries or edits elsewhere, and no loop that writes a
\* global or a cache, for all that may ever be added.
THEOREM StagesRefuseRaces == StagesSpec => []NoRaceWithinASystem
<1>1. IInv => NoRaceWithinASystem
  BY NoRaceWhenComplete
<1> QED
  BY <1>1, StagesInvariant, PTL

-----------------------------------------------------------------------------
(* Scheduler::run. *)

RunTyped ==
  \/ run = NotRunning \/ run = [at |-> "stages"]
  \/ run \in [at : {"tasks"}, called : BOOLEAN]
  \/ run \in [at : {"enter", "systems"}, stage : Nat]
  \/ run \in [at : {"rounds"}, stage : Nat, recorded : 0 .. 1, round : Nat]

CommandsTyped ==
  /\ lists \in [Numbers -> SUBSET Nat] /\ hookLists \in [0 .. 1 -> SUBSET Nat]
  /\ commands \in Seq(Components)
  /\ fate \in [1 .. Len(commands) -> {"recorded", "done", "dropped"}]

ClockTyped ==
  /\ clock \in Nat \ {0} /\ tick \in [Tracked -> Nat] /\ lastRun \in [Numbers -> Nat]
  /\ unseen \in [Numbers -> SUBSET Tracked]
  /\ known = [i \in Numbers |-> known[i]]
  /\ system \in [Numbers -> {"waits", "runs", "ended", "threw"}]

TasksTyped ==
  /\ task \in [Tasks -> {"no", "lane", "worked", "board", "called", "gone"}]
  /\ board \in Seq(Tasks)

SchedulerTyped == RunTyped /\ CommandsTyped /\ ClockTyped /\ TasksTyped


\* The stages run is waiting for, or goes by, are those with the hooks.
RunsTheStages ==
  /\ stagesValid => DOMAIN stageOf = Number
  /\ run.at = "stages" /\ build.at \in {"gather", "stage"} => build.world
  /\ run.at = "stages" /\ build.at = "ready" => StagesAreFor(TRUE)
  /\ run.at \notin {"no", "stages"} => build = Idle /\ StagesAreFor(TRUE)

\* Where commands may be that are not done.
ListsAreEmpty ==
  /\ run.at # "systems" => lists = NoLists
  /\ run.at = "systems" => \A i \in Numbers \ InStage(run.stage) : lists[i] = {}
  /\ run.at \notin {"tasks", "rounds"} => hookLists[0] = {} /\ hookLists[1] = {}
  /\ run.at = "tasks" => hookLists[1] = {} /\ (~run.called => hookLists[0] = {})
  /\ run.at = "rounds" => hookLists[1 - run.recorded] = {}

\* A command is in a list as long as it is neither done nor dropped.
ListsTell == \A n \in Nat : n \in Pending <=> n \in DOMAIN fate /\ fate[n] = "recorded"

CommandsInv == ListsAreEmpty /\ ListsTell

\* Nothing was changed, and nobody's last run ended, later than now.
ClockIsAhead ==
  /\ \A c \in Tracked : tick[c] <= clock
  /\ \A i \in Numbers : lastRun[i] <= clock
  /\ \A i \in Numbers : i > Len(systems) => lastRun[i] = 0

AllBefore == \A i \in Numbers : lastRun[i] < clock

\* When the tick of the end of a system's last run may still be the current one.
EndsAreBefore ==
  /\ run.at \in {"no", "stages"} /\ calm => AllBefore
  /\ run.at \in {"enter", "rounds"} /\ run.stage # 0 => AllBefore
  /\ run.at = "systems" /\ (\E i \in InStage(run.stage) : system[i] # "waits") =>
       \A j \in Numbers :
         lastRun[j] = clock => /\ j \in InStage(run.stage) /\ system[j] = "ended"
                               /\ known[j] = effective[j].reads

\* The ticks tell what a system has not seen.
TicksTell ==
  \A i \in Numbers, c \in Tracked : c \in known[i] => (c \in unseen[i] <=> tick[c] > lastRun[i])

ClockInv == ClockIsAhead /\ EndsAreBefore /\ TicksTell

-----------------------------------------------------------------------------
(* run uses the stages as anybody does.                                    *)

\* Only the start of run changes the stages.
LEMMA OthersLeaveStages ==
  ASSUME OfRun \/ (\E i \in Numbers : OfSystem(i)) \/ (\E t \in Tasks : OfTask(t)) \/ (\E c \in Tracked : Change(c))
  PROVE  UNCHANGED stageVars
<1>1. CASE OfRun
  BY <1>1 DEF OfRun, StagesThrew, PopTask, TasksDone, Enter, StageThrew, StageEnds, Round, TooManyRounds, RoundsDone
<1>2. CASE \E i \in Numbers : OfSystem(i)
  BY <1>2 DEF OfSystem, SystemStarts, SystemWrites, SystemRecords, SystemSpawns, SystemThrows, SystemEnds
<1>3. CASE \E t \in Tasks : OfTask(t)
  BY <1>3 DEF OfTask, TaskWorks, TaskPushes, Cancel
<1>4. CASE \E c \in Tracked : Change(c)
  BY <1>4 DEF Change
<1> QED
  BY <1>1, <1>2, <1>3, <1>4

LEMMA NextRefines == [Next]_vars => [StagesNext]_stageVars
<1> SUFFICES ASSUME [Next]_vars
             PROVE  [StagesNext]_stageVars
  OBVIOUS
<1>1. CASE UNCHANGED vars
  BY <1>1 DEF vars
<1>2. CASE ByTheUser
  BY <1>2 DEF ByTheUser, StagesNext
<1>3. CASE Run
  BY <1>3 DEF Run, StagesNext
<1>4. CASE Begin
  BY <1>4 DEF Begin, StagesNext, Return
<1>5. CASE OfRun \/ (\E i \in Numbers : OfSystem(i)) \/ (\E t \in Tasks : OfTask(t)) \/ (\E c \in Tracked : Change(c))
  BY <1>5, OthersLeaveStages
<1> QED
  BY <1>1, <1>2, <1>3, <1>4, <1>5 DEF Next

\* The systems, listeners and hooks there are, and what run makes of them, are
\* at any time what Stages makes of them, though run asks for the stages
\* between anything else (Scheduler::run, Scheduler::stages).
THEOREM RunUsesStages == Spec => StagesSpec
<1>1. Init => StagesInit
  BY DEF Init
<1> QED
  BY <1>1, NextRefines, PTL DEF Spec, StagesSpec

-----------------------------------------------------------------------------
(* Where run is, and the stages it goes by.                                *)

LEMMA RunTypedInv ==
  ASSUME RunTyped, [Next]_vars
  PROVE  RunTyped'
<1>1. CASE UNCHANGED run
  BY <1>1 DEF RunTyped, NotRunning
<1>2. CASE Run \/ Begin
  <2>1. \/ run' = [at |-> "stages"] \/ run' = [at |-> "enter", stage |-> 0]
        \/ run' = [at |-> "tasks", called |-> FALSE]
    BY <1>2 DEF Run, Begin
  <2>2. CASE run' = [at |-> "stages"]
    BY <2>2 DEF RunTyped
  <2>3. CASE run' = [at |-> "enter", stage |-> 0]
    BY <2>3 DEF RunTyped
  <2>4. CASE run' = [at |-> "tasks", called |-> FALSE]
    BY <2>4 DEF RunTyped
  <2> QED
    BY <2>1, <2>2, <2>3, <2>4
<1>3. CASE OfRun
  <2>1. CASE StagesThrew \/ TasksDone \/ Enter \/ RoundsDone
    BY <2>1 DEF RunTyped, StagesThrew, TasksDone, Enter, RoundsDone, NotRunning
  <2>2. CASE PopTask \/ StageThrew \/ TooManyRounds
    BY <2>2 DEF RunTyped, PopTask, StageThrew, TooManyRounds, EndThrowing, NotRunning
  <2>3. CASE StageEnds
    BY <2>3 DEF RunTyped, StageEnds, StageIsOver, ApplyThrows, EndThrowing, NotRunning
  <2>4. CASE Round
    <3>1. run \in [at : {"rounds"}, stage : Nat, recorded : 0 .. 1, round : Nat]
      BY <2>4 DEF RunTyped, Round, NotRunning
    <3>2. 1 - run.recorded \in 0 .. 1 /\ run.round + 1 \in Nat
      BY <3>1
    <3>3. run' = NotRunning \/ run' = [run EXCEPT !.recorded = 1 - run.recorded, !.round = run.round + 1]
      BY <2>4 DEF Round, NextSet, ApplyThrows, EndThrowing
    <3> QED
      BY <3>1, <3>2, <3>3 DEF RunTyped
  <2> QED
    BY <1>3, <2>1, <2>2, <2>3, <2>4 DEF OfRun
<1>4. CASE \E i \in Numbers : OfSystem(i)
  <2>1. UNCHANGED run
    BY <1>4 DEF OfSystem, SystemStarts, SystemWrites, SystemRecords, SystemSpawns, SystemThrows, SystemEnds, runVars
  <2> QED
    BY <1>1, <2>1
<1>5. CASE \/ ByTheUser \/ (\E t \in Tasks : OfTask(t)) \/ (\E c \in Tracked : Change(c))
  <2>1. UNCHANGED run
    BY <1>5 DEF ByTheUser, OfTask, TaskWorks, TaskPushes, Cancel, Change, runVars
  <2> QED
    BY <1>1, <2>1
<1> QED
  BY <1>1, <1>2, <1>3, <1>4, <1>5 DEF Next, vars, runVars

\* What a step that leaves the stages and where run is alone does not disturb.
LEMMA StagesAreForStays ==
  ASSUME UNCHANGED <<hookVersion, stagesValid, stagesWorld, stagesHookVersion>>, NEW world
  PROVE  StagesAreFor(world)' <=> StagesAreFor(world)
BY DEF StagesAreFor, Version

LEMMA RunsTheStagesInv ==
  ASSUME RunTyped, RunsTheStages, IInv, IInv', [Next]_vars
  PROVE  RunsTheStages'
<1>1. CASE UNCHANGED <<stageVars, run>>
  BY <1>1, StagesAreForStays DEF RunsTheStages, Number, stageVars
<1>2. CASE ByTheUser
  <2>1. UNCHANGED run
    BY <1>2 DEF ByTheUser, runVars
  <2>2. CASE Outside /\ Adding
    <3>1. build' = Idle /\ run.at = "no"
      BY <2>2 DEF Outside, Adding, AddSystem, On, OnAdd, NotRunning
    <3>2. stagesValid' => stagesValid /\ UNCHANGED <<systems, stageOf>>
      BY <2>2 DEF Adding, AddSystem, On, OnAdd
    <3> QED
      BY <2>1, <3>1, <3>2 DEF RunsTheStages, Number, Idle
  <2>3. CASE Outside /\ (Return \/ StagesFor(FALSE))
    <3>1. run.at = "no"
      BY <2>3 DEF Outside, NotRunning
    <3>2. stagesValid' => stagesValid /\ UNCHANGED <<systems, stageOf>>
      BY <2>3 DEF Return, UnchangedButBuild, StagesFor
    <3> QED
      BY <2>1, <3>1, <3>2 DEF RunsTheStages, Number
  <2>4. CASE Building
    <3>1. build.at \in {"gather", "stage"} /\ build # Idle
      BY <2>4 DEF Building, TakeEvent, TakeHooks, Gathered, Compare, Staged, Idle
    <3>2. run.at \in {"no", "stages"} /\ ~stagesValid
      BY <3>1 DEF RunsTheStages, IInv, Typed
    <3>3. run.at = "stages" => build.world
      BY <3>1 DEF RunsTheStages
    <3>4. CASE TakeEvent \/ TakeHooks \/ Gathered \/ Compare
      <4>1. stagesValid' = stagesValid
        BY <3>4 DEF TakeEvent, TakeHooks, Gathered, Compare, UnchangedButBuild
      <4>2. build' = Idle \/ (build'.world = build.world /\ build'.at \in {"gather", "stage"})
        <5>1. CASE TakeEvent \/ TakeHooks
          <6>1. \E others, emitted, hooked : build' = Take(others, emitted, hooked)
            BY <5>1 DEF TakeEvent, TakeHooks
          <6>2. \A others, emitted, hooked : /\ Take(others, emitted, hooked).world = build.world
                                            /\ Take(others, emitted, hooked).at = "gather"
            BY DEF Take
          <6> QED
            BY <6>1, <6>2
        <5>2. CASE Gathered
          BY <5>2 DEF Gathered, Gather, Staging
        <5>3. CASE Compare
          BY <5>3 DEF Compare, Staging
        <5> QED
          BY <3>4, <5>1, <5>2, <5>3
      <4>3. run.at = "stages" /\ build'.at \in {"gather", "stage"} => build'.world
        <5>1. CASE build' = Idle
          BY <5>1 DEF Idle
        <5>2. CASE build'.world = build.world
          BY <3>3, <5>2
        <5> QED
          BY <4>2, <5>1, <5>2
      <4>4. build'.at # "ready"
        BY <4>2 DEF Idle
      <4> QED
        BY <2>1, <3>2, <4>1, <4>3, <4>4 DEF RunsTheStages
    <3>5. CASE Staged
      <4>1. CASE build' = Idle /\ UNCHANGED stagesValid
        BY <2>1, <3>2, <4>1 DEF RunsTheStages, Idle
      <4>2. CASE /\ stagesValid' /\ stagesWorld' = build.world /\ stagesHookVersion' = Version(build.world)
                 /\ build' = [at |-> "ready"]
        <5>1. UNCHANGED <<systems, stageOf, hookVersion>> /\ DOMAIN stageOf = Number
          BY <3>1, <3>5 DEF Staged, IInv, Typed
        <5>2. build.world = TRUE => StagesAreFor(TRUE)'
          BY <4>2, <5>1 DEF StagesAreFor, Version
        <5>3. run.at = "stages" => build.world = TRUE
          BY <3>1, <3>3 DEF RunsTheStages, IInv, Comparing
        <5> QED
          BY <2>1, <3>2, <4>2, <5>1, <5>2, <5>3 DEF RunsTheStages, Number
      <4> QED
        BY <3>5, <4>1, <4>2 DEF Staged
    <3> QED
      BY <2>4, <3>4, <3>5 DEF Building
  <2> QED
    BY <1>2, <2>2, <2>3, <2>4 DEF ByTheUser
<1>3. CASE Run
  BY <1>3 DEF Run, StagesFor, StagesAreFor, Version, Gather, Staging, RunsTheStages, Number, NotRunning
<1>4. CASE Begin
  <2>1. /\ build' = Idle /\ run'.at \in {"enter", "tasks"}
        /\ UNCHANGED <<systems, hookVersion, stagesValid, stagesWorld, stagesHookVersion, stageOf>>
        /\ StagesAreFor(TRUE)
    BY <1>4 DEF Begin, UnchangedButBuild, RunsTheStages
  <2> QED
    BY <2>1, StagesAreForStays DEF RunsTheStages, Number
<1>5. CASE OfRun
  <2>1. UNCHANGED stageVars
    BY <1>5, OthersLeaveStages
  <2>2. CASE StagesThrew
    BY <2>1, <2>2 DEF StagesThrew, RunsTheStages, Number, stageVars, NotRunning
  <2>3. CASE ~StagesThrew
    <3>1. run.at \notin {"no", "stages"}
      BY <1>5, <2>3 DEF OfRun, PopTask, TasksDone, Enter, StageThrew, StageEnds, Round, TooManyRounds, RoundsDone,
                        StageIsOver
    <3>2. run'.at # "stages"
      <4>1. CASE PopTask \/ TasksDone \/ Enter \/ RoundsDone
        BY <3>1, <4>1 DEF PopTask, TasksDone, Enter, RoundsDone, EndThrowing, NotRunning, RunTyped
      <4>2. CASE StageThrew \/ StageEnds \/ TooManyRounds
        BY <3>1, <4>2 DEF StageThrew, StageEnds, TooManyRounds, ApplyThrows, EndThrowing, NotRunning, RunTyped
      <4>3. CASE Round
        <5>1. run' = NotRunning \/ run'.at = run.at
          BY <3>1, <4>3 DEF Round, ApplyThrows, EndThrowing, RunTyped, NotRunning
        <5> QED
          BY <3>1, <5>1 DEF NotRunning
      <4> QED
        BY <1>5, <2>3, <4>1, <4>2, <4>3 DEF OfRun
    <3> QED
      BY <2>1, <3>1, <3>2, StagesAreForStays DEF RunsTheStages, Number, stageVars
  <2> QED
    BY <2>2, <2>3
<1>6. CASE (\E i \in Numbers : OfSystem(i)) \/ (\E t \in Tasks : OfTask(t)) \/ (\E c \in Tracked : Change(c))
  <2>1. UNCHANGED stageVars
    BY <1>6, OthersLeaveStages
  <2>2. UNCHANGED run
    BY <1>6 DEF OfSystem, SystemStarts, SystemWrites, SystemRecords, SystemSpawns, SystemThrows, SystemEnds,
                OfTask, TaskWorks, TaskPushes, Cancel, Change, runVars
  <2> QED
    BY <1>1, <2>1, <2>2
<1> QED
  BY <1>1, <1>2, <1>3, <1>4, <1>5, <1>6 DEF Next, vars, runVars

SystemsFit == Len(systems) <= MaxSystems

LEMMA SystemsFitInv ==
  ASSUME IInv, SystemsFit, [StagesNext]_stageVars
  PROVE  SystemsFit'
<1>1. CASE UNCHANGED systems
  BY <1>1 DEF SystemsFit
<1>2. CASE \E f \in Systems : AddSystem(f)
  <2>1. Len(systems) \in Nat /\ Len(systems') = Len(systems) + 1 /\ Len(systems) < MaxSystems
    BY <1>2 DEF AddSystem, IInv, Typed
  <2> QED
    BY <2>1, StagesAssumption DEF SystemsFit
<1>3. CASE \/ \E l \in Listeners : On(l)
           \/ \E h \in Hooks : OnAdd(h)
           \/ \E world \in BOOLEAN : StagesFor(world)
           \/ Return
  BY <1>1, <1>3 DEF On, OnAdd, StagesFor, Return, UnchangedButBuild
<1>4. CASE Building
  BY <1>1, <1>4 DEF Building, TakeEvent, TakeHooks, Gathered, Compare, Staged, UnchangedButBuild
<1> QED
  BY <1>1, <1>2, <1>3, <1>4 DEF StagesNext, Adding, stageVars

RunInv == RunTyped /\ RunsTheStages /\ IInv /\ SystemsFit

LEMMA InitRunInv == Init => RunInv
<1> SUFFICES ASSUME Init
             PROVE  RunInv
  OBVIOUS
<1>1. IInv
  BY InitInv DEF Init
<1>2. RunTyped /\ RunsTheStages /\ SystemsFit
  BY StagesAssumption DEF Init, StagesInit, RunTyped, RunsTheStages, NotRunning, Number, Idle, SystemsFit
<1> QED
  BY <1>1, <1>2 DEF RunInv

LEMMA NextRunInv ==
  ASSUME RunInv, [Next]_vars
  PROVE  RunInv'
<1>1. RunTyped'
  BY RunTypedInv DEF RunInv
<1>2. IInv'
  BY NextRefines, NextInv DEF RunInv
<1>3. RunsTheStages'
  BY <1>2, RunsTheStagesInv DEF RunInv
<1>4. SystemsFit'
  BY NextRefines, SystemsFitInv DEF RunInv
<1> QED
  BY <1>1, <1>2, <1>3, <1>4 DEF RunInv

LEMMA InStageFits ==
  ASSUME RunInv, NEW k
  PROVE  InStage(k) \subseteq Numbers
<1>1. Len(systems) \in Nat /\ Len(systems) <= MaxSystems /\ MaxSystems \in Nat
  BY StagesAssumption DEF RunInv, SystemsFit, IInv, Typed
<1> QED
  BY <1>1 DEF InStage, Numbers

\* Systems of one stage do not meet, while run goes by the stages.
LEMMA StagesApart ==
  ASSUME RunInv, run.at \notin {"no", "stages"}, NEW i \in Number, NEW j \in Number, i # j, stageOf[i] = stageOf[j]
  PROVE  ~ConflictsWith(effective[i], effective[j]) /\ ~MustNotMeet(i, j, TRUE)
<1>1. StagesAreFor(TRUE) /\ stagesWorld = TRUE
  BY DEF RunInv, RunsTheStages, StagesAreFor
<1>2. Complete(TRUE) /\ Len(systems) \in Nat /\ \A k \in Number : stageOf[k] \in Nat
  <2>1. StagesAreFor(stagesWorld)
    BY <1>1 DEF StagesAreFor
  <2>2. Complete(stagesWorld) /\ Len(systems) \in Nat /\ \A k \in Number : stageOf[k] \in Nat
    BY <2>1 DEF RunInv, IInv, Typed, StagesTyped
  <2> QED
    BY <1>1, <2>2
<1>3. ASSUME NEW k \in Number, NEW l \in 1 .. k - 1, stageOf[k] = stageOf[l]
      PROVE  ~ConflictsWith(effective[k], effective[l])
  BY <1>2, <1>3 DEF Complete, Placed, Number
<1>4. i \in 1 .. j - 1 \/ j \in 1 .. i - 1
  BY <1>2 DEF Number
<1>5. ~ConflictsWith(effective[i], effective[j])
  BY <1>3, <1>4, ConflictsBothWays
<1>6. Understood(i, TRUE) /\ Understood(j, TRUE)
  BY <1>2 DEF Complete
<1> QED
  BY <1>5, <1>6, MeetingIsConflict, ConflictsBothWays

\* Systems that must not meet, by their own accesses or by what they set off,
\* never run at the same time, whatever systems, listeners and hooks were
\* added and whenever (stagesFor as run uses it).
THEOREM RunsApart == Spec => []SystemsRunApart
<1>1. RunInv => SystemsRunApart
  BY StagesApart DEF SystemsRunApart, Runs, InStage, Number
<1> QED
  BY <1>1, InitRunInv, NextRunInv, PTL DEF Spec

-----------------------------------------------------------------------------
(* The commands.                                                           *)

\* fate after some commands are done, some dropped and some recorded.
LEMMA NewsTyped == <<>> \in Seq(Components) /\ \A c \in Components : <<c>> \in Seq(Components)
OBVIOUS

LEMMA PendingTyped ==
  ASSUME CommandsTyped
  PROVE  Pending \in SUBSET Nat
<1>1. hookLists[0] \subseteq Nat /\ hookLists[1] \subseteq Nat /\ \A i \in Numbers : lists[i] \subseteq Nat
  BY DEF CommandsTyped
<1>2. \A n \in UNION {lists[i] : i \in Numbers} : n \in Nat
  BY <1>1
<1>3. \A n \in Pending : n \in Nat
  BY <1>1, <1>2 DEF Pending
<1> QED
  BY <1>3

LEMMA FatesAre ==
  ASSUME CommandsTyped, ListsTell, NEW done \in SUBSET Pending, NEW dropped \in SUBSET Pending,
         done \cap dropped = {},
         NEW news \in Seq(Components),
         commands' = commands \o news, fate' = Fates(done, dropped, news),
         Pending' = (Pending \ (done \cup dropped)) \cup NewNumbers(news)
  PROVE  /\ commands' \in Seq(Components)
         /\ fate' \in [1 .. Len(commands') -> {"recorded", "done", "dropped"}]
         /\ NewNumbers(news) \in SUBSET Nat
         /\ ListsTell'
<1> DEFINE len == Len(commands)
           more == Len(news)
<1>1. len \in Nat /\ more \in Nat /\ DOMAIN fate = 1 .. len /\ DOMAIN news = 1 .. more
  BY DEF CommandsTyped
<1>2. commands' \in Seq(Components) /\ Len(commands') = len + more
  BY DEF CommandsTyped
<1>3. NewNumbers(news) = {n \in Nat : len < n /\ n <= len + more}
  <2>1. ASSUME NEW n \in Nat, len < n, n <= len + more
        PROVE  n - len \in 1 .. more /\ n = len + (n - len)
    BY <1>1, <2>1
  <2>2. ASSUME NEW k \in 1 .. more
        PROVE  len + k \in Nat /\ len < len + k /\ len + k <= len + more
    BY <1>1, <2>2
  <2> HIDE DEF len, more
  <2> QED
    BY <1>1, <2>1, <2>2 DEF NewNumbers, len
<1>4. \A n \in done \cup dropped : n \in 1 .. len
  BY <1>1, PendingTyped DEF ListsTell
<1>5. DOMAIN fate' = 1 .. len + more
  BY <1>1 DEF Fates
<1>6. ASSUME NEW n \in 1 .. len + more
      PROVE  fate'[n] = CASE n \in done -> "done"
                          [] n \in dropped -> "dropped"
                          [] n > len -> "recorded"
                          [] OTHER -> fate[n]
  BY <1>6 DEF Fates
<1> HIDE DEF len, more
<1>7. \A n \in 1 .. len + more :
        /\ n \in done => fate'[n] = "done"
        /\ n \in dropped => fate'[n] = "dropped"
        /\ n > len => fate'[n] = "recorded"
        /\ n \notin done \cup dropped /\ ~(n > len) => fate'[n] = fate[n]
  <2>1. \A n \in 1 .. len + more : n > len => n \notin done \cup dropped
    BY <1>1, <1>4
  <2>2. ASSUME NEW n \in 1 .. len + more
        PROVE  /\ n \in done => fate'[n] = "done"
               /\ n \in dropped => fate'[n] = "dropped"
    <3>1. CASE n \in done
      BY <1>6, <2>1, <2>2, <3>1
    <3>2. CASE n \in dropped
      BY <1>6, <2>1, <2>2, <3>2
    <3> QED
      BY <3>1, <3>2
  <2>3. ASSUME NEW n \in 1 .. len + more
        PROVE  n > len => fate'[n] = "recorded"
    BY <1>6, <2>1, <2>3
  <2>4. ASSUME NEW n \in 1 .. len + more
        PROVE  n \notin done \cup dropped /\ ~(n > len) => fate'[n] = fate[n]
    BY <1>6, <2>4
  <2> QED
    BY <2>2, <2>3, <2>4
<1>8. ASSUME NEW n \in 1 .. len + more
      PROVE  fate'[n] \in {"recorded", "done", "dropped"}
  <2>1. n > len \/ n \in 1 .. len
    BY <1>1
  <2> QED
    BY <1>1, <1>7, <2>1 DEF CommandsTyped
<1>9. fate' = [n \in 1 .. len + more |-> fate'[n]]
  BY <1>1 DEF Fates, len, more
<1>10. ASSUME NEW n \in Nat
       PROVE  n \in Pending' <=> n \in DOMAIN fate' /\ fate'[n] = "recorded"
  <2>1. n \in Pending <=> n \in 1 .. len /\ fate[n] = "recorded"
    BY <1>1 DEF ListsTell
  <2>2. n \in Pending' <=> (n \in Pending /\ n \notin done \cup dropped) \/ (len < n /\ n <= len + more)
    BY <1>3
  <2>3. n \in 1 .. len + more <=> n \in 1 .. len \/ (len < n /\ n <= len + more)
    BY <1>1
  <2>4. len < n => n \notin 1 .. len
    BY <1>1
  <2>5. CASE len < n
    BY <1>1, <1>5, <1>7, <2>1, <2>2, <2>3, <2>4, <2>5
  <2>6. CASE ~(len < n)
    <3>1. n \in DOMAIN fate' <=> n \in 1 .. len
      BY <1>1, <1>5, <2>3, <2>6
    <3>2. n \in 1 .. len => n \in 1 .. len + more /\ ~(n > len)
      BY <1>1
    <3> QED
      BY <1>7, <2>1, <2>2, <2>6, <3>1, <3>2
  <2> QED
    BY <2>5, <2>6
<1> QED
  BY <1>2, <1>3, <1>8, <1>9, <1>10 DEF ListsTell

\* What is dropped when run throws is all there is.
LEMMA DroppingInv ==
  ASSUME CommandsTyped, ListsTell, NEW done \in SUBSET Pending, fate' = Fates(done, Pending \ done, <<>>),
         UNCHANGED commands, EndThrowing
  PROVE  CommandsTyped' /\ CommandsInv'
<1>1. /\ lists' = NoLists /\ hookLists' = [set \in 0 .. 1 |-> {}]
      /\ run' = NotRunning
  BY DEF EndThrowing
<1>2. Pending' = {}
  BY <1>1 DEF Pending, NoLists
<1>3. <<>> \in Seq(Components) /\ commands' = commands \o <<>> /\ NewNumbers(<<>>) = {}
  BY DEF NewNumbers, CommandsTyped
<1>4. Pending' = (Pending \ (done \cup (Pending \ done))) \cup NewNumbers(<<>>)
  BY <1>2, <1>3
<1>5. CommandsTyped' /\ ListsTell'
  <2>1. /\ commands' \in Seq(Components)
        /\ fate' \in [1 .. Len(commands') -> {"recorded", "done", "dropped"}]
        /\ ListsTell'
    BY <1>3, <1>4, FatesAre
  <2>2. lists' \in [Numbers -> SUBSET Nat] /\ hookLists' \in [0 .. 1 -> SUBSET Nat]
    BY <1>1 DEF NoLists
  <2> QED
    BY <2>1, <2>2 DEF CommandsTyped
<1>6. ListsAreEmpty'
  BY <1>1 DEF ListsAreEmpty, NotRunning
<1> QED
  BY <1>5, <1>6 DEF CommandsInv

\* What is applied is all there is, and what hooks record is in the other set.
LEMMA ApplyInv ==
  ASSUME CommandsTyped, ListsTell, NEW todo \in SUBSET Pending, NEW from \in SUBSET (0 .. 1), NEW next \in 0 .. 1,
         Apply(todo, from, next), next \notin from, \A i \in Numbers : lists[i] \subseteq todo,
         \A set \in 0 .. 1 : hookLists[set] \subseteq todo /\ (set \notin from => hookLists[set] = {})
  PROVE  CommandsTyped' /\ ListsTell' /\ lists' = NoLists /\ hookLists'[1 - next] = {}
<1>1. PICK news \in HookNews(todo) :
        /\ Recorded(news)
        /\ fate' = Fates(todo, {}, news)
        /\ hookLists' = [set \in 0 .. 1 |->
             IF set \in from THEN {} ELSE [hookLists EXCEPT ![next] = @ \cup NewNumbers(news)][set]]
  BY DEF Apply
<1>2. news \in Seq(Components) /\ commands' = commands \o news
  <2>1. news = <<>> \/ \E c \in Components : news = <<c>>
    BY <1>1 DEF HookNews
  <2> QED
    BY <1>1, <2>1, NewsTyped DEF Recorded
<1>3. lists' = NoLists
  BY DEF Apply, NoLists
<1>4. /\ hookLists'[next] = NewNumbers(news) /\ hookLists'[1 - next] = {}
      /\ hookLists' = [set \in 0 .. 1 |-> hookLists'[set]]
  <2>1. hookLists \in [0 .. 1 -> SUBSET Nat] /\ 1 - next \in 0 .. 1 /\ 1 - next # next
    BY DEF CommandsTyped
  <2> QED
    BY <1>1, <2>1
<1>5. Pending = todo
  <2>1. UNION {lists[i] : i \in Numbers} \subseteq todo
    OBVIOUS
  <2> QED
    BY <2>1 DEF Pending
<1>6. Pending' = NewNumbers(news)
  <2>1. hookLists'[0] \cup hookLists'[1] = NewNumbers(news)
    <3>1. (next = 0 /\ 1 - next = 1) \/ (next = 1 /\ 1 - next = 0)
      OBVIOUS
    <3> QED
      BY <1>4, <3>1
  <2>2. UNION {lists'[i] : i \in Numbers} = {}
    BY <1>3 DEF NoLists
  <2> QED
    BY <2>1, <2>2 DEF Pending
<1>7. Pending' = (Pending \ (todo \cup {})) \cup NewNumbers(news)
  BY <1>5, <1>6
<1>8. /\ commands' \in Seq(Components)
      /\ fate' \in [1 .. Len(commands') -> {"recorded", "done", "dropped"}]
      /\ NewNumbers(news) \in SUBSET Nat
      /\ ListsTell'
  <2>1. fate' = Fates(todo, {}, news) /\ {} \in SUBSET Pending /\ todo \cap {} = {}
    BY <1>1
  <2> QED
    BY <1>2, <1>7, <2>1, FatesAre
<1>9. lists' \in [Numbers -> SUBSET Nat] /\ hookLists' \in [0 .. 1 -> SUBSET Nat]
  <2>1. \A set \in 0 .. 1 : set = next \/ set = 1 - next
    OBVIOUS
  <2> QED
    BY <1>3, <1>4, <1>8, <2>1 DEF NoLists
<1> QED
  BY <1>3, <1>4, <1>8, <1>9 DEF CommandsTyped

\* What is recorded into one list more.
LEMMA RecordingInv ==
  ASSUME CommandsTyped, ListsTell, NEW news \in Seq(Components), Recorded(news), fate' = Fates({}, {}, news),
         \/ /\ UNCHANGED lists
            /\ hookLists' = [hookLists EXCEPT ![0] = @ \cup NewNumbers(news)]
         \/ /\ UNCHANGED hookLists
            /\ \E i \in Numbers : lists' = [lists EXCEPT ![i] = @ \cup NewNumbers(news)]
  PROVE  CommandsTyped' /\ ListsTell'
<1>1. lists \in [Numbers -> SUBSET Nat] /\ hookLists \in [0 .. 1 -> SUBSET Nat]
  BY DEF CommandsTyped
<1>2. Pending' = Pending \cup NewNumbers(news)
  <2> DEFINE new == NewNumbers(news)
             all == UNION {lists[i] : i \in Numbers}
  <2>1. CASE UNCHANGED lists /\ hookLists' = [hookLists EXCEPT ![0] = @ \cup new]
    BY <1>1, <2>1 DEF Pending
  <2>2. CASE UNCHANGED hookLists /\ \E i \in Numbers : lists' = [lists EXCEPT ![i] = @ \cup new]
    <3>1. PICK i \in Numbers : lists' = [lists EXCEPT ![i] = @ \cup new]
      BY <2>2
    <3>2. lists'[i] = lists[i] \cup new /\ \A j \in Numbers \ {i} : lists'[j] = lists[j]
      BY <1>1, <3>1
    <3>3. UNION {lists'[j] : j \in Numbers} = all \cup new
      <4> HIDE DEF new
      <4>1. ASSUME NEW n \in UNION {lists'[j] : j \in Numbers}
            PROVE  n \in all \cup new
        BY <3>2, <4>1
      <4>2. ASSUME NEW n \in all \cup new
            PROVE  n \in UNION {lists'[j] : j \in Numbers}
        BY <3>1, <3>2, <4>2
      <4> QED
        BY <4>1, <4>2
    <3> HIDE DEF new
    <3> QED
      BY <2>2, <3>3 DEF Pending, new
  <2> QED
    BY <2>1, <2>2
<1>3. /\ commands' \in Seq(Components)
      /\ fate' \in [1 .. Len(commands') -> {"recorded", "done", "dropped"}]
      /\ NewNumbers(news) \in SUBSET Nat
      /\ ListsTell'
  <2>1. /\ commands' = commands \o news /\ {} \in SUBSET Pending /\ {} \cap {} = {}
        /\ Pending' = (Pending \ ({} \cup {})) \cup NewNumbers(news)
    BY <1>2 DEF Recorded
  <2> QED
    BY <2>1, FatesAre
<1>4. lists' \in [Numbers -> SUBSET Nat] /\ hookLists' \in [0 .. 1 -> SUBSET Nat]
  BY <1>1, <1>3
<1> QED
  BY <1>3, <1>4 DEF CommandsTyped

LEMMA CommandsStay ==
  ASSUME CommandsTyped, ListsTell, UNCHANGED <<lists, hookLists, commands, fate>>
  PROVE  CommandsTyped' /\ ListsTell'
<1>1. Pending' = Pending
  BY DEF Pending
<1> QED
  BY <1>1 DEF CommandsTyped, ListsTell

LEMMA CommandsOfRun ==
  ASSUME RunInv, CommandsTyped, CommandsInv, OfRun
  PROVE  CommandsTyped' /\ CommandsInv'
<1>1. UNCHANGED stageVars
  BY OthersLeaveStages
<1>2. hookLists \in [0 .. 1 -> SUBSET Nat] /\ lists \in [Numbers -> SUBSET Nat] /\ ListsAreEmpty /\ ListsTell /\ RunTyped
  BY DEF CommandsTyped, CommandsInv, RunInv
<1>3. ASSUME UNCHANGED <<lists, hookLists, commands, fate>>
      PROVE  CommandsTyped' /\ ListsTell'
  BY <1>3, CommandsStay DEF CommandsInv
<1>4. CASE StagesThrew \/ TasksDone \/ Enter \/ RoundsDone
  <2>1. UNCHANGED <<lists, hookLists, commands, fate>>
    BY <1>4 DEF StagesThrew, TasksDone, Enter, RoundsDone
  <2>2. run.at # "systems" /\ lists = NoLists /\ \A i \in Numbers : lists[i] = {}
    BY <1>2, <1>4 DEF StagesThrew, TasksDone, Enter, RoundsDone, ListsAreEmpty, NoLists
  <2>3. CASE TasksDone /\ run.called
    <3>1. run'.at = "rounds" /\ run'.recorded = 0 /\ hookLists[1 - 0] = {}
      BY <1>2, <2>3 DEF TasksDone, ListsAreEmpty
    <3> QED
      BY <1>3, <2>1, <2>2, <3>1 DEF ListsAreEmpty, CommandsInv
  <2>4. CASE ~(TasksDone /\ run.called)
    <3>1. run'.at \in {"no", "enter", "systems"}
      BY <1>2, <1>4, <2>4 DEF StagesThrew, TasksDone, Enter, RoundsDone, NotRunning, RunTyped
    <3>2. hookLists[0] = {} /\ hookLists[1] = {}
      <4>1. CASE RoundsDone
        <5>1. run.recorded = 0 \/ run.recorded = 1
          BY <1>2, <4>1 DEF RoundsDone, RunTyped, NotRunning
        <5>2. run.at = "rounds" /\ hookLists[run.recorded] = {} /\ hookLists[1 - run.recorded] = {}
          BY <1>2, <4>1 DEF RoundsDone, ListsAreEmpty
        <5> QED
          BY <5>1, <5>2
      <4>2. CASE StagesThrew \/ TasksDone \/ Enter
        BY <1>2, <2>4, <4>2 DEF StagesThrew, TasksDone, Enter, ListsAreEmpty
      <4> QED
        BY <1>4, <4>1, <4>2
    <3> QED
      BY <1>3, <2>1, <2>2, <3>1, <3>2 DEF ListsAreEmpty, CommandsInv
  <2> QED
    BY <2>3, <2>4
<1>9. CASE PopTask
  <2>1. run.at = "tasks"
    BY <1>9 DEF PopTask
  <2>2. CASE \E news \in {<<>>} \cup {<<c>> : c \in Components} :
               /\ Recorded(news)
               /\ fate' = Fates({}, {}, news)
               /\ hookLists' = [hookLists EXCEPT ![0] = @ \cup NewNumbers(news)]
               /\ run' = [run EXCEPT !.called = TRUE] /\ UNCHANGED lists
    <3>1. PICK news \in {<<>>} \cup {<<c>> : c \in Components} :
               /\ Recorded(news)
               /\ fate' = Fates({}, {}, news)
               /\ hookLists' = [hookLists EXCEPT ![0] = @ \cup NewNumbers(news)]
      BY <2>2
    <3>2. run' = [run EXCEPT !.called = TRUE] /\ UNCHANGED lists
      BY <2>2
    <3>3. news \in Seq(Components)
      BY NewsTyped
    <3>4. CommandsTyped' /\ ListsTell'
      BY <1>2, <3>1, <3>2, <3>3, RecordingInv
    <3>5. run'.at = "tasks" /\ run'.called
      BY <1>2, <2>1, <3>2 DEF RunTyped, NotRunning
    <3>6. ListsAreEmpty'
      BY <1>2, <2>1, <3>1, <3>2, <3>5 DEF ListsAreEmpty, NoLists
    <3> QED
      BY <3>4, <3>6 DEF CommandsInv
  <2>3. CASE fate' = Fates({}, Pending, <<>>) /\ EndThrowing /\ UNCHANGED commands
    <3>1. {} \in SUBSET Pending /\ Pending \ {} = Pending
      OBVIOUS
    <3> QED
      BY <1>2, <2>3, <3>1, DroppingInv
  <2>4. CASE UNCHANGED <<run, lists, hookLists, commands, fate>>
    BY <1>2, <1>3, <2>1, <2>4 DEF CommandsInv, ListsAreEmpty, NoLists
  <2> QED
    BY <1>9, <2>2, <2>3, <2>4 DEF PopTask
<1>5. CASE StageThrew \/ TooManyRounds
  <2>1. {} \in SUBSET Pending /\ Pending \ {} = Pending
    OBVIOUS
  <2>2. fate' = Fates({}, Pending, <<>>) /\ EndThrowing /\ UNCHANGED commands
    BY <1>5 DEF StageThrew, TooManyRounds
  <2> QED
    BY <1>2, <2>1, <2>2, DroppingInv
<1>6. ASSUME NEW todo \in SUBSET Pending, ApplyThrows(todo)
      PROVE  CommandsTyped' /\ CommandsInv'
  BY <1>2, <1>6, DroppingInv DEF ApplyThrows
<1>7. CASE StageEnds
  <2>1. run.at = "systems" /\ InStage(run.stage) \subseteq Numbers
    BY <1>7, InStageFits DEF StageEnds, StageIsOver
  <2>2. StageCommands \subseteq Pending /\ \A i \in Numbers : lists[i] \subseteq StageCommands
    BY <1>2, <2>1 DEF StageCommands, Pending, ListsAreEmpty
  <2>3. CASE ApplyThrows(StageCommands)
    BY <1>6, <2>2, <2>3
  <2>4. CASE /\ Apply(StageCommands, {}, 0)
             /\ run' = [at |-> "rounds", stage |-> run.stage + 1, recorded |-> 0, round |-> 1]
    <3>1. \A set \in 0 .. 1 : hookLists[set] = {}
      BY <1>2, <2>1 DEF ListsAreEmpty
    <3>2. CommandsTyped' /\ ListsTell' /\ lists' = NoLists /\ hookLists'[1 - 0] = {}
      <4>1. StageCommands \in SUBSET Pending /\ {} \in SUBSET (0 .. 1) /\ 0 \in 0 .. 1
        BY <2>2
      <4>2. \A set \in 0 .. 1 : hookLists[set] \subseteq StageCommands /\ (set \notin {} => hookLists[set] = {})
        BY <3>1
      <4> QED
        BY <1>2, <2>2, <2>4, <4>1, <4>2, ApplyInv
    <3> QED
      BY <2>4, <3>2 DEF CommandsInv, ListsAreEmpty
  <2> QED
    BY <1>7, <2>3, <2>4 DEF StageEnds
<1>8. CASE Round
  <2>1. PICK recorded \in 0 .. 1 : recorded = run.recorded /\ run.at = "rounds" /\ hookLists[1 - recorded] = {}
    BY <1>2, <1>8 DEF Round, RunTyped, NotRunning, ListsAreEmpty
  <2>2. hookLists[recorded] \subseteq Pending /\ \A i \in Numbers : lists[i] = {}
    BY <1>2, <2>1 DEF Pending, ListsAreEmpty, NoLists
  <2>3. CASE ApplyThrows(hookLists[recorded])
    BY <1>6, <2>2, <2>3
  <2>4. CASE /\ Apply(hookLists[recorded], {recorded}, 1 - recorded)
             /\ run' = [run EXCEPT !.recorded = 1 - recorded, !.round = @ + 1]
    <3>1. \A set \in 0 .. 1 : set = recorded \/ set = 1 - recorded
      OBVIOUS
    <3>2. 1 - recorded \in 0 .. 1 /\ 1 - recorded # recorded /\ 1 - (1 - recorded) = recorded
      OBVIOUS
    <3>3. CommandsTyped' /\ ListsTell' /\ lists' = NoLists /\ hookLists'[recorded] = {}
      <4> DEFINE todo == hookLists[recorded]
                 next == 1 - recorded
      <4>1. todo \in SUBSET Pending /\ {recorded} \in SUBSET (0 .. 1) /\ next \in 0 .. 1
        BY <2>2, <3>2
      <4>2. next \notin {recorded} /\ \A i \in Numbers : lists[i] \subseteq todo
        BY <2>2, <3>2
      <4>3. \A set \in 0 .. 1 : hookLists[set] \subseteq todo /\ (set \notin {recorded} => hookLists[set] = {})
        BY <2>1, <3>1
      <4>4. Apply(todo, {recorded}, next) /\ 1 - next = recorded
        BY <2>4, <3>2
      <4> HIDE DEF todo, next
      <4> QED
        BY <1>2, <4>1, <4>2, <4>3, <4>4, ApplyInv
    <3>4. run'.at = "rounds" /\ run'.recorded = 1 - recorded
      BY <1>2, <2>1, <2>4 DEF RunTyped, NotRunning
    <3> QED
      BY <3>2, <3>3, <3>4 DEF CommandsInv, ListsAreEmpty
  <2> QED
    BY <1>8, <2>1, <2>3, <2>4 DEF Round, NextSet
<1> QED
  BY <1>4, <1>5, <1>7, <1>8, <1>9 DEF OfRun

LEMMA NextCommands ==
  ASSUME RunInv, CommandsTyped, CommandsInv, [Next]_vars
  PROVE  CommandsTyped' /\ CommandsInv'
<1>1. ListsAreEmpty /\ ListsTell /\ RunTyped
  BY DEF CommandsInv, RunInv
<1>2. ASSUME UNCHANGED <<run, lists, hookLists, commands, fate>>, run.at = "systems" => UNCHANGED stageVars
      PROVE  CommandsTyped' /\ CommandsInv'
  <2>1. CommandsTyped' /\ ListsTell'
    BY <1>1, <1>2, CommandsStay
  <2>2. run.at = "systems" => InStage(run.stage)' = InStage(run.stage)
    BY <1>2 DEF InStage, stageVars
  <2> QED
    BY <1>1, <1>2, <2>1, <2>2 DEF CommandsInv, ListsAreEmpty
<1>3. CASE UNCHANGED vars
  BY <1>2, <1>3 DEF vars, runVars
<1>4. CASE ByTheUser
  <2>1. UNCHANGED <<run, lists, hookLists, commands, fate>>
    BY <1>4 DEF ByTheUser, runVars
  <2>2. run.at # "systems"
    <3>1. CASE Outside
      BY <3>1 DEF Outside, NotRunning
    <3>2. CASE Building
      <4>1. build # Idle
        BY <3>2 DEF Building, TakeEvent, TakeHooks, Gathered, Compare, Staged, Idle
      <4> QED
        BY <4>1 DEF RunInv, RunsTheStages
    <3> QED
      BY <1>4, <3>1, <3>2 DEF ByTheUser
  <2> QED
    BY <1>2, <2>1, <2>2
<1>5. CASE Run \/ Begin
  <2>1. UNCHANGED <<lists, hookLists, commands, fate>>
    BY <1>5 DEF Run, Begin
  <2>2. run.at \in {"no", "stages"} /\ (run'.at \in {"stages", "enter"} \/ (run'.at = "tasks" /\ ~run'.called))
    <3>1. CASE Run
      BY <3>1 DEF Run, NotRunning
    <3>2. CASE Begin
      BY <3>2 DEF Begin
    <3> QED
      BY <1>5, <3>1, <3>2
  <2> QED
    BY <1>1, <2>1, <2>2, CommandsStay DEF CommandsInv, ListsAreEmpty
<1>6. CASE OfRun
  BY <1>6, CommandsOfRun
<1>7. ASSUME NEW i \in Numbers, OfSystem(i)
      PROVE  CommandsTyped' /\ CommandsInv'
  <2>1. UNCHANGED stageVars
    BY <1>7, OthersLeaveStages
  <2>2. CASE SystemStarts(i) \/ SystemWrites(i) \/ SystemSpawns(i) \/ SystemThrows(i) \/ SystemEnds(i)
    <3>1. UNCHANGED <<run, lists, hookLists, commands, fate>>
      BY <2>2 DEF SystemStarts, SystemWrites, SystemSpawns, SystemThrows, SystemEnds, runVars
    <3> QED
      BY <1>2, <2>1, <3>1
  <2>3. CASE SystemRecords(i)
    <3>1. PICK c \in Components : /\ Recorded(<<c>>)
                                 /\ fate' = Fates({}, {}, <<c>>)
                                 /\ lists' = [lists EXCEPT ![i] = @ \cup NewNumbers(<<c>>)]
      BY <2>3 DEF SystemRecords
    <3>2. run.at = "systems" /\ i \in InStage(run.stage) /\ UNCHANGED <<run, hookLists>>
      BY <2>3 DEF SystemRecords, Runs
    <3>3. CommandsTyped' /\ ListsTell'
      BY <1>1, <1>7, <3>1, <3>2, NewsTyped, RecordingInv
    <3>4. InStage(run.stage)' = InStage(run.stage)
      BY <2>1, <3>2 DEF InStage, stageVars
    <3>5. \A j \in Numbers \ InStage(run.stage) : lists'[j] = {}
      BY <1>1, <3>1, <3>2 DEF ListsAreEmpty, CommandsTyped
    <3> QED
      BY <1>1, <3>2, <3>3, <3>4, <3>5 DEF CommandsInv, ListsAreEmpty
  <2> QED
    BY <1>7, <2>2, <2>3 DEF OfSystem
<1>8. CASE (\E t \in Tasks : OfTask(t)) \/ (\E c \in Tracked : Change(c))
  <2>1. UNCHANGED stageVars
    BY <1>8, OthersLeaveStages
  <2>2. UNCHANGED <<run, lists, hookLists, commands, fate>>
    BY <1>8 DEF OfTask, TaskWorks, TaskPushes, Cancel, Change, runVars
  <2> QED
    BY <1>2, <2>1, <2>2
<1> QED
  BY <1>3, <1>4, <1>5, <1>6, <1>7, <1>8 DEF Next

LEMMA InitCommands == Init => CommandsTyped /\ CommandsInv
<1> SUFFICES ASSUME Init
             PROVE  CommandsTyped /\ CommandsInv
  OBVIOUS
<1>1. run = NotRunning /\ lists = NoLists /\ hookLists = [set \in 0 .. 1 |-> {}] /\ commands = <<>> /\ fate = <<>>
  BY DEF Init
<1>2. CommandsTyped
  BY <1>1 DEF CommandsTyped, NoLists
<1>3. Pending = {}
  BY <1>1 DEF Pending, NoLists
<1> QED
  BY <1>1, <1>2, <1>3 DEF CommandsInv, ListsAreEmpty, ListsTell, NotRunning

\* Whatever throws, hooks and tasks record, and however many rounds they take:
\* when run is over each command is done, or its value is dropped, and no list
\* holds one that is (Scheduler::run, runHookRounds and their catches).
THEOREM CommandsEnd == Spec => []EveryCommandEnds
<1>1. RunInv /\ CommandsTyped /\ CommandsInv => EveryCommandEnds
  <2> SUFFICES ASSUME RunInv, CommandsTyped, CommandsInv
               PROVE  EveryCommandEnds
    OBVIOUS
  <2>1. \A n \in Pending : fate[n] = "recorded"
    BY PendingTyped DEF CommandsInv, ListsTell
  <2>2. ASSUME run = NotRunning, NEW n \in DOMAIN fate
        PROVE  fate[n] # "recorded"
    <3>1. lists = NoLists /\ hookLists[0] = {} /\ hookLists[1] = {}
      BY <2>2 DEF NotRunning, CommandsInv, ListsAreEmpty
    <3>2. Pending = {}
      BY <3>1 DEF Pending, NoLists
    <3>3. n \in Nat
      BY <2>2 DEF CommandsTyped
    <3> QED
      BY <2>2, <3>2, <3>3 DEF CommandsInv, ListsTell
  <2> QED
    BY <2>1, <2>2 DEF EveryCommandEnds
<1> QED
  BY <1>1, InitRunInv, NextRunInv, InitCommands, NextCommands, PTL DEF Spec

-----------------------------------------------------------------------------
(* The tasks.                                                              *)

\* What then of a task does is not done once its handle was cancelled, whether
\* the work is still to be done, in the board, or done (applyFinishedTasks).
THEOREM CancelledNotCalled == Spec => CancelledIsNotCalled
<1>1. TasksTyped /\ [Next]_vars =>
        /\ TasksTyped'
        /\ [\A t \in Tasks : t \in cancelled /\ task[t] # "called" => task'[t] # "called"]_vars
  <2> SUFFICES ASSUME TasksTyped, [Next]_vars
               PROVE  /\ TasksTyped'
                      /\ \A t \in Tasks : t \in cancelled /\ task[t] # "called" => task'[t] # "called"
    OBVIOUS
  <2> USE DEF TasksTyped
  <2>1. CASE UNCHANGED <<task, board>>
    BY <2>1
  <2>2. CASE PopTask
    <3>1. board # <<>> /\ Head(board) \in Tasks /\ Tail(board) \in Seq(Tasks)
      BY <2>2 DEF PopTask
    <3>2. /\ board' = Tail(board)
          /\ \/ task' = [task EXCEPT ![Head(board)] = "gone"]
             \/ Head(board) \notin cancelled /\ task' = [task EXCEPT ![Head(board)] = "called"]
      BY <2>2 DEF PopTask
    <3> QED
      BY <3>1, <3>2
  <2>3. ASSUME NEW t \in Tasks, OfTask(t)
        PROVE  /\ TasksTyped'
               /\ \A u \in Tasks : u \in cancelled /\ task[u] # "called" => task'[u] # "called"
    <3>1. CASE TaskWorks(t)
      BY <2>3, <3>1 DEF TaskWorks
    <3>2. CASE TaskPushes(t)
      BY <2>3, <3>2 DEF TaskPushes
    <3>3. CASE Cancel(t)
      BY <3>3 DEF Cancel
    <3> QED
      BY <2>3, <3>1, <3>2, <3>3 DEF OfTask
  <2>4. ASSUME NEW i \in Numbers, OfSystem(i)
        PROVE  /\ TasksTyped'
               /\ \A u \in Tasks : u \in cancelled /\ task[u] # "called" => task'[u] # "called"
    <3>1. CASE SystemSpawns(i)
      BY <3>1 DEF SystemSpawns
    <3>2. CASE SystemStarts(i) \/ SystemWrites(i) \/ SystemRecords(i) \/ SystemThrows(i) \/ SystemEnds(i)
      BY <2>1, <3>2 DEF SystemStarts, SystemWrites, SystemRecords, SystemThrows, SystemEnds, taskVars
    <3> QED
      BY <2>4, <3>1, <3>2 DEF OfSystem
  <2>5. CASE OfRun /\ ~PopTask
    BY <2>1, <2>5 DEF OfRun, StagesThrew, TasksDone, Enter, StageThrew, StageEnds, Round, TooManyRounds, RoundsDone,
                      taskVars
  <2>6. CASE ByTheUser \/ Run \/ Begin \/ (\E c \in Tracked : Change(c)) \/ UNCHANGED vars
    BY <2>1, <2>6 DEF ByTheUser, Run, Begin, Change, taskVars, vars
  <2> QED
    BY <2>2, <2>3, <2>4, <2>5, <2>6 DEF Next
<1>2. Init => TasksTyped
  BY DEF Init, TasksTyped
<1> QED
  BY <1>1, <1>2, PTL DEF Spec, CancelledIsNotCalled

-----------------------------------------------------------------------------
(* The clock.                                                              *)

\* Components changed at a tick no system's last run has reached.
LEMMA TouchTells ==
  ASSUME ClockTyped, ClockIsAhead, TicksTell, NEW components, NEW now \in Nat, Touch(components, now),
         UNCHANGED <<lastRun, known>>,
         \A i \in Numbers, c \in Tracked : c \in components /\ c \in known[i] => lastRun[i] < now
  PROVE  /\ TicksTell' /\ tick' \in [Tracked -> Nat] /\ unseen' \in [Numbers -> SUBSET Tracked]
         /\ now >= clock => \A c \in Tracked : tick'[c] <= now
<1>1. /\ tick' = [c \in Tracked |-> IF c \in components THEN now ELSE tick[c]]
      /\ unseen' = [i \in Numbers |-> unseen[i] \cup (components \cap Tracked)]
      /\ tick \in [Tracked -> Nat] /\ unseen \in [Numbers -> SUBSET Tracked] /\ lastRun \in [Numbers -> Nat]
  BY DEF Touch, ClockTyped
<1>2. tick' \in [Tracked -> Nat] /\ unseen' \in [Numbers -> SUBSET Tracked]
  BY <1>1
<1>3. ASSUME NEW i \in Numbers, NEW c \in Tracked, c \in known'[i]
      PROVE  c \in unseen'[i] <=> tick'[c] > lastRun'[i]
  <2>1. c \in known[i] /\ lastRun'[i] = lastRun[i] /\ lastRun[i] \in Nat
    BY <1>1, <1>3
  <2>2. CASE c \in components
    BY <1>1, <2>1, <2>2
  <2>3. CASE c \notin components
    <3>1. tick'[c] = tick[c] /\ (c \in unseen'[i] <=> c \in unseen[i])
      BY <1>1, <2>3
    <3> QED
      BY <2>1, <3>1 DEF TicksTell
  <2> QED
    BY <2>2, <2>3
<1>4. now >= clock => \A c \in Tracked : tick'[c] <= now
  BY <1>1 DEF ClockTyped, ClockIsAhead
<1> QED
  BY <1>2, <1>3, <1>4 DEF TicksTell

LEMMA WriteInv ==
  ASSUME RunInv, ClockTyped, ClockInv, NEW i \in Numbers, SystemWrites(i)
  PROVE  ClockTyped' /\ ClockInv'
<1>1. /\ run.at = "systems" /\ i \in InStage(run.stage) /\ system[i] = "runs"
      /\ UNCHANGED <<run, system, clock, lastRun, known, calm>> /\ UNCHANGED stageVars
  BY DEF SystemWrites, Runs, runVars
<1>2. PICK c \in Tracked : (effective[i].exclusive \/ c \in effective[i].writes) /\ Touch({c}, clock)
  BY DEF SystemWrites
<1>3. ASSUME NEW j \in Numbers, c \in known[j]
      PROVE  lastRun[j] < clock
  <2>1. lastRun[j] <= clock /\ lastRun[j] \in Nat /\ clock \in Nat
    BY DEF ClockInv, ClockIsAhead, ClockTyped
  <2>2. SUFFICES ASSUME lastRun[j] = clock
                 PROVE  FALSE
    BY <2>1
  <2>3. j \in InStage(run.stage) /\ system[j] = "ended" /\ known[j] = effective[j].reads
    BY <1>1, <2>2 DEF ClockInv, EndsAreBefore
  <2>4. i \in Number /\ j \in Number /\ i # j /\ stageOf[i] = stageOf[j]
    BY <1>1, <2>3 DEF InStage, Number
  <2>5. ~ConflictsWith(effective[i], effective[j])
    BY <1>1, <2>4, StagesApart
  <2>6. c \in Things /\ c \in effective[j].reads
    BY <1>3, <2>3, SchedulerAssumption DEF Things
  <2> QED
    BY <1>2, <2>5, <2>6 DEF ConflictsWith, Overlap
<1>4. clock \in Nat /\ clock >= clock
  BY DEF ClockTyped
<1>5. /\ TicksTell' /\ tick' \in [Tracked -> Nat] /\ unseen' \in [Numbers -> SUBSET Tracked]
      /\ \A d \in Tracked : tick'[d] <= clock
  BY <1>1, <1>2, <1>3, <1>4, TouchTells DEF ClockInv
<1>6. ClockTyped' /\ ClockIsAhead'
  BY <1>1, <1>5 DEF ClockTyped, ClockIsAhead, ClockInv, stageVars
<1>7. EndsAreBefore'
  BY <1>1 DEF EndsAreBefore, AllBefore, ClockInv, InStage, stageVars
<1> QED
  BY <1>5, <1>6, <1>7 DEF ClockInv

\* What apply changes, it changes at a tick of its own.
LEMMA ApplyClock ==
  ASSUME ClockTyped, ClockIsAhead, TicksTell, NEW components, clock' = clock + 1, Touch(components, clock + 1),
         UNCHANGED <<lastRun, known, systems>>, system' \in [Numbers -> {"waits", "runs", "ended", "threw"}]
  PROVE  ClockTyped' /\ ClockIsAhead' /\ TicksTell' /\ AllBefore'
<1>1. clock \in Nat \ {0} /\ lastRun \in [Numbers -> Nat] /\ \A i \in Numbers : lastRun[i] <= clock
  BY DEF ClockTyped, ClockIsAhead
<1>2. clock + 1 \in Nat /\ clock + 1 >= clock /\ \A i \in Numbers : lastRun[i] < clock + 1
  BY <1>1
<1>3. /\ TicksTell' /\ tick' \in [Tracked -> Nat] /\ unseen' \in [Numbers -> SUBSET Tracked]
      /\ \A c \in Tracked : tick'[c] <= clock + 1
  BY <1>2, TouchTells
<1>4. ClockTyped'
  BY <1>1, <1>3 DEF ClockTyped
<1>5. ClockIsAhead'
  BY <1>1, <1>2, <1>3 DEF ClockIsAhead
<1> QED
  BY <1>2, <1>3, <1>4, <1>5 DEF AllBefore

\* A step of run that only moves on.
LEMMA ClockStays ==
  ASSUME ClockTyped, ClockInv, UNCHANGED clockVars, UNCHANGED stageVars,
         system' \in [Numbers -> {"waits", "runs", "ended", "threw"}], EndsAreBefore'
  PROVE  ClockTyped' /\ ClockInv'
BY DEF ClockTyped, ClockInv, ClockIsAhead, TicksTell, clockVars, stageVars

LEMMA ClockOfRun ==
  ASSUME RunInv, ClockTyped, ClockInv, OfRun
  PROVE  ClockTyped' /\ ClockInv'
<1>1. UNCHANGED stageVars
  BY OthersLeaveStages
<1>2. ClockIsAhead /\ EndsAreBefore /\ TicksTell /\ RunTyped
  BY DEF ClockInv, RunInv
<1>3. CASE EndThrowing /\ UNCHANGED clockVars
  <2>1. run'.at = "no" /\ ~calm' /\ system' \in [Numbers -> {"waits", "runs", "ended", "threw"}]
    BY <1>3 DEF EndThrowing, NotRunning
  <2>2. EndsAreBefore'
    BY <2>1 DEF EndsAreBefore
  <2> QED
    BY <1>1, <1>3, <2>1, <2>2, ClockStays
<1>4. CASE StagesThrew \/ TasksDone \/ RoundsDone
  <2>1. UNCHANGED clockVars /\ UNCHANGED <<system, calm>>
    BY <1>4 DEF StagesThrew, TasksDone, RoundsDone
  <2>2. AllBefore' <=> AllBefore
    BY <2>1 DEF AllBefore, clockVars
  <2>3. SUFFICES EndsAreBefore'
    BY <1>1, <2>1, ClockStays DEF ClockTyped
  <2>4. CASE StagesThrew
    BY <1>2, <2>1, <2>2, <2>4 DEF StagesThrew, EndsAreBefore, NotRunning
  <2>5. CASE TasksDone
    <3>1. run'.at \in {"rounds", "enter"} /\ run'.stage = 0
      BY <2>5 DEF TasksDone
    <3> QED
      BY <3>1 DEF EndsAreBefore
  <2>6. CASE RoundsDone
    <3>1. run'.at = "enter" /\ run'.stage = run.stage /\ run.at = "rounds"
      BY <2>6 DEF RoundsDone
    <3> QED
      BY <1>2, <2>2, <3>1 DEF EndsAreBefore
  <2> QED
    BY <1>4, <2>4, <2>5, <2>6
<1>5. CASE PopTask
  <2>1. run.at = "tasks" /\ UNCHANGED clockVars
    BY <1>5 DEF PopTask
  <2>2. CASE run'.at = "tasks" /\ UNCHANGED system
    <3>1. EndsAreBefore'
      BY <2>2 DEF EndsAreBefore
    <3> QED
      BY <1>1, <2>1, <2>2, <3>1, ClockStays DEF ClockTyped
  <2>3. EndThrowing \/ (run'.at = "tasks" /\ UNCHANGED system)
    BY <1>2, <1>5, <2>1 DEF PopTask, RunTyped, NotRunning
  <2> QED
    BY <1>3, <2>1, <2>2, <2>3
<1>6. CASE Enter
  <2>1. run.at = "enter" /\ UNCHANGED clockVars
    BY <1>6 DEF Enter
  <2>2. CASE HasStage(run.stage)
    <3>1. run'.at = "systems" /\ system' = [i \in Numbers |-> "waits"]
      BY <1>2, <1>6, <2>1, <2>2 DEF Enter, RunTyped, NotRunning
    <3>2. \A i \in InStage(run.stage)' : i \in Numbers
      <4>1. InStage(run'.stage) \subseteq Numbers
        BY InStageFits
      <4> QED
        BY <1>1, <4>1 DEF InStage, stageVars
    <3>3. EndsAreBefore'
      BY <3>1, <3>2 DEF EndsAreBefore
    <3> QED
      BY <1>1, <2>1, <3>1, <3>3, ClockStays
  <2>3. CASE ~HasStage(run.stage)
    <3>1. run' = NotRunning /\ UNCHANGED system
      BY <1>6, <2>3 DEF Enter
    <3>2. AllBefore
      <4>1. CASE run.stage # 0
        BY <1>2, <2>1, <4>1 DEF EndsAreBefore
      <4>2. CASE run.stage = 0
        <5>1. StagesAreFor(stagesWorld)
          BY <2>1 DEF RunInv, RunsTheStages, StagesAreFor
        <5>2. Len(systems) \in Nat /\ \A j \in Number : stageOf[j] \in Nat
          BY <5>1 DEF RunInv, IInv, Typed, StagesTyped
        <5>3. Len(systems) = 0
          BY <2>3, <4>2, <5>2 DEF HasStage, Number
        <5>4. \A i \in Numbers : lastRun[i] = 0
          BY <1>2, <5>3, StagesAssumption DEF ClockIsAhead, Numbers
        <5> QED
          BY <5>4 DEF AllBefore, ClockTyped
      <4> QED
        BY <4>1, <4>2
    <3>3. EndsAreBefore'
      BY <2>1, <3>1, <3>2 DEF EndsAreBefore, AllBefore, NotRunning, clockVars
    <3> QED
      BY <1>1, <2>1, <3>1, <3>3, ClockStays DEF ClockTyped
  <2> QED
    BY <2>2, <2>3
<1>7. CASE StageThrew \/ TooManyRounds
  BY <1>3, <1>7 DEF StageThrew, TooManyRounds
<1>8. CASE StageEnds \/ Round
  <2>1. clock' = clock + 1 /\ UNCHANGED <<lastRun, known, systems>>
    BY <1>1, <1>8 DEF StageEnds, Round, Apply, ApplyThrows, stageVars
  <2>2. \E components : Touch(components, clock + 1)
    BY <1>8 DEF StageEnds, Round, Apply, ApplyThrows
  <2>3. system' \in [Numbers -> {"waits", "runs", "ended", "threw"}]
    BY <1>8 DEF StageEnds, Round, Apply, ApplyThrows, EndThrowing, ClockTyped
  <2>4. ClockTyped' /\ ClockIsAhead' /\ TicksTell' /\ AllBefore'
    BY <1>2, <2>1, <2>2, <2>3, ApplyClock
  <2>5. run'.at # "systems"
    <3>1. CASE StageEnds
      BY <3>1 DEF StageEnds, ApplyThrows, EndThrowing, NotRunning
    <3>2. CASE Round
      <4>1. run'.at = run.at \/ run' = NotRunning
        BY <1>2, <3>2 DEF Round, ApplyThrows, EndThrowing, RunTyped, NotRunning
      <4> QED
        BY <3>2, <4>1 DEF Round, NotRunning
    <3> QED
      BY <1>8, <3>1, <3>2
  <2> QED
    BY <2>4, <2>5 DEF ClockInv, EndsAreBefore
<1> QED
  BY <1>4, <1>5, <1>6, <1>7, <1>8 DEF OfRun

LEMMA ClockOfSystem ==
  ASSUME RunInv, ClockTyped, ClockInv, NEW i \in Numbers, OfSystem(i)
  PROVE  ClockTyped' /\ ClockInv'
<1>1. UNCHANGED stageVars
  BY OthersLeaveStages
<1>2. run.at = "systems" /\ i \in InStage(run.stage) /\ UNCHANGED <<run, calm>>
  BY DEF OfSystem, SystemStarts, SystemWrites, SystemRecords, SystemSpawns, SystemThrows, SystemEnds, Runs, runVars
<1>3. InStage(run.stage)' = InStage(run.stage) /\ InStage(run.stage) \subseteq Number
  BY <1>1, <1>2 DEF InStage, stageVars, Number
<1>4. ClockIsAhead /\ EndsAreBefore /\ TicksTell
  BY DEF ClockInv
<1>5. CASE SystemStarts(i)
  <2>1. clock' = clock + 1 /\ UNCHANGED <<tick, lastRun, unseen, known>> /\ system' = [system EXCEPT ![i] = "runs"]
    BY <1>5 DEF SystemStarts
  <2>2. ClockTyped' /\ ClockIsAhead' /\ TicksTell' /\ AllBefore'
    BY <1>1, <1>4, <2>1 DEF ClockTyped, ClockIsAhead, TicksTell, AllBefore, stageVars
  <2>3. \A j \in Numbers : lastRun'[j] # clock'
    BY <2>2 DEF AllBefore, ClockTyped
  <2> QED
    BY <1>2, <2>2, <2>3 DEF ClockInv, EndsAreBefore
<1>6. CASE SystemWrites(i)
  BY <1>6, WriteInv
<1>7. CASE SystemRecords(i) \/ SystemSpawns(i)
  <2>1. UNCHANGED clockVars /\ UNCHANGED system
    BY <1>7 DEF SystemRecords, SystemSpawns, runVars
  <2>2. EndsAreBefore'
    BY <1>1, <1>2, <1>3, <1>4, <2>1 DEF EndsAreBefore, clockVars, stageVars
  <2> QED
    BY <1>1, <2>1, <2>2, ClockStays DEF ClockTyped
<1>8. CASE SystemThrows(i)
  <2>1. UNCHANGED clockVars /\ system' = [system EXCEPT ![i] = "threw"] /\ system[i] = "runs"
    BY <1>8 DEF SystemThrows, Runs
  <2>2. \A j \in Numbers : system[j] = "ended" => system'[j] = "ended"
    BY <2>1 DEF ClockTyped
  <2>3. EndsAreBefore'
    BY <1>1, <1>2, <1>3, <1>4, <2>1, <2>2 DEF EndsAreBefore, clockVars, stageVars
  <2>4. system' \in [Numbers -> {"waits", "runs", "ended", "threw"}]
    BY <2>1 DEF ClockTyped
  <2> QED
    BY <1>1, <2>1, <2>3, <2>4, ClockStays
<1>9. CASE SystemEnds(i)
  <2>1. /\ system[i] = "runs" /\ system' = [system EXCEPT ![i] = "ended"]
        /\ lastRun' = [lastRun EXCEPT ![i] = clock]
        /\ unseen' = [unseen EXCEPT ![i] = {}]
        /\ known' = [known EXCEPT ![i] = effective[i].reads]
        /\ UNCHANGED <<clock, tick>>
    BY <1>9 DEF SystemEnds, Runs
  <2>2. ClockTyped'
    BY <2>1 DEF ClockTyped
  <2>3. /\ lastRun'[i] = clock /\ unseen'[i] = {} /\ known'[i] = effective[i].reads /\ system'[i] = "ended"
        /\ \A j \in Numbers \ {i} : /\ lastRun'[j] = lastRun[j] /\ unseen'[j] = unseen[j] /\ known'[j] = known[j]
                                    /\ system'[j] = system[j]
    BY <2>1 DEF ClockTyped
  <2>4. i <= Len(systems) /\ Len(systems') = Len(systems) /\ clock \in Nat
    BY <1>1, <1>2, <1>3 DEF Number, stageVars, ClockTyped
  <2>5. ClockIsAhead'
    BY <1>4, <2>1, <2>3, <2>4 DEF ClockIsAhead, Numbers
  <2>6. TicksTell'
    <3> SUFFICES ASSUME NEW j \in Numbers, NEW c \in Tracked, c \in known'[j]
                 PROVE  c \in unseen'[j] <=> tick'[c] > lastRun'[j]
      BY DEF TicksTell
    <3>1. CASE j = i
      <4>1. ~(tick[c] > clock)
        BY <1>4 DEF ClockIsAhead, ClockTyped
      <4> QED
        BY <2>1, <2>3, <3>1, <4>1
    <3>2. CASE j # i
      BY <1>4, <2>1, <2>3, <3>2 DEF TicksTell
    <3> QED
      BY <3>1, <3>2
  <2>7. EndsAreBefore'
    <3> SUFFICES ASSUME NEW j \in Numbers, lastRun'[j] = clock'
                 PROVE  j \in InStage(run.stage)' /\ system'[j] = "ended" /\ known'[j] = effective'[j].reads
      BY <1>2 DEF EndsAreBefore
    <3>1. effective' = effective
      BY <1>1 DEF stageVars
    <3>2. CASE j = i
      BY <1>2, <1>3, <2>3, <3>1, <3>2
    <3>3. CASE j # i
      <4>1. lastRun[j] = clock
        BY <2>1, <2>3, <3>3
      <4>2. j \in InStage(run.stage) /\ system[j] = "ended" /\ known[j] = effective[j].reads
        BY <1>2, <1>4, <2>1, <4>1 DEF EndsAreBefore
      <4> QED
        BY <1>3, <2>3, <3>1, <3>3, <4>2
    <3> QED
      BY <3>2, <3>3
  <2> QED
    BY <2>2, <2>5, <2>6, <2>7 DEF ClockInv
<1> QED
  BY <1>5, <1>6, <1>7, <1>8, <1>9 DEF OfSystem

\* What the user does, and what is done outside of run after a run that ended well.
LEMMA ClockOfUser ==
  ASSUME ~AfterThrow, RunInv, ClockTyped, ClockInv,
         ByTheUser \/ Run \/ Begin \/ (\E c \in Tracked : Change(c)) \/ (\E t \in Tasks : OfTask(t))
  PROVE  ClockTyped' /\ ClockInv'
<1>1. ClockIsAhead /\ EndsAreBefore /\ TicksTell
  BY DEF ClockInv
<1>2. CASE ByTheUser
  <2>1. UNCHANGED clockVars /\ UNCHANGED <<run, system, calm>>
    BY <1>2 DEF ByTheUser, runVars
  <2>2. run.at # "systems"
    <3>1. CASE Outside
      BY <3>1 DEF Outside, NotRunning
    <3>2. CASE Building
      <4>1. build # Idle
        BY <3>2 DEF Building, TakeEvent, TakeHooks, Gathered, Compare, Staged, Idle
      <4> QED
        BY <4>1 DEF RunInv, RunsTheStages
    <3> QED
      BY <1>2, <3>1, <3>2 DEF ByTheUser
  <2>3. EndsAreBefore'
    BY <1>1, <2>1, <2>2 DEF EndsAreBefore, AllBefore, clockVars
  <2>4. Len(systems') \in Nat /\ Len(systems) \in Nat /\ Len(systems) <= Len(systems')
    <3>1. CASE UNCHANGED systems
      BY <3>1 DEF RunInv, IInv, Typed
    <3>2. CASE \E f \in Systems : AddSystem(f)
      BY <3>2 DEF AddSystem, RunInv, IInv, Typed
    <3>3. CASE (\E l \in Listeners : On(l)) \/ (\E h \in Hooks : OnAdd(h)) \/ Return \/ StagesFor(FALSE) \/ Building
      BY <3>1, <3>3 DEF On, OnAdd, Return, StagesFor, UnchangedButBuild, Building, TakeEvent, TakeHooks, Gathered,
                        Compare, Staged
    <3> QED
      BY <1>2, <3>2, <3>3 DEF ByTheUser, Adding
  <2>5. ClockIsAhead'
    BY <1>1, <2>1, <2>4 DEF ClockIsAhead, clockVars, Numbers
  <2> QED
    BY <1>1, <2>1, <2>3, <2>5 DEF ClockTyped, ClockInv, TicksTell, clockVars
<1>3. CASE Run \/ Begin
  <2>1. /\ UNCHANGED clockVars /\ UNCHANGED <<systems, system, calm>>
        /\ \/ run.at = "no" /\ run'.at = "stages"
           \/ run'.at = "enter" /\ run'.stage = 0
           \/ run'.at = "tasks"
    <3>1. CASE Run
      BY <3>1 DEF Run, StagesFor, NotRunning
    <3>2. CASE Begin
      BY <3>2 DEF Begin, UnchangedButBuild
    <3> QED
      BY <1>3, <3>1, <3>2
  <2>2. EndsAreBefore'
    BY <1>1, <2>1 DEF EndsAreBefore, AllBefore, clockVars
  <2> QED
    BY <1>1, <2>1, <2>2 DEF ClockTyped, ClockInv, ClockIsAhead, TicksTell, clockVars
<1>4. ASSUME NEW c \in Tracked, Change(c)
      PROVE  ClockTyped' /\ ClockInv'
  <2>1. /\ run = NotRunning /\ calm /\ Touch({c}, clock)
        /\ UNCHANGED <<run, system, clock, lastRun, known, calm>> /\ UNCHANGED stageVars
    BY <1>4 DEF Change, runVars
  <2>2. AllBefore
    BY <1>1, <2>1 DEF EndsAreBefore, NotRunning
  <2>3. clock \in Nat /\ clock >= clock
    BY DEF ClockTyped
  <2>4. /\ TicksTell' /\ tick' \in [Tracked -> Nat] /\ unseen' \in [Numbers -> SUBSET Tracked]
        /\ \A d \in Tracked : tick'[d] <= clock
    BY <1>1, <2>1, <2>2, <2>3, TouchTells DEF AllBefore
  <2>5. ClockTyped' /\ ClockIsAhead'
    BY <1>1, <2>1, <2>4 DEF ClockTyped, ClockIsAhead, stageVars
  <2>6. EndsAreBefore'
    BY <2>1, <2>2 DEF EndsAreBefore, AllBefore, NotRunning
  <2> QED
    BY <2>4, <2>5, <2>6 DEF ClockInv
<1>5. CASE \E t \in Tasks : OfTask(t)
  <2>1. UNCHANGED clockVars /\ UNCHANGED stageVars /\ UNCHANGED <<run, system, calm>>
    BY <1>5 DEF OfTask, TaskWorks, TaskPushes, Cancel, runVars
  <2>2. EndsAreBefore'
    BY <1>1, <2>1 DEF EndsAreBefore, AllBefore, InStage, clockVars, stageVars
  <2> QED
    BY <2>1, <2>2, ClockStays DEF ClockTyped
<1> QED
  BY <1>2, <1>3, <1>4, <1>5

LEMMA NextClock ==
  ASSUME ~AfterThrow, RunInv, ClockTyped, ClockInv, [Next]_vars
  PROVE  ClockTyped' /\ ClockInv'
<1>1. CASE UNCHANGED vars
  <2>1. UNCHANGED clockVars /\ UNCHANGED stageVars /\ UNCHANGED <<run, system, calm>>
    BY <1>1 DEF vars, runVars
  <2>2. EndsAreBefore'
    BY <2>1 DEF ClockInv, EndsAreBefore, AllBefore, InStage, clockVars, stageVars
  <2> QED
    BY <2>1, <2>2, ClockStays DEF ClockTyped
<1> QED
  BY <1>1, ClockOfRun, ClockOfSystem, ClockOfUser DEF Next

LEMMA InitClock == Init => ClockTyped /\ ClockInv
BY DEF Init, StagesInit, ClockTyped, ClockInv, ClockIsAhead, EndsAreBefore, AllBefore, TicksTell, NotRunning

\* As long as nothing is changed outside of run after it threw, a query with
\* Changed finds what was changed since its system last ran, and no more,
\* whatever systems run next to it, throw, record or are added, for all they
\* read then: the tick of the end of a run is one that nobody writes what was
\* read at any more (Scheduler::run, Column::touch).
THEOREM ChangedIsTrue == ~AfterThrow => (Spec => []ChangedTellsTheTruth)
<1> SUFFICES ASSUME ~AfterThrow
             PROVE  Spec => []ChangedTellsTheTruth
  OBVIOUS
<1>1. RunInv /\ ClockTyped /\ ClockInv => ChangedTellsTheTruth
  BY InStageFits DEF ChangedTellsTheTruth, Runs, ClockInv, TicksTell
<1>2. RunInv /\ ClockTyped /\ ClockInv /\ [Next]_vars => (ClockTyped /\ ClockInv)'
  BY NextClock
<1> QED
  BY <1>1, <1>2, InitRunInv, NextRunInv, InitClock, PTL DEF Spec

=============================================================================
