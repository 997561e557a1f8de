------------------------------- MODULE Stages -------------------------------
(***************************************************************************)
(* What systems, listeners and hooks use, and the stages the scheduler     *)
(* makes of it: SystemAccess, the declare functions of SystemParam and     *)
(* Scheduler::stagesFor with effectiveAccess, src/sc/ecs/scheduler.hpp.    *)
(*                                                                         *)
(* A parameter of a system is [kind, reads, writes, looks, emits]: what it *)
(* gets const or as Changed, what it gets to write, what it only excludes, *)
(* and the events it emits.  A function is [loop, params]: the query of    *)
(* the loop of addParallel, or nothing for add, and the other parameters.  *)
(* Components, globals and caches are things; each has its own index or    *)
(* tag in the code, and here its own name.                                 *)
(***************************************************************************)
EXTENDS Naturals, FiniteSets, Sequences

CONSTANTS
  Components, Globals, Caches, \* the things
  Events,
  Systems,    \* the functions add and addParallel are given
  Listeners,  \* what on is given: [event, params]
  Hooks,      \* what onAdd and onRemove are given: [component, params]
  MaxSystems, \* bound: systems added
  MaxOthers   \* bound: listeners and hooks added

Things == Components \cup Globals \cup Caches

Kinds == {"Query", "Edit", "LocalEdit", "Spawn", "Commands", "Tasks", "World", "Resources", "Global", "Emit"}

Param == [kind : Kinds, reads : SUBSET Things, writes : SUBSET Things, looks : SUBSET Components,
          emits : SUBSET Events]

Edits(p) == IF p.kind \in {"Edit", "LocalEdit"} THEN p.writes ELSE {}
Gets(p) == IF p.kind = "Query" THEN p.reads \cup p.writes ELSE {}
EditsWithoutBit(p) == IF p.kind = "LocalEdit" THEN p.writes ELSE {}

(* What the static_asserts let pass: usesModifiedOtherwise for all, and    *)
(* for what runs on several threads no global or cache to write.           *)
Compiles(params) == \A p, q \in params : Edits(p) \cap Gets(q) = {}

CompilesOnThreads(params) ==
  /\ Compiles(params)
  /\ \A p \in params : p.writes \cap (Globals \cup Caches) = {} /\ p.kind # "World"

ASSUME StagesAssumption ==
  /\ {MaxSystems, MaxOthers} \subseteq Nat
  /\ Systems \subseteq [loop : SUBSET Param, params : SUBSET Param]
  /\ \A f \in Systems : IF f.loop = {} THEN Compiles(f.params) ELSE CompilesOnThreads(f.params)
  /\ Listeners \subseteq [event : Events, params : SUBSET Param]
  /\ \A l \in Listeners : Compiles(l.params)
  /\ Hooks \subseteq [component : Components, params : SUBSET Param]
  /\ \A h \in Hooks : CompilesOnThreads(h.params)
  /\ {Components \cap Globals, Components \cap Caches, Globals \cap Caches} = {{}}

VARIABLES
  systems,           \* m_systems: what each uses, and whether it is a loop
  listeners, hooks,  \* m_events of the scheduler, m_hookAccess of the world
  hookVersion,       \* m_hookVersion of the world
  stagesValid, stagesWorld, stagesHookVersion, \* what m_stages is for
  stageOf,           \* the stage of every system
  effective,         \* System::effective of every system
  build              \* where stagesFor is

stageVars == <<systems, listeners, hooks, hookVersion, stagesValid, stagesWorld, stagesHookVersion, stageOf,
               effective, build>>

-----------------------------------------------------------------------------
(* SystemAccess. *)

(* SystemParam::declare of every parameter.  What the query of a loop gets *)
(* is not gotten: the function edits it only on its own entity.            *)
Declare(loop, params) ==
  LET all == loop \cup params
  IN [reads |-> UNION {p.reads \cup p.looks : p \in all},
      writes |-> UNION {p.writes : p \in all},
      exclusive |-> \E p \in all : p.kind = "World",
      commands |-> \E p \in all : p.kind = "Commands",
      emits |-> UNION {p.emits : p \in all},
      modified |-> UNION {Edits(p) : p \in all},
      gotten |-> UNION {Gets(p) : p \in params},
      localEdited |-> UNION {EditsWithoutBit(p) : p \in all}]

(* Nothing declared says nothing about what is used. *)
DeclareOrAlone(loop, params) ==
  [Declare(loop, params) EXCEPT !.exclusive = @ \/ loop \cup params = {}]

(* A mistake in merge: what the others only read is forgotten. *)
MergeWithoutReads(access, others) ==
  [access EXCEPT !.writes = @ \cup UNION {o.writes : o \in others},
                 !.exclusive = @ \/ \E o \in others : o.exclusive,
                 !.commands = @ \/ \E o \in others : o.commands,
                 !.emits = @ \cup UNION {o.emits : o \in others},
                 !.modified = @ \cup UNION {o.modified : o \in others},
                 !.gotten = @ \cup UNION {o.gotten : o \in others}]

Merge(access, others) ==
  [reads |-> access.reads \cup UNION {o.reads : o \in others},
   writes |-> access.writes \cup UNION {o.writes : o \in others},
   exclusive |-> access.exclusive \/ \E o \in others : o.exclusive,
   commands |-> access.commands \/ \E o \in others : o.commands,
   emits |-> access.emits \cup UNION {o.emits : o \in others},
   modified |-> access.modified \cup UNION {o.modified : o \in others},
   gotten |-> access.gotten \cup UNION {o.gotten : o \in others},
   localEdited |-> access.localEdited]

Overlap(a, b) ==
  \E t \in Things : \/ t \in a.writes /\ t \in b.reads \cup b.writes
                    \/ t \in b.writes /\ t \in a.reads

ConflictsWith(a, b) == a.exclusive \/ b.exclusive \/ Overlap(a, b)

ModifiesGotten(a) == a.modified \cap a.gotten # {}
WritesGlobal(a) == a.writes \cap Globals # {}
WritesCache(a) == a.writes \cap Caches # {}

-----------------------------------------------------------------------------
(* Adding systems, listeners and hooks, not during run. *)

Idle == [at |-> "idle"]

StagesInit ==
  /\ systems = <<>> /\ listeners = {} /\ hooks = {} /\ hookVersion = 0
  /\ stagesValid = TRUE /\ stagesWorld = FALSE /\ stagesHookVersion = 0
  /\ stageOf = <<>> /\ effective = <<>>
  /\ build = Idle

AddSystem(f) ==
  /\ build = Idle
  /\ Len(systems) < MaxSystems
  /\ systems' = Append(systems, [access |-> DeclareOrAlone(f.loop, f.params), loop |-> f.loop # {}])
  /\ stagesValid' = FALSE
  /\ UNCHANGED <<listeners, hooks, hookVersion, stagesWorld, stagesHookVersion, stageOf, effective, build>>

On(l) ==
  /\ build = Idle
  /\ Cardinality(listeners) + hookVersion < MaxOthers
  /\ listeners' = listeners \cup {[event |-> l.event, access |-> DeclareOrAlone({}, l.params)]}
  /\ stagesValid' = FALSE
  /\ UNCHANGED <<systems, hooks, hookVersion, stagesWorld, stagesHookVersion, stageOf, effective, build>>

OnAdd(h) ==
  /\ build = Idle
  /\ Cardinality(listeners) + hookVersion < MaxOthers
  /\ hooks' = hooks \cup {[component |-> h.component, access |-> Declare({}, h.params)]}
  /\ hookVersion' = hookVersion + 1
  /\ UNCHANGED <<systems, listeners, stagesValid, stagesWorld, stagesHookVersion, stageOf, effective, build>>

-----------------------------------------------------------------------------
(* Scheduler::stagesFor, with the world or without one. *)

HooksOf(world) == IF world THEN hooks ELSE {}

(* build while the systems are put into stages: the next two to compare.   *)
Staging(world, i, earlier) == [at |-> "stage", world |-> world, i |-> i, earlier |-> earlier]

(* build while effectiveAccess of a system goes on: what it has so far,    *)
(* the events and components done, and what listeners and hooks edit.      *)
Gather(world, i) ==
  IF i > Len(systems)
  THEN Staging(world, 1, 1)
  ELSE [at |-> "gather", world |-> world, i |-> i, access |-> systems[i].access, emitted |-> {}, hooked |-> {},
        foreign |-> {}]

Version(world) == IF world THEN hookVersion ELSE 0

StagesAreFor(world) == stagesValid /\ world = stagesWorld /\ Version(world) = stagesHookVersion

StagesFor(world) ==
  /\ build = Idle
  /\ IF StagesAreFor(world)
     THEN build' = [at |-> "ready"] /\ UNCHANGED <<stagesValid, stageOf, effective>>
     ELSE /\ stagesValid' = FALSE
          /\ build' = Gather(world, 1)
          /\ stageOf' = [i \in 1 .. Len(systems) |-> 0]
          /\ effective' = [i \in 1 .. Len(systems) |-> systems[i].access]
  /\ UNCHANGED <<systems, listeners, hooks, hookVersion, stagesWorld, stagesHookVersion>>

Take(others, emitted, hooked) ==
  [at |-> "gather", world |-> build.world, i |-> build.i, access |-> Merge(build.access, others),
   emitted |-> build.emitted \cup emitted, hooked |-> build.hooked \cup hooked,
   foreign |-> build.foreign \cup UNION {o.modified : o \in others}]

UnchangedButBuild ==
  UNCHANGED <<systems, listeners, hooks, hookVersion, stagesValid, stagesWorld, stagesHookVersion, stageOf,
              effective>>

TakeEvent ==
  /\ build.at = "gather"
  /\ \E e \in build.access.emits \ build.emitted :
       build' = Take({l.access : l \in {x \in listeners : x.event = e}}, {e}, {})
  /\ UnchangedButBuild

TakeHooks ==
  /\ build.at = "gather"
  /\ \E c \in build.access.modified \ build.hooked :
       build' = Take({h.access : h \in {x \in HooksOf(build.world) : x.component = c}}, {}, {c})
  /\ UnchangedButBuild

(* A mistake in stagesFor: the rules are checked for what the system has   *)
(* as parameters of its own.                                               *)
BreaksItself(system, access, foreign) ==
  \/ ModifiesGotten(system.access)
  \/ system.loop /\ (WritesGlobal(system.access) \/ WritesCache(system.access))

(* effectiveAccess is done: the rules a system breaks with what its        *)
(* listeners and hooks use are a std::logic_error.                         *)
Breaks(system, access, foreign) ==
  \/ system.access.localEdited \cap foreign # {}
  \/ ModifiesGotten(access)
  \/ system.loop /\ (WritesGlobal(access) \/ WritesCache(access))

Gathered ==
  /\ build.at = "gather"
  /\ build.access.emits \subseteq build.emitted
  /\ build.access.modified \subseteq build.hooked
  /\ IF Breaks(systems[build.i], build.access, build.foreign)
     THEN build' = Idle /\ UNCHANGED effective
     ELSE /\ effective' = [effective EXCEPT ![build.i] = build.access]
          /\ build' = Gather(build.world, build.i + 1)
  /\ UNCHANGED <<systems, listeners, hooks, hookVersion, stagesValid, stagesWorld, stagesHookVersion, stageOf>>

(* A mistake in stagesFor: the stage of the other system is late enough.   *)
AtTheSameTime(j) == stageOf[j]

(* The first stage for what conflicts with system j. *)
After(j) == stageOf[j] + 1

(* A system runs in the stage after the last earlier one it conflicts with. *)
Compare ==
  /\ build.at = "stage"
  /\ build.i <= Len(systems)
  /\ LET i == build.i
         j == build.earlier
     IN IF j < i
        THEN /\ stageOf' = IF ConflictsWith(effective[i], effective[j]) /\ stageOf[i] < After(j)
                           THEN [stageOf EXCEPT ![i] = After(j)]
                           ELSE stageOf
             /\ build' = Staging(build.world, i, j + 1)
        ELSE build' = Staging(build.world, i + 1, 1) /\ UNCHANGED stageOf
  /\ UNCHANGED <<systems, listeners, hooks, hookVersion, stagesValid, stagesWorld, stagesHookVersion, effective>>

(* The hooks run after the changes of a stage as well, all at once. *)
HooksTogether(world) ==
  [modified |-> UNION {h.access.modified : h \in HooksOf(world)},
   gotten |-> UNION {h.access.gotten : h \in HooksOf(world)}]

Staged ==
  /\ build.at = "stage"
  /\ build.i > Len(systems)
  /\ IF ModifiesGotten(HooksTogether(build.world))
     THEN build' = Idle /\ UNCHANGED <<stagesValid, stagesWorld, stagesHookVersion>>
     ELSE /\ stagesValid' = TRUE
          /\ stagesWorld' = build.world
          /\ stagesHookVersion' = Version(build.world)
          /\ build' = [at |-> "ready"]
  /\ UNCHANGED <<systems, listeners, hooks, hookVersion, stageOf, effective>>

(* stages() of the user. *)
Return ==
  /\ build.at = "ready"
  /\ build' = Idle
  /\ UnchangedButBuild

Building == TakeEvent \/ TakeHooks \/ Gathered \/ Compare \/ Staged

Adding ==
  \/ \E f \in Systems : AddSystem(f)
  \/ \E l \in Listeners : On(l)
  \/ \E h \in Hooks : OnAdd(h)

StagesNext == Adding \/ (\E world \in BOOLEAN : StagesFor(world)) \/ Building \/ Return

StagesSpec == StagesInit /\ [][StagesNext]_stageVars

-----------------------------------------------------------------------------
(* What a system really sets off, said without the order effectiveAccess   *)
(* goes in: the smallest set of listeners and hooks that has those of the  *)
(* system and, with one, those it sets off.                                *)

SetOffBy(access, world) ==
  {l \in listeners : l.event \in access.emits} \cup {h \in HooksOf(world) : h.component \in access.modified}

SetsOff(i, world) ==
  LET all == listeners \cup HooksOf(world)
      closed == {S \in SUBSET all : /\ SetOffBy(systems[i].access, world) \subseteq S
                                    /\ \A x \in S : SetOffBy(x.access, world) \subseteq S}
  IN {x \in all : \A S \in closed : x \in S}

(* What system i uses, its own and what it sets off. *)
Uses(i, world) == {systems[i].access} \cup {x.access : x \in SetsOff(i, world)}

MustNotMeet(i, j, world) == \E a \in Uses(i, world), b \in Uses(j, world) : ConflictsWith(a, b)

Ready == build.at = "ready"

(* Two systems that cannot run together, with the listeners and hooks they *)
(* set off however far, keep the order they were added in (the comment of  *)
(* class Scheduler): the stages that stages() or run go by are those of    *)
(* the systems, listeners and hooks there are, also after more are added.  *)
ConflictsKeepTheirOrder ==
  Ready =>
    \A j \in 1 .. Len(systems) : \A i \in 1 .. j - 1 :
      MustNotMeet(i, j, stagesWorld) => stageOf[i] < stageOf[j]

(* As many systems at the same time as their parameters allow: a system    *)
(* that is not in the first stage must not meet one of the stage before.   *)
NoStageForNothing ==
  Ready =>
    \A j \in 1 .. Len(systems) :
      stageOf[j] > 0 => \E i \in 1 .. j - 1 : stageOf[i] = stageOf[j] - 1 /\ MustNotMeet(i, j, stagesWorld)

(* As late as needed, as early as possible: the stages are those of the    *)
(* conflicts, no others.                                                   *)
StagesAreExact == ConflictsKeepTheirOrder /\ NoStageForNothing

(* What stages refuses, however it comes about: a system has a component   *)
(* through LocalEdit that something it sets off edits as well, something   *)
(* is edited and queried in one system, or a loop writes a global or a     *)
(* cache.                                                                  *)
NoRaceWithinASystem ==
  Ready =>
    \A i \in 1 .. Len(systems) :
      /\ \A x \in SetsOff(i, stagesWorld) : x.access.modified \cap systems[i].access.localEdited = {}
      /\ \A a, b \in Uses(i, stagesWorld) : a.modified \cap b.gotten = {}
      /\ systems[i].loop => \A a \in Uses(i, stagesWorld) : a.writes \cap (Globals \cup Caches) = {}

=============================================================================
