------------------------------ MODULE Scheduler ------------------------------
(***************************************************************************)
(* Scheduler::run of src/sc/ecs/scheduler.hpp: the stages one after the    *)
(* other, the systems of a stage at the same time, what they record done   *)
(* after it, in rounds with what hooks record, the tasks of Tasks that     *)
(* come back at the start, and the clock that Changed goes by.             *)
(*                                                                         *)
(* A recorded command is a number; commands tells what it is for.  How     *)
(* apply does the commands of a stage on several threads is module         *)
(* CommandApplier: here it does them all, or some of them and throws.      *)
(***************************************************************************)
EXTENDS Stages

CONSTANTS
  Tracked,        \* the components World::trackChanges was called for
  Tasks,          \* the tasks systems spawn
  Capacity,       \* TaskBoard::CAPACITY
  MaxRounds,      \* MAX_HOOK_ROUNDS
  MaxRuns,        \* bound: calls of run
  MaxCommands,    \* bound: commands recorded
  AfterThrow      \* whether components are changed outside of run after run threw

ASSUME SchedulerAssumption ==
  /\ Tracked \subseteq Components
  /\ {Capacity, MaxRounds, MaxRuns, MaxCommands} \subseteq Nat
  /\ AfterThrow \in BOOLEAN

VARIABLES
  clock,     \* World::m_clock
  tick,      \* the tick of a word of each tracked column
  lastRun,   \* System::lastRun
  run,       \* where Scheduler::run is
  system,    \* of each system of the stage: "waits", "runs", "ended" or "threw"
  lists,     \* System::commands: the commands that are not done
  hookLists, \* m_hookLists, the same
  commands,  \* the component of each command recorded so far
  fate,      \* "recorded", "done" or "dropped", of each command
  task,      \* of each task: "no", "lane", "worked", "board", "called" or "gone"
  cancelled, \* the tasks whose handle was cancelled
  board,     \* TaskBoard::finished
  runs, calm,\* calls of run, and whether the last one did not throw
  unseen,    \* for each system, the tracked components changed since it last ran to its end
  known      \* history: what it read then, with all it set off

runVars == <<run, system, lists, hookLists, commands, fate>>
taskVars == <<task, cancelled, board>>
clockVars == <<clock, tick, lastRun, unseen, known>>
vars == <<stageVars, runVars, taskVars, clockVars, runs, calm>>

Numbers == 1 .. MaxSystems
NotRunning == [at |-> "no"]
NoLists == [i \in Numbers |-> {}]
(* m_stages has a stage k. *)
HasStage(k) == \E i \in 1 .. Len(systems) : stageOf[i] >= k
InStage(k) == {i \in 1 .. Len(systems) : stageOf[i] = k}

Init ==
  /\ StagesInit
  /\ clock = 1 /\ tick = [c \in Tracked |-> 0] /\ lastRun = [i \in Numbers |-> 0]
  /\ unseen = [i \in Numbers |-> {}] /\ known = [i \in Numbers |-> Things]
  /\ run = NotRunning /\ system = [i \in Numbers |-> "waits"]
  /\ lists = NoLists /\ hookLists = [set \in 0 .. 1 |-> {}]
  /\ commands = <<>> /\ fate = <<>>
  /\ task = [t \in Tasks |-> "no"] /\ cancelled = {} /\ board = <<>>
  /\ runs = 0 /\ calm = TRUE

-----------------------------------------------------------------------------
(* Helpers. *)

(* Column::touch of the components, with the tick the clock shows. *)
Touch(components, now) ==
  /\ tick' = [c \in Tracked |-> IF c \in components THEN now ELSE tick[c]]
  /\ unseen' = [i \in Numbers |-> unseen[i] \cup (components \cap Tracked)]

(* The commands of the components in news are recorded into a list. *)
Recorded(news) ==
  /\ Len(commands) + Len(news) <= MaxCommands
  /\ commands' = commands \o news

Fates(done, dropped, news) ==
  [n \in 1 .. Len(commands) + Len(news) |->
     CASE n \in done -> "done"
       [] n \in dropped -> "dropped"
       [] n > Len(commands) -> "recorded"
       [] OTHER -> fate[n]]

NewNumbers(news) == {Len(commands) + n : n \in DOMAIN news}

(* What hooks record when components are added or removed: a hook of the   *)
(* component that takes Commands may record one.                           *)
HookNews(done) ==
  {<<>>} \cup {<<c>> : c \in {x \in Components : \E n \in done : \E h \in hooks :
                                h.component = commands[n] /\ h.access.commands}}

(* What every catch of run comes to: the lists are cleared and the         *)
(* exception is passed on.                                                 *)
EndThrowing ==
  /\ run' = NotRunning /\ calm' = FALSE
  /\ lists' = NoLists /\ hookLists' = [set \in 0 .. 1 |-> {}]
  /\ system' = [i \in Numbers |-> "waits"]

Pending == (UNION {lists[i] : i \in Numbers}) \cup hookLists[0] \cup hookLists[1]

-----------------------------------------------------------------------------
(* The start of run. *)

Run ==
  /\ run = NotRunning /\ runs < MaxRuns
  /\ StagesFor(TRUE)
  /\ run' = [at |-> "stages"]
  /\ runs' = runs + 1
  /\ UNCHANGED <<system, lists, hookLists, commands, fate, taskVars, clockVars, calm>>

(* stages threw. *)
StagesThrew ==
  /\ run.at = "stages" /\ build = Idle
  /\ run' = NotRunning
  /\ UNCHANGED <<stageVars, system, lists, hookLists, commands, fate, taskVars, clockVars, runs, calm>>

Begin ==
  /\ run.at = "stages" /\ build.at = "ready"
  /\ build' = Idle /\ UnchangedButBuild
  /\ run' = IF board = <<>> THEN [at |-> "enter", stage |-> 0] ELSE [at |-> "tasks", called |-> FALSE]
  /\ UNCHANGED <<system, lists, hookLists, commands, fate, taskVars, clockVars, runs, calm>>

(* A mistake in applyFinishedTasks: the stop of a task is not looked at. *)
PopTaskBlindly ==
  /\ run.at = "tasks" /\ board # <<>>
  /\ board' = Tail(board)
  /\ LET t == Head(board)
     IN /\ task' = [task EXCEPT ![t] = "called"]
        /\ \E news \in {<<>>} \cup {<<c>> : c \in Components} :
             /\ Recorded(news)
             /\ fate' = Fates({}, {}, news)
             /\ hookLists' = [hookLists EXCEPT ![0] = @ \cup NewNumbers(news)]
        /\ run' = [run EXCEPT !.called = TRUE]
        /\ UNCHANGED <<lists, system, calm>>
  /\ UNCHANGED <<stageVars, clockVars, cancelled, runs>>

(* applyFinishedTasks calls then of a task, which records into the first   *)
(* set of hook lists; if it throws, what then recorded so far is dropped.  *)
PopTask ==
  /\ run.at = "tasks" /\ board # <<>>
  /\ board' = Tail(board)
  /\ LET t == Head(board)
     IN \/ /\ t \in cancelled
           /\ task' = [task EXCEPT ![t] = "gone"]
           /\ UNCHANGED <<run, system, lists, hookLists, commands, fate, calm>>
        \/ /\ t \notin cancelled
           /\ task' = [task EXCEPT ![t] = "called"]
           /\ \E news \in {<<>>} \cup {<<c>> : c \in Components} :
                /\ Recorded(news)
                /\ fate' = Fates({}, {}, news)
                /\ hookLists' = [hookLists EXCEPT ![0] = @ \cup NewNumbers(news)]
           /\ run' = [run EXCEPT !.called = TRUE]
           /\ UNCHANGED <<lists, system, calm>>
        \/ /\ t \notin cancelled
           /\ task' = [task EXCEPT ![t] = "called"]
           /\ fate' = Fates({}, Pending, <<>>)
           /\ EndThrowing
           /\ UNCHANGED commands
  /\ UNCHANGED <<stageVars, clockVars, cancelled, runs>>

TasksDone ==
  /\ run.at = "tasks" /\ board = <<>>
  /\ run' = IF run.called
            THEN [at |-> "rounds", stage |-> 0, recorded |-> 0, round |-> 1]
            ELSE [at |-> "enter", stage |-> 0]
  /\ UNCHANGED <<stageVars, system, lists, hookLists, commands, fate, taskVars, clockVars, runs, calm>>

-----------------------------------------------------------------------------
(* The systems of a stage. *)

Enter ==
  /\ run.at = "enter"
  /\ IF HasStage(run.stage)
     THEN /\ run' = [run EXCEPT !.at = "systems"]
          /\ system' = [i \in Numbers |-> "waits"]
          /\ UNCHANGED calm
     ELSE run' = NotRunning /\ calm' = TRUE /\ UNCHANGED system
  /\ UNCHANGED <<stageVars, lists, hookLists, commands, fate, taskVars, clockVars, runs>>

Runs(i) == run.at = "systems" /\ i \in InStage(run.stage) /\ system[i] = "runs"

SystemStarts(i) ==
  /\ run.at = "systems" /\ i \in InStage(run.stage) /\ system[i] = "waits"
  /\ clock' = clock + 1
  /\ system' = [system EXCEPT ![i] = "runs"]
  /\ UNCHANGED <<stageVars, run, lists, hookLists, commands, fate, taskVars, tick, lastRun, unseen, known, runs, calm>>

(* A system writes a component, through what it takes or what it sets off. *)
SystemWrites(i) ==
  /\ Runs(i)
  /\ \E c \in Tracked :
       /\ effective[i].exclusive \/ c \in effective[i].writes
       /\ tick[c] # clock
       /\ Touch({c}, clock)
  /\ UNCHANGED <<stageVars, runVars, taskVars, clock, lastRun, known, runs, calm>>

SystemRecords(i) ==
  /\ Runs(i) /\ effective[i].commands
  /\ \E c \in Components :
       /\ Recorded(<<c>>)
       /\ fate' = Fates({}, {}, <<c>>)
       /\ lists' = [lists EXCEPT ![i] = @ \cup NewNumbers(<<c>>)]
  /\ UNCHANGED <<stageVars, run, system, hookLists, taskVars, clockVars, runs, calm>>

(* Tasks takes nothing of the world: any system may have it. *)
SystemSpawns(i) ==
  /\ Runs(i)
  /\ \E t \in Tasks : task[t] = "no" /\ task' = [task EXCEPT ![t] = "lane"]
  /\ UNCHANGED <<stageVars, runVars, cancelled, board, clockVars, runs, calm>>

SystemThrows(i) ==
  /\ Runs(i)
  /\ system' = [system EXCEPT ![i] = "threw"]
  /\ UNCHANGED <<stageVars, run, lists, hookLists, commands, fate, taskVars, clockVars, runs, calm>>

SystemEnds(i) ==
  /\ Runs(i)
  /\ system' = [system EXCEPT ![i] = "ended"]
  /\ lastRun' = [lastRun EXCEPT ![i] = clock]
  /\ unseen' = [unseen EXCEPT ![i] = {}]
  /\ known' = [known EXCEPT ![i] = effective[i].reads]
  /\ UNCHANGED <<stageVars, run, lists, hookLists, commands, fate, taskVars, clock, tick, runs, calm>>

StageIsOver == run.at = "systems" /\ \A i \in InStage(run.stage) : system[i] \in {"ended", "threw"}

StageThrew ==
  /\ StageIsOver /\ \E i \in InStage(run.stage) : system[i] = "threw"
  /\ fate' = Fates({}, Pending, <<>>)
  /\ EndThrowing
  /\ UNCHANGED <<stageVars, commands, taskVars, clockVars, runs>>

-----------------------------------------------------------------------------
(* What was recorded: apply with its hooks, then the rounds of the hooks. *)

(* A mistake in run: the clock is not moved on before apply. *)
ApplyAtTheSameTick(todo, from, next) ==
  /\ Touch({commands[n] : n \in todo}, clock)
  /\ \E news \in HookNews(todo) :
       /\ Recorded(news)
       /\ fate' = Fates(todo, {}, news)
       /\ LET with == [hookLists EXCEPT ![next] = @ \cup NewNumbers(news)]
          IN hookLists' = [set \in 0 .. 1 |-> IF set \in from THEN {} ELSE with[set]]
  /\ lists' = [i \in Numbers |-> lists[i] \ todo]
  /\ UNCHANGED <<system, calm, clock>>

(* apply of the commands todo, whose hooks record into set next; the lists *)
(* they come from are cleared as a whole.                                  *)
Apply(todo, from, next) ==
  /\ clock' = clock + 1
  /\ Touch({commands[n] : n \in todo}, clock + 1)
  /\ \E news \in HookNews(todo) :
       /\ Recorded(news)
       /\ fate' = Fates(todo, {}, news)
       /\ LET with == [hookLists EXCEPT ![next] = @ \cup NewNumbers(news)]
          IN hookLists' = [set \in 0 .. 1 |-> IF set \in from THEN {} ELSE with[set]]
  /\ lists' = [i \in Numbers |-> lists[i] \ todo]
  /\ UNCHANGED <<system, calm>>

(* A change or a hook throws: some of the commands are done, the value of  *)
(* every other one is dropped.                                             *)
ApplyThrows(todo) ==
  /\ clock' = clock + 1
  /\ \E done \in SUBSET todo :
       /\ Touch({commands[n] : n \in done}, clock + 1)
       /\ fate' = Fates(done, Pending \ done, <<>>)
  /\ EndThrowing
  /\ UNCHANGED commands

StageCommands == UNION {lists[i] : i \in InStage(run.stage)}

StageEnds ==
  /\ StageIsOver /\ \A i \in InStage(run.stage) : system[i] = "ended"
  /\ \/ /\ Apply(StageCommands, {}, 0)
        /\ run' = [at |-> "rounds", stage |-> run.stage + 1, recorded |-> 0, round |-> 1]
     \/ ApplyThrows(StageCommands)
  /\ UNCHANGED <<stageVars, taskVars, lastRun, known, runs>>

(* A mistake in runHookRounds: the hooks record into the set applied. *)
NextSetIsTheSame(recorded) == recorded

NextSet(recorded) == 1 - recorded

Round ==
  /\ run.at = "rounds" /\ hookLists[run.recorded] # {} /\ run.round <= MaxRounds
  /\ LET next == NextSet(run.recorded)
     IN \/ /\ Apply(hookLists[run.recorded], {run.recorded}, next)
           /\ run' = [run EXCEPT !.recorded = next, !.round = @ + 1]
        \/ ApplyThrows(hookLists[run.recorded])
  /\ UNCHANGED <<stageVars, taskVars, lastRun, known, runs>>

TooManyRounds ==
  /\ run.at = "rounds" /\ hookLists[run.recorded] # {} /\ run.round > MaxRounds
  /\ fate' = Fates({}, Pending, <<>>)
  /\ EndThrowing
  /\ UNCHANGED <<stageVars, commands, taskVars, clockVars, runs>>

(* And apply of the provided caches, see ResourceCache. *)
RoundsDone ==
  /\ run.at = "rounds" /\ hookLists[run.recorded] = {}
  /\ run' = [at |-> "enter", stage |-> run.stage]
  /\ UNCHANGED <<stageVars, system, lists, hookLists, commands, fate, taskVars, clockVars, runs, calm>>

-----------------------------------------------------------------------------
(* The tasks on the lane, and the user outside of run. *)

(* A task whose stop was asked for before it started is dropped by the     *)
(* lane, one whose work throws is logged.                                  *)
TaskWorks(t) ==
  /\ task[t] = "lane"
  /\ \/ t \notin cancelled /\ task' = [task EXCEPT ![t] = "worked"]
     \/ task' = [task EXCEPT ![t] = "gone"]
  /\ UNCHANGED <<stageVars, runVars, cancelled, board, clockVars, runs, calm>>

(* The push waits while the board is full. *)
TaskPushes(t) ==
  /\ task[t] = "worked" /\ Len(board) < Capacity
  /\ board' = Append(board, t)
  /\ task' = [task EXCEPT ![t] = "board"]
  /\ UNCHANGED <<stageVars, runVars, cancelled, clockVars, runs, calm>>

Cancel(t) ==
  /\ task[t] # "no" /\ t \notin cancelled
  /\ cancelled' = cancelled \cup {t}
  /\ UNCHANGED <<stageVars, runVars, task, board, clockVars, runs, calm>>

(* A component is changed outside of run. *)
Change(c) ==
  /\ run = NotRunning /\ build = Idle /\ (calm \/ AfterThrow)
  /\ tick[c] # clock
  /\ Touch({c}, clock)
  /\ UNCHANGED <<stageVars, runVars, taskVars, clock, lastRun, known, runs, calm>>

Outside == run = NotRunning

ByTheUser ==
  /\ \/ Outside /\ (Adding \/ Return \/ StagesFor(FALSE))
     \/ Building
  /\ UNCHANGED <<runVars, taskVars, clockVars, runs, calm>>

OfRun ==
  \/ StagesThrew \/ PopTask \/ TasksDone \/ Enter \/ StageThrew \/ StageEnds \/ Round \/ TooManyRounds
  \/ RoundsDone

OfSystem(i) ==
  \/ SystemStarts(i) \/ SystemWrites(i) \/ SystemRecords(i) \/ SystemSpawns(i) \/ SystemThrows(i) \/ SystemEnds(i)

OfTask(t) == TaskWorks(t) \/ TaskPushes(t) \/ Cancel(t)

Next ==
  \/ ByTheUser
  \/ Run \/ Begin \/ OfRun
  \/ \E i \in Numbers : OfSystem(i)
  \/ \E t \in Tasks : OfTask(t)
  \/ \E c \in Tracked : Change(c)

Spec == Init /\ [][Next]_vars

-----------------------------------------------------------------------------
(* Properties. *)

(* Every command that was recorded is done or its value is dropped by the  *)
(* time run returns or throws, and none that is done or dropped is still   *)
(* in a list: whatever throws, and however many rounds the hooks take.     *)
EveryCommandEnds ==
  /\ \A n \in Pending : fate[n] = "recorded"
  /\ run = NotRunning => \A n \in DOMAIN fate : fate[n] # "recorded"

(* A query with Changed<c> in a running system finds what was changed      *)
(* since the system last ran to its end, and nothing that was not: by the  *)
(* clock that other systems, apply and the rounds move on meanwhile.  So   *)
(* for what the system, or what it set off, read when it last ran.         *)
ChangedTellsTheTruth ==
  \A i \in 1 .. Len(systems), c \in Tracked :
    Runs(i) /\ c \in effective[i].reads \cap known[i] => (c \in unseen[i] <=> tick[c] > lastRun[i])

(* The same for all a system sets off, what was added since as well: "no   *)
(* system that writes it runs next to the query, so the end of its run is  *)
(* a tick no write of another one falls behind" (comment of declare, for   *)
(* Changed).  It does not hold: a system that was in the same stage, where *)
(* nothing read c, may have changed it at the tick of that end.            *)
ChangedForNewListeners ==
  \A i \in 1 .. Len(systems), c \in Tracked :
    Runs(i) /\ c \in effective[i].reads => (c \in unseen[i] <=> tick[c] > lastRun[i])

(* Systems that run at the same time must not meet, nor anything they set  *)
(* off, by what was added up to now: run goes by no stages that are older  *)
(* than a system, a listener or a hook (stagesFor, run).                   *)
SystemsRunApart ==
  \A i, j \in 1 .. Len(systems) : i # j /\ Runs(i) /\ Runs(j) => ~MustNotMeet(i, j, TRUE)

(* then of a task is not called once its handle was cancelled, also if the *)
(* work is done already but run has not got to it (comment of TaskHandle). *)
CancelledIsNotCalled ==
  [][\A t \in Tasks : t \in cancelled /\ task[t] # "called" => task'[t] # "called"]_vars

=============================================================================
