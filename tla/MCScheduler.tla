----------------------------- MODULE MCScheduler -----------------------------
(***************************************************************************)
(* Instances of Scheduler for TLC: a system that reads Health, with        *)
(* Changed, a loop that writes it and records commands, a hook of Frozen   *)
(* that records more, and a system that takes Frozen in a way stages       *)
(* refuses together with that hook.                                        *)
(***************************************************************************)
EXTENDS Scheduler

CONSTANTS Health, Frozen

P(kind, reads, writes) == [kind |-> kind, reads |-> reads, writes |-> writes, looks |-> {}, emits |-> {}]

Reader == [loop |-> {}, params |-> {P("Query", {Health}, {}), P("Tasks", {}, {})}]
Loop == [loop |-> {P("Query", {}, {Health})}, params |-> {P("Commands", {}, {})}]
Freezer == [loop |-> {}, params |-> {P("LocalEdit", {}, {Frozen})}]

AllSystems == {Reader, Loop, Freezer}
RecordingHook == {[component |-> Frozen, params |-> {P("Commands", {}, {}), P("Edit", {}, {Frozen})}]}

\* A system that edits Frozen, and a hook of Frozen that reads Health.
Editor == [loop |-> {}, params |-> {P("Edit", {}, {Frozen})}]
WriterAndEditor == {Loop, Editor}
ReadingHook == {[component |-> Frozen, params |-> {P("Query", {Health}, {})}]}
=============================================================================
