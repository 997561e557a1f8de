------------------------------ MODULE MCStages ------------------------------
(***************************************************************************)
(* Instances of Stages for TLC: two components, a global, a cache and an   *)
(* event, and functions that take them in the ways that matter.            *)
(***************************************************************************)
EXTENDS Stages

CONSTANTS Health, Frozen, Time, Textures, Hit

P(kind, reads, writes, emits) ==
  [kind |-> kind, reads |-> reads, writes |-> writes, looks |-> {}, emits |-> emits]

TakesCommands == P("Commands", {}, {}, {})
EmitsHit == P("Emit", {}, {}, {Hit})

Reader == [loop |-> {}, params |-> {P("Query", {Health}, {}, {})}]
Loop == [loop |-> {P("Query", {}, {Health}, {})}, params |-> {TakesCommands}]
Freezer == [loop |-> {}, params |-> {P("Edit", {}, {Frozen}, {})}]
Fighter == [loop |-> {}, params |-> {P("LocalEdit", {}, {Health}, {}), EmitsHit}]
Emitter == [loop |-> {P("Query", {Frozen}, {}, {})}, params |-> {EmitsHit}]
Alone == [loop |-> {}, params |-> {P("World", {}, {}, {})}]

Hurts == [event |-> Hit, params |-> {P("Edit", {}, {Health}, {})}]
Counts == [event |-> Hit, params |-> {P("Global", {}, {Time}, {})}]
Loads == [event |-> Hit, params |-> {P("Resources", {}, {Textures}, {})}]

Records == [component |-> Frozen, params |-> {TakesCommands}]
Reads == [component |-> Frozen, params |-> {P("Query", {Health}, {}, {})}]
Hits == [component |-> Frozen, params |-> {EmitsHit}]

AllSystems == {Reader, Loop, Freezer, Fighter, Emitter, Alone}
AllListeners == {Hurts, Counts, Loads}
AllHooks == {Records, Reads, Hits}
=============================================================================
