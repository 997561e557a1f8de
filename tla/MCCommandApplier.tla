---------------------------- MODULE MCCommandApplier ----------------------------
(* Two threads, two lists, pages of two indices. *)
EXTENDS CommandApplier

MCThreads == {1, 2}
MCSorts == {"changes", "destroy"}
\* A stale handle, its entity and another of the page, those of other pages, null.
stale == <<0, 0>>
first == <<0, 1>>
last == <<4, 1>>
nobody == <<6, 0>>
MCDoomed == {stale, first, last, nobody, <<1, 1>>, <<2, 1>>}
change(e, c, f, t) == [entity |-> e, column |-> c, finish |-> f, throws |-> t]
MCChanges ==
  {change(first, "body", "null", FALSE), change(first, "body", "emplace", FALSE), change(first, "body", "replace", FALSE),
   change(first, "body", "modify", TRUE), change(first, "mass", "emplace", TRUE),
   change(last, "body", "null", FALSE), change(last, "body", "emplace", FALSE),
   change(stale, "body", "emplace", FALSE), change(nobody, "body", "emplace", FALSE)}
================================================================================
