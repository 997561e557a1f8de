---------------------------- MODULE MCThreadPool ----------------------------
(***************************************************************************)
(* Instances of ThreadPool for TLC.                                        *)
(***************************************************************************)
EXTENDS ThreadPool, TLC

Of(what, n) == [kind |-> what, size |-> n]

AllCalls == {Of("each", 1), Of("merged", 2), Of("void", 0), Of("void", 1), Of("callback", 1)}
VoidCall == {Of("void", 2)}
DetachCall == {Of("detach", 2)}

PoolSymmetry == Permutations(Clients) \cup Permutations(Workers)
=============================================================================
