--------------------------- MODULE MCResourceCache ---------------------------
(***************************************************************************)
(* Instances of ResourceCache for TLC.                                     *)
(***************************************************************************)
EXTENDS ResourceCache, TLC

CONSTANTS Plain, File \* a key with a loader and one with a file

OneOwner == [k \in Keys |-> CHOOSE o \in Owners : TRUE]

\* Every member with a key; find and load each for one of them.
MCKeyCalls == ({"bind"} \X Keys) \cup {<<"find", File>>, <<"forceLoad", File>>, <<"load", Plain>>}

UserSymmetry == Permutations(Users)
=============================================================================
