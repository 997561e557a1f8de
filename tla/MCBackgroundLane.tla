-------------------------- MODULE MCBackgroundLane --------------------------
(***************************************************************************)
(* Instances of BackgroundLane for TLC.                                    *)
(***************************************************************************)
EXTENDS BackgroundLane, TLC

LaneSymmetry == Permutations(Clients) \cup Permutations(Threads)
=============================================================================
