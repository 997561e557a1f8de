--------------------------- MODULE MCParallelLoop ---------------------------
(***************************************************************************)
(* Instances of ParallelLoop for TLC.                                      *)
(***************************************************************************)
EXTENDS ParallelLoop, TLC

Loop(chunks, wanted, wantsTicket, background) ==
  [chunks |-> chunks, helpers |-> wanted, wantsTicket |-> wantsTicket, background |-> background]

\* parallelFor on the frame, with a ticket for the program, on the lane, and
\* of one chunk, which is not shared.
AllKinds == {Loop(2, 1, FALSE, FALSE), Loop(2, 1, TRUE, FALSE), Loop(2, 1, FALSE, TRUE),
             Loop(1, 1, FALSE, FALSE)}
Ticketed == {Loop(2, 1, TRUE, FALSE)}

=============================================================================
