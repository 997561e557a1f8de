------------------------------ MODULE MCColumn ------------------------------
(***************************************************************************)
(* Instances of Column for TLC.                                            *)
(***************************************************************************)
EXTENDS Column, TLC

\* A page of two words and one of one.
ThreeIndices == {<<0, 0>>, <<0, 1>>, <<1, 0>>}

Kind(v, d, h) == [value |-> v, destroys |-> d, hooked |-> h]
AllKinds == {Kind(FALSE, FALSE, FALSE), Kind(TRUE, FALSE, FALSE), Kind(TRUE, TRUE, TRUE)}

\* None, a page with one component, with two, and a component in each page.
SomeStarts == {{}, {<<0, 0>>}, {<<0, 0>>, <<0, 1>>}, {<<0, 0>>, <<1, 0>>}}

ThreadSymmetry == Permutations(Threads)
=============================================================================
