------------------------------ MODULE FifoCells ------------------------------
(***************************************************************************)
(* What RingQueue promises: a queue of cells.  A push first reserves a     *)
(* cell at the back and fills it later, a pop takes the cell at the front, *)
(* and only once that one has been filled.  At most Cap cells are filled.  *)
(***************************************************************************)
EXTENDS Naturals, Sequences, FiniteSets

CONSTANTS
  Cap,    \* how many cells may be filled at a time
  Items,  \* what a cell holds
  None    \* a cell that was reserved and not filled yet, not in Items

VARIABLE cells  \* the reserved and filled cells, oldest first

Filled == {i \in DOMAIN cells : cells[i] # None}

Init == cells = <<>>

Reserve == cells' = Append(cells, None)

Fill ==
  \E i \in DOMAIN cells, x \in Items :
    /\ cells[i] = None
    /\ Cardinality(Filled) < Cap
    /\ \A j \in Filled : cells[j] # x
    /\ cells' = [cells EXCEPT ![i] = x]

Take ==
  /\ cells # <<>>
  /\ Head(cells) # None
  /\ cells' = Tail(cells)

\* The owner of the queue destroys it with what is left.
Clear == cells' = <<>>

Next == Reserve \/ Fill \/ Take \/ Clear

Spec == Init /\ [][Next]_cells

=============================================================================
