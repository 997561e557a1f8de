-------------------------- MODULE MCEntityAllocator --------------------------
EXTENDS EntityAllocator, TLC

\* Threads of one kind do the same, and nothing is chosen among them.
Symmetry == Permutations(PoolThreads) \union Permutations(Guests)
=============================================================================
