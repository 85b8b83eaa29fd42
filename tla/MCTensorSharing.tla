--------------------------- MODULE MCTensorSharing ---------------------------
EXTENDS TensorSharing

Symmetry == Permutations(Mems) \union Permutations(Sends) \union Permutations(Files)

\* A kernel is pending in the programs whose threads overlap, which do all that the
\* others do.
KernelsInOverlap == [o \in BOOLEAN |-> IF o THEN 1 ELSE 0]

OneKernel == [o \in BOOLEAN |-> 1]
=============================================================================
