------------------------ MODULE MCUpdateTransaction ------------------------
EXTENDS UpdateTransaction, TLC

\* Windows and identities are interchangeable: no action or property names one.
Interchangeable == Permutations(Windows) \cup Permutations(Ids)
=============================================================================
