--------------------------- MODULE MCWriteApproval ---------------------------
EXTENDS WriteApproval, TLC

\* One transaction for each key.
OneTxEach == [key : Keys]

\* Keys and requests are interchangeable.
Symmetry == Permutations(Keys) \cup Permutations(Requests)
=============================================================================
