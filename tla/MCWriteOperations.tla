-------------------------- MODULE MCWriteOperations --------------------------
EXTENDS WriteOperations, TLC

\* Keys and callers are interchangeable; requests are not, one is a deployment.
Symmetry == Permutations(Keys) \cup Permutations(Callers)
=============================================================================
