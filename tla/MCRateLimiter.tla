---------------------------- MODULE MCRateLimiter ----------------------------
EXTENDS RateLimiter, TLC

\* Servers are interchangeable; a synthetic bucket is named after its server.
Symmetry == Permutations(Scopes)
=============================================================================
