--------------------------- MODULE MCRateLimiter ---------------------------
EXTENDS RateLimiter, TLC

\* A burst, a partial refill, and idle times on both sides of the sweep.
SomeDelays == {45, 301}

Symmetry == Permutations(Requests) \cup Permutations(Clients)

=============================================================================
