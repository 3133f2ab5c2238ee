--------------------------- MODULE MCRateLimiter ---------------------------
(* Small instances of the rate limiter for TLC.                            *)
EXTENDS RateLimiter, TLC

CONSTANTS k1, k2, r1, r2

MCKeys == {k1, k2}
MCRequests == {r1, r2}
MCLimits == {0, 1, 2}

MCSymmetry == Permutations(MCKeys) \cup Permutations(MCRequests)

=============================================================================
