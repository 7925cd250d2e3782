--------------------------- MODULE MCRateLimiter ---------------------------
EXTENDS RateLimiter, TLC
CONSTANTS i1, q1, q2, q3

\* The key of a user: ingest requests and queries, of one window.
UserRequests == {i1, q1, q2, q3}
UserLimits == [r \in UserRequests |-> IF r = i1 THEN 1 ELSE 2]
UserWindows == [r \in UserRequests |-> 2]
QuerySymmetry == Permutations({q1, q2, q3})
=============================================================================
