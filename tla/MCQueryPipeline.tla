-------------------------- MODULE MCQueryPipeline --------------------------
EXTENDS QueryPipeline, TLC
CONSTANTS q1, q2, c1, c2, c3, c4, k1, k2

\* Not all excerpts fit a budget of 3, and a small one may follow a large one that does not.
Sizes == c1 :> 1 @@ c2 :> 2 @@ c3 :> 2 @@ c4 :> 1
TwoSizes == c1 :> 1 @@ c2 :> 2
=============================================================================
