----------------------------- MODULE MCSessions -----------------------------
(* TLC instance of Sessions: one session, its requests, and the symmetry      *)
(* between them.                                                              *)
EXTENDS Sessions, TLC

CONSTANT TheSession
OneSession == {TheSession}
AllOfOneSession == [r \in Queries \cup EndRequests |-> TheSession]
RequestSymmetry == Permutations(Queries) \cup Permutations(EndRequests)
=============================================================================
