---------------------------- MODULE MCDbSessions ----------------------------
(* TLC instance of DbSessions: requests of two users on a full pool.         *)
EXTENDS DbSessions, TLC

CONSTANTS r1, r2, r3, u1, u2

TheirUsers == r1 :> u1 @@ r2 :> u2 @@ r3 :> u1
Mixed == r1 :> Routes @@ r2 :> {"create session"} @@ r3 :> {"end session"}
=============================================================================
