---------------------------- MODULE MCAuthTokens ----------------------------
(* TLC instance of AuthTokens: two accounts, one of them logged in.           *)
EXTENDS AuthTokens, TLC

CONSTANTS e1, e2, name, other, l0

Given == e1 :> name @@ e2 :> other
Folded == name :> name @@ other :> other
Earlier == l0 :> e1
=============================================================================
