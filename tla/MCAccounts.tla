----------------------------- MODULE MCAccounts -----------------------------
(* TLC instance of Accounts: two registrations and an administrator who want  *)
(* one name, written in capitals or not; another account is there already.    *)
EXTENDS Accounts, TLC

CONSTANTS g1, g2, s1, s2, e1, name, Capital, other

Given == g1 :> Capital @@ g2 :> name @@ s1 :> name @@ s2 :> other @@ e1 :> other
Folded == name :> name @@ Capital :> name @@ other :> other
=============================================================================
