----------------------------- MODULE MCRetrieval -----------------------------
(* TLC instance of Retrieval: documents of two chunks and of one.             *)
EXTENDS Retrieval, TLC

CONSTANTS i1, i2, c1, c2, c3

TwoDocuments == i1 :> {c1, c2} @@ i2 :> {c3}
==============================================================================
