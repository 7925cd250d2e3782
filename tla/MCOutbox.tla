------------------------------ MODULE MCOutbox ------------------------------
(* TLC instance of Outbox: small sets, and the symmetry that is sound for its  *)
(* safety runs.                                                               *)
EXTENDS Outbox, TLC

WorkerSymmetry == Permutations(Workers)
=============================================================================
