---------------------------- MODULE MCAcmeOrder ----------------------------
(* Instances of AcmeOrder for TLC.                                          *)
EXTENDS AcmeOrder, TLC

SymmetricWorkers == Permutations(Workers)
=============================================================================
