----------------------------- MODULE MCAcmeNonce -----------------------------
(* A small instance of AcmeNonce.                                          *)
EXTENDS AcmeNonce, TLC

Symmetry == Permutations(Nonces) \cup Permutations(Workers)

=============================================================================
