----------------------------- MODULE MCIdentity -----------------------------
(* Identity for TLC: requests and cookies are told apart by nothing.       *)
EXTENDS Identity, TLC

SymmetricRequests == Permutations(Workers) \cup Permutations(Tokens)

=============================================================================
