--------------------------- MODULE MCIssuerGrants ---------------------------
(* IssuerGrants for TLC: requests and issuers are told apart by nothing.   *)
EXTENDS IssuerGrants, TLC

SymmetricRequests == Permutations(Workers) \cup Permutations(Issuers)

=============================================================================
