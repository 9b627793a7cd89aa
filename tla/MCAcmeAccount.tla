---------------------------- MODULE MCAcmeAccount ----------------------------
(* Instances of AcmeAccount for TLC.                                        *)
EXTENDS AcmeAccount, TLC

OneDirectory == [e \in EabKeys |-> CHOOSE i \in Issuers : TRUE]

SymmetricKeys == Permutations(Workers) \cup Permutations(Keys)
=============================================================================
