---------------------------- MODULE MCTlsManager ----------------------------
(* A small instance of TlsManager.                                         *)
EXTENDS TlsManager, TLC

CONSTANTS i1, i2, n1

MCForbids == {<<i2, n1>>}

MCIssuerYears == i1 :> 1 @@ i2 :> 3

=============================================================================
