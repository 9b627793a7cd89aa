-------------------------------- MODULE MCCrl --------------------------------
(* Instances of Crl for TLC.                                                *)
EXTENDS Crl

OneIssuer == [c \in Certs |-> CHOOSE i \in Issuers : TRUE]
=============================================================================
