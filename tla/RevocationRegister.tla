------------------------- MODULE RevocationRegister -------------------------
(***************************************************************************)
(* What revocation promises a relying party: a certificate is revoked and  *)
(* appears on the list of its issuer in one step, no list ever says less   *)
(* than the register, and nothing that was revoked becomes good again.     *)
(*                                                                         *)
(* Two requests that revoke one certificate at the same time both succeed, *)
(* and the date and the reason of the later one stand.                     *)
(***************************************************************************)
CONSTANTS Issuers, Certs, IssuerOf, None

VARIABLES
    revoked,    \* the revocation of each certificate, or None
    published   \* the list of each issuer, or None

vars == <<revoked, published>>

Init ==
    /\ revoked = [c \in Certs |-> None]
    /\ published = [i \in Issuers |-> None]

(* What of a register belongs on the list of an issuer.                    *)
ListOf(i, register) == [c \in Certs |-> IF IssuerOf[c] = i THEN register[c] ELSE None]

Publish(i) == published' = [published EXCEPT ![i] = ListOf(i, revoked')]

Revoke(c) ==
    /\ revoked'[c] # None
    /\ revoked' = [revoked EXCEPT ![c] = revoked'[c]]
    /\ Publish(IssuerOf[c])

Refresh(i) == UNCHANGED revoked /\ Publish(i)

Next == (\E c \in Certs : Revoke(c)) \/ (\E i \in Issuers : Refresh(i))

Spec == Init /\ [][Next]_vars
=============================================================================
