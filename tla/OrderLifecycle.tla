--------------------------- MODULE OrderLifecycle ---------------------------
(***************************************************************************)
(* What an ACME client may see of its orders: the status that order_json   *)
(* reports and the certificates that exist for the order.  This is RFC     *)
(* 8555 section 7.1.6 with cabin's two deviations: a failed issuance gives *)
(* the order back (processing to ready), and a finalize that was accepted  *)
(* before the order lapsed may still claim it afterwards.                  *)
(***************************************************************************)
CONSTANT Orders

VARIABLES
    view,    \* the reported status of each order
    signed   \* the ids of the certificates signed for each order

vars == <<view, signed>>

Init ==
    /\ view = [o \in Orders |-> "none"]
    /\ signed = [o \in Orders |-> {}]

Move(o, from, to) ==
    /\ view[o] \in from
    /\ view' = [view EXCEPT ![o] = to]

Place(o) == Move(o, {"none"}, "pending") /\ UNCHANGED signed

Prove(o) == Move(o, {"pending"}, "ready") /\ UNCHANGED signed

(* Time passes for every order at once.                                    *)
Lapse ==
    /\ \E S \in SUBSET {o \in Orders : view[o] \in {"pending", "ready"}} :
        view' = [o \in Orders |-> IF o \in S THEN "invalid" ELSE view[o]]
    /\ UNCHANGED signed

Claim(o) == signed[o] = {} /\ Move(o, {"ready", "invalid"}, "processing") /\ UNCHANGED signed

(* Whatever id the store gives the certificate, no other has it.           *)
Sign(o) ==
    /\ view[o] = "processing" /\ signed[o] = {}
    /\ \E id \in signed'[o] :
        /\ \A p \in Orders : id \notin signed[p]
        /\ signed' = [signed EXCEPT ![o] = {id}]
    /\ UNCHANGED view

Complete(o) == signed[o] # {} /\ Move(o, {"processing"}, "valid") /\ UNCHANGED signed

GiveBack(o) ==
    /\ signed[o] = {}
    /\ \E to \in {"ready", "invalid"} : Move(o, {"processing"}, to)
    /\ UNCHANGED signed

Next ==
    \/ \E o \in Orders :
        Place(o) \/ Prove(o) \/ Claim(o) \/ Sign(o) \/ Complete(o) \/ GiveBack(o)
    \/ Lapse

Spec == Init /\ [][Next]_vars
=============================================================================
