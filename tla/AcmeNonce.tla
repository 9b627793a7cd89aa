------------------------------ MODULE AcmeNonce ------------------------------
(***************************************************************************)
(* Replay protection of ACME requests: acme/nonces.py, the order of the    *)
(* checks in jws.verify_request, and the middleware of acme/http.py that   *)
(* puts a fresh nonce on every answer to a POST.                           *)
(*                                                                         *)
(* A worker is one request.  The network may lose, repeat and reorder      *)
(* requests and anyone may send one, so a request may arrive at any time   *)
(* with any nonce, whether or not its signature verifies.  Time is in      *)
(* seconds, the granularity of issued_at.                                  *)
(***************************************************************************)
EXTENDS Integers

CONSTANTS
    Nonces,         \* what token_urlsafe may return
    Workers,
    NONCE_LIFETIME, \* in seconds
    MaxTime,        \* bound on the clock
    None            \* no row, no nonce

ASSUME NonceAssumption ==
    /\ NONCE_LIFETIME \in Nat /\ MaxTime \in Nat
    /\ None \notin Nat /\ None \notin Nonces

VARIABLES
    now,
    acme_enabled, \* the setting, with a base URL beside it
    acme_nonces,  \* the table: issued_at of each unspent nonce
    pc, job,
    minted,       \* history: when a nonce was handed out
    accepted      \* history: how many genuine requests each nonce let through

vars == <<now, acme_enabled, acme_nonces, pc, job, minted, accepted>>

-----------------------------------------------------------------------------

Times == 0 .. MaxTime

Steps == {"idle", "gate", "verify", "clock", "consume", "route", "clock2", "purge", "insert"}

(* The request: is it a POST, the nonce it quotes, whether everything up   *)
(* to the signature is in order; and the time read for the statement at    *)
(* hand.                                                                   *)
Jobs == [post : BOOLEAN, nonce : Nonces \cup {None}, valid : BOOLEAN, moment : Times]

NoJob == [post |-> FALSE, nonce |-> None, valid |-> FALSE, moment |-> 0]

Goto(w, step) == pc' = [pc EXCEPT ![w] = step] /\ UNCHANGED job

Finish(w) == pc' = [pc EXCEPT ![w] = "idle"] /\ job' = [job EXCEPT ![w] = NoJob]

(* Mutant: the time is rounded up to a whole second.                       *)
ReadClock_up(w, step) ==
    /\ pc' = [pc EXCEPT ![w] = step]
    /\ job' = [job EXCEPT ![w].moment = now + 1]

(* The clock is read, down to a whole second, before the statement that    *)
(* uses it is run.                                                         *)
ReadClock(w, step) ==
    /\ pc' = [pc EXCEPT ![w] = step]
    /\ job' = [job EXCEPT ![w].moment = now]

-----------------------------------------------------------------------------

(* A POST, or a GET or HEAD of new-nonce, from anyone.                     *)
Receive(w) ==
    /\ pc[w] = "idle"
    /\ \E post \in BOOLEAN, n \in Nonces \cup {None}, valid \in BOOLEAN :
           job' = [job EXCEPT ![w] = [post |-> post, nonce |-> n, valid |-> valid, moment |-> 0]]
    /\ pc' = [pc EXCEPT ![w] = "gate"]
    /\ UNCHANGED <<now, acme_enabled, acme_nonces, minted, accepted>>

(* 404 without a nonce while ACME is off.                                  *)
require_acme_enabled(w) ==
    /\ pc[w] = "gate"
    /\ IF acme_enabled
       THEN Goto(w, IF job[w].post THEN "verify" ELSE "clock2")
       ELSE Finish(w)
    /\ UNCHANGED <<now, acme_enabled, acme_nonces, minted, accepted>>

(* Mutant: the nonce is spent before the signature is verified.            *)
verify_request_late(w) ==
    /\ pc[w] = "verify"
    /\ Goto(w, IF job[w].nonce # None THEN "clock" ELSE "clock2")
    /\ UNCHANGED <<now, acme_enabled, acme_nonces, minted, accepted>>

(* Everything but the nonce: form, algorithm, key or account, url, a nonce *)
(* at all, and the signature.                                              *)
verify_request(w) ==
    /\ pc[w] = "verify"
    /\ Goto(w, IF job[w].valid /\ job[w].nonce # None THEN "clock" ELSE "clock2")
    /\ UNCHANGED <<now, acme_enabled, acme_nonces, minted, accepted>>

Cutoff(w) ==
    /\ pc[w] = "clock"
    /\ ReadClock(w, "consume")
    /\ UNCHANGED <<now, acme_enabled, acme_nonces, minted, accepted>>

(* The rows that the DELETE of consume matches.                            *)
Usable(w, n) == acme_nonces[n] # None /\ acme_nonces[n] >= job[w].moment - NONCE_LIFETIME

(* Mutant: a nonce is only looked up.                                      *)
Spend_lookup(n) == UNCHANGED acme_nonces

Spend(n) == acme_nonces' = [acme_nonces EXCEPT ![n] = None]

(* One DELETE whose row count decides; badNonce when it matches no row.    *)
(* A payload that does not parse is refused after this.                    *)
consume(w) ==
    LET n == job[w].nonce IN
    /\ pc[w] = "consume"
    /\ IF Usable(w, n)
       THEN /\ Spend(n)
            /\ accepted' = [accepted EXCEPT ![n] = IF job[w].valid THEN @ + 1 ELSE @]
            /\ Goto(w, "route")
       ELSE /\ Goto(w, "clock2")
            /\ UNCHANGED <<acme_nonces, accepted>>
    /\ UNCHANGED <<now, acme_enabled, minted>>

(* The route returns or raises an AcmeError; the middleware goes on.       *)
RouteAnswers(w) ==
    /\ pc[w] = "route"
    /\ Goto(w, "clock2")
    /\ UNCHANGED <<now, acme_enabled, acme_nonces, minted, accepted>>

(* Any other exception passes the middleware by: a 500 without a nonce.    *)
RouteRaises(w) ==
    /\ pc[w] = "route"
    /\ Finish(w)
    /\ UNCHANGED <<now, acme_enabled, acme_nonces, minted, accepted>>

-----------------------------------------------------------------------------
(* nonces.issue, on every answer to a POST and on new-nonce                *)

acme_response_headers(w) ==
    /\ pc[w] = "clock2"
    /\ ReadClock(w, "purge")
    /\ UNCHANGED <<now, acme_enabled, acme_nonces, minted, accepted>>

(* The rows that the DELETE of purge matches.                              *)
Expired(w, n) == acme_nonces[n] # None /\ acme_nonces[n] < job[w].moment - NONCE_LIFETIME

purge(w) ==
    /\ pc[w] = "purge"
    /\ acme_nonces' = [n \in Nonces |-> IF Expired(w, n) THEN None ELSE acme_nonces[n]]
    /\ Goto(w, "insert")
    /\ UNCHANGED <<now, acme_enabled, minted, accepted>>

(* The answer leaves with a nonce of 128 random bits, which no earlier     *)
(* answer had.                                                             *)
issue(w) ==
    /\ pc[w] = "insert"
    /\ \E n \in Nonces :
        /\ minted[n] = None
        /\ acme_nonces' = [acme_nonces EXCEPT ![n] = job[w].moment]
        /\ minted' = [minted EXCEPT ![n] = job[w].moment]
    /\ Finish(w)
    /\ UNCHANGED <<now, acme_enabled, accepted>>

-----------------------------------------------------------------------------

(* The operator turns ACME on or off.                                      *)
settings_submit ==
    /\ acme_enabled' = ~acme_enabled
    /\ UNCHANGED <<now, acme_nonces, pc, job, minted, accepted>>

Tick ==
    /\ now < MaxTime
    /\ now' = now + 1
    /\ UNCHANGED <<acme_enabled, acme_nonces, pc, job, minted, accepted>>

(* The process dies or a database error ends a request: what is committed  *)
(* stays.                                                                  *)
Crash(w) ==
    /\ pc[w] # "idle"
    /\ Finish(w)
    /\ UNCHANGED <<now, acme_enabled, acme_nonces, minted, accepted>>

Init ==
    /\ now = 0
    /\ acme_enabled = TRUE
    /\ acme_nonces = [n \in Nonces |-> None]
    /\ pc = [w \in Workers |-> "idle"]
    /\ job = [w \in Workers |-> NoJob]
    /\ minted = [n \in Nonces |-> None]
    /\ accepted = [n \in Nonces |-> 0]

Request(w) ==
    \/ Receive(w) \/ require_acme_enabled(w) \/ verify_request(w) \/ Cutoff(w) \/ consume(w)
    \/ RouteAnswers(w) \/ RouteRaises(w) \/ acme_response_headers(w) \/ purge(w) \/ issue(w)
    \/ Crash(w)

Next == (\E w \in Workers : Request(w)) \/ settings_submit \/ Tick

Spec == Init /\ [][Next]_vars

-----------------------------------------------------------------------------
(* Properties                                                              *)

(* The types; and no request works with a time that has not come yet       *)
(* (nonces._iso).                                                          *)
TypeOK ==
    /\ now \in Times /\ acme_enabled \in BOOLEAN
    /\ acme_nonces \in [Nonces -> Times \cup {None}]
    /\ pc \in [Workers -> Steps] /\ job \in [Workers -> Jobs]
    /\ minted \in [Nonces -> Times \cup {None}]
    /\ accepted \in [Nonces -> Nat]
    /\ \A w \in Workers : job[w].moment <= now

(* However a request is repeated, reordered or raced with its own copy, a  *)
(* nonce lets at most one through, and none before it was handed out       *)
(* (nonces.consume: "True exactly once per issued nonce").                 *)
AcceptedOnce ==
    \A n \in Nonces : accepted[n] <= IF minted[n] = None THEN 0 ELSE 1

(* The nonce in a client's hand stays good: until a request that verifies  *)
(* has used it, or it is older than NONCE_LIFETIME, it is in the table.    *)
(* Nobody else can spend it (jws.verify_request: "a forged request cannot  *)
(* spend a nonce an honest client holds"), and no purge takes it early.    *)
HandedOutStaysUsable ==
    \A n \in Nonces :
        minted[n] # None /\ accepted[n] = 0 /\ now - minted[n] <= NONCE_LIFETIME =>
            acme_nonces[n] = minted[n]

=============================================================================
