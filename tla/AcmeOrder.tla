----------------------------- MODULE AcmeOrder -----------------------------
(***************************************************************************)
(* ACME orders from placement to certificate: acme/service.py,             *)
(* acme/api_order.py, acme/api_finalize.py and acme/validation.            *)
(*                                                                         *)
(* Every route is a synchronous handler in a thread pool with a database   *)
(* session of its own, so a handler is a worker that walks through its     *)
(* statements: each SELECT sees what is committed when it runs, each group *)
(* of writes takes effect at its commit, and anything may happen between   *)
(* two of them.  A validation attempt is a background task of the request  *)
(* that started it, so the same worker carries on into it.                 *)
(*                                                                         *)
(* Data kept abstract: identifiers are members of Names, a certificate is  *)
(* the order it was signed for, the clock is a number.                     *)
(***************************************************************************)
EXTENDS Naturals

CONSTANTS
    Orders,         \* order rows that may be placed
    Names,          \* identifiers a client may ask for
    Wildcards,      \* the names that start with "*."
    Addresses,      \* the names that are IP identifiers
    Accounts,       \* registered accounts
    Workers,        \* handler threads
    OrderLifetime,  \* ORDER_LIFETIME
    AuthzLifetime,  \* AUTHZ_LIFETIME
    MaxTime,        \* bound on the clock
    MaxFaults       \* bound on crashes and failed commits

ASSUME NonEmptyAssumption == Orders # {} /\ Names # {} /\ Accounts # {}

ASSUME NamesAssumption ==
    Wildcards \subseteq Names /\ Addresses \subseteq Names /\ Wildcards \cap Addresses = {}

ASSUME LifetimeAssumption ==
    /\ OrderLifetime \in Nat \ {0}
    /\ AuthzLifetime \in Nat \ {0}
    /\ AuthzLifetime <= OrderLifetime
    /\ MaxTime \in Nat
    /\ MaxFaults \in Nat

ChallengeTypes == {"http-01", "dns-01", "tls-alpn-01"}

Challenges == Names \X ChallengeTypes

VARIABLES
    owner,      \* acme_orders.account_id
    created,    \* when the order was placed; every expiry is an offset of it
    names,      \* acme_orders.identifiers_json
    order,      \* acme_orders.status, "none" before the row exists
    authz,      \* acme_authorizations.status, per order and name
    chal,       \* acme_challenges.status, per order and challenge
    certId,     \* acme_orders.certificate_id, 0 for NULL
    certs,      \* certificates rows signed for an order
    nextCert,   \* the next certificates row id
    log,        \* audit entries about orders
    account,    \* acme_accounts.status
    issuer,     \* ca_certificates.status of each account's issuer
    pc, job,    \* what each worker does next, and about which row
    now, faults

rows == <<owner, created, names, order, authz, chal, certId, certs, nextCert, log>>
vars == <<rows, account, issuer, pc, job, now, faults>>

-----------------------------------------------------------------------------
(* Types                                                                   *)

OrderStatuses == {"none", "pending", "ready", "processing", "valid", "invalid"}
AuthzStatuses == {"none", "pending", "valid"}
ChallengeStatuses == {"none", "pending", "processing", "valid", "invalid"}

(* The next statement of a worker.  resolve, sign, release and attach are  *)
(* the part of finalize that runs while the worker holds the order's claim.*)
Steps ==
    {"idle",
     "place",                                                 \* new-order
     "readAuthzs", "claim", "resolve", "sign", "release", "attach",  \* finalize
     "readAuthz", "begin", "attempt", "record",               \* challenge
     "logOrder", "logCertificate", "logValidated", "logFailed"}

Holding == {"resolve", "sign", "release", "attach"}

(* asked is when the authorizations were found valid, cert the row stored. *)
Jobs == [order : Orders, chal : Challenges, account : Accounts, asked : Nat, cert : Nat]

AnyOf(S) == CHOOSE x \in S : TRUE

NoJob == [order |-> AnyOf(Orders), chal |-> AnyOf(Challenges), account |-> AnyOf(Accounts),
          asked |-> 0, cert |-> 0]

Certificates == [id : Nat \ {0}, order : Orders, asked : Nat]

Events == [what : {"order_created", "certificate_issued"}, order : Orders]
          \cup [what : {"challenge_validated", "challenge_failed"},
                order : Orders, chal : Challenges]

-----------------------------------------------------------------------------
(* Pure functions of the rows and the clock                                *)

challenge_types_for(n) ==
    CASE n \in Wildcards -> {"dns-01"}
      [] n \in Addresses -> {"http-01", "tls-alpn-01"}
      [] OTHER           -> ChallengeTypes

ChallengesOf(ns) == {c \in Challenges : c[1] \in ns /\ c[2] \in challenge_types_for(c[1])}

(* Mutant: an order is still good at the very second it expires.           *)
_has_expired_late(expiresAt) == expiresAt < now

_has_expired(expiresAt) == expiresAt <= now

authorization_status(o, n) ==
    IF authz[o][n] \in {"pending", "valid"} /\ _has_expired(created[o] + AuthzLifetime)
    THEN "expired"
    ELSE authz[o][n]

(* The half of order_status that needs the order row only.                 *)
OrderOpen(o) ==
    /\ order[o] \in {"pending", "ready"}
    /\ ~ _has_expired(created[o] + OrderLifetime)

(* Mutant: one proven name is enough.                                      *)
AuthzsReady_any(o) == \E n \in names[o] : authorization_status(o, n) = "valid"

(* The half of order_status that reads the authorizations.                 *)
AuthzsReady(o) ==
    /\ names[o] # {}
    /\ \A n \in names[o] : authorization_status(o, n) = "valid"

(* Three rules in the order of the code's early returns.                   *)
order_status(o) ==
    IF order[o] \notin {"pending", "ready"}
    THEN order[o]
    ELSE IF \/ _has_expired(created[o] + OrderLifetime)
            \/ \E n \in names[o] : authorization_status(o, n) \in {"invalid", "expired"}
    THEN "invalid"
    ELSE IF AuthzsReady(o) THEN "ready" ELSE "pending"

-----------------------------------------------------------------------------
(* Workers                                                                 *)

At(w, step) == pc[w] = step

Goto(w, step) == pc' = [pc EXCEPT ![w] = step] /\ UNCHANGED job

GotoWith(w, step, j) == pc' = [pc EXCEPT ![w] = step] /\ job' = [job EXCEPT ![w] = j]

Finish(w) == GotoWith(w, "idle", NoJob)

(* JWS verification: the kid names an account that is still valid.  The    *)
(* account is looked up once per request and never again.                  *)
Verified(w, a) == At(w, "idle") /\ account[a] = "valid"

(* owned_order: any other account is told there is no such order.          *)
Owned(a, o) == order[o] # "none" /\ owner[o] = a

-----------------------------------------------------------------------------
(* new-order                                                               *)

new_order(w, a) ==
    /\ Verified(w, a)
    /\ issuer[a] = "active"
    /\ GotoWith(w, "place", [NoJob EXCEPT !.account = a])
    /\ UNCHANGED <<rows, account, issuer, now, faults>>

(* One transaction: the order, an authorization per name, a challenge per  *)
(* type that the name may be proven with.                                  *)
create_order(w, o, ns) ==
    /\ At(w, "place")
    /\ order[o] = "none" /\ ns # {}
    /\ owner'   = [owner EXCEPT ![o] = job[w].account]
    /\ created' = [created EXCEPT ![o] = now]
    /\ names'   = [names EXCEPT ![o] = ns]
    /\ order'   = [order EXCEPT ![o] = "pending"]
    /\ authz'   = [authz EXCEPT ![o] = [n \in Names |-> IF n \in ns THEN "pending" ELSE "none"]]
    /\ chal'    = [chal EXCEPT ![o] =
                     [c \in Challenges |-> IF c \in ChallengesOf(ns) THEN "pending" ELSE "none"]]
    /\ GotoWith(w, "logOrder", [job[w] EXCEPT !.order = o])
    /\ UNCHANGED <<certId, certs, nextCert, log, account, issuer, now, faults>>

-----------------------------------------------------------------------------
(* The challenge resource and the validation it schedules                  *)

(* The challenge row is loaded: a pending one goes on, a processing or     *)
(* valid one is answered as it stands, an invalid one is refused.          *)
challenge_resource(w, a, o, c) ==
    /\ Verified(w, a) /\ Owned(a, o)
    /\ chal[o][c] = "pending"
    /\ GotoWith(w, "readAuthz", [NoJob EXCEPT !.account = a, !.order = o, !.chal = c])
    /\ UNCHANGED <<rows, account, issuer, now, faults>>

ReadAuthz(w) ==
    /\ At(w, "readAuthz")
    /\ IF authorization_status(job[w].order, job[w].chal[1]) = "pending"
       THEN Goto(w, "begin")
       ELSE Finish(w)
    /\ UNCHANGED <<rows, account, issuer, now, faults>>

(* Mutant: the UPDATE has no WHERE status = 'pending'.                     *)
begin_challenge_unguarded(w) ==
    /\ At(w, "begin")
    /\ chal' = [chal EXCEPT ![job[w].order][job[w].chal] = "processing"]
    /\ Goto(w, "attempt")
    /\ UNCHANGED <<owner, created, names, order, authz, certId, certs, nextCert, log,
                   account, issuer, now, faults>>

(* UPDATE ... WHERE status = 'pending'; the winner schedules the task.     *)
begin_challenge(w) ==
    LET o == job[w].order
        c == job[w].chal
    IN  /\ At(w, "begin")
        /\ \/ /\ chal[o][c] = "pending"
              /\ chal' = [chal EXCEPT ![o][c] = "processing"]
              /\ Goto(w, "attempt")
           \/ /\ chal[o][c] # "pending"
              /\ Finish(w) /\ UNCHANGED chal
        /\ UNCHANGED <<owner, created, names, order, authz, certId, certs, nextCert, log,
                       account, issuer, now, faults>>

(* Mutant: the task expects to find the challenge still pending.           *)
_attempt_validation_pending(w) ==
    /\ At(w, "attempt")
    /\ IF chal[job[w].order][job[w].chal] = "pending" THEN Goto(w, "record") ELSE Finish(w)
    /\ UNCHANGED <<rows, account, issuer, now, faults>>

_attempt_validation(w) ==
    /\ At(w, "attempt")
    /\ IF chal[job[w].order][job[w].chal] = "processing" THEN Goto(w, "record") ELSE Finish(w)
    /\ UNCHANGED <<rows, account, issuer, now, faults>>

record_challenge_success(w) ==
    LET o == job[w].order
        c == job[w].chal
    IN  /\ At(w, "record")
        /\ chal'  = [chal EXCEPT ![o][c] = "valid"]
        /\ authz' = [authz EXCEPT ![o][c[1]] = "valid"]
        /\ Goto(w, "logValidated")
        /\ UNCHANGED <<owner, created, names, order, certId, certs, nextCert, log,
                       account, issuer, now, faults>>

(* Mutant: a failed challenge takes its authorization down with it.        *)
record_challenge_failure_authz(w) ==
    LET o == job[w].order
        c == job[w].chal
    IN  /\ At(w, "record")
        /\ chal'  = [chal EXCEPT ![o][c] = IF @ = "processing" THEN "invalid" ELSE @]
        /\ authz' = [authz EXCEPT ![o][c[1]] = "invalid"]
        /\ Goto(w, "logFailed")
        /\ UNCHANGED <<owner, created, names, order, certId, certs, nextCert, log,
                       account, issuer, now, faults>>

(* Conditional on the challenge still being processing; the authorization  *)
(* stays as it is, and the failure is logged either way.                   *)
record_challenge_failure(w) ==
    LET o == job[w].order
        c == job[w].chal
    IN  /\ At(w, "record")
        /\ chal' = [chal EXCEPT ![o][c] = IF @ = "processing" THEN "invalid" ELSE @]
        /\ Goto(w, "logFailed")
        /\ UNCHANGED <<owner, created, names, order, authz, certId, certs, nextCert, log,
                       account, issuer, now, faults>>

-----------------------------------------------------------------------------
(* finalize                                                                *)

(* The order row is loaded.  With a certificate the order is answered as   *)
(* it stands; closed or expired it is refused; otherwise its               *)
(* authorizations are read next.                                           *)
finalize_order(w, a, o) ==
    /\ Verified(w, a) /\ Owned(a, o)
    /\ certId[o] = 0
    /\ OrderOpen(o)
    /\ GotoWith(w, "readAuthzs", [NoJob EXCEPT !.account = a, !.order = o])
    /\ UNCHANGED <<rows, account, issuer, now, faults>>

(* Every authorization must be valid now, and the CSR must name exactly    *)
(* what the order names.                                                   *)
ReadAuthzs(w, csrNames) ==
    LET o == job[w].order
    IN  /\ At(w, "readAuthzs")
        /\ IF AuthzsReady(o) /\ csrNames = names[o]
           THEN GotoWith(w, "claim", [job[w] EXCEPT !.asked = now])
           ELSE Finish(w)
        /\ UNCHANGED <<rows, account, issuer, now, faults>>

(* Mutant: the UPDATE tests certificate_id only.                           *)
claim_for_issuance_anyStatus(w) ==
    LET o == job[w].order
    IN  /\ At(w, "claim")
        /\ \/ certId[o] = 0 /\ order' = [order EXCEPT ![o] = "processing"] /\ Goto(w, "resolve")
           \/ certId[o] # 0 /\ Finish(w) /\ UNCHANGED order
        /\ UNCHANGED <<owner, created, names, authz, chal, certId, certs, nextCert, log,
                       account, issuer, now, faults>>

(* UPDATE ... WHERE certificate_id IS NULL AND status IN (pending, ready). *)
claim_for_issuance(w) ==
    LET o == job[w].order
    IN  /\ At(w, "claim")
        /\ \/ /\ certId[o] = 0 /\ order[o] \in {"pending", "ready"}
              /\ order' = [order EXCEPT ![o] = "processing"]
              /\ Goto(w, "resolve")
           \/ /\ ~ (certId[o] = 0 /\ order[o] \in {"pending", "ready"})
              /\ Finish(w) /\ UNCHANGED order
        /\ UNCHANGED <<owner, created, names, authz, chal, certId, certs, nextCert, log,
                       account, issuer, now, faults>>

(* sign_csr_and_store, first half: the account's issuer must be active.    *)
ResolveIssuer(w) ==
    /\ At(w, "resolve")
    /\ Goto(w, IF issuer[job[w].account] = "active" THEN "sign" ELSE "release")
    /\ UNCHANGED <<rows, account, issuer, now, faults>>

(* sign_csr_and_store, second half: sign and commit the certificate row.   *)
SignAndStore(w) ==
    /\ At(w, "sign")
    /\ certs' = certs \cup {[id |-> nextCert, order |-> job[w].order, asked |-> job[w].asked]}
    /\ nextCert' = nextCert + 1
    /\ GotoWith(w, "attach", [job[w] EXCEPT !.cert = nextCert])
    /\ UNCHANGED <<owner, created, names, order, authz, chal, certId, log,
                   account, issuer, now, faults>>

(* Mutant: an unexpected exception leaves without releasing the claim.     *)
IssueFails_uncaught(w) ==
    /\ pc[w] \in {"resolve", "sign"}
    /\ Finish(w)
    /\ UNCHANGED <<rows, account, issuer, now, faults>>

(* Any exception on the way to the certificate row is caught: a name       *)
(* constraint, an issuer past its validity, a sealed key, the database.    *)
IssueFails(w) ==
    /\ pc[w] \in {"resolve", "sign"}
    /\ Goto(w, "release")
    /\ UNCHANGED <<rows, account, issuer, now, faults>>

release_claim(w) ==
    /\ At(w, "release")
    /\ order' = [order EXCEPT ![job[w].order] = "pending"]
    /\ Finish(w)
    /\ UNCHANGED <<owner, created, names, authz, chal, certId, certs, nextCert, log,
                   account, issuer, now, faults>>

(* Mutant: the issuance is answered without an audit entry.                *)
attach_certificate_unlogged(w) ==
    /\ At(w, "attach")
    /\ certId' = [certId EXCEPT ![job[w].order] = job[w].cert]
    /\ order'  = [order EXCEPT ![job[w].order] = "valid"]
    /\ Finish(w)
    /\ UNCHANGED <<owner, created, names, authz, chal, certs, nextCert, log,
                   account, issuer, now, faults>>

attach_certificate(w) ==
    /\ At(w, "attach")
    /\ certId' = [certId EXCEPT ![job[w].order] = job[w].cert]
    /\ order'  = [order EXCEPT ![job[w].order] = "valid"]
    /\ Goto(w, "logCertificate")
    /\ UNCHANGED <<owner, created, names, authz, chal, certs, nextCert, log,
                   account, issuer, now, faults>>

-----------------------------------------------------------------------------
(* audit.record: a commit of its own, after the one it reports             *)

AuditEvent(w) ==
    CASE At(w, "logOrder")       -> [what |-> "order_created", order |-> job[w].order]
      [] At(w, "logCertificate") -> [what |-> "certificate_issued", order |-> job[w].order]
      [] At(w, "logValidated")   -> [what |-> "challenge_validated",
                                     order |-> job[w].order, chal |-> job[w].chal]
      [] At(w, "logFailed")      -> [what |-> "challenge_failed",
                                     order |-> job[w].order, chal |-> job[w].chal]

Logging == {"logOrder", "logCertificate", "logValidated", "logFailed"}

record(w) ==
    /\ pc[w] \in Logging
    /\ log' = log \cup {AuditEvent(w)}
    /\ Finish(w)
    /\ UNCHANGED <<owner, created, names, order, authz, chal, certId, certs, nextCert,
                   account, issuer, now, faults>>

-----------------------------------------------------------------------------
(* What the rest of the server and the world do meanwhile                  *)

deactivate_account(a) ==
    /\ account[a] = "valid"
    /\ account' = [account EXCEPT ![a] = "deactivated"]
    /\ UNCHANGED <<rows, issuer, pc, job, now, faults>>

RetireIssuer(a) ==
    /\ issuer[a] = "active"
    /\ issuer' = [issuer EXCEPT ![a] = "retired"]
    /\ UNCHANGED <<rows, account, pc, job, now, faults>>

Tick ==
    /\ now < MaxTime
    /\ now' = now + 1
    /\ UNCHANGED <<rows, account, issuer, pc, job, faults>>

(* An exception nobody catches, a failed commit above all, ends one        *)
(* request where it stands.                                                *)
Abort(w) ==
    /\ faults < MaxFaults
    /\ pc[w] \notin {"idle", "resolve", "sign"}
    /\ faults' = faults + 1
    /\ Finish(w)
    /\ UNCHANGED <<rows, account, issuer, now>>

(* The process dies: every handler and background task is gone, and no     *)
(* code picks up where they stopped after the restart.                     *)
Crash ==
    /\ faults < MaxFaults
    /\ \E w \in Workers : ~ At(w, "idle")
    /\ faults' = faults + 1
    /\ pc' = [w \in Workers |-> "idle"]
    /\ job' = [w \in Workers |-> NoJob]
    /\ UNCHANGED <<rows, account, issuer, now>>

-----------------------------------------------------------------------------

Init ==
    /\ owner    = [o \in Orders |-> AnyOf(Accounts)]
    /\ created  = [o \in Orders |-> 0]
    /\ names    = [o \in Orders |-> {}]
    /\ order    = [o \in Orders |-> "none"]
    /\ authz    = [o \in Orders |-> [n \in Names |-> "none"]]
    /\ chal     = [o \in Orders |-> [c \in Challenges |-> "none"]]
    /\ certId   = [o \in Orders |-> 0]
    /\ certs    = {}
    /\ nextCert = 1
    /\ log      = {}
    /\ account  = [a \in Accounts |-> "valid"]
    /\ issuer   = [a \in Accounts |-> "active"]
    /\ pc       = [w \in Workers |-> "idle"]
    /\ job      = [w \in Workers |-> NoJob]
    /\ now      = 0
    /\ faults   = 0

(* The steps that a request, once accepted, takes without its client.      *)
Continue(w) ==
    \/ \E o \in Orders, ns \in SUBSET Names : create_order(w, o, ns)
    \/ ReadAuthz(w)
    \/ begin_challenge(w)
    \/ _attempt_validation(w)
    \/ record_challenge_success(w)
    \/ record_challenge_failure(w)
    \/ \E csrNames \in SUBSET Names : ReadAuthzs(w, csrNames)
    \/ claim_for_issuance(w)
    \/ ResolveIssuer(w)
    \/ SignAndStore(w)
    \/ IssueFails(w)
    \/ release_claim(w)
    \/ attach_certificate(w)
    \/ record(w)

Accept(w, a) ==
    \/ new_order(w, a)
    \/ \E o \in Orders, c \in Challenges : challenge_resource(w, a, o, c)
    \/ \E o \in Orders : finalize_order(w, a, o)

Next ==
    \/ \E w \in Workers : Continue(w) \/ Abort(w)
    \/ \E w \in Workers, a \in Accounts : Accept(w, a)
    \/ \E a \in Accounts : deactivate_account(a) \/ RetireIssuer(a)
    \/ Tick
    \/ Crash

Spec == Init /\ [][Next]_vars

(* A thread that has started runs on; clients, operators and faults owe    *)
(* nothing.                                                                *)
FairSpec == Spec /\ \A w \in Workers : WF_vars(Continue(w))

-----------------------------------------------------------------------------
(* Properties                                                              *)

(* Every variable holds what its column, or the handler's locals, can hold.*)
TypeOK ==
    /\ owner \in [Orders -> Accounts]
    /\ created \in [Orders -> Nat]
    /\ names \in [Orders -> SUBSET Names]
    /\ order \in [Orders -> OrderStatuses]
    /\ authz \in [Orders -> [Names -> AuthzStatuses]]
    /\ chal \in [Orders -> [Challenges -> ChallengeStatuses]]
    /\ certId \in [Orders -> Nat]
    /\ certs \subseteq Certificates
    /\ nextCert \in Nat \ {0}
    /\ log \subseteq Events
    /\ account \in [Accounts -> {"valid", "deactivated"}]
    /\ issuer \in [Accounts -> {"active", "retired"}]
    /\ pc \in [Workers -> Steps]
    /\ job \in [Workers -> Jobs]
    /\ now \in Nat
    /\ faults \in Nat

(* claim_for_issuance: however many finalize requests race, fail, retry or *)
(* die, at most one certificate is ever signed for an order, and an order  *)
(* that names a certificate names that one and is valid.                   *)
OneCertificatePerOrder ==
    /\ \A c, d \in certs : c.order = d.order => c = d
    /\ \A o \in Orders : certId[o] # 0 =>
         /\ order[o] = "valid"
         /\ \E c \in certs : c.id = certId[o] /\ c.order = o

(* finalize_order reads readiness long before it signs: even so, every     *)
(* name in a certificate has been proven by a challenge of a type that the *)
(* name allows, and that challenge still says valid.                       *)
CertificateProven ==
    \A c \in certs : \A n \in names[c.order] :
        \E t \in challenge_types_for(n) : chal[c.order][<<n, t>>] = "valid"

(* begin_challenge and record_challenge_failure: an authorization is valid *)
(* exactly when one of its challenges is; no straggler leaves a valid      *)
(* authorization whose only proof reads failed.                            *)
ProofStands ==
    \A o \in Orders, n \in Names :
        authz[o][n] = "valid"
            <=> \E t \in ChallengeTypes : chal[o][<<n, t>>] = "valid"

(* order_status: the authorizations behind a certificate were found valid  *)
(* before the order they belong to expired.                                *)
CertifiedInTime ==
    \A c \in certs : c.asked < created[c.order] + OrderLifetime

HoldsClaim(w, o) == pc[w] \in Holding /\ job[w].order = o

Validates(w, o, c) == pc[w] \in {"attempt", "record"} /\ job[w].order = o /\ job[w].chal = c

(* _issue and validate_challenge promise to leave nothing processing: as   *)
(* long as no commit has failed and the process has not died, a processing *)
(* order or challenge has a worker that will settle it.                    *)
NothingStranded ==
    faults = 0 =>
        \A o \in Orders :
            /\ order[o] = "processing" => \E w \in Workers : HoldsClaim(w, o)
            /\ \A c \in Challenges :
                 chal[o][c] = "processing" => \E w \in Workers : Validates(w, o, c)

(* The audit log is written after the commit it reports: it never reports  *)
(* what did not happen, and without faults it misses no certificate.       *)
AuditMatches ==
    /\ \A e \in log :
        CASE e.what = "order_created"       -> order[e.order] # "none"
          [] e.what = "certificate_issued"  -> certId[e.order] # 0
          [] e.what = "challenge_validated" -> chal[e.order][e.chal] = "valid"
          [] e.what = "challenge_failed"    -> chal[e.order][e.chal] = "invalid"
    /\ \A c \in certs : faults = 0 =>
        \/ [what |-> "certificate_issued", order |-> c.order] \in log
        \/ \E w \in Workers : pc[w] \in {"attach", "logCertificate"} /\ job[w].order = c.order

(* A challenge that has been decided stays decided: spec 0011 FR-2 has the *)
(* client place a new order instead.                                       *)
ChallengeFinal ==
    [][\A o \in Orders, c \in Challenges :
        chal[o][c] \in {"valid", "invalid"} => chal'[o][c] = chal[o][c]]_vars

(* validate_challenge runs every attempt to a conclusion.                  *)
ChallengeSettles ==
    \A o \in Orders, c \in Challenges :
        chal[o][c] = "processing" ~> (chal[o][c] \in {"valid", "invalid"} \/ faults > 0)

(* A claim ends: the order becomes valid or goes back to its client.       *)
ClaimEnds ==
    \A o \in Orders :
        order[o] = "processing" ~> (order[o] \in {"valid", "pending"} \/ faults > 0)

-----------------------------------------------------------------------------
(* What the client sees: the computed status, and what was signed.         *)

Lifecycle == INSTANCE OrderLifecycle WITH
    view   <- [o \in Orders |-> order_status(o)],
    signed <- [o \in Orders |-> {c.id : c \in {d \in certs : d.order = o}}]

(* order_json: whatever the handlers' interleaving, a client only sees the *)
(* transitions of OrderLifecycle.                                          *)
ImplementsLifecycle == Lifecycle!Spec

=============================================================================
