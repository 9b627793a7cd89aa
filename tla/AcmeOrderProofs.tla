-------------------------- MODULE AcmeOrderProofs --------------------------
(***************************************************************************)
(* Proofs about AcmeOrder for any number of orders, names, accounts and    *)
(* workers, any lifetimes and any number of faults.                        *)
(***************************************************************************)
EXTENDS AcmeOrder, TLAPS

(* The default job of an idle worker, used by Finish, is a job.            *)
LEMMA NoJobType == NoJob \in Jobs
<1>1. AnyOf(Orders) \in Orders
  BY NonEmptyAssumption DEF AnyOf
<1>2. AnyOf(Accounts) \in Accounts
  BY NonEmptyAssumption DEF AnyOf
<1>3. Challenges # {}
  <2> PICK n \in Names : TRUE
    BY NonEmptyAssumption
  <2>1. <<n, "dns-01">> \in Challenges
    BY DEF Challenges, ChallengeTypes
  <2> QED
    BY <2>1
<1>4. AnyOf(Challenges) \in Challenges
  BY <1>3 DEF AnyOf
<1> QED
  BY <1>1, <1>2, <1>4 DEF NoJob, Jobs

(* The entry that audit.record writes for a worker is an audit entry.      *)
LEMMA AuditEventType ==
    ASSUME TypeOK, NEW w \in Workers, pc[w] \in Logging
    PROVE  AuditEvent(w) \in Events
<1>1. job[w].order \in Orders /\ job[w].chal \in Challenges
  BY DEF TypeOK, Jobs
<1>2. CASE pc[w] = "logOrder"
  BY <1>1, <1>2 DEF AuditEvent, Events, At
<1>3. CASE pc[w] = "logCertificate"
  BY <1>1, <1>3 DEF AuditEvent, Events, At
<1>4. CASE pc[w] = "logValidated"
  BY <1>1, <1>4 DEF AuditEvent, Events, At
<1>5. CASE pc[w] = "logFailed"
  BY <1>1, <1>5 DEF AuditEvent, Events, At
<1> QED
  BY <1>2, <1>3, <1>4, <1>5 DEF Logging

(* Every action keeps every variable within its type.                      *)
LEMMA TypeStep == TypeOK /\ [Next]_vars => TypeOK'
<1> SUFFICES ASSUME TypeOK, [Next]_vars PROVE TypeOK'
  OBVIOUS
<1> USE NoJobType DEF TypeOK, rows, Goto, GotoWith, Finish, At, Steps
<1>1. ASSUME NEW w \in Workers, NEW o \in Orders, NEW ns \in SUBSET Names, create_order(w, o, ns)
      PROVE  TypeOK'
  BY <1>1 DEF create_order, Jobs, OrderStatuses, AuthzStatuses, ChallengeStatuses
<1>2. ASSUME NEW w \in Workers, ReadAuthz(w) PROVE TypeOK'
  BY <1>2 DEF ReadAuthz
<1>3. ASSUME NEW w \in Workers, begin_challenge(w) PROVE TypeOK'
  <2> DEFINE o == job[w].order
             c == job[w].chal
  <2>1. o \in Orders /\ c \in Challenges
    BY DEF Jobs
  <2>2. CASE chal[o][c] = "pending"
    <3>1. chal' = [chal EXCEPT ![o][c] = "processing"] /\ Goto(w, "attempt")
      BY <1>3, <2>2 DEF begin_challenge
    <3> QED
      BY <1>3, <2>1, <3>1 DEF begin_challenge, ChallengeStatuses
  <2>3. CASE chal[o][c] # "pending"
    BY <1>3, <2>3 DEF begin_challenge
  <2> QED
    BY <2>2, <2>3
<1>4. ASSUME NEW w \in Workers, _attempt_validation(w) PROVE TypeOK'
  BY <1>4 DEF _attempt_validation
<1>5. ASSUME NEW w \in Workers, record_challenge_success(w) PROVE TypeOK'
  BY <1>5 DEF record_challenge_success, Jobs, Challenges, ChallengeStatuses, AuthzStatuses
<1>6. ASSUME NEW w \in Workers, record_challenge_failure(w) PROVE TypeOK'
  BY <1>6 DEF record_challenge_failure, Jobs, ChallengeStatuses
<1>7. ASSUME NEW w \in Workers, NEW csrNames \in SUBSET Names, ReadAuthzs(w, csrNames) PROVE TypeOK'
  <2>1. [job[w] EXCEPT !.asked = now] \in Jobs
    BY DEF Jobs
  <2>2. pc' \in [Workers -> Steps] /\ job' \in [Workers -> Jobs]
    BY <1>7, <2>1 DEF ReadAuthzs
  <2> QED
    BY <1>7, <2>2 DEF ReadAuthzs
<1>8. ASSUME NEW w \in Workers, claim_for_issuance(w) PROVE TypeOK'
  <2>1. job[w].order \in Orders
    BY DEF Jobs
  <2>2. pc' \in [Workers -> Steps] /\ job' \in [Workers -> Jobs]
    BY <1>8 DEF claim_for_issuance
  <2>3. order' \in [Orders -> OrderStatuses]
    BY <1>8, <2>1 DEF claim_for_issuance, OrderStatuses
  <2> QED
    BY <1>8, <2>2, <2>3 DEF claim_for_issuance
<1>9. ASSUME NEW w \in Workers, ResolveIssuer(w) PROVE TypeOK'
  BY <1>9 DEF ResolveIssuer
<1>10. ASSUME NEW w \in Workers, SignAndStore(w) PROVE TypeOK'
  <2>1. [job[w] EXCEPT !.cert = nextCert] \in Jobs
    BY DEF Jobs
  <2>2. pc' \in [Workers -> Steps] /\ job' \in [Workers -> Jobs]
    BY <1>10, <2>1 DEF SignAndStore
  <2>3. certs' \subseteq Certificates /\ nextCert' \in Nat \ {0}
    BY <1>10 DEF SignAndStore, Jobs, Certificates
  <2> QED
    BY <1>10, <2>2, <2>3 DEF SignAndStore
<1>11. ASSUME NEW w \in Workers, IssueFails(w) PROVE TypeOK'
  BY <1>11 DEF IssueFails
<1>12. ASSUME NEW w \in Workers, release_claim(w) PROVE TypeOK'
  BY <1>12 DEF release_claim, Jobs, OrderStatuses
<1>13. ASSUME NEW w \in Workers, attach_certificate(w) PROVE TypeOK'
  BY <1>13 DEF attach_certificate, Jobs, OrderStatuses
<1>14. ASSUME NEW w \in Workers, record(w) PROVE TypeOK'
  <2>1. AuditEvent(w) \in Events
    BY <1>14, AuditEventType DEF record
  <2> QED
    BY <1>14, <2>1 DEF record
<1>15. ASSUME NEW w \in Workers, Abort(w) PROVE TypeOK'
  BY <1>15 DEF Abort
<1>16. ASSUME NEW w \in Workers, NEW a \in Accounts, new_order(w, a) PROVE TypeOK'
  BY <1>16 DEF new_order, Verified, Jobs
<1>17. ASSUME NEW w \in Workers, NEW a \in Accounts, NEW o \in Orders, NEW c \in Challenges,
              challenge_resource(w, a, o, c)
       PROVE  TypeOK'
  BY <1>17 DEF challenge_resource, Verified, Jobs
<1>18. ASSUME NEW w \in Workers, NEW a \in Accounts, NEW o \in Orders, finalize_order(w, a, o)
       PROVE  TypeOK'
  BY <1>18 DEF finalize_order, Verified, Jobs
<1>19. ASSUME NEW a \in Accounts, deactivate_account(a) PROVE TypeOK'
  BY <1>19 DEF deactivate_account
<1>20. ASSUME NEW a \in Accounts, RetireIssuer(a) PROVE TypeOK'
  BY <1>20 DEF RetireIssuer
<1>21. CASE Tick
  BY <1>21 DEF Tick
<1>22. CASE Crash
  BY <1>22 DEF Crash
<1>23. CASE UNCHANGED vars
  BY <1>23 DEF vars
<1> QED
  BY <1>1, <1>2, <1>3, <1>4, <1>5, <1>6, <1>7, <1>8, <1>9, <1>10, <1>11, <1>12, <1>13, <1>14,
     <1>15, <1>16, <1>17, <1>18, <1>19, <1>20, <1>21, <1>22, <1>23
     DEF Next, Continue, Accept

(* Type correctness: no interleaving of handlers, crash or failed commit   *)
(* puts a value into a row that its column cannot hold.                    *)
THEOREM TypeCorrect == Spec => []TypeOK
<1>1. Init => TypeOK
  <2> SUFFICES ASSUME Init PROVE TypeOK
    OBVIOUS
  <2>1. AnyOf(Accounts) \in Accounts
    BY NonEmptyAssumption DEF AnyOf
  <2> QED
    BY <2>1, NoJobType DEF Init, TypeOK, OrderStatuses, AuthzStatuses, ChallengeStatuses, Steps
<1> QED
  BY <1>1, TypeStep, PTL DEF Spec

-----------------------------------------------------------------------------
(* The claim protocol of finalize.  OneCertificatePerOrder is not          *)
(* inductive: it rests on the claim being held by one worker at a time, on *)
(* the order row staying processing while it is held, and on no            *)
(* certificate existing before the holder has signed.                      *)

ClaimInv ==
    /\ \A w \in Workers : pc[w] \in Holding =>
         order[job[w].order] = "processing" /\ certId[job[w].order] = 0
    /\ \A v, w \in Workers :
         pc[v] \in Holding /\ pc[w] \in Holding /\ job[v].order = job[w].order => v = w
    /\ \A w \in Workers : pc[w] \in Holding \ {"attach"} =>
         \A c \in certs : c.order # job[w].order
    /\ \A w \in Workers : pc[w] = "attach" =>
         \E c \in certs : c.id = job[w].cert /\ c.order = job[w].order
    /\ \A c \in certs : order[c.order] \in {"processing", "valid"}
    /\ OneCertificatePerOrder

(* A step that changes no order, certificate or claim keeps ClaimInv.      *)
LEMMA ClaimQuiet ==
    ASSUME ClaimInv, UNCHANGED <<order, certs, certId>>,
           \A w \in Workers : pc'[w] \in Holding => pc[w] = pc'[w] /\ job'[w] = job[w]
    PROVE  ClaimInv'
BY DEF ClaimInv, OneCertificatePerOrder, Holding

(* Every action keeps ClaimInv: only claim_for_issuance takes a claim, and *)
(* only from an order that is neither processing nor certified.            *)
LEMMA ClaimStep == TypeOK /\ ClaimInv /\ [Next]_vars => ClaimInv'
<1> SUFFICES ASSUME TypeOK, ClaimInv, [Next]_vars PROVE ClaimInv'
  OBVIOUS
<1> USE DEF rows, Goto, GotoWith, Finish, At
<1>1. ASSUME NEW w \in Workers, NEW o \in Orders, NEW ns \in SUBSET Names, create_order(w, o, ns)
      PROVE  ClaimInv'
  <2>1. order' = [order EXCEPT ![o] = "pending"] /\ order[o] = "none"
    BY <1>1 DEF create_order
  <2>2. \A v \in Workers : pc'[v] \in Holding => pc[v] = pc'[v] /\ job'[v] = job[v]
    BY <1>1 DEF create_order, TypeOK, Holding
  <2>3. UNCHANGED <<certs, certId>>
    BY <1>1 DEF create_order
  <2>4. \A p \in Orders : order[p] \in {"processing", "valid"} => order'[p] = order[p]
    BY <2>1 DEF TypeOK
  <2>5. \A v \in Workers : job[v].order \in Orders
    BY DEF TypeOK, Jobs
  <2>6. \A c \in certs : c.order \in Orders
    BY DEF TypeOK, Certificates
  <2> QED
    BY <2>2, <2>3, <2>4, <2>5, <2>6 DEF ClaimInv, OneCertificatePerOrder, Holding
<1>2. ASSUME NEW w \in Workers,
             ReadAuthz(w) \/ begin_challenge(w) \/ _attempt_validation(w)
               \/ record_challenge_success(w) \/ record_challenge_failure(w) \/ record(w) \/ Abort(w)
      PROVE  ClaimInv'
  <2>1. UNCHANGED <<order, certs, certId>>
    BY <1>2 DEF ReadAuthz, begin_challenge, _attempt_validation, record_challenge_success,
                record_challenge_failure, record, Abort
  <2>2. \A v \in Workers : pc'[v] \in Holding => pc[v] = pc'[v] /\ job'[v] = job[v]
    BY <1>2 DEF ReadAuthz, begin_challenge, _attempt_validation, record_challenge_success,
                record_challenge_failure, record, Abort, TypeOK, Holding
  <2> QED
    BY <2>1, <2>2, ClaimQuiet
<1>3. ASSUME NEW w \in Workers, NEW csrNames \in SUBSET Names, ReadAuthzs(w, csrNames) PROVE ClaimInv'
  <2>1. UNCHANGED <<order, certs, certId>>
    BY <1>3 DEF ReadAuthzs
  <2>2. \A v \in Workers : pc'[v] \in Holding => pc[v] = pc'[v] /\ job'[v] = job[v]
    BY <1>3 DEF ReadAuthzs, TypeOK, Holding
  <2> QED
    BY <2>1, <2>2, ClaimQuiet
<1>4. ASSUME NEW w \in Workers, claim_for_issuance(w) PROVE ClaimInv'
  <2> DEFINE o == job[w].order
  <2>1. CASE certId[o] = 0 /\ order[o] \in {"pending", "ready"}
    <3>1. /\ order' = [order EXCEPT ![o] = "processing"]
          /\ pc' = [pc EXCEPT ![w] = "resolve"]
          /\ UNCHANGED <<job, certs, certId>>
      BY <1>4, <2>1 DEF claim_for_issuance
    <3>2. o \in Orders
      BY DEF TypeOK, Jobs
    <3>3. \A c \in certs : c.order # o
      BY <2>1 DEF ClaimInv
    <3>4. \A v \in Workers : pc[v] \in Holding => job[v].order # o
      BY <2>1 DEF ClaimInv
    <3> QED
      BY <2>1, <3>1, <3>2, <3>3, <3>4
         DEF ClaimInv, OneCertificatePerOrder, Holding, TypeOK, Certificates
  <2>2. CASE ~ (certId[o] = 0 /\ order[o] \in {"pending", "ready"})
    <3>1. Finish(w) /\ UNCHANGED <<order, certs, certId>>
      BY <1>4, <2>2 DEF claim_for_issuance
    <3>2. \A v \in Workers : pc'[v] \in Holding => pc[v] = pc'[v] /\ job'[v] = job[v]
      BY <3>1 DEF TypeOK, Holding
    <3> QED
      BY <3>1, <3>2, ClaimQuiet
  <2> QED
    BY <2>1, <2>2
<1>5. ASSUME NEW w \in Workers, ResolveIssuer(w) \/ IssueFails(w) PROVE ClaimInv'
  <2>1. UNCHANGED <<order, certs, certId, job>>
    BY <1>5 DEF ResolveIssuer, IssueFails
  <2>2. pc[w] \in Holding \ {"attach"} /\ pc'[w] \in Holding \ {"attach"}
    BY <1>5 DEF ResolveIssuer, IssueFails, TypeOK, Holding
  <2>3. \A v \in Workers : v # w => pc'[v] = pc[v]
    BY <1>5 DEF ResolveIssuer, IssueFails, TypeOK
  <2> QED
    BY <2>1, <2>2, <2>3 DEF ClaimInv, OneCertificatePerOrder, Holding
<1>6. ASSUME NEW w \in Workers, SignAndStore(w) PROVE ClaimInv'
  <2> DEFINE new == [id |-> nextCert, order |-> job[w].order, asked |-> job[w].asked]
  <2>1. /\ certs' = certs \cup {new}
        /\ pc[w] = "sign"
        /\ pc' = [pc EXCEPT ![w] = "attach"]
        /\ job' = [job EXCEPT ![w] = [job[w] EXCEPT !.cert = nextCert]]
        /\ UNCHANGED <<order, certId>>
    BY <1>6 DEF SignAndStore
  <2>2. job'[w].order = job[w].order /\ job'[w].cert = nextCert
    BY <2>1 DEF TypeOK, Jobs
  <2>3. \A v \in Workers : v # w => pc'[v] = pc[v] /\ job'[v] = job[v]
    BY <2>1 DEF TypeOK
  <2>4. new.id = nextCert /\ new.order = job[w].order
    OBVIOUS
  <2>5. \A c \in certs : c.order # job[w].order
    BY <2>1 DEF ClaimInv, Holding
  <2>6. pc[w] \in Holding /\ pc'[w] = "attach"
    BY <2>1 DEF TypeOK, Holding
  <2>7. order[job[w].order] = "processing" /\ certId[job[w].order] = 0
    BY <2>6 DEF ClaimInv
  <2>8. \A v \in Workers : v # w /\ pc[v] \in Holding => job[v].order # job[w].order
    BY <2>6 DEF ClaimInv
  <2>9. OneCertificatePerOrder'
    BY <2>1, <2>4, <2>5 DEF ClaimInv, OneCertificatePerOrder
  <2> HIDE DEF new
  <2>10. /\ \A v \in Workers : pc'[v] \in Holding =>
              order'[job'[v].order] = "processing" /\ certId'[job'[v].order] = 0
         /\ \A u, v \in Workers :
              pc'[u] \in Holding /\ pc'[v] \in Holding /\ job'[u].order = job'[v].order => u = v
    BY <2>1, <2>2, <2>3, <2>7, <2>8 DEF ClaimInv
  <2>11. \A v \in Workers : pc'[v] \in Holding \ {"attach"} =>
              \A c \in certs' : c.order # job'[v].order
    BY <2>1, <2>2, <2>3, <2>4, <2>6, <2>8 DEF ClaimInv
  <2>12. \A v \in Workers : pc'[v] = "attach" =>
              \E c \in certs' : c.id = job'[v].cert /\ c.order = job'[v].order
    BY <2>1, <2>2, <2>3, <2>4 DEF ClaimInv
  <2>13. \A c \in certs' : order'[c.order] \in {"processing", "valid"}
    BY <2>1, <2>4, <2>7 DEF ClaimInv
  <2> QED
    BY <2>9, <2>10, <2>11, <2>12, <2>13 DEF ClaimInv
<1>7. ASSUME NEW w \in Workers, release_claim(w) PROVE ClaimInv'
  <2>1. /\ pc[w] = "release"
        /\ order' = [order EXCEPT ![job[w].order] = "pending"]
        /\ Finish(w) /\ UNCHANGED <<certs, certId>>
    BY <1>7 DEF release_claim
  <2>2. \A c \in certs : c.order # job[w].order
    BY <2>1 DEF ClaimInv, Holding
  <2>3. \A v \in Workers : v # w /\ pc[v] \in Holding => job[v].order # job[w].order
    BY <2>1 DEF ClaimInv, Holding
  <2>4. \A v \in Workers : pc'[v] \in Holding => v # w /\ pc[v] = pc'[v] /\ job'[v] = job[v]
    BY <2>1 DEF TypeOK, Holding
  <2>5. job[w].order \in Orders /\ certId[job[w].order] = 0
    BY <2>1 DEF ClaimInv, Holding, TypeOK, Jobs
  <2> QED
    BY <2>1, <2>2, <2>3, <2>4, <2>5
       DEF ClaimInv, OneCertificatePerOrder, Holding, TypeOK, Certificates, Jobs
<1>8. ASSUME NEW w \in Workers, attach_certificate(w) PROVE ClaimInv'
  <2>1. /\ pc[w] = "attach"
        /\ certId' = [certId EXCEPT ![job[w].order] = job[w].cert]
        /\ order' = [order EXCEPT ![job[w].order] = "valid"]
        /\ Goto(w, "logCertificate") /\ UNCHANGED certs
    BY <1>8 DEF attach_certificate
  <2>2. \E c \in certs : c.id = job[w].cert /\ c.order = job[w].order
    BY <2>1 DEF ClaimInv
  <2>3. \A v \in Workers : v # w /\ pc[v] \in Holding => job[v].order # job[w].order
    BY <2>1 DEF ClaimInv, Holding
  <2>4. \A v \in Workers : pc'[v] \in Holding => v # w /\ pc[v] = pc'[v] /\ job'[v] = job[v]
    BY <2>1 DEF TypeOK, Holding
  <2>5. job[w].order \in Orders
    BY DEF TypeOK, Jobs
  <2> QED
    BY <2>1, <2>2, <2>3, <2>4, <2>5
       DEF ClaimInv, OneCertificatePerOrder, Holding, TypeOK, Certificates, Jobs
<1>9. ASSUME NEW w \in Workers, NEW a \in Accounts, Accept(w, a) PROVE ClaimInv'
  <2>1. UNCHANGED <<order, certs, certId>>
    BY <1>9 DEF Accept, new_order, challenge_resource, finalize_order
  <2>2. \A v \in Workers : pc'[v] \in Holding => pc[v] = pc'[v] /\ job'[v] = job[v]
    BY <1>9 DEF Accept, new_order, challenge_resource, finalize_order, TypeOK, Holding
  <2> QED
    BY <2>1, <2>2, ClaimQuiet
<1>10. ASSUME NEW a \in Accounts, deactivate_account(a) \/ RetireIssuer(a) PROVE ClaimInv'
  BY <1>10, ClaimQuiet DEF deactivate_account, RetireIssuer
<1>11. CASE Tick
  BY <1>11, ClaimQuiet DEF Tick
<1>12. CASE Crash
  BY <1>12, ClaimQuiet DEF Crash, Holding
<1>13. CASE UNCHANGED vars
  BY <1>13, ClaimQuiet DEF vars
<1> QED
  BY <1>1, <1>2, <1>3, <1>4, <1>5, <1>6, <1>7, <1>8, <1>9, <1>10, <1>11, <1>12, <1>13
     DEF Next, Continue

(* ClaimInv is an invariant of the specification.                          *)
LEMMA ClaimInvariant == Spec => []ClaimInv
<1>1. Init => ClaimInv
  BY DEF Init, ClaimInv, OneCertificatePerOrder, Holding
<1> QED
  BY <1>1, TypeCorrect, ClaimStep, PTL DEF Spec

(* However finalize requests race, fail, retry or die, an order never gets *)
(* a second certificate, and the certificate it names is its own.          *)
THEOREM OneCertificate == Spec => []OneCertificatePerOrder
<1>1. ClaimInv => OneCertificatePerOrder
  BY DEF ClaimInv
<1> QED
  BY <1>1, ClaimInvariant, PTL

-----------------------------------------------------------------------------
(* The trigger protocol of a challenge.  ProofStands rests on a validation *)
(* attempt being the only one for its challenge, and on the challenge      *)
(* staying processing until that attempt records a result.                 *)

Validating == {"attempt", "record"}

SameTarget(v, w) == job[v].order = job[w].order /\ job[v].chal = job[w].chal

ChalInv ==
    /\ \A w \in Workers : pc[w] \in Validating => chal[job[w].order][job[w].chal] = "processing"
    /\ \A v, w \in Workers :
         pc[v] \in Validating /\ pc[w] \in Validating /\ SameTarget(v, w) => v = w
    /\ \A o \in Orders, c \in Challenges :
         chal[o][c] # "none" => order[o] # "none" /\ c \in ChallengesOf(names[o])
    /\ ProofStands

(* A step that changes neither challenges nor attempts keeps ChalInv.      *)
LEMMA ChalQuiet ==
    ASSUME ChalInv, UNCHANGED <<chal, authz, names>>,
           \A o \in Orders : order[o] # "none" => order'[o] # "none",
           \A w \in Workers : pc'[w] \in Validating => pc[w] \in Validating /\ job'[w] = job[w]
    PROVE  ChalInv'
<1>1. \A w \in Workers : pc'[w] \in Validating => chal'[job'[w].order][job'[w].chal] = "processing"
  BY DEF ChalInv
<1>2. \A v, w \in Workers :
         pc'[v] \in Validating /\ pc'[w] \in Validating /\ SameTarget(v, w)' => v = w
  BY DEF ChalInv, SameTarget
<1>3. \A o \in Orders, c \in Challenges :
         chal'[o][c] # "none" => order'[o] # "none" /\ c \in ChallengesOf(names[o])'
  BY DEF ChalInv, ChallengesOf
<1>4. ProofStands'
  BY DEF ChalInv, ProofStands
<1> QED
  BY <1>1, <1>2, <1>3, <1>4 DEF ChalInv

(* Every action keeps ChalInv: a challenge in processing has one attempt   *)
(* at most, and its result is recorded together with its authorization's.  *)
LEMMA ChalStep == TypeOK /\ ChalInv /\ [Next]_vars => ChalInv'
<1> SUFFICES ASSUME TypeOK, ChalInv, [Next]_vars PROVE ChalInv'
  OBVIOUS
<1> USE DEF rows, Goto, GotoWith, Finish, At
<1>0. /\ \A w \in Workers : job[w].order \in Orders /\ job[w].chal \in Challenges
      /\ \A c \in Challenges : c[1] \in Names /\ c[2] \in ChallengeTypes /\ c = <<c[1], c[2]>>
      /\ \A n \in Names, t \in ChallengeTypes : <<n, t>> \in Challenges
  BY DEF TypeOK, Jobs, Challenges
<1>1. ASSUME NEW w \in Workers, NEW o \in Orders, NEW ns \in SUBSET Names, create_order(w, o, ns)
      PROVE  ChalInv'
  <2>1. /\ order[o] = "none"
        /\ order' = [order EXCEPT ![o] = "pending"]
        /\ names' = [names EXCEPT ![o] = ns]
        /\ authz' = [authz EXCEPT ![o] = [n \in Names |-> IF n \in ns THEN "pending" ELSE "none"]]
        /\ chal' = [chal EXCEPT ![o] =
             [c \in Challenges |-> IF c \in ChallengesOf(ns) THEN "pending" ELSE "none"]]
    BY <1>1 DEF create_order
  <2>2. \A v \in Workers : pc'[v] \in Validating => pc[v] = pc'[v] /\ job'[v] = job[v]
    BY <1>1 DEF create_order, TypeOK, Validating
  <2>3. \A v \in Workers : pc[v] \in Validating => job[v].order # o
    BY <1>0, <2>1 DEF ChalInv
  <2>4. \A p \in Orders : p # o => /\ chal'[p] = chal[p] /\ authz'[p] = authz[p]
                                  /\ names'[p] = names[p] /\ order'[p] = order[p]
    BY <2>1 DEF TypeOK
  <2>5. /\ \A c \in Challenges : chal'[o][c] = IF c \in ChallengesOf(ns) THEN "pending" ELSE "none"
        /\ \A n \in Names : authz'[o][n] = IF n \in ns THEN "pending" ELSE "none"
        /\ names'[o] = ns /\ order'[o] = "pending"
    BY <2>1 DEF TypeOK
  <2>6. ProofStands'
    <3>1. \A n \in Names : /\ authz'[o][n] # "valid"
                           /\ \A t \in ChallengeTypes : chal'[o][<<n, t>>] # "valid"
      BY <1>0, <2>5
    <3>2. \A p \in Orders, n \in Names, t \in ChallengeTypes :
            p # o => authz'[p][n] = authz[p][n] /\ chal'[p][<<n, t>>] = chal[p][<<n, t>>]
      BY <2>4
    <3>3. ASSUME NEW p \in Orders, NEW n \in Names
          PROVE  authz'[p][n] = "valid" <=> \E t \in ChallengeTypes : chal'[p][<<n, t>>] = "valid"
      <4>1. CASE p = o
        BY <3>1, <4>1
      <4>2. CASE p # o
        <5>1. authz'[p][n] = authz[p][n]
          BY <2>4, <4>2
        <5>2. \A t \in ChallengeTypes : chal'[p][<<n, t>>] = chal[p][<<n, t>>]
          BY <3>2, <4>2
        <5> QED
          BY <5>1, <5>2 DEF ChalInv, ProofStands
      <4> QED
        BY <4>1, <4>2
    <3> QED
      BY <3>3 DEF ProofStands
  <2>7. \A p \in Orders, c \in Challenges :
          chal'[p][c] # "none" => order'[p] # "none" /\ c \in ChallengesOf(names[p])'
    BY <2>4, <2>5 DEF ChalInv, ChallengesOf
  <2> QED
    BY <1>0, <2>2, <2>3, <2>4, <2>6, <2>7 DEF ChalInv, SameTarget
<1>2. ASSUME NEW w \in Workers, ReadAuthz(w) \/ _attempt_validation(w) \/ ResolveIssuer(w)
                                 \/ SignAndStore(w) \/ IssueFails(w) \/ record(w) \/ Abort(w)
      PROVE  ChalInv'
  <2>1. UNCHANGED <<chal, authz, names, order>>
    BY <1>2 DEF ReadAuthz, _attempt_validation, ResolveIssuer, SignAndStore, IssueFails, record, Abort
  <2>2. \A v \in Workers : pc'[v] \in Validating => pc[v] \in Validating /\ job'[v] = job[v]
    BY <1>2 DEF ReadAuthz, _attempt_validation, ResolveIssuer, SignAndStore, IssueFails, record,
                Abort, TypeOK, Validating
  <2> QED
    BY <2>1, <2>2, ChalQuiet
<1>3. ASSUME NEW w \in Workers, claim_for_issuance(w) \/ release_claim(w) \/ attach_certificate(w)
      PROVE  ChalInv'
  <2>1. UNCHANGED <<chal, authz, names>>
    BY <1>3 DEF claim_for_issuance, release_claim, attach_certificate
  <2>2. \A o \in Orders : order[o] # "none" => order'[o] # "none"
    BY <1>0, <1>3 DEF claim_for_issuance, release_claim, attach_certificate, TypeOK
  <2>3. \A v \in Workers : pc'[v] \in Validating => pc[v] \in Validating /\ job'[v] = job[v]
    BY <1>3 DEF claim_for_issuance, release_claim, attach_certificate, TypeOK, Validating
  <2> QED
    BY <2>1, <2>2, <2>3, ChalQuiet
<1>4. ASSUME NEW w \in Workers, NEW csrNames \in SUBSET Names, ReadAuthzs(w, csrNames) PROVE ChalInv'
  <2>1. UNCHANGED <<chal, authz, names, order>>
    BY <1>4 DEF ReadAuthzs
  <2>2. \A v \in Workers : pc'[v] \in Validating => pc[v] \in Validating /\ job'[v] = job[v]
    BY <1>4 DEF ReadAuthzs, TypeOK, Validating
  <2> QED
    BY <2>1, <2>2, ChalQuiet
<1>5. ASSUME NEW w \in Workers, begin_challenge(w) PROVE ChalInv'
  <2> DEFINE o == job[w].order
             c == job[w].chal
  <2>1. CASE chal[o][c] = "pending"
    <3>1. /\ chal' = [chal EXCEPT ![o][c] = "processing"]
          /\ pc' = [pc EXCEPT ![w] = "attempt"]
          /\ UNCHANGED <<job, authz, names, order>>
      BY <1>5, <2>1 DEF begin_challenge
    <3>2. \A p \in Orders, d \in Challenges :
            chal'[p][d] = IF p = o /\ d = c THEN "processing" ELSE chal[p][d]
      BY <1>0, <3>1 DEF TypeOK
    <3>3. \A v \in Workers : pc'[v] = IF v = w THEN "attempt" ELSE pc[v]
      BY <3>1 DEF TypeOK
    <3>4. \A v \in Workers : pc[v] \in Validating => ~ SameTarget(v, w)
      BY <2>1 DEF ChalInv, SameTarget
    <3>5. \A v \in Workers : pc'[v] \in Validating =>
            chal'[job'[v].order][job'[v].chal] = "processing"
      BY <1>0, <3>1, <3>2, <3>3 DEF ChalInv
    <3>6. \A u, v \in Workers :
            pc'[u] \in Validating /\ pc'[v] \in Validating /\ SameTarget(u, v)' => u = v
      BY <3>1, <3>3, <3>4 DEF ChalInv, SameTarget
    <3>7. \A p \in Orders, d \in Challenges :
            chal'[p][d] # "none" => order'[p] # "none" /\ d \in ChallengesOf(names[p])'
      BY <1>0, <2>1, <3>1, <3>2 DEF ChalInv, ChallengesOf
    <3>8. ProofStands'
      <4>1. \A p \in Orders, d \in Challenges : (chal'[p][d] = "valid") <=> (chal[p][d] = "valid")
        BY <2>1, <3>2
      <4> QED
        BY <1>0, <3>1, <4>1 DEF ChalInv, ProofStands
    <3> QED
      BY <3>5, <3>6, <3>7, <3>8 DEF ChalInv
  <2>2. CASE chal[o][c] # "pending"
    <3>1. Finish(w) /\ UNCHANGED <<chal, authz, names, order>>
      BY <1>5, <2>2 DEF begin_challenge
    <3>2. \A v \in Workers : pc'[v] \in Validating => pc[v] \in Validating /\ job'[v] = job[v]
      BY <3>1 DEF TypeOK, Validating
    <3> QED
      BY <3>1, <3>2, ChalQuiet
  <2> QED
    BY <2>1, <2>2
<1>6. ASSUME NEW w \in Workers, record_challenge_success(w) \/ record_challenge_failure(w) PROVE ChalInv'
  <2> DEFINE o == job[w].order
             c == job[w].chal
  <2>1. pc[w] = "record" /\ chal[o][c] = "processing" /\ o \in Orders /\ c \in Challenges
    BY <1>0, <1>6 DEF record_challenge_success, record_challenge_failure, ChalInv, Validating
  <2>2. UNCHANGED <<job, names, order>>
    BY <1>6 DEF record_challenge_success, record_challenge_failure
  <2>3. \A v \in Workers : pc'[v] \in Validating => v # w /\ pc'[v] = pc[v]
    BY <1>6 DEF record_challenge_success, record_challenge_failure, TypeOK, Validating
  <2>4. \A v \in Workers : v # w /\ pc[v] \in Validating => ~ SameTarget(v, w)
    BY <2>1 DEF ChalInv, Validating
  <2>5. \A p \in Orders, d \in Challenges : ~ (p = o /\ d = c) => chal'[p][d] = chal[p][d]
    BY <1>0, <1>6 DEF record_challenge_success, record_challenge_failure, TypeOK
  <2>6. ProofStands'
    <3>1. CASE record_challenge_success(w)
      <4>1. chal'[o][c] = "valid"
        BY <2>1, <3>1 DEF record_challenge_success, TypeOK
      <4>2. \A p \in Orders, n \in Names :
              authz'[p][n] = IF p = o /\ n = c[1] THEN "valid" ELSE authz[p][n]
        BY <1>0, <2>1, <3>1 DEF record_challenge_success, TypeOK
      <4>3. \A p \in Orders, n \in Names, t \in ChallengeTypes :
              ~ (p = o /\ n = c[1] /\ t = c[2]) => chal'[p][<<n, t>>] = chal[p][<<n, t>>]
        BY <1>0, <2>1, <2>5
      <4>4. chal'[o][<<c[1], c[2]>>] = "valid" /\ c[1] \in Names /\ c[2] \in ChallengeTypes
        BY <1>0, <2>1, <4>1
      <4> QED
        BY <2>1, <4>2, <4>3, <4>4 DEF ChalInv, ProofStands
    <3>2. CASE record_challenge_failure(w)
      <4>1. chal'[o][c] = "invalid" /\ authz' = authz
        BY <2>1, <3>2 DEF record_challenge_failure, TypeOK
      <4>2. \A p \in Orders, d \in Challenges : (chal'[p][d] = "valid") <=> (chal[p][d] = "valid")
        BY <2>1, <2>5, <4>1
      <4> QED
        BY <1>0, <4>1, <4>2 DEF ChalInv, ProofStands
    <3> QED
      BY <1>6, <3>1, <3>2
  <2>7. \A p \in Orders, d \in Challenges :
          chal'[p][d] # "none" => order'[p] # "none" /\ d \in ChallengesOf(names[p])'
    BY <2>1, <2>2, <2>5 DEF ChalInv, ChallengesOf
  <2>8. \A v \in Workers : pc'[v] \in Validating =>
          chal'[job'[v].order][job'[v].chal] = "processing"
    BY <1>0, <2>2, <2>3, <2>4, <2>5 DEF ChalInv, SameTarget
  <2>9. \A u, v \in Workers :
          pc'[u] \in Validating /\ pc'[v] \in Validating /\ SameTarget(u, v)' => u = v
    BY <2>2, <2>3 DEF ChalInv, SameTarget
  <2> QED
    BY <2>6, <2>7, <2>8, <2>9 DEF ChalInv
<1>7. ASSUME NEW w \in Workers, NEW a \in Accounts, Accept(w, a) PROVE ChalInv'
  <2>1. UNCHANGED <<chal, authz, names, order>>
    BY <1>7 DEF Accept, new_order, challenge_resource, finalize_order
  <2>2. \A v \in Workers : pc'[v] \in Validating => pc[v] \in Validating /\ job'[v] = job[v]
    BY <1>7 DEF Accept, new_order, challenge_resource, finalize_order, TypeOK, Validating
  <2> QED
    BY <2>1, <2>2, ChalQuiet
<1>8. ASSUME NEW a \in Accounts, deactivate_account(a) \/ RetireIssuer(a) PROVE ChalInv'
  BY <1>8, ChalQuiet DEF deactivate_account, RetireIssuer
<1>9. CASE Tick
  BY <1>9, ChalQuiet DEF Tick
<1>10. CASE Crash
  BY <1>10, ChalQuiet DEF Crash, Validating
<1>11. CASE UNCHANGED vars
  BY <1>11, ChalQuiet DEF vars
<1> QED
  BY <1>1, <1>2, <1>3, <1>4, <1>5, <1>6, <1>7, <1>8, <1>9, <1>10, <1>11 DEF Next, Continue

(* ChalInv is an invariant of the specification.                           *)
LEMMA ChalInvariant == Spec => []ChalInv
<1>1. Init => ChalInv
  <2> SUFFICES ASSUME Init PROVE ChalInv
    OBVIOUS
  <2>1. \A n \in Names, t \in ChallengeTypes : <<n, t>> \in Challenges
    BY DEF Challenges
  <2>2. \A o \in Orders, n \in Names, t \in ChallengeTypes :
          authz[o][n] = "none" /\ chal[o][<<n, t>>] = "none"
    BY <2>1 DEF Init
  <2>3. ProofStands
    BY <2>2 DEF Init, ProofStands
  <2> QED
    BY <2>3 DEF Init, ChalInv, Validating
<1> QED
  BY <1>1, TypeCorrect, ChalStep, PTL DEF Spec

(* An authorization is valid exactly while one of its challenges is.       *)
THEOREM ProofsStand == Spec => []ProofStands
<1>1. ChalInv => ProofStands
  BY DEF ChalInv
<1> QED
  BY <1>1, ChalInvariant, PTL

DecidedKept ==
    \A o \in Orders, c \in Challenges :
        chal[o][c] \in {"valid", "invalid"} => chal'[o][c] = chal[o][c]

(* An attempt only ever records a result for a challenge that is still     *)
(* processing, so a step keeps every decided challenge.                    *)
LEMMA DecidedStays ==
    ASSUME TypeOK, ChalInv, [Next]_vars
    PROVE  DecidedKept
<1> USE DEF DecidedKept, rows, At
<1>0. \A w \in Workers : job[w].order \in Orders /\ job[w].chal \in Challenges
  BY DEF TypeOK, Jobs
<1>1. ASSUME NEW w \in Workers, NEW o \in Orders, NEW ns \in SUBSET Names, create_order(w, o, ns)
      PROVE  DecidedKept
  <2>1. order[o] = "none" /\ \A p \in Orders : p # o => chal'[p] = chal[p]
    BY <1>1 DEF create_order, TypeOK
  <2>2. \A c \in Challenges : chal[o][c] = "none"
    BY <2>1 DEF ChalInv
  <2> QED
    BY <2>1, <2>2
<1>2. ASSUME NEW w \in Workers, begin_challenge(w) PROVE DecidedKept
  <2>1. CASE UNCHANGED chal
    BY <2>1
  <2>2. CASE /\ chal[job[w].order][job[w].chal] = "pending"
             /\ chal' = [chal EXCEPT ![job[w].order][job[w].chal] = "processing"]
    BY <1>0, <2>2 DEF TypeOK
  <2> QED
    BY <1>2, <2>1, <2>2 DEF begin_challenge
<1>3. ASSUME NEW w \in Workers, record_challenge_success(w) \/ record_challenge_failure(w) PROVE DecidedKept
  <2>1. chal[job[w].order][job[w].chal] = "processing"
    BY <1>3 DEF record_challenge_success, record_challenge_failure, ChalInv, Validating
  <2>2. \A p \in Orders, d \in Challenges :
          ~ (p = job[w].order /\ d = job[w].chal) => chal'[p][d] = chal[p][d]
    BY <1>0, <1>3 DEF record_challenge_success, record_challenge_failure, TypeOK
  <2> QED
    BY <2>1, <2>2
<1>4. CASE UNCHANGED chal
  BY <1>4
<1> QED
  BY <1>1, <1>2, <1>3, <1>4
     DEF Next, Continue, Accept, vars, ReadAuthz, _attempt_validation, ReadAuthzs, claim_for_issuance,
         ResolveIssuer, SignAndStore, IssueFails, release_claim, attach_certificate, record, Abort,
         new_order, challenge_resource, finalize_order, deactivate_account, RetireIssuer, Tick, Crash

(* A decided challenge is never decided again.                             *)
THEOREM DecidedChallengesStay == Spec => ChallengeFinal
<1>1. TypeOK /\ ChalInv /\ [Next]_vars => [DecidedKept]_vars
  BY DecidedStays
<1> QED
  BY <1>1, TypeCorrect, ChalInvariant, PTL DEF Spec, ChallengeFinal, DecidedKept

-----------------------------------------------------------------------------
(* What a certificate rests on.  Readiness is read before the claim and    *)
(* never again, so the invariant follows a ready order through the claim   *)
(* to the certificate row.                                                 *)

Proven(o, asked) ==
    /\ order[o] # "none"
    /\ \A n \in names[o] : authz[o][n] = "valid"
    /\ asked < created[o] + OrderLifetime

ProvenInv ==
    /\ \A w \in Workers : pc[w] = "readAuthzs" => order[job[w].order] # "none"
    /\ \A w \in Workers : pc[w] \in Holding \cup {"claim"} => Proven(job[w].order, job[w].asked)
    /\ \A c \in certs : Proven(c.order, c.asked)

(* An order row, once placed, is never deleted.                            *)
LEMMA OrderStays ==
    ASSUME TypeOK, [Next]_vars
    PROVE  \A o \in Orders : order[o] # "none" => order'[o] # "none"
<1> USE DEF rows
<1>0. \A w \in Workers : job[w].order \in Orders
  BY DEF TypeOK, Jobs
<1>1. ASSUME NEW w \in Workers, NEW o \in Orders, NEW ns \in SUBSET Names, create_order(w, o, ns)
      PROVE  \A p \in Orders : order[p] # "none" => order'[p] # "none"
  BY <1>1 DEF create_order, TypeOK
<1>2. ASSUME NEW w \in Workers, claim_for_issuance(w) \/ release_claim(w) \/ attach_certificate(w)
      PROVE  \A p \in Orders : order[p] # "none" => order'[p] # "none"
  BY <1>0, <1>2 DEF claim_for_issuance, release_claim, attach_certificate, TypeOK
<1>3. CASE UNCHANGED order
  BY <1>3
<1> QED
  BY <1>1, <1>2, <1>3
     DEF Next, Continue, Accept, vars, ReadAuthz, begin_challenge, _attempt_validation,
         record_challenge_success, record_challenge_failure, ReadAuthzs, ResolveIssuer, SignAndStore,
         IssueFails, record, Abort, new_order, challenge_resource, finalize_order,
         deactivate_account, RetireIssuer, Tick, Crash

(* No step takes back what Proven says of an order.                        *)
LEMMA ProvenStays ==
    ASSUME TypeOK, [Next]_vars, NEW o \in Orders, NEW asked, Proven(o, asked)
    PROVE  Proven(o, asked)'
<1> USE DEF rows
<1>0. \A w \in Workers : job[w].order \in Orders /\ job[w].chal \in Names \X ChallengeTypes
  BY DEF TypeOK, Jobs, Challenges
<1>1. ASSUME NEW w \in Workers, NEW p \in Orders, NEW ns \in SUBSET Names, create_order(w, p, ns)
      PROVE  Proven(o, asked)'
  <2>1. p # o
    BY <1>1 DEF create_order, Proven
  <2> QED
    BY <1>1, <2>1 DEF create_order, Proven, TypeOK
<1>2. ASSUME NEW w \in Workers, claim_for_issuance(w) \/ release_claim(w) \/ attach_certificate(w)
      PROVE  Proven(o, asked)'
  BY <1>0, <1>2 DEF claim_for_issuance, release_claim, attach_certificate, Proven, TypeOK
<1>3. ASSUME NEW w \in Workers, record_challenge_success(w) PROVE Proven(o, asked)'
  <2>1. \A n \in Names : authz[o][n] = "valid" => authz'[o][n] = "valid"
    BY <1>0, <1>3 DEF record_challenge_success, TypeOK
  <2> QED
    BY <1>3, <2>1 DEF record_challenge_success, Proven, TypeOK
<1>4. CASE UNCHANGED <<order, names, authz, created>>
  BY <1>4 DEF Proven
<1> QED
  BY <1>1, <1>2, <1>3, <1>4
     DEF Next, Continue, Accept, vars, ReadAuthz, begin_challenge, _attempt_validation,
         record_challenge_failure, ReadAuthzs, ResolveIssuer, SignAndStore, IssueFails, record, Abort,
         new_order, challenge_resource, finalize_order, deactivate_account, RetireIssuer, Tick, Crash

(* order_status answers ready: every authorization is valid and neither    *)
(* they nor the order have expired.                                        *)
LEMMA ReadyMeansProven ==
    ASSUME TypeOK, NEW o \in Orders, order[o] # "none", AuthzsReady(o)
    PROVE  Proven(o, now)
<1>1. \A n \in names[o] : authz[o][n] = "valid" /\ ~ (created[o] + AuthzLifetime <= now)
  BY DEF AuthzsReady, authorization_status, _has_expired, TypeOK, AuthzStatuses
<1>2. PICK n \in names[o] : TRUE
  BY DEF AuthzsReady
<1>3. now < created[o] + AuthzLifetime
  BY <1>1, LifetimeAssumption DEF TypeOK
<1>4. now < created[o] + OrderLifetime
  BY <1>3, LifetimeAssumption DEF TypeOK
<1> QED
  BY <1>1, <1>4 DEF Proven

(* Every action keeps ProvenInv: what ReadAuthzs saw of an order still     *)
(* holds of the certificate that is signed later.                          *)
LEMMA ProvenStep == TypeOK /\ ProvenInv /\ [Next]_vars => ProvenInv'
<1> SUFFICES ASSUME TypeOK, ProvenInv, [Next]_vars PROVE ProvenInv'
  OBVIOUS
<1> USE DEF rows, Goto, GotoWith, Finish, At
<1> DEFINE Claiming == Holding \cup {"claim"}
<1>0. /\ \A w \in Workers : job[w] \in Jobs /\ job[w].order \in Orders
      /\ \A c \in certs : c.order \in Orders
  BY DEF TypeOK, Jobs, Certificates
<1>a. \A o \in Orders : order[o] # "none" => order'[o] # "none"
  BY OrderStays
(* Workers other than those at the steps below keep their job.             *)
<1>1. ASSUME \A w \in Workers : pc'[w] = "readAuthzs" => pc[w] = "readAuthzs" /\ job'[w] = job[w],
             \A w \in Workers : pc'[w] \in Claiming =>
                 pc[w] \in Claiming /\ job'[w].order = job[w].order /\ job'[w].asked = job[w].asked,
             certs' = certs
      PROVE  ProvenInv'
  BY <1>0, <1>1, <1>a, ProvenStays DEF ProvenInv
<1>2. ASSUME NEW w \in Workers, NEW csrNames \in SUBSET Names, ReadAuthzs(w, csrNames) PROVE ProvenInv'
  <2> DEFINE o == job[w].order
  <2>1. CASE AuthzsReady(o) /\ csrNames = names[o]
    <3>1. /\ pc[w] = "readAuthzs"
          /\ pc' = [pc EXCEPT ![w] = "claim"]
          /\ job' = [job EXCEPT ![w] = [job[w] EXCEPT !.asked = now]]
          /\ UNCHANGED certs
      BY <1>2, <2>1 DEF ReadAuthzs
    <3>2. Proven(o, now)
      BY <1>0, <2>1, <3>1, ReadyMeansProven DEF ProvenInv
    <3>3. job'[w].order = o /\ job'[w].asked = now
      BY <1>0, <3>1 DEF TypeOK, Jobs
    <3>4. \A v \in Workers : v # w => pc'[v] = pc[v] /\ job'[v] = job[v]
      BY <3>1 DEF TypeOK
    <3>5. pc'[w] = "claim"
      BY <3>1 DEF TypeOK
    <3>6. Proven(job[w].order, job[w].asked)'
      BY <1>2, <3>2, <3>3 DEF ReadAuthzs, Proven
    <3> QED
      BY <1>0, <1>a, <3>1, <3>4, <3>5, <3>6, ProvenStays DEF ProvenInv
  <2>2. CASE ~ (AuthzsReady(o) /\ csrNames = names[o])
    <3>1. Finish(w) /\ UNCHANGED certs
      BY <1>2, <2>2 DEF ReadAuthzs
    <3> QED
      BY <3>1, <1>1 DEF TypeOK, Holding
  <2> QED
    BY <2>1, <2>2
<1>3. ASSUME NEW w \in Workers, claim_for_issuance(w) PROVE ProvenInv'
  BY <1>1, <1>3 DEF claim_for_issuance, TypeOK, Holding
<1>4. ASSUME NEW w \in Workers, ResolveIssuer(w) \/ IssueFails(w) \/ release_claim(w) \/ attach_certificate(w)
      PROVE  ProvenInv'
  BY <1>1, <1>4 DEF ResolveIssuer, IssueFails, release_claim, attach_certificate, TypeOK, Holding
<1>5. ASSUME NEW w \in Workers, SignAndStore(w) PROVE ProvenInv'
  <2> DEFINE new == [id |-> nextCert, order |-> job[w].order, asked |-> job[w].asked]
  <2>1. /\ pc[w] = "sign"
        /\ certs' = certs \cup {new}
        /\ pc' = [pc EXCEPT ![w] = "attach"]
        /\ job' = [job EXCEPT ![w] = [job[w] EXCEPT !.cert = nextCert]]
    BY <1>5 DEF SignAndStore
  <2>2. Proven(job[w].order, job[w].asked)
    BY <2>1 DEF ProvenInv, Holding
  <2>3. job'[w].order = job[w].order /\ job'[w].asked = job[w].asked
    BY <1>0, <2>1 DEF TypeOK, Jobs
  <2>4. \A v \in Workers : v # w => pc'[v] = pc[v] /\ job'[v] = job[v]
    BY <2>1 DEF TypeOK
  <2>5. \A v \in Workers : pc'[v] \in Claiming =>
          pc[v] \in Claiming /\ job'[v].order = job[v].order /\ job'[v].asked = job[v].asked
    BY <2>1, <2>3, <2>4 DEF Holding
  <2>6. \A v \in Workers : pc'[v] = "readAuthzs" => pc[v] = "readAuthzs" /\ job'[v] = job[v]
    BY <2>1, <2>4 DEF TypeOK
  <2>7. \A c \in certs : Proven(c.order, c.asked)'
    BY <1>0, ProvenStays DEF ProvenInv
  <2>8. Proven(job[w].order, job[w].asked) /\ UNCHANGED <<order, names, authz, created>>
    BY <1>5, <2>2 DEF SignAndStore
  <2>9. \A c \in certs' : Proven(c.order, c.asked)'
    BY <1>5, <2>1, <2>7, <2>8 DEF Proven
  <2> QED
    BY <1>0, <1>a, <2>5, <2>6, <2>9, ProvenStays DEF ProvenInv
<1>6. ASSUME NEW w \in Workers, NEW a \in Accounts, NEW o \in Orders, finalize_order(w, a, o)
      PROVE  ProvenInv'
  <2>1. /\ order[o] # "none"
        /\ pc' = [pc EXCEPT ![w] = "readAuthzs"]
        /\ job' = [job EXCEPT ![w] = [NoJob EXCEPT !.account = a, !.order = o]]
        /\ certs' = certs
    BY <1>6 DEF finalize_order, Owned
  <2>2. job'[w].order = o
    BY <2>1, NoJobType DEF TypeOK, Jobs
  <2>3. \A v \in Workers : v # w => pc'[v] = pc[v] /\ job'[v] = job[v]
    BY <2>1 DEF TypeOK
  <2>4. pc'[w] = "readAuthzs"
    BY <2>1 DEF TypeOK
  <2> QED
    BY <1>0, <1>a, <2>1, <2>2, <2>3, <2>4, ProvenStays DEF ProvenInv, Holding
<1>7. ASSUME NEW w \in Workers,
             \/ \E o \in Orders, ns \in SUBSET Names : create_order(w, o, ns)
             \/ ReadAuthz(w) \/ begin_challenge(w) \/ _attempt_validation(w)
             \/ record_challenge_success(w) \/ record_challenge_failure(w) \/ record(w) \/ Abort(w)
      PROVE  ProvenInv'
  BY <1>1, <1>7 DEF create_order, ReadAuthz, begin_challenge, _attempt_validation,
       record_challenge_success, record_challenge_failure, record, Abort, TypeOK, Holding
<1>8. ASSUME NEW w \in Workers, NEW a \in Accounts,
             new_order(w, a) \/ \E o \in Orders, c \in Challenges : challenge_resource(w, a, o, c)
      PROVE  ProvenInv'
  BY <1>1, <1>8 DEF new_order, challenge_resource, TypeOK, Holding
<1>9. ASSUME NEW a \in Accounts, deactivate_account(a) \/ RetireIssuer(a) PROVE ProvenInv'
  BY <1>1, <1>9 DEF deactivate_account, RetireIssuer
<1>10. CASE Tick
  BY <1>1, <1>10 DEF Tick
<1>11. CASE Crash
  BY <1>1, <1>11 DEF Crash, Holding
<1>12. CASE UNCHANGED vars
  BY <1>1, <1>12 DEF vars
<1> QED
  BY <1>2, <1>3, <1>4, <1>5, <1>6, <1>7, <1>8, <1>9, <1>10, <1>11, <1>12 DEF Next, Continue, Accept

(* ProvenInv is an invariant of the specification.                         *)
LEMMA ProvenInvariant == Spec => []ProvenInv
<1>1. Init => ProvenInv
  BY DEF Init, ProvenInv, Holding
<1> QED
  BY <1>1, TypeCorrect, ProvenStep, PTL DEF Spec

(* Every name in a certificate was proven by a method it allows.           *)
THEOREM CertificatesProven == Spec => []CertificateProven
<1>1. TypeOK /\ ChalInv /\ ProvenInv => CertificateProven
  <2> SUFFICES ASSUME TypeOK, ChalInv, ProvenInv, NEW c \in certs, NEW n \in names[c.order]
               PROVE  \E t \in challenge_types_for(n) : chal[c.order][<<n, t>>] = "valid"
    BY DEF CertificateProven
  <2>1. c.order \in Orders /\ n \in Names
    BY DEF TypeOK, Certificates
  <2>2. authz[c.order][n] = "valid"
    BY DEF ProvenInv, Proven
  <2>3. PICK t \in ChallengeTypes : chal[c.order][<<n, t>>] = "valid"
    BY <2>1, <2>2 DEF ChalInv, ProofStands
  <2>4. <<n, t>> \in Challenges
    BY <2>1 DEF Challenges
  <2>5. <<n, t>> \in ChallengesOf(names[c.order])
    BY <2>1, <2>3, <2>4 DEF ChalInv
  <2>6. t \in challenge_types_for(n)
    BY <2>5 DEF ChallengesOf
  <2> QED
    BY <2>3, <2>6
<1> QED
  BY <1>1, TypeCorrect, ChalInvariant, ProvenInvariant, PTL

(* No certificate comes from an order that had expired when its finalize   *)
(* request read the authorizations.                                        *)
THEOREM CertificatesInTime == Spec => []CertifiedInTime
<1>1. ProvenInv => CertifiedInTime
  BY DEF ProvenInv, Proven, CertifiedInTime
<1> QED
  BY <1>1, ProvenInvariant, PTL

-----------------------------------------------------------------------------
(* Nothing is stranded.  NothingStranded is inductive together with        *)
(* ChalInv: an attempt never finds its challenge other than processing, so *)
(* it never drops it.  A fault breaks the promise for good.                *)

(* A step that starts nothing, drops no claim and no attempt that is still *)
(* needed, keeps NothingStranded.                                          *)
LEMMA StrandedQuiet ==
    ASSUME TypeOK, NothingStranded, faults' = faults,
           \A o \in Orders : order'[o] = "processing" => order[o] = "processing",
           \A o \in Orders, c \in Challenges :
               chal'[o][c] = "processing" => chal[o][c] = "processing",
           \A w \in Workers : pc[w] \in Holding /\ order'[job[w].order] = "processing" =>
               pc'[w] \in Holding /\ job'[w].order = job[w].order,
           \A w \in Workers :
               pc[w] \in Validating /\ chal'[job[w].order][job[w].chal] = "processing" =>
                   /\ pc'[w] \in Validating
                   /\ job'[w].order = job[w].order /\ job'[w].chal = job[w].chal
    PROVE  NothingStranded'
<1> SUFFICES ASSUME faults = 0, NEW o \in Orders
             PROVE  /\ order'[o] = "processing" => \E w \in Workers : HoldsClaim(w, o)'
                    /\ \A c \in Challenges :
                         chal'[o][c] = "processing" => \E w \in Workers : Validates(w, o, c)'
  BY DEF NothingStranded
<1>1. ASSUME order'[o] = "processing" PROVE \E w \in Workers : HoldsClaim(w, o)'
  <2>1. PICK w \in Workers : HoldsClaim(w, o)
    BY <1>1 DEF NothingStranded
  <2>2. HoldsClaim(w, o)'
    BY <1>1, <2>1 DEF HoldsClaim
  <2> QED
    BY <2>2
<1>2. ASSUME NEW c \in Challenges, chal'[o][c] = "processing"
      PROVE  \E w \in Workers : Validates(w, o, c)'
  <2>1. PICK w \in Workers : Validates(w, o, c)
    BY <1>2 DEF NothingStranded
  <2>2. Validates(w, o, c)'
    BY <1>2, <2>1 DEF Validates, Validating
  <2> QED
    BY <2>2
<1> QED
  BY <1>1, <1>2

(* Every action keeps NothingStranded: what starts a claim or an attempt   *)
(* carries on with it, and what ends one settles its row.                  *)
LEMMA StrandedStep == TypeOK /\ ChalInv /\ NothingStranded /\ [Next]_vars => NothingStranded'
<1> SUFFICES ASSUME TypeOK, ChalInv, NothingStranded, [Next]_vars PROVE NothingStranded'
  OBVIOUS
<1> USE DEF rows, Goto, GotoWith, Finish, At
<1>0. \A w \in Workers : job[w].order \in Orders /\ job[w].chal \in Challenges
  BY DEF TypeOK, Jobs
<1>1. ASSUME NEW w \in Workers, NEW o \in Orders, NEW ns \in SUBSET Names, create_order(w, o, ns)
      PROVE  NothingStranded'
  <2>1. \A p \in Orders : order'[p] = "processing" => order[p] = "processing"
    BY <1>1 DEF create_order, TypeOK
  <2>2. \A p \in Orders, c \in Challenges : chal'[p][c] = "processing" => chal[p][c] = "processing"
    BY <1>1 DEF create_order, TypeOK
  <2>3. \A v \in Workers : pc[v] \in Holding \cup Validating => pc'[v] = pc[v] /\ job'[v] = job[v]
    BY <1>1 DEF create_order, TypeOK, Holding, Validating
  <2>4. faults' = faults
    BY <1>1 DEF create_order
  <2> QED
    BY <2>1, <2>2, <2>3, <2>4, StrandedQuiet
<1>2. ASSUME NEW w \in Workers, begin_challenge(w) PROVE NothingStranded'
  <2> DEFINE o == job[w].order
             c == job[w].chal
  <2>1. pc[w] = "begin" /\ UNCHANGED <<order, faults>>
    BY <1>2 DEF begin_challenge
  <2>2. CASE chal[o][c] # "pending"
    <3>1. Finish(w) /\ UNCHANGED chal
      BY <1>2, <2>2 DEF begin_challenge
    <3>2. \A v \in Workers : pc[v] \in Holding \cup Validating => pc'[v] = pc[v] /\ job'[v] = job[v]
      BY <2>1, <3>1 DEF TypeOK, Holding, Validating
    <3> QED
      BY <2>1, <3>1, <3>2, StrandedQuiet
  <2>3. CASE chal[o][c] = "pending"
    <3>1. /\ chal' = [chal EXCEPT ![o][c] = "processing"]
          /\ pc' = [pc EXCEPT ![w] = "attempt"]
          /\ UNCHANGED job
      BY <1>2, <2>3 DEF begin_challenge
    <3>2. \A v \in Workers : v # w => pc'[v] = pc[v]
      BY <3>1 DEF TypeOK
    <3>3. \A p \in Orders, d \in Challenges : ~ (p = o /\ d = c) => chal'[p][d] = chal[p][d]
      BY <1>0, <3>1 DEF TypeOK
    <3>4. Validates(w, o, c)' /\ o' = o /\ c' = c
      BY <3>1 DEF Validates, TypeOK
    <3>5. ASSUME NEW p \in Orders, order'[p] = "processing", faults = 0
          PROVE  \E v \in Workers : HoldsClaim(v, p)'
      <4>1. PICK v \in Workers : HoldsClaim(v, p)
        BY <2>1, <3>5 DEF NothingStranded
      <4>2. HoldsClaim(v, p)'
        BY <2>1, <3>1, <3>2, <4>1 DEF HoldsClaim, Holding
      <4> QED
        BY <4>2
    <3>6. ASSUME NEW p \in Orders, NEW d \in Challenges, chal'[p][d] = "processing", faults = 0
          PROVE  \E v \in Workers : Validates(v, p, d)'
      <4>1. CASE p = o /\ d = c
        BY <3>1, <4>1 DEF Validates, TypeOK
      <4>2. CASE ~ (p = o /\ d = c)
        <5>1. PICK v \in Workers : Validates(v, p, d)
          BY <3>3, <3>6, <4>2 DEF NothingStranded
        <5>2. Validates(v, p, d)'
          BY <2>1, <3>1, <3>2, <5>1 DEF Validates
        <5> QED
          BY <5>2
      <4> QED
        BY <4>1, <4>2
    <3> QED
      BY <2>1, <3>5, <3>6 DEF NothingStranded
  <2> QED
    BY <2>2, <2>3
<1>3. ASSUME NEW w \in Workers, _attempt_validation(w) PROVE NothingStranded'
  <2>1. pc[w] = "attempt" /\ chal[job[w].order][job[w].chal] = "processing"
    BY <1>3 DEF _attempt_validation, ChalInv, Validating
  <2>2. pc' = [pc EXCEPT ![w] = "record"] /\ UNCHANGED <<job, order, chal, faults>>
    BY <1>3, <2>1 DEF _attempt_validation
  <2>3. \A v \in Workers : /\ pc[v] \in Holding => pc'[v] \in Holding
                           /\ pc[v] \in Validating => pc'[v] \in Validating
    BY <2>1, <2>2 DEF TypeOK, Holding, Validating
  <2> QED
    BY <2>2, <2>3, StrandedQuiet
<1>4. ASSUME NEW w \in Workers, record_challenge_success(w) \/ record_challenge_failure(w)
      PROVE  NothingStranded'
  <2>1. /\ pc[w] = "record"
        /\ pc'[w] \notin Holding \cup Validating
        /\ \A v \in Workers : v # w => pc'[v] = pc[v]
        /\ UNCHANGED <<job, order, faults>>
    BY <1>4 DEF record_challenge_success, record_challenge_failure, TypeOK, Holding, Validating
  <2>2. chal'[job[w].order][job[w].chal] # "processing"
    BY <1>0, <1>4 DEF record_challenge_success, record_challenge_failure, TypeOK
  <2>3. \A p \in Orders, d \in Challenges : chal'[p][d] = "processing" => chal[p][d] = "processing"
    <3>1. \A p \in Orders, d \in Challenges :
            ~ (p = job[w].order /\ d = job[w].chal) => chal'[p][d] = chal[p][d]
      BY <1>0, <1>4 DEF record_challenge_success, record_challenge_failure, TypeOK
    <3> QED
      BY <2>2, <3>1
  <2>4. \A v \in Workers : pc[v] \in Holding => v # w
    BY <2>1 DEF Holding
  <2> QED
    BY <2>1, <2>2, <2>3, <2>4, StrandedQuiet
<1>5. ASSUME NEW w \in Workers, claim_for_issuance(w) PROVE NothingStranded'
  <2> DEFINE o == job[w].order
  <2>1. pc[w] = "claim" /\ UNCHANGED <<chal, faults>>
    BY <1>5 DEF claim_for_issuance
  <2>2. CASE ~ (certId[o] = 0 /\ order[o] \in {"pending", "ready"})
    <3>1. Finish(w) /\ UNCHANGED order
      BY <1>5, <2>2 DEF claim_for_issuance
    <3>2. \A v \in Workers : pc[v] \in Holding \cup Validating => pc'[v] = pc[v] /\ job'[v] = job[v]
      BY <2>1, <3>1 DEF TypeOK, Holding, Validating
    <3> QED
      BY <2>1, <3>1, <3>2, StrandedQuiet
  <2>3. CASE certId[o] = 0 /\ order[o] \in {"pending", "ready"}
    <3>1. /\ order' = [order EXCEPT ![o] = "processing"]
          /\ pc' = [pc EXCEPT ![w] = "resolve"]
          /\ UNCHANGED job
      BY <1>5, <2>3 DEF claim_for_issuance
    <3>2. \A v \in Workers : v # w => pc'[v] = pc[v]
      BY <3>1 DEF TypeOK
    <3>3. \A p \in Orders : p # o => order'[p] = order[p]
      BY <1>0, <3>1 DEF TypeOK
    <3>4. ASSUME NEW p \in Orders, order'[p] = "processing", faults = 0
          PROVE  \E v \in Workers : HoldsClaim(v, p)'
      <4>1. CASE p = o
        BY <3>1, <4>1 DEF HoldsClaim, Holding, TypeOK
      <4>2. CASE p # o
        <5>1. PICK v \in Workers : HoldsClaim(v, p)
          BY <3>3, <3>4, <4>2 DEF NothingStranded
        <5>2. HoldsClaim(v, p)'
          BY <2>1, <3>1, <3>2, <5>1 DEF HoldsClaim, Holding
        <5> QED
          BY <5>2
      <4> QED
        BY <4>1, <4>2
    <3>5. ASSUME NEW p \in Orders, NEW d \in Challenges, chal'[p][d] = "processing", faults = 0
          PROVE  \E v \in Workers : Validates(v, p, d)'
      <4>1. PICK v \in Workers : Validates(v, p, d)
        BY <2>1, <3>5 DEF NothingStranded
      <4>2. Validates(v, p, d)'
        BY <2>1, <3>1, <3>2, <4>1 DEF Validates
      <4> QED
        BY <4>2
    <3> QED
      BY <2>1, <3>4, <3>5 DEF NothingStranded
  <2> QED
    BY <2>2, <2>3
<1>6. ASSUME NEW w \in Workers, ResolveIssuer(w) \/ IssueFails(w) \/ SignAndStore(w)
      PROVE  NothingStranded'
  <2>1. /\ pc[w] \in Holding /\ pc[w] \notin Validating /\ pc'[w] \in Holding
        /\ \A v \in Workers : v # w => pc'[v] = pc[v] /\ job'[v] = job[v]
        /\ UNCHANGED <<order, chal, faults>>
    BY <1>6 DEF ResolveIssuer, IssueFails, SignAndStore, TypeOK, Holding, Validating
  <2>2. job'[w].order = job[w].order
    BY <1>6 DEF ResolveIssuer, IssueFails, SignAndStore, TypeOK, Jobs
  <2> QED
    BY <2>1, <2>2, StrandedQuiet
<1>7. ASSUME NEW w \in Workers, release_claim(w) \/ attach_certificate(w) PROVE NothingStranded'
  <2>1. /\ pc[w] \notin Validating
        /\ \A v \in Workers : v # w => pc'[v] = pc[v] /\ job'[v] = job[v]
        /\ UNCHANGED <<chal, faults>>
    BY <1>7 DEF release_claim, attach_certificate, TypeOK, Validating
  <2>2. order'[job[w].order] # "processing"
    BY <1>0, <1>7 DEF release_claim, attach_certificate, TypeOK
  <2>3. \A p \in Orders : order'[p] = "processing" => order[p] = "processing"
    BY <1>0, <1>7 DEF release_claim, attach_certificate, TypeOK
  <2> QED
    BY <2>1, <2>2, <2>3, StrandedQuiet
<1>8. ASSUME NEW w \in Workers,
             ReadAuthz(w) \/ (\E csrNames \in SUBSET Names : ReadAuthzs(w, csrNames)) \/ record(w)
      PROVE  NothingStranded'
  <2>1. UNCHANGED <<order, chal, faults>>
    BY <1>8 DEF ReadAuthz, ReadAuthzs, record
  <2>2. \A v \in Workers : pc[v] \in Holding \cup Validating => pc'[v] = pc[v] /\ job'[v] = job[v]
    BY <1>8 DEF ReadAuthz, ReadAuthzs, record, Logging, TypeOK, Holding, Validating
  <2> QED
    BY <2>1, <2>2, StrandedQuiet
<1>9. ASSUME NEW w \in Workers, NEW a \in Accounts, Accept(w, a) PROVE NothingStranded'
  <2>1. UNCHANGED <<order, chal, faults>>
    BY <1>9 DEF Accept, new_order, challenge_resource, finalize_order
  <2>2. \A v \in Workers : pc[v] \in Holding \cup Validating => pc'[v] = pc[v] /\ job'[v] = job[v]
    BY <1>9 DEF Accept, new_order, challenge_resource, finalize_order, Verified, TypeOK, Holding,
                Validating
  <2> QED
    BY <2>1, <2>2, StrandedQuiet
<1>10. ASSUME NEW w \in Workers, Abort(w) PROVE NothingStranded'
  BY <1>10 DEF Abort, NothingStranded, TypeOK
<1>11. CASE Crash
  BY <1>11 DEF Crash, NothingStranded, TypeOK
<1>12. CASE UNCHANGED <<order, chal, pc, job, faults>>
  BY <1>12, StrandedQuiet
<1> QED
  BY <1>1, <1>2, <1>3, <1>4, <1>5, <1>6, <1>7, <1>8, <1>9, <1>10, <1>11, <1>12
     DEF Next, Continue, deactivate_account, RetireIssuer, Tick, vars

(* As long as no commit has failed and the process has not died, every     *)
(* processing order has a finalize request that holds its claim, and every *)
(* processing challenge an attempt under way.                              *)
THEOREM NothingIsStranded == Spec => []NothingStranded
<1>1. Init => NothingStranded
  <2> SUFFICES ASSUME Init PROVE NothingStranded
    OBVIOUS
  <2>1. \A o \in Orders : order[o] = "none" /\ \A c \in Challenges : chal[o][c] = "none"
    BY DEF Init
  <2> QED
    BY <2>1 DEF NothingStranded
<1> QED
  BY <1>1, TypeCorrect, ChalInvariant, StrandedStep, PTL DEF Spec

-----------------------------------------------------------------------------
(* The audit log.  An entry is written in a commit of its own, so the      *)
(* invariant says of the entry a worker is about to write what             *)
(* AuditMatches says of the entries that are written; it rests on no step  *)
(* taking back what an entry reports.                                      *)

Happened(e) ==
    CASE e.what = "order_created"       -> order[e.order] # "none"
      [] e.what = "certificate_issued"  -> certId[e.order] # 0
      [] e.what = "challenge_validated" -> chal[e.order][e.chal] = "valid"
      [] e.what = "challenge_failed"    -> chal[e.order][e.chal] = "invalid"

AuditInv ==
    /\ AuditMatches
    /\ \A w \in Workers : pc[w] \in Logging => Happened(AuditEvent(w))

(* An order that has a certificate keeps having one.                       *)
LEMMA CertifiedStays ==
    ASSUME TypeOK, ClaimInv, [Next]_vars
    PROVE  \A o \in Orders : certId[o] # 0 => certId'[o] # 0
<1> USE DEF rows
<1>1. ASSUME NEW w \in Workers, attach_certificate(w)
      PROVE  \A o \in Orders : certId[o] # 0 => certId'[o] # 0
  <2>1. pc[w] = "attach" /\ certId' = [certId EXCEPT ![job[w].order] = job[w].cert]
    BY <1>1 DEF attach_certificate, At
  <2>2. PICK c \in certs : c.id = job[w].cert
    BY <2>1 DEF ClaimInv
  <2>3. job[w].cert # 0
    BY <2>2 DEF TypeOK, Certificates
  <2> QED
    BY <2>1, <2>3 DEF TypeOK
<1>2. CASE UNCHANGED certId
  BY <1>2
<1> QED
  BY <1>1, <1>2
     DEF Next, Continue, Accept, vars, create_order, ReadAuthz, begin_challenge, _attempt_validation,
         record_challenge_success, record_challenge_failure, ReadAuthzs, claim_for_issuance,
         ResolveIssuer, SignAndStore, IssueFails, release_claim, record, Abort,
         new_order, challenge_resource, finalize_order, deactivate_account, RetireIssuer, Tick, Crash

(* What an audit entry reports stays true.                                 *)
LEMMA HappenedStays ==
    ASSUME TypeOK, ClaimInv, ChalInv, [Next]_vars, NEW e \in Events, Happened(e)
    PROVE  Happened(e)'
<1>1. CASE e.what = "order_created"
  BY <1>1, OrderStays DEF Happened, Events
<1>2. CASE e.what = "certificate_issued"
  BY <1>2, CertifiedStays DEF Happened, Events
<1>3. CASE e.what \in {"challenge_validated", "challenge_failed"}
  <2>1. e.order \in Orders /\ e.chal \in Challenges
    BY <1>3 DEF Events
  <2>2. chal[e.order][e.chal] \in {"valid", "invalid"}
    BY <1>3 DEF Happened
  <2>3. chal'[e.order][e.chal] = chal[e.order][e.chal]
    BY <2>1, <2>2, DecidedStays DEF DecidedKept
  <2> QED
    BY <1>3, <2>3 DEF Happened
<1> QED
  BY <1>1, <1>2, <1>3 DEF Events

(* Every action keeps AuditInv: the commit that an entry reports comes     *)
(* before the entry, and record writes no other.                           *)
LEMMA AuditStep ==
    TypeOK /\ ClaimInv /\ ChalInv /\ AuditInv /\ [Next]_vars => AuditInv'
<1> SUFFICES ASSUME TypeOK, ClaimInv, ChalInv, AuditInv, [Next]_vars PROVE AuditInv'
  OBVIOUS
<1> USE DEF rows, Goto, GotoWith, Finish, At
<1>0. \A w \in Workers : job[w] \in Jobs /\ job[w].order \in Orders /\ job[w].chal \in Challenges
  BY DEF TypeOK, Jobs
<1>a. \A e \in log : Happened(e)'
  BY HappenedStays DEF AuditInv, AuditMatches, Happened, TypeOK
<1>b. \A w \in Workers : pc[w] \in Logging => Happened(AuditEvent(w)) /\ AuditEvent(w) \in Events
  BY AuditEventType DEF AuditInv
<1> DEFINE
      Entry(o) == [what |-> "certificate_issued", order |-> o]
      Carried(o) == \E w \in Workers : pc[w] \in {"attach", "logCertificate"} /\ job[w].order = o
      Written == \A e \in log : Happened(e)
      Missed == faults = 0 => \A c \in certs : Entry(c.order) \in log \/ Carried(c.order)
      Pending == \A w \in Workers : pc[w] \in Logging => Happened(AuditEvent(w))
<1>c. Missed
  BY DEF AuditInv, AuditMatches
<1>d. Written' /\ Missed' /\ Pending' => AuditInv'
  BY DEF AuditInv, AuditMatches, Happened
(* A worker that was already about to write its entry.                     *)
<1>e. ASSUME NEW w \in Workers, pc[w] \in Logging, pc'[w] = pc[w], job'[w] = job[w]
      PROVE  Happened(AuditEvent(w))'
  <2>1. PICK e : e = AuditEvent(w)
    OBVIOUS
  <2>2. Happened(e)'
    BY <1>b, <1>e, <2>1, HappenedStays
  <2>3. AuditEvent(w)' = e
    BY <1>e, <2>1 DEF AuditEvent
  <2> QED
    BY <2>2, <2>3
(* A step that neither signs nor logs, and takes no worker to an entry.    *)
<1>1. ASSUME log' = log, certs' = certs, faults' = 0 => faults = 0,
             \A w \in Workers : pc'[w] \in Logging => pc'[w] = pc[w] /\ job'[w] = job[w],
             faults' = 0 => \A w \in Workers : pc[w] \in {"attach", "logCertificate"} =>
                              pc'[w] = pc[w] /\ job'[w] = job[w]
      PROVE  AuditInv'
  <2>1. Written'
    BY <1>1, <1>a
  <2>2. Pending'
    BY <1>1, <1>e
  <2>3. Missed'
    BY <1>1, <1>c
  <2> QED
    BY <1>d, <2>1, <2>2, <2>3
<1> HIDE DEF Written, Missed, Pending
(* A step that takes one worker to the entry of what the step has done.    *)
<1>2. ASSUME NEW w \in Workers, log' = log, faults' = faults,
             pc'[w] \in Logging, Happened(AuditEvent(w))',
             \A v \in Workers : v # w => pc'[v] = pc[v] /\ job'[v] = job[v]
      PROVE  Written' /\ Pending'
  BY <1>2, <1>a, <1>e DEF Written, Pending
<1>3. ASSUME NEW w \in Workers, NEW o \in Orders, NEW ns \in SUBSET Names, create_order(w, o, ns)
      PROVE  AuditInv'
  <2>1. /\ pc[w] = "place" /\ pc' = [pc EXCEPT ![w] = "logOrder"]
        /\ job' = [job EXCEPT ![w] = [job[w] EXCEPT !.order = o]]
        /\ order' = [order EXCEPT ![o] = "pending"]
        /\ UNCHANGED <<certs, log, faults>>
    BY <1>3 DEF create_order
  <2>2. pc'[w] = "logOrder" /\ job'[w].order = o
    BY <1>0, <2>1 DEF TypeOK, Jobs
  <2>3. \A v \in Workers : v # w => pc'[v] = pc[v] /\ job'[v] = job[v]
    BY <2>1 DEF TypeOK
  <2>4. order'[o] # "none"
    BY <2>1 DEF TypeOK
  <2>5. AuditEvent(w)' = [what |-> "order_created", order |-> o]
    BY <2>2 DEF AuditEvent
  <2>6. Happened(AuditEvent(w))'
    BY <2>4, <2>5 DEF Happened
  <2>7. Missed'
    BY <1>c, <2>1, <2>3 DEF Missed
  <2> QED
    BY <1>d, <1>2, <2>1, <2>2, <2>3, <2>6, <2>7 DEF Logging
<1>4. ASSUME NEW w \in Workers, record_challenge_success(w) PROVE AuditInv'
  <2>1. /\ pc[w] = "record" /\ pc' = [pc EXCEPT ![w] = "logValidated"]
        /\ chal' = [chal EXCEPT ![job[w].order][job[w].chal] = "valid"]
        /\ UNCHANGED <<job, certs, log, faults>>
    BY <1>4 DEF record_challenge_success
  <2>2. pc'[w] = "logValidated" /\ \A v \in Workers : v # w => pc'[v] = pc[v]
    BY <2>1 DEF TypeOK
  <2>3. chal'[job[w].order][job[w].chal] = "valid"
    BY <1>0, <2>1 DEF TypeOK
  <2>4. AuditEvent(w)' = [what |-> "challenge_validated", order |-> job[w].order, chal |-> job[w].chal]
    BY <2>1, <2>2 DEF AuditEvent
  <2>5. Happened(AuditEvent(w))'
    BY <2>3, <2>4 DEF Happened
  <2>6. Missed'
    BY <1>c, <2>1, <2>2 DEF Missed
  <2> QED
    BY <1>d, <1>2, <2>1, <2>2, <2>5, <2>6 DEF Logging
<1>5. ASSUME NEW w \in Workers, record_challenge_failure(w) PROVE AuditInv'
  <2>1. chal[job[w].order][job[w].chal] = "processing"
    BY <1>5 DEF record_challenge_failure, ChalInv, Validating
  <2>2. /\ pc[w] = "record" /\ pc' = [pc EXCEPT ![w] = "logFailed"]
        /\ chal' = [chal EXCEPT ![job[w].order][job[w].chal] = "invalid"]
        /\ UNCHANGED <<job, certs, log, faults>>
    BY <1>0, <1>5, <2>1 DEF record_challenge_failure, TypeOK
  <2>3. pc'[w] = "logFailed" /\ \A v \in Workers : v # w => pc'[v] = pc[v]
    BY <2>2 DEF TypeOK
  <2>4. chal'[job[w].order][job[w].chal] = "invalid"
    BY <1>0, <2>2 DEF TypeOK
  <2>5. AuditEvent(w)' = [what |-> "challenge_failed", order |-> job[w].order, chal |-> job[w].chal]
    BY <2>2, <2>3 DEF AuditEvent
  <2>6. Happened(AuditEvent(w))'
    BY <2>4, <2>5 DEF Happened
  <2>7. Missed'
    BY <1>c, <2>2, <2>3 DEF Missed
  <2> QED
    BY <1>d, <1>2, <2>2, <2>3, <2>6, <2>7 DEF Logging
<1>6. ASSUME NEW w \in Workers, SignAndStore(w) PROVE AuditInv'
  <2> DEFINE new == [id |-> nextCert, order |-> job[w].order, asked |-> job[w].asked]
  <2>1. /\ pc[w] = "sign" /\ pc' = [pc EXCEPT ![w] = "attach"]
        /\ job' = [job EXCEPT ![w] = [job[w] EXCEPT !.cert = nextCert]]
        /\ certs' = certs \cup {new}
        /\ UNCHANGED <<log, faults>>
    BY <1>6 DEF SignAndStore
  <2>2. pc'[w] = "attach" /\ job'[w].order = job[w].order /\ new.order = job[w].order
    BY <1>0, <2>1 DEF TypeOK, Jobs
  <2>3. \A v \in Workers : v # w => pc'[v] = pc[v] /\ job'[v] = job[v]
    BY <2>1 DEF TypeOK
  <2> HIDE DEF new
  <2>4. Missed'
    <3>0. PICK cert : cert = new
      OBVIOUS
    <3>1. Carried(cert.order)'
      BY <2>2, <3>0
    <3>2. \A v \in Workers : pc[v] \in {"attach", "logCertificate"} => v # w
      BY <2>1
    <3>3. ASSUME NEW c \in certs, Carried(c.order) PROVE Carried(c.order)'
      BY <2>3, <3>2, <3>3
    <3>4. certs' = certs \cup {cert} /\ UNCHANGED <<log, faults>>
      BY <2>1, <3>0
    <3> HIDE DEF Carried
    <3> QED
      BY <1>c, <3>1, <3>3, <3>4 DEF Missed
  <2>5. Pending'
    BY <1>e, <2>2, <2>3 DEF Pending, Logging
  <2>6. Written'
    BY <1>a, <2>1 DEF Written
  <2> QED
    BY <1>d, <2>4, <2>5, <2>6
<1>7. ASSUME NEW w \in Workers, attach_certificate(w) PROVE AuditInv'
  <2>1. /\ pc[w] = "attach" /\ pc' = [pc EXCEPT ![w] = "logCertificate"]
        /\ certId' = [certId EXCEPT ![job[w].order] = job[w].cert]
        /\ UNCHANGED <<job, certs, log, faults>>
    BY <1>7 DEF attach_certificate
  <2>2. pc'[w] = "logCertificate" /\ \A v \in Workers : v # w => pc'[v] = pc[v]
    BY <2>1 DEF TypeOK
  <2>3. PICK c \in certs : c.id = job[w].cert
    BY <2>1 DEF ClaimInv
  <2>4. certId'[job[w].order] # 0
    BY <1>0, <2>1, <2>3 DEF TypeOK, Certificates
  <2>5. AuditEvent(w)' = [what |-> "certificate_issued", order |-> job[w].order]
    BY <2>1, <2>2 DEF AuditEvent
  <2>6. Happened(AuditEvent(w))'
    BY <2>4, <2>5 DEF Happened
  <2>7. Missed'
    BY <1>c, <2>1, <2>2 DEF Missed
  <2> QED
    BY <1>d, <1>2, <2>1, <2>2, <2>6, <2>7 DEF Logging
<1>8. ASSUME NEW w \in Workers, record(w) PROVE AuditInv'
  <2>1. /\ pc[w] \in Logging /\ log' = log \cup {AuditEvent(w)}
        /\ pc' = [pc EXCEPT ![w] = "idle"] /\ job' = [job EXCEPT ![w] = NoJob]
        /\ UNCHANGED <<certs, faults>>
    BY <1>8 DEF record
  <2>2. PICK e : e = AuditEvent(w)
    OBVIOUS
  <2>3. Happened(e)'
    BY <1>b, <2>1, <2>2, HappenedStays
  <2>4. pc'[w] = "idle" /\ \A v \in Workers : v # w => pc'[v] = pc[v] /\ job'[v] = job[v]
    BY <2>1 DEF TypeOK
  <2>5. pc[w] = "logCertificate" => e = Entry(job[w].order)
    BY <2>2 DEF AuditEvent
  <2>6. log' = log \cup {e}
    BY <2>1, <2>2
  <2>7. pc[w] # "attach"
    BY <2>1 DEF Logging
  <2> HIDE DEF Entry
  <2>8. Missed'
    BY <1>c, <2>1, <2>4, <2>5, <2>6, <2>7 DEF Missed
  <2>9. Pending'
    BY <1>e, <2>4 DEF Pending, Logging
  <2>10. Written'
    BY <1>a, <2>3, <2>6 DEF Written
  <2> QED
    BY <1>d, <2>8, <2>9, <2>10
<1>9. ASSUME NEW w \in Workers,
             \/ ReadAuthz(w) \/ begin_challenge(w) \/ _attempt_validation(w)
             \/ (\E csrNames \in SUBSET Names : ReadAuthzs(w, csrNames))
             \/ claim_for_issuance(w) \/ ResolveIssuer(w) \/ IssueFails(w) \/ release_claim(w)
      PROVE  AuditInv'
  <2>1. UNCHANGED <<log, certs, faults>>
    BY <1>9 DEF ReadAuthz, begin_challenge, _attempt_validation, ReadAuthzs, claim_for_issuance,
                ResolveIssuer, IssueFails, release_claim
  <2>2. /\ pc[w] \notin Logging \cup {"attach"}
        /\ pc'[w] \notin Logging \cup {"attach"}
        /\ \A v \in Workers : v # w => pc'[v] = pc[v] /\ job'[v] = job[v]
    BY <1>9 DEF ReadAuthz, begin_challenge, _attempt_validation, ReadAuthzs, claim_for_issuance,
                ResolveIssuer, IssueFails, release_claim, TypeOK, Logging
  <2> QED
    BY <1>1, <2>1, <2>2 DEF Logging
<1>10. ASSUME NEW w \in Workers, NEW a \in Accounts, Accept(w, a) PROVE AuditInv'
  <2>1. UNCHANGED <<log, certs, faults>>
    BY <1>10 DEF Accept, new_order, challenge_resource, finalize_order
  <2>2. /\ pc[w] \notin Logging \cup {"attach"}
        /\ pc'[w] \notin Logging \cup {"attach"}
        /\ \A v \in Workers : v # w => pc'[v] = pc[v] /\ job'[v] = job[v]
    BY <1>10 DEF Accept, new_order, challenge_resource, finalize_order, Verified, TypeOK, Logging
  <2> QED
    BY <1>1, <2>1, <2>2 DEF Logging
<1>11. ASSUME NEW w \in Workers, Abort(w) PROVE AuditInv'
  <2>1. log' = log /\ certs' = certs /\ faults' # 0
    BY <1>11 DEF Abort, TypeOK
  <2>2. \A v \in Workers : pc'[v] \in Logging => pc'[v] = pc[v] /\ job'[v] = job[v]
    BY <1>11 DEF Abort, TypeOK, Logging
  <2> QED
    BY <1>1, <2>1, <2>2
<1>12. CASE Crash
  <2>1. log' = log /\ certs' = certs /\ faults' # 0
    BY <1>12 DEF Crash, TypeOK
  <2>2. \A v \in Workers : pc'[v] \notin Logging
    BY <1>12 DEF Crash, Logging
  <2> QED
    BY <1>1, <2>1, <2>2
<1>13. CASE UNCHANGED <<log, certs, pc, job, faults>>
  BY <1>1, <1>13
<1> QED
  BY <1>3, <1>4, <1>5, <1>6, <1>7, <1>8, <1>9, <1>10, <1>11, <1>12, <1>13
     DEF Next, Continue, deactivate_account, RetireIssuer, Tick, vars

(* The audit log never reports an order, a certificate or a challenge      *)
(* result that is not in the rows, and until a fault it misses no          *)
(* certificate whose request has ended.                                    *)
THEOREM AuditLogMatches == Spec => []AuditMatches
<1>1. Init => AuditInv
  BY DEF Init, AuditInv, AuditMatches, Logging
<1>2. AuditInv => AuditMatches
  BY DEF AuditInv
<1> QED
  BY <1>1, <1>2, TypeCorrect, ClaimInvariant, ChalInvariant, AuditStep, PTL DEF Spec

-----------------------------------------------------------------------------
(* The refinement of OrderLifecycle.  order_status computes what a client  *)
(* sees from the order, its authorizations and the clock; StatusShape says *)
(* what it comes to for the rows that create_order can have written.  With *)
(* the claim protocol and ProvenInv every step of a handler is then a step *)
(* of the lifecycle or invisible to the client.                            *)

RowsInv ==
    /\ \A o \in Orders : order[o] # "none" =>
         names[o] # {} /\ \A n \in names[o] : authz[o][n] # "none"
    /\ \A c \in certs : c.id < nextCert

(* Every action keeps RowsInv: an order is placed with its authorizations, *)
(* and the id of a certificate row is never given out again.               *)
LEMMA RowsStep == TypeOK /\ ClaimInv /\ RowsInv /\ [Next]_vars => RowsInv'
<1> SUFFICES ASSUME TypeOK, ClaimInv, RowsInv, [Next]_vars PROVE RowsInv'
  OBVIOUS
<1> USE DEF rows
<1>0. \A w \in Workers : job[w].order \in Orders /\ job[w].chal \in Names \X ChallengeTypes
  BY DEF TypeOK, Jobs, Challenges
<1>1. ASSUME NEW w \in Workers, NEW o \in Orders, NEW ns \in SUBSET Names, create_order(w, o, ns)
      PROVE  RowsInv'
  BY <1>1 DEF create_order, RowsInv, TypeOK
<1>2. ASSUME NEW w \in Workers, claim_for_issuance(w) \/ release_claim(w) \/ attach_certificate(w)
      PROVE  RowsInv'
  <2>1. order' # order => order[job[w].order] # "none"
    BY <1>2 DEF claim_for_issuance, release_claim, attach_certificate, At, ClaimInv, Holding
  <2>2. \A o \in Orders : o # job[w].order => order'[o] = order[o]
    BY <1>0, <1>2 DEF claim_for_issuance, release_claim, attach_certificate, TypeOK
  <2>3. \A o \in Orders : order'[o] # "none" => order[o] # "none"
    BY <2>1, <2>2
  <2> QED
    BY <1>2, <2>3 DEF claim_for_issuance, release_claim, attach_certificate, RowsInv
<1>3. ASSUME NEW w \in Workers, record_challenge_success(w) PROVE RowsInv'
  <2>1. \A o \in Orders, n \in Names : authz[o][n] # "none" => authz'[o][n] # "none"
    BY <1>0, <1>3 DEF record_challenge_success, TypeOK
  <2> QED
    BY <1>3, <2>1 DEF record_challenge_success, RowsInv, TypeOK
<1>4. ASSUME NEW w \in Workers, SignAndStore(w) PROVE RowsInv'
  BY <1>4 DEF SignAndStore, RowsInv, TypeOK, Certificates
<1>5. CASE UNCHANGED <<order, names, authz, certs, nextCert>>
  BY <1>5 DEF RowsInv
<1> QED
  BY <1>1, <1>2, <1>3, <1>4, <1>5
     DEF Next, Continue, Accept, vars, ReadAuthz, begin_challenge, _attempt_validation,
         record_challenge_failure, ReadAuthzs, ResolveIssuer, IssueFails, record, Abort,
         new_order, challenge_resource, finalize_order, deactivate_account, RetireIssuer, Tick, Crash

(* RowsInv is an invariant of the specification.                           *)
LEMMA RowsInvariant == Spec => []RowsInv
<1>1. Init => RowsInv
  BY DEF Init, RowsInv
<1> QED
  BY <1>1, TypeCorrect, ClaimInvariant, RowsStep, PTL DEF Spec

Lapsed(o) == created[o] + AuthzLifetime <= now

AllProven(o) == \A n \in names[o] : authz[o][n] = "valid"

StatusShape ==
    \A o \in Orders : order_status(o) =
        IF order[o] \notin {"pending", "ready"} THEN order[o]
        ELSE IF Lapsed(o) THEN "invalid"
        ELSE IF AllProven(o) THEN "ready"
        ELSE "pending"

(* order_status of an order in hand: its authorizations lapse together,    *)
(* and never after the order itself.                                       *)
LEMMA StatusIs == TypeOK /\ RowsInv => StatusShape
<1> SUFFICES ASSUME TypeOK, RowsInv, NEW o \in Orders
             PROVE  order_status(o) =
                      IF order[o] \notin {"pending", "ready"} THEN order[o]
                      ELSE IF Lapsed(o) THEN "invalid"
                      ELSE IF AllProven(o) THEN "ready"
                      ELSE "pending"
  BY DEF StatusShape
<1>1. CASE order[o] \notin {"pending", "ready"}
  BY <1>1 DEF order_status
<1>2. CASE order[o] \in {"pending", "ready"}
  <2>1. PICK m \in names[o] : TRUE
    BY <1>2 DEF RowsInv
  <2>2. \A n \in names[o] : authz[o][n] \in {"pending", "valid"}
    BY <1>2 DEF RowsInv, TypeOK, AuthzStatuses
  <2>3. \A n \in names[o] :
          authorization_status(o, n) = IF Lapsed(o) THEN "expired" ELSE authz[o][n]
    BY <2>2 DEF authorization_status, _has_expired, Lapsed
  <2>4. created[o] + OrderLifetime <= now => Lapsed(o)
    BY LifetimeAssumption DEF Lapsed, TypeOK
  <2>5. CASE Lapsed(o)
    <3>1. authorization_status(o, m) = "expired"
      BY <2>3, <2>5
    <3> QED
      BY <1>2, <2>5, <3>1 DEF order_status
  <2>6. CASE ~ Lapsed(o)
    <3>1. ~ _has_expired(created[o] + OrderLifetime)
      BY <2>4, <2>6 DEF _has_expired
    <3>2. ~ \E n \in names[o] : authorization_status(o, n) \in {"invalid", "expired"}
      BY <2>2, <2>3, <2>6
    <3>3. AuthzsReady(o) <=> AllProven(o)
      BY <2>1, <2>3, <2>6 DEF AuthzsReady, AllProven
    <3> QED
      BY <1>2, <2>6, <3>1, <3>2, <3>3 DEF order_status
  <2> QED
    BY <2>5, <2>6
<1> QED
  BY <1>1, <1>2

(* The client's view and the certificates, as Lifecycle substitutes them.  *)
View == [o \in Orders |-> order_status(o)]

Signed == [o \in Orders |-> {c.id : c \in {d \in certs : d.order = o}}]

LifecycleInv == TypeOK /\ ClaimInv /\ ChalInv /\ ProvenInv /\ RowsInv

(* Every step of a handler, of the clock or of a fault is a step of the    *)
(* lifecycle, or leaves what the client sees as it is.                     *)
LEMMA LifecycleStep ==
    /\ LifecycleInv /\ StatusShape
    /\ LifecycleInv' /\ StatusShape'
    /\ [Next]_vars
    => [Lifecycle!Next]_(Lifecycle!vars)
<1> SUFFICES ASSUME LifecycleInv, StatusShape, LifecycleInv', StatusShape', [Next]_vars
             PROVE  Lifecycle!Next \/ UNCHANGED <<View, Signed>>
  BY DEF Lifecycle!vars, View, Signed
<1> USE DEF LifecycleInv, rows
<1>0. /\ \A w \in Workers : job[w].order \in Orders /\ job[w].chal \in Challenges
      /\ \A c \in certs : c.order \in Orders
  BY DEF TypeOK, Jobs, Certificates
(* An order whose rows a step leaves alone is seen as before.              *)
<1>a. ASSUME NEW p \in Orders, now' = now, order'[p] = order[p], created'[p] = created[p],
             names'[p] = names[p], authz'[p] = authz[p]
      PROVE  order_status(p)' = order_status(p)
  BY <1>a DEF StatusShape, Lapsed, AllProven
(* A step that moves one order.                                            *)
<1>b. ASSUME NEW o \in Orders, NEW to, order_status(o)' = to, now' = now,
             \A p \in Orders : p # o => /\ order'[p] = order[p] /\ created'[p] = created[p]
                                        /\ names'[p] = names[p] /\ authz'[p] = authz[p]
      PROVE  View' = [View EXCEPT ![o] = to]
  <2>1. \A p \in Orders : p # o => order_status(p)' = order_status(p)
    BY <1>a, <1>b
  <2> QED
    BY <1>b, <2>1 DEF View
<1>c. certs' = certs => Signed' = Signed
  BY DEF Signed
<1>d. ASSUME NEW o \in Orders, \A c \in certs : c.order # o PROVE Signed[o] = {}
  BY <1>d DEF Signed
<1>1. ASSUME NEW w \in Workers, NEW o \in Orders, NEW ns \in SUBSET Names, create_order(w, o, ns)
      PROVE  Lifecycle!Place(o)
  <2>1. /\ order[o] = "none" /\ ns # {} /\ UNCHANGED <<certs, now>>
        /\ created' = [created EXCEPT ![o] = now]
        /\ names' = [names EXCEPT ![o] = ns]
        /\ order' = [order EXCEPT ![o] = "pending"]
        /\ authz' = [authz EXCEPT ![o] = [n \in Names |-> IF n \in ns THEN "pending" ELSE "none"]]
    BY <1>1 DEF create_order
  <2>2. /\ order'[o] = "pending" /\ created'[o] = now /\ names'[o] = ns
        /\ \A n \in ns : authz'[o][n] = "pending"
    BY <2>1 DEF TypeOK
  <2>3. ~ Lapsed(o)'
    BY <2>1, <2>2, LifetimeAssumption DEF Lapsed, TypeOK
  <2>4. ~ AllProven(o)'
    BY <2>1, <2>2 DEF AllProven
  <2>5. order_status(o)' = "pending"
    BY <2>2, <2>3, <2>4 DEF StatusShape
  <2>6. order_status(o) = "none"
    BY <2>1 DEF StatusShape
  <2>7. View' = [View EXCEPT ![o] = "pending"]
    BY <1>b, <2>1, <2>5 DEF TypeOK
  <2> QED
    BY <1>c, <2>1, <2>6, <2>7 DEF Lifecycle!Place, Lifecycle!Move, View, Signed
<1>2. ASSUME NEW w \in Workers, record_challenge_success(w)
      PROVE  (\E o \in Orders : Lifecycle!Prove(o)) \/ UNCHANGED <<View, Signed>>
  <2>0. PICK o \in Orders, c \in Challenges : o = job[w].order /\ c = job[w].chal
    BY <1>0
  <2>1. /\ authz' = [authz EXCEPT ![o][c[1]] = "valid"]
        /\ UNCHANGED <<order, created, names, certs, now>>
    BY <1>2, <2>0 DEF record_challenge_success
  <2>2. c[1] \in Names
    BY DEF Challenges
  <2>3. \A p \in Orders : p # o => authz'[p] = authz[p]
    BY <2>1 DEF TypeOK
  <2>4. AllProven(o) => AllProven(o)'
    BY <2>1, <2>2 DEF AllProven, TypeOK
  <2>5. Lapsed(o)' <=> Lapsed(o)
    BY <2>1 DEF Lapsed
  <2>6. \/ order_status(o)' = order_status(o)
        \/ order_status(o) = "pending" /\ order_status(o)' = "ready"
    BY <2>1, <2>4, <2>5 DEF StatusShape
  <2>7. View' = [View EXCEPT ![o] = order_status(o)']
    <3>1. PICK to : to = order_status(o)'
      OBVIOUS
    <3> QED
      BY <1>b, <2>1, <2>3, <3>1
  <2>8. order_status(o)' = order_status(o) => View' = View
    BY <2>7 DEF View
  <2>9. order_status(o) = "pending" /\ order_status(o)' = "ready" => Lifecycle!Prove(o)
    BY <1>c, <2>1, <2>7 DEF Lifecycle!Prove, Lifecycle!Move, View, Signed
  <2> QED
    BY <1>c, <2>1, <2>6, <2>8, <2>9
<1>3. ASSUME NEW w \in Workers, claim_for_issuance(w)
      PROVE  (\E o \in Orders : Lifecycle!Claim(o)) \/ UNCHANGED <<View, Signed>>
  <2>0. PICK o \in Orders : o = job[w].order
    BY <1>0
  <2>1. pc[w] = "claim" /\ UNCHANGED <<created, names, authz, certs, now>>
    BY <1>3 DEF claim_for_issuance, At
  <2>2. CASE UNCHANGED order
    BY <1>a, <1>c, <2>1, <2>2 DEF View
  <2>3. CASE order[o] \in {"pending", "ready"} /\ order' = [order EXCEPT ![o] = "processing"]
    <3>1. order'[o] = "processing" /\ \A p \in Orders : p # o => order'[p] = order[p]
      BY <2>3 DEF TypeOK
    <3>2. AllProven(o)
      BY <2>0, <2>1 DEF ProvenInv, Proven, AllProven
    <3>3. order_status(o) \in {"ready", "invalid"}
      BY <2>3, <3>2 DEF StatusShape
    <3>4. order_status(o)' = "processing"
      BY <3>1 DEF StatusShape
    <3>5. View' = [View EXCEPT ![o] = "processing"]
      BY <1>b, <2>1, <3>1, <3>4
    <3>6. Signed[o] = {}
      <4>1. \A c \in certs : c.order # o
        BY <2>3 DEF ClaimInv
      <4> QED
        BY <1>d, <4>1
    <3>7. Lifecycle!Claim(o)
      BY <1>c, <2>1, <3>3, <3>5, <3>6 DEF Lifecycle!Claim, Lifecycle!Move, View, Signed
    <3> QED
      BY <3>7
  <2> QED
    BY <1>3, <2>0, <2>2, <2>3 DEF claim_for_issuance
<1>4. ASSUME NEW w \in Workers, SignAndStore(w) PROVE \E o \in Orders : Lifecycle!Sign(o)
  <2>0. PICK o \in Orders : o = job[w].order
    BY <1>0
  <2>1. /\ pc[w] = "sign"
        /\ certs' = certs \cup {[id |-> nextCert, order |-> o, asked |-> job[w].asked]}
        /\ UNCHANGED <<order, created, names, authz, now>>
    BY <1>4, <2>0 DEF SignAndStore, At
  <2>2. View' = View
    BY <1>a, <2>1 DEF View
  <2>3. order_status(o) = "processing"
    BY <2>0, <2>1 DEF ClaimInv, Holding, StatusShape
  <2>4. \A c \in certs : c.order # o
    BY <2>0, <2>1 DEF ClaimInv, Holding
  <2>5. PICK id : id = nextCert
    OBVIOUS
  <2>6. Signed'[o] = {id}
    <3>1. PICK new : new = [id |-> id, order |-> o, asked |-> job[w].asked]
      OBVIOUS
    <3>2. new.id = id /\ new.order = o /\ certs' = certs \cup {new}
      BY <2>1, <2>5, <3>1
    <3>3. {d \in certs' : d.order = o} = {new}
      BY <2>4, <3>2
    <3>4. Signed'[o] = {c.id : c \in {new}}
      BY <3>3 DEF Signed
    <3> QED
      BY <3>2, <3>4
  <2>7. \A p \in Orders : p # o => Signed'[p] = Signed[p]
    BY <2>1 DEF Signed
  <2>8. Signed' = [Signed EXCEPT ![o] = {id}]
    BY <2>6, <2>7 DEF Signed
  <2>9. \A p \in Orders : id \notin Signed[p]
    BY <2>5 DEF Signed, RowsInv, TypeOK, Certificates
  <2>10. Lifecycle!Sign(o)
    BY <1>d, <2>2, <2>3, <2>4, <2>6, <2>8, <2>9 DEF Lifecycle!Sign, View, Signed
  <2> QED
    BY <2>10
<1>5. ASSUME NEW w \in Workers, release_claim(w) PROVE \E o \in Orders : Lifecycle!GiveBack(o)
  <2>0. PICK o \in Orders : o = job[w].order
    BY <1>0
  <2>1. /\ pc[w] = "release"
        /\ order' = [order EXCEPT ![o] = "pending"]
        /\ UNCHANGED <<created, names, authz, certs, now>>
    BY <1>5, <2>0 DEF release_claim, At
  <2>2. order'[o] = "pending" /\ \A p \in Orders : p # o => order'[p] = order[p]
    BY <2>1 DEF TypeOK
  <2>3. order_status(o) = "processing" /\ \A c \in certs : c.order # o
    BY <2>0, <2>1 DEF ClaimInv, Holding, StatusShape
  <2>4. AllProven(o)'
    BY <2>0, <2>1 DEF ProvenInv, Proven, Holding, AllProven
  <2>5. PICK to \in {"ready", "invalid"} : order_status(o)' = to
    BY <2>2, <2>4 DEF StatusShape
  <2>6. View' = [View EXCEPT ![o] = to]
    BY <1>b, <2>1, <2>2, <2>5
  <2>7. Signed[o] = {} /\ Signed' = Signed
    BY <1>c, <1>d, <2>1, <2>3
  <2>8. Lifecycle!GiveBack(o)
    BY <2>3, <2>6, <2>7 DEF Lifecycle!GiveBack, Lifecycle!Move, View, Signed
  <2> QED
    BY <2>8
<1>6. ASSUME NEW w \in Workers, attach_certificate(w) PROVE \E o \in Orders : Lifecycle!Complete(o)
  <2>0. PICK o \in Orders : o = job[w].order
    BY <1>0
  <2>1. /\ pc[w] = "attach"
        /\ order' = [order EXCEPT ![o] = "valid"]
        /\ UNCHANGED <<created, names, authz, certs, now>>
    BY <1>6, <2>0 DEF attach_certificate, At
  <2>2. order'[o] = "valid" /\ \A p \in Orders : p # o => order'[p] = order[p]
    BY <2>1 DEF TypeOK
  <2>3. order_status(o) = "processing" /\ order_status(o)' = "valid"
    BY <2>0, <2>1, <2>2 DEF ClaimInv, Holding, StatusShape
  <2>4. PICK c \in certs : c.order = o
    BY <2>0, <2>1 DEF ClaimInv
  <2>5. Signed[o] # {} /\ Signed' = Signed
    BY <1>c, <2>1, <2>4 DEF Signed
  <2>6. View' = [View EXCEPT ![o] = "valid"]
    BY <1>b, <2>1, <2>2, <2>3
  <2>7. Lifecycle!Complete(o)
    BY <2>3, <2>5, <2>6 DEF Lifecycle!Complete, Lifecycle!Move, View, Signed
  <2> QED
    BY <2>7
<1>7. CASE Tick
  <2>1. now' = now + 1 /\ UNCHANGED <<order, created, names, authz, certs>>
    BY <1>7 DEF Tick
  <2>2. \A o \in Orders : Lapsed(o) => Lapsed(o)'
    BY <2>1, LifetimeAssumption DEF Lapsed, TypeOK
  <2>3. \A o \in Orders : AllProven(o)' <=> AllProven(o)
    BY <2>1 DEF AllProven
  <2>4. \A o \in Orders :
          \/ order_status(o)' = order_status(o)
          \/ order_status(o) \in {"pending", "ready"} /\ order_status(o)' = "invalid"
    BY <2>1, <2>2, <2>3 DEF StatusShape
  <2>5. PICK S : S = {o \in Orders : order_status(o)' # order_status(o)}
    OBVIOUS
  <2>6. S \in SUBSET {o \in Orders : View[o] \in {"pending", "ready"}}
    BY <2>4, <2>5 DEF View
  <2>7. View' = [o \in Orders |-> IF o \in S THEN "invalid" ELSE View[o]]
    BY <2>4, <2>5 DEF View
  <2>8. Lifecycle!Lapse
    BY <1>c, <2>1, <2>6, <2>7 DEF Lifecycle!Lapse, View, Signed
  <2> QED
    BY <2>8 DEF Lifecycle!Next
<1>8. CASE UNCHANGED <<order, created, names, authz, certs, now>>
  BY <1>a, <1>c, <1>8 DEF View
<1>9. ASSUME NEW w \in Workers, Continue(w) PROVE Lifecycle!Next \/ UNCHANGED <<View, Signed>>
  BY <1>1, <1>2, <1>3, <1>4, <1>5, <1>6, <1>8, <1>9
     DEF Continue, ReadAuthz, begin_challenge, _attempt_validation, record_challenge_failure,
         ReadAuthzs, ResolveIssuer, IssueFails, record, Lifecycle!Next
<1> QED
  BY <1>7, <1>8, <1>9
     DEF Next, Accept, vars, Abort, new_order, challenge_resource, finalize_order,
         deactivate_account, RetireIssuer, Crash

(* Whatever the handlers' interleaving, expiry and faults, a client only   *)
(* ever sees its orders go through the transitions of OrderLifecycle.      *)
THEOREM RefinesLifecycle == Spec => ImplementsLifecycle
<1>1. Init => Lifecycle!Init
  BY DEF Init, Lifecycle!Init, order_status
<1>2. Spec => []LifecycleInv
  BY TypeCorrect, ClaimInvariant, ChalInvariant, ProvenInvariant, RowsInvariant, PTL DEF LifecycleInv
<1>3. LifecycleInv => StatusShape
  BY StatusIs DEF LifecycleInv
<1> QED
  BY <1>1, <1>2, <1>3, LifecycleStep, PTL DEF Spec, ImplementsLifecycle, Lifecycle!Spec

=============================================================================
