----------------------------- MODULE CrlProofs -----------------------------
(***************************************************************************)
(* Proofs about Crl for any issuers, certificates, reasons and number of   *)
(* concurrent sessions, and any validity of a CRL.                         *)
(***************************************************************************)
EXTENDS Crl, TLAPS

(* The job of an idle session is a job.                                    *)
LEMMA NoJobType == NoJob \in Jobs /\ NoMarks \in Marks
<1>1. (CHOOSE i \in Issuers : TRUE) \in Issuers
  BY CrlAssumption
<1> QED
  BY <1>1 DEF NoJob, NoMarks, Jobs, Marks

(* What _revoked_entries reads is a function from certificates to          *)
(* revocations.                                                            *)
LEMMA EntriesType == ASSUME TypeOK, NEW w \in Workers PROVE _revoked_entries(w) \in Marks
<1>1. job[w] \in Jobs /\ revoked \in Marks
  BY DEF TypeOK
<1>2. job[w].mark \in Revocations \cup {None}
  BY <1>1 DEF Jobs
<1> QED
  BY <1>1, <1>2 DEF _revoked_entries, Marks

(* Every action keeps every variable within its type.                      *)
LEMMA TypeStep == TypeOK /\ [Next]_vars => TypeOK'
<1> SUFFICES ASSUME TypeOK, [Next]_vars PROVE TypeOK'
  OBVIOUS
<1>a. \A w \in Workers : Released(w) \in [Locks -> Workers \cup {None}]
  BY DEF TypeOK, Released
<1>b. \A i \in Issuers : stored_number(i) \in Nat
  BY DEF TypeOK, stored_number, CrlStates
<1> USE NoJobType DEF Goto, Steps
<1>1. ASSUME NEW w \in Workers, NEW c \in Certs, NEW why \in Reasons, revoke_certificate(w, c, why)
      PROVE  TypeOK'
  <2>1. [at |-> now, why |-> why] \in Revocations /\ IssuerOf[c] \in Issuers
    BY CrlAssumption DEF TypeOK, Revocations
  <2>2. job'[w] \in Jobs
    BY <1>1, <2>1 DEF revoke_certificate, TypeOK, Jobs
  <2> QED
    BY <1>1, <2>2 DEF revoke_certificate, TypeOK
<1>2. ASSUME NEW w \in Workers, FlushMark(w) PROVE TypeOK'
  BY <1>2 DEF FlushMark, TypeOK, Acquire, Locks, Jobs
<1>3. ASSUME NEW w \in Workers, NEW i \in Issuers, current_crl(w, i) PROVE TypeOK'
  <2>1. job'[w] \in Jobs
    BY <1>3, <1>b DEF current_crl, TypeOK, Jobs
  <2> QED
    BY <1>3, <2>1 DEF current_crl, TypeOK
<1>4. ASSUME NEW w \in Workers, LockState(w) PROVE TypeOK'
  <2>1. job[w] \in Jobs /\ job[w].issuer \in Issuers
    BY DEF TypeOK, Jobs
  <2>2. job'[w] \in Jobs
    BY <1>4, <1>b, <2>1 DEF LockState, TypeOK, Jobs
  <2>3. lock' \in [Locks -> Workers \cup {None}]
    BY <1>4, <2>1 DEF LockState, TypeOK, Acquire, Locks
  <2> QED
    BY <1>4, <2>2, <2>3 DEF LockState, TypeOK
<1>5. ASSUME NEW w \in Workers, ReadEntries(w) PROVE TypeOK'
  <2>1. job[w] \in Jobs /\ _revoked_entries(w) \in Marks
    BY EntriesType DEF TypeOK
  <2>2. [job[w] EXCEPT !.entries = _revoked_entries(w)] \in Jobs
    BY <2>1 DEF Jobs
  <2> QED
    BY <1>5, <2>2 DEF ReadEntries, TypeOK
<1>6. ASSUME NEW w \in Workers, Publish(w) PROVE TypeOK'
  <2>1. job[w] \in Jobs
    BY DEF TypeOK
  <2>2. [number |-> next_number(w), at |-> job[w].at, listed |-> job[w].entries] \in CrlStates
    BY <2>1 DEF next_number, CrlStates, Jobs
  <2>3. crl' \in [Issuers -> CrlStates \cup {None}]
    BY <1>6, <2>1, <2>2 DEF Publish, TypeOK, Jobs
  <2>4. revoked' \in Marks
    BY <1>6, <2>1 DEF Publish, TypeOK, Marks, Jobs
  <2> QED
    BY <1>6, <1>a, <2>3, <2>4 DEF Publish, TypeOK
<1>7. ASSUME NEW w \in Workers, Rollback(w) PROVE TypeOK'
  BY <1>7, <1>a DEF Rollback, TypeOK
<1>8. CASE Tick
  BY <1>8 DEF Tick, TypeOK
<1>9. CASE UNCHANGED vars
  BY <1>9 DEF vars, TypeOK
<1> QED
  BY <1>1, <1>2, <1>3, <1>4, <1>5, <1>6, <1>7, <1>8, <1>9 DEF Next, Continue

(* Type correctness of revocation and CRL storage: every reachable state   *)
(* has the types the columns and session variables are declared with, and  *)
(* no CRL is ever numbered 0.                                              *)
THEOREM TypeCorrect == Spec => []TypeOK
<1>1. Init => TypeOK
  BY NoJobType, CrlAssumption DEF Init, TypeOK, Steps
<1> QED
  BY <1>1, TypeStep, PTL DEF Spec

-----------------------------------------------------------------------------
(* Row locks: the published list is exact                                  *)

(* A session on its way past LockState that has loaded the crl_state row   *)
(* holds its lock; the row, once there, stays; a session revokes in the    *)
(* name of its certificate's issuer.                                       *)
Held ==
    \A w \in Workers :
        /\ job[w].loaded => crl[job[w].issuer] # None
        /\ pc[w] \in {"entries", "publish"} /\ job[w].loaded => lock[job[w].issuer] = w
        /\ job[w].cert # None => IssuerOf[job[w].cert] = job[w].issuer

(* A session whose write can still succeed has read exactly the committed  *)
(* revocations of its issuer, its own mark aside.                          *)
Fresh ==
    \A w \in Workers :
        pc[w] = "publish" /\ (job[w].loaded \/ crl[job[w].issuer] = None) =>
            \A c \in Certs : IssuerOf[c] = job[w].issuer =>
                job[w].entries[c] = IF c = job[w].cert THEN job[w].mark ELSE revoked[c]

ExactInv == TypeOK /\ Held /\ Fresh /\ CrlExact

(* Every action keeps Held: only LockState takes an issuer's lock, only    *)
(* the holder gives it back, and no action deletes a crl_state row.        *)
LEMMA HeldStep == ASSUME RowLocks, TypeOK, Held, [Next]_vars PROVE Held'
<1>a. \A w \in Workers : job[w] \in Jobs /\ job[w].issuer \in Issuers
  BY DEF TypeOK, Jobs
<1>b. ~ NoJob.loaded /\ NoJob.cert = None
  BY DEF NoJob
<1>c. None \notin Workers /\ None \notin Certs
  BY CrlAssumption
<1>1. ASSUME NEW w \in Workers, NEW c \in Certs, NEW why \in Reasons, revoke_certificate(w, c, why)
      PROVE  Held'
  <2>1. ~ job'[w].loaded /\ job'[w].cert = c /\ job'[w].issuer = IssuerOf[c]
    BY <1>1 DEF revoke_certificate, Goto, NoJob, TypeOK
  <2>2. \A u \in Workers \ {w} : job'[u] = job[u] /\ pc'[u] = pc[u]
    BY <1>1 DEF revoke_certificate, Goto, TypeOK
  <2> QED
    BY <1>1, <2>1, <2>2 DEF Held, revoke_certificate
<1>2. ASSUME NEW w \in Workers, FlushMark(w) PROVE Held'
  <2>1. job' = job /\ crl' = crl /\ pc'[w] = "state"
    BY <1>2 DEF FlushMark, Goto, TypeOK
  <2>2. \A u \in Workers \ {w} : pc'[u] = pc[u]
    BY <1>2 DEF FlushMark, Goto, TypeOK
  <2>3. \A u \in Workers, i \in Issuers : lock[i] = u => lock'[i] = u
    BY <1>2, <1>c DEF FlushMark, Acquire, Free, TypeOK, Locks
  <2> QED
    BY <1>a, <2>1, <2>2, <2>3 DEF Held
<1>3. ASSUME NEW w \in Workers, NEW i \in Issuers, current_crl(w, i) PROVE Held'
  <2>1. /\ job'[w].issuer = i /\ job'[w].cert = None /\ pc'[w] = "state"
        /\ job'[w].loaded = (crl[i] # None)
    BY <1>3 DEF current_crl, Goto, NoJob, TypeOK
  <2>2. \A u \in Workers \ {w} : job'[u] = job[u] /\ pc'[u] = pc[u]
    BY <1>3 DEF current_crl, Goto, TypeOK
  <2> QED
    BY <1>3, <2>1, <2>2 DEF Held, current_crl
<1>4. ASSUME NEW w \in Workers, LockState(w) PROVE Held'
  <2> DEFINE i == job[w].issuer
  <2>1. /\ job'[w].issuer = i /\ job'[w].cert = job[w].cert
        /\ job'[w].loaded => crl[i] # None
    BY <1>4, <1>a DEF LockState, Goto, TypeOK, Held, Jobs
  <2>2. \A u \in Workers \ {w} : job'[u] = job[u] /\ pc'[u] = pc[u]
    BY <1>4 DEF LockState, Goto, TypeOK
  <2>3. crl[i] # None => lock'[i] = w
    BY <1>4, <1>a DEF LockState, Acquire, TypeOK, Locks
  <2>4. \A u \in Workers, k \in Issuers : lock[k] = u => lock'[k] = u
    BY <1>4, <1>a, <1>c DEF LockState, Acquire, Free, TypeOK, Locks
  <2>5. crl' = crl
    BY <1>4 DEF LockState
  <2> QED
    BY <1>a, <2>1, <2>2, <2>3, <2>4, <2>5 DEF Held
<1>5. ASSUME NEW w \in Workers, ReadEntries(w) PROVE Held'
  <2>1. /\ job'[w].issuer = job[w].issuer /\ job'[w].cert = job[w].cert
        /\ job'[w].loaded = job[w].loaded /\ pc[w] = "entries"
    BY <1>5, <1>a DEF ReadEntries, Goto, TypeOK, Jobs
  <2>2. \A u \in Workers \ {w} : job'[u] = job[u] /\ pc'[u] = pc[u]
    BY <1>5 DEF ReadEntries, Goto, TypeOK
  <2> QED
    BY <1>5, <2>1, <2>2 DEF Held, ReadEntries
<1>6. ASSUME NEW w \in Workers, Publish(w) PROVE Held'
  <2>1. job'[w] = NoJob /\ pc'[w] = "idle"
    BY <1>6 DEF Publish, Goto, TypeOK
  <2>2. \A u \in Workers \ {w} : job'[u] = job[u] /\ pc'[u] = pc[u]
    BY <1>6 DEF Publish, Goto, TypeOK
  <2>3. \A u \in Workers \ {w}, k \in Issuers : lock[k] = u => lock'[k] = u
    BY <1>6 DEF Publish, Released, Locks
  <2>4. \A k \in Issuers : crl[k] # None => crl'[k] # None
    <3>1. [number |-> next_number(w), at |-> job[w].at, listed |-> job[w].entries] \in CrlStates
      BY <1>a DEF next_number, CrlStates, Jobs
    <3> QED
      BY <1>6, <1>a, <3>1, NoneAssumption DEF Publish, TypeOK
  <2> QED
    BY <1>a, <1>b, <2>1, <2>2, <2>3, <2>4 DEF Held
<1>7. ASSUME NEW w \in Workers, Rollback(w) PROVE Held'
  <2>1. job'[w] = NoJob /\ pc'[w] = "idle" /\ crl' = crl
    BY <1>7 DEF Rollback, Goto, TypeOK
  <2>2. \A u \in Workers \ {w} : job'[u] = job[u] /\ pc'[u] = pc[u]
    BY <1>7 DEF Rollback, Goto, TypeOK
  <2>3. \A u \in Workers \ {w}, k \in Issuers : lock[k] = u => lock'[k] = u
    BY <1>7 DEF Rollback, Released, Locks
  <2> QED
    BY <1>a, <1>b, <2>1, <2>2, <2>3 DEF Held
<1>8. CASE Tick
  BY <1>8 DEF Tick, Held
<1>9. CASE UNCHANGED vars
  BY <1>9 DEF vars, Held
<1> QED
  BY <1>1, <1>2, <1>3, <1>4, <1>5, <1>6, <1>7, <1>8, <1>9 DEF Next, Continue

-----------------------------------------------------------------------------
(* What Publish does to the rows, when the lock discipline holds: it either*)
(* leaves them alone or replaces the list of its own issuer with the       *)
(* committed revocations of that issuer, its own mark included.            *)
LEMMA PublishExact ==
    ASSUME RowLocks, ExactInv, NEW w \in Workers, Publish(w)
    PROVE  /\ CrlExact'
           /\ \A u \in Workers \ {w}, c \in Certs :
                pc[u] = "publish" /\ (job[u].loaded \/ crl'[job[u].issuer] = None)
                  /\ IssuerOf[c] = job[u].issuer
                => /\ crl[job[u].issuer] = None \/ job[u].loaded
                   /\ revoked'[c] = revoked[c]
<1> DEFINE i == job[w].issuer
           k == job[w].cert
           new == [number |-> next_number(w), at |-> job[w].at, listed |-> job[w].entries]
<1>1. /\ job[w] \in Jobs /\ i \in Issuers /\ job[w].entries \in Marks
      /\ k # None => k \in Certs /\ IssuerOf[k] = i
  BY DEF ExactInv, TypeOK, Held, Jobs
<1>2. new \in CrlStates /\ new # None /\ new.listed = job[w].entries
  BY <1>1, NoneAssumption DEF next_number, CrlStates, Jobs
<1>3. IssuerOf \in [Certs -> Issuers] /\ None \notin Certs
  BY CrlAssumption
<1>4. CASE crl' = crl /\ revoked' = revoked
  BY <1>4 DEF ExactInv, CrlExact
<1>5. CASE /\ job[w].loaded \/ crl[i] = None
           /\ crl' = [crl EXCEPT ![i] = new]
           /\ revoked' = IF k = None THEN revoked ELSE [revoked EXCEPT ![k] = job[w].mark]
  <2>1. pc[w] = "publish"
    BY DEF Publish
  <2>2. crl'[i] = new /\ \A j \in Issuers \ {i} : crl'[j] = crl[j]
    BY <1>1, <1>5 DEF ExactInv, TypeOK
  <2>3. \A c \in Certs : revoked'[c] = IF c = k THEN job[w].mark ELSE revoked[c]
    BY <1>1, <1>3, <1>5 DEF ExactInv, TypeOK, Marks
  <2>4. CrlExact'
    <3> SUFFICES ASSUME NEW c \in Certs
                 PROVE  revoked'[c] = IF crl'[IssuerOf[c]] = None THEN None
                                      ELSE crl'[IssuerOf[c]].listed[c]
      BY DEF CrlExact
    <3>1. CASE IssuerOf[c] = i
      <4>1. job[w].entries[c] = IF c = k THEN job[w].mark ELSE revoked[c]
        BY <1>5, <2>1, <3>1 DEF ExactInv, Fresh
      <4> QED
        BY <1>2, <2>2, <2>3, <3>1, <4>1
    <3>2. CASE IssuerOf[c] # i
      <4>1. c # k
        BY <1>1, <1>3, <3>2
      <4>2. IssuerOf[c] \in Issuers \ {i}
        BY <1>3, <3>2
      <4> QED
        BY <2>2, <2>3, <4>1, <4>2 DEF ExactInv, CrlExact
    <3> QED
      BY <3>1, <3>2
  <2>5. ASSUME NEW u \in Workers \ {w}, NEW c \in Certs, pc[u] = "publish",
               job[u].loaded \/ crl'[job[u].issuer] = None, IssuerOf[c] = job[u].issuer
        PROVE  /\ crl[job[u].issuer] = None \/ job[u].loaded
               /\ revoked'[c] = revoked[c]
    <3>1. job[u].issuer \in Issuers
      BY DEF ExactInv, TypeOK, Jobs
    <3>2. job[u].issuer # i
      <4> SUFFICES ASSUME job[u].issuer = i PROVE FALSE
        OBVIOUS
      <4>1. job[u].loaded
        BY <1>2, <2>2, <2>5
      <4>2. lock[i] = u /\ crl[i] # None
        BY <2>5, <4>1 DEF ExactInv, Held
      <4>3. lock[i] = w
        BY <1>5, <2>1, <4>2 DEF ExactInv, Held
      <4> QED
        BY <4>2, <4>3
    <3>3. c # k
      BY <1>1, <1>3, <2>5, <3>2
    <3> QED
      BY <2>2, <2>3, <2>5, <3>1, <3>2, <3>3
  <2> QED
    BY <2>4, <2>5
<1> QED
  BY <1>4, <1>5 DEF Publish

(* Every action keeps Fresh and CrlExact on a database with row locks.     *)
LEMMA ExactStep == ASSUME RowLocks, ExactInv, [Next]_vars PROVE Fresh' /\ CrlExact'
<1> USE DEF ExactInv
<1>0. TypeOK
  OBVIOUS
<1>1. ASSUME NEW w \in Workers, pc'[w] # "publish", crl' = crl, revoked' = revoked,
             \A u \in Workers \ {w} : job'[u] = job[u] /\ pc'[u] = pc[u]
      PROVE  Fresh' /\ CrlExact'
  BY <1>1 DEF Fresh, CrlExact
<1>2. ASSUME NEW w \in Workers, NEW c \in Certs, NEW why \in Reasons, revoke_certificate(w, c, why)
      PROVE  Fresh' /\ CrlExact'
  BY <1>0, <1>1, <1>2 DEF revoke_certificate, Goto, TypeOK
<1>3. ASSUME NEW w \in Workers, FlushMark(w) PROVE Fresh' /\ CrlExact'
  BY <1>0, <1>1, <1>3 DEF FlushMark, Goto, TypeOK
<1>4. ASSUME NEW w \in Workers, NEW i \in Issuers, current_crl(w, i) PROVE Fresh' /\ CrlExact'
  BY <1>0, <1>1, <1>4 DEF current_crl, Goto, TypeOK
<1>5. ASSUME NEW w \in Workers, LockState(w) PROVE Fresh' /\ CrlExact'
  BY <1>0, <1>1, <1>5 DEF LockState, Goto, TypeOK
<1>6. ASSUME NEW w \in Workers, ReadEntries(w) PROVE Fresh' /\ CrlExact'
  <2>1. job[w] \in Jobs
    BY <1>0 DEF TypeOK
  <2>2. /\ job'[w].issuer = job[w].issuer /\ job'[w].cert = job[w].cert
        /\ job'[w].mark = job[w].mark /\ job'[w].entries = _revoked_entries(w)
    BY <1>0, <1>6, <2>1 DEF ReadEntries, Goto, TypeOK, Jobs
  <2>3. \A c \in Certs : IssuerOf[c] = job[w].issuer =>
            job'[w].entries[c] = IF c = job[w].cert THEN job[w].mark ELSE revoked[c]
    BY <2>2 DEF _revoked_entries
  <2>4. \A u \in Workers \ {w} : job'[u] = job[u] /\ pc'[u] = pc[u]
    BY <1>0, <1>6 DEF ReadEntries, Goto, TypeOK
  <2>5. crl' = crl /\ revoked' = revoked
    BY <1>6 DEF ReadEntries
  <2> QED
    BY <2>2, <2>3, <2>4, <2>5 DEF Fresh, CrlExact
<1>7. ASSUME NEW w \in Workers, Publish(w) PROVE Fresh' /\ CrlExact'
  <2>1. pc'[w] = "idle" /\ \A u \in Workers \ {w} : job'[u] = job[u] /\ pc'[u] = pc[u]
    BY <1>0, <1>7 DEF Publish, Goto, TypeOK
  <2>2. Fresh'
    <3> SUFFICES ASSUME NEW u \in Workers, pc'[u] = "publish",
                        job'[u].loaded \/ crl'[job'[u].issuer] = None,
                        NEW c \in Certs, IssuerOf[c] = job'[u].issuer
                 PROVE  job'[u].entries[c] = IF c = job'[u].cert THEN job'[u].mark ELSE revoked'[c]
      BY DEF Fresh
    <3>1. u # w /\ job'[u] = job[u] /\ pc[u] = "publish"
      BY <2>1
    <3>2. revoked'[c] = revoked[c] /\ (job[u].loaded \/ crl[job[u].issuer] = None)
      BY <1>7, <3>1, PublishExact
    <3> QED
      BY <3>1, <3>2 DEF Fresh
  <2> QED
    BY <1>7, <2>2, PublishExact
<1>8. ASSUME NEW w \in Workers, Rollback(w) PROVE Fresh' /\ CrlExact'
  BY <1>0, <1>1, <1>8 DEF Rollback, Goto, TypeOK
<1>9. CASE Tick
  BY <1>9 DEF Tick, Fresh, CrlExact
<1>10. CASE UNCHANGED vars
  BY <1>10 DEF vars, Fresh, CrlExact
<1> QED
  BY <1>2, <1>3, <1>4, <1>5, <1>6, <1>7, <1>8, <1>9, <1>10 DEF Next, Continue

(* There is no list and no job yet.                                        *)
LEMMA InitExact == Init => ExactInv
<1> SUFFICES ASSUME Init PROVE ExactInv
  OBVIOUS
<1>1. TypeOK
  BY NoJobType, CrlAssumption DEF Init, TypeOK, Steps
<1>2. Held
  BY DEF Init, Held, NoJob
<1>3. Fresh
  BY DEF Init, Fresh
<1>4. CrlExact
  BY CrlAssumption DEF Init, CrlExact, NoMarks
<1> QED
  BY <1>1, <1>2, <1>3, <1>4 DEF ExactInv

(* On a database with row locks, regenerate_crl and revoke_certificate     *)
(* keep every published CRL equal to the committed revocations of its      *)
(* issuer, for any number of overlapping revocations and refreshes.        *)
THEOREM RevocationsListed == ASSUME RowLocks PROVE Spec => []CrlExact
<1>1. Init => ExactInv
  BY InitExact
<1>2. ExactInv /\ [Next]_vars => ExactInv'
  BY TypeStep, HeldStep, ExactStep DEF ExactInv
<1>3. ExactInv => CrlExact
  BY DEF ExactInv
<1> QED
  BY <1>1, <1>2, <1>3, PTL DEF Spec

-----------------------------------------------------------------------------
(* Any database: a CRL lists revoked certificates only                     *)

(* What a session has read is its issuer's and revoked, its own mark aside.*)
Marked ==
    \A w \in Workers :
        /\ job[w].cert # None => job[w].mark # None /\ IssuerOf[job[w].cert] = job[w].issuer
        /\ pc[w] = "publish" => \A c \in Certs : job[w].entries[c] # None =>
              IssuerOf[c] = job[w].issuer /\ (c = job[w].cert \/ revoked[c] # None)

ListedInv == TypeOK /\ Marked /\ CrlListsRevoked

(* Every action keeps Marked and CrlListsRevoked, whatever the database.   *)
LEMMA ListedStep == ListedInv /\ [Next]_vars => Marked' /\ CrlListsRevoked'
<1> SUFFICES ASSUME ListedInv, [Next]_vars PROVE Marked' /\ CrlListsRevoked'
  OBVIOUS
<1> USE DEF ListedInv
<1>0. TypeOK /\ None \notin Certs /\ None \notin Revocations /\ IssuerOf \in [Certs -> Issuers]
  BY CrlAssumption, NoneAssumption
<1>1. ASSUME NEW w \in Workers, pc'[w] # "publish", crl' = crl, revoked' = revoked,
             job'[w].cert # None => job'[w].mark # None /\ IssuerOf[job'[w].cert] = job'[w].issuer,
             \A u \in Workers \ {w} : job'[u] = job[u] /\ pc'[u] = pc[u]
      PROVE  Marked' /\ CrlListsRevoked'
  BY <1>1 DEF Marked, CrlListsRevoked
<1>2. ASSUME NEW w \in Workers, NEW c \in Certs, NEW why \in Reasons, revoke_certificate(w, c, why)
      PROVE  Marked' /\ CrlListsRevoked'
  <2>1. [at |-> now, why |-> why] \in Revocations
    BY <1>0 DEF TypeOK, Revocations
  <2>2. job'[w].mark # None /\ job'[w].cert = c /\ job'[w].issuer = IssuerOf[c]
    BY <1>0, <1>2, <2>1 DEF revoke_certificate, Goto, NoJob, TypeOK
  <2> QED
    BY <1>0, <1>1, <1>2, <2>2 DEF revoke_certificate, Goto, TypeOK
<1>3. ASSUME NEW w \in Workers, FlushMark(w) PROVE Marked' /\ CrlListsRevoked'
  BY <1>0, <1>1, <1>3 DEF FlushMark, Goto, TypeOK, Marked
<1>4. ASSUME NEW w \in Workers, NEW i \in Issuers, current_crl(w, i)
      PROVE  Marked' /\ CrlListsRevoked'
  <2>1. job'[w].cert = None
    BY <1>0, <1>4 DEF current_crl, Goto, NoJob, TypeOK
  <2> QED
    BY <1>0, <1>1, <1>4, <2>1 DEF current_crl, Goto, TypeOK
<1>5. ASSUME NEW w \in Workers, LockState(w) PROVE Marked' /\ CrlListsRevoked'
  <2>1. job[w] \in Jobs
    BY <1>0 DEF TypeOK
  <2>2. job'[w].cert = job[w].cert /\ job'[w].mark = job[w].mark /\ job'[w].issuer = job[w].issuer
    BY <1>0, <1>5, <2>1 DEF LockState, Goto, TypeOK, Jobs
  <2>3. job'[w].cert # None => job'[w].mark # None /\ IssuerOf[job'[w].cert] = job'[w].issuer
    BY <2>2 DEF Marked
  <2> QED
    BY <1>0, <1>1, <1>5, <2>3 DEF LockState, Goto, TypeOK
<1>6. ASSUME NEW w \in Workers, ReadEntries(w) PROVE Marked' /\ CrlListsRevoked'
  <2>1. job[w] \in Jobs
    BY <1>0 DEF TypeOK
  <2>2. /\ job'[w].issuer = job[w].issuer /\ job'[w].cert = job[w].cert
        /\ job'[w].mark = job[w].mark /\ job'[w].entries = _revoked_entries(w)
    BY <1>0, <1>6, <2>1 DEF ReadEntries, Goto, TypeOK, Jobs
  <2>3. \A c \in Certs : job'[w].entries[c] # None =>
            IssuerOf[c] = job[w].issuer /\ (c = job[w].cert \/ revoked[c] # None)
    BY <1>0, <2>2 DEF _revoked_entries, Marked
  <2>4. \A u \in Workers \ {w} : job'[u] = job[u] /\ pc'[u] = pc[u]
    BY <1>0, <1>6 DEF ReadEntries, Goto, TypeOK
  <2>5. crl' = crl /\ revoked' = revoked
    BY <1>6 DEF ReadEntries
  <2> QED
    BY <2>2, <2>3, <2>4, <2>5 DEF Marked, CrlListsRevoked
<1>7. ASSUME NEW w \in Workers, Publish(w) PROVE Marked' /\ CrlListsRevoked'
  <2> DEFINE i == job[w].issuer
             k == job[w].cert
             new == [number |-> next_number(w), at |-> job[w].at, listed |-> job[w].entries]
  <2>1. job[w] \in Jobs /\ i \in Issuers /\ (k # None => k \in Certs /\ job[w].mark # None)
    BY <1>0 DEF TypeOK, Jobs, Marked
  <2>2. \A c \in Certs : revoked[c] # None => revoked'[c] # None
    BY <1>0, <1>7, <2>1 DEF Publish, TypeOK, Marks
  <2>3. /\ job'[w] = NoJob /\ pc'[w] = "idle"
        /\ \A u \in Workers \ {w} : job'[u] = job[u] /\ pc'[u] = pc[u]
    BY <1>0, <1>7 DEF Publish, Goto, TypeOK
  <2>4. Marked'
    BY <2>2, <2>3 DEF Marked, NoJob
  <2>5. CASE crl' = crl
    BY <2>2, <2>4, <2>5 DEF CrlListsRevoked
  <2>6. CASE /\ crl' = [crl EXCEPT ![i] = new]
             /\ revoked' = IF k = None THEN revoked ELSE [revoked EXCEPT ![k] = job[w].mark]
    <3>1. crl'[i].listed = job[w].entries /\ \A j \in Issuers \ {i} : crl'[j] = crl[j]
      BY <1>0, <2>1, <2>6 DEF TypeOK
    <3>2. k # None => revoked'[k] # None
      BY <1>0, <2>1, <2>6 DEF TypeOK, Marks
    <3>3. \A c \in Certs : job[w].entries[c] # None => IssuerOf[c] = i /\ revoked'[c] # None
      BY <1>0, <1>7, <2>2, <3>2 DEF Marked, Publish
    <3> QED
      BY <2>2, <2>4, <3>1, <3>3 DEF CrlListsRevoked
  <2> QED
    BY <1>7, <2>4, <2>5, <2>6 DEF Publish
<1>8. ASSUME NEW w \in Workers, Rollback(w) PROVE Marked' /\ CrlListsRevoked'
  <2>1. job'[w].cert = None
    BY <1>0, <1>8 DEF Rollback, Goto, NoJob, TypeOK
  <2> QED
    BY <1>0, <1>1, <1>8, <2>1 DEF Rollback, Goto, TypeOK
<1>9. CASE Tick
  BY <1>9 DEF Tick, Marked, CrlListsRevoked
<1>10. CASE UNCHANGED vars
  BY <1>10 DEF vars, Marked, CrlListsRevoked
<1> QED
  BY <1>2, <1>3, <1>4, <1>5, <1>6, <1>7, <1>8, <1>9, <1>10 DEF Next, Continue

(* No session has read anything yet.                                       *)
LEMMA InitListed == Init => ListedInv
<1> SUFFICES ASSUME Init PROVE ListedInv
  OBVIOUS
<1>1. TypeOK
  BY InitExact DEF ExactInv
<1>2. Marked
  BY DEF Init, Marked, NoJob
<1>3. CrlListsRevoked
  BY DEF Init, CrlListsRevoked
<1> QED
  BY <1>1, <1>2, <1>3 DEF ListedInv

(* Whatever the database, _revoked_entries and the transaction around it   *)
(* put no certificate on a CRL that is not revoked, and none on the CRL of *)
(* an issuer that did not sign it.                                         *)
THEOREM OnlyRevokedListed == Spec => []CrlListsRevoked
<1>1. Init => ListedInv
  BY InitListed
<1>2. ListedInv /\ [Next]_vars => ListedInv'
  BY TypeStep, ListedStep DEF ListedInv
<1>3. ListedInv => CrlListsRevoked
  BY DEF ListedInv
<1> QED
  BY <1>1, <1>2, <1>3, PTL DEF Spec

-----------------------------------------------------------------------------
(* Row locks: revocation is one step of the register                       *)

(* The list of every issuer that has one is the register's.                *)
ListsAgree ==
    \A i \in Issuers : crl[i] # None => crl[i].listed = Register!ListOf(i, revoked)

RegisterInv == ExactInv /\ ListedInv

(* An exact list without other issuers' certificates is the register's.    *)
LEMMA ExactLists == RegisterInv => ListsAgree
<1> SUFFICES ASSUME RegisterInv, NEW i \in Issuers, crl[i] # None
             PROVE  crl[i].listed = Register!ListOf(i, revoked)
  BY DEF ListsAgree
<1>1. crl[i].listed \in Marks
  BY DEF RegisterInv, ExactInv, TypeOK, CrlStates
<1>2. \A c \in Certs : crl[i].listed[c] = IF IssuerOf[c] = i THEN revoked[c] ELSE None
  BY DEF RegisterInv, ExactInv, ListedInv, CrlExact, CrlListsRevoked
<1> QED
  BY <1>1, <1>2 DEF Register!ListOf, Marks

(* The marks and lists change in Publish only, and there as the register's *)
(* Revoke or Refresh changes them.                                         *)
LEMMA RegisterStep ==
    TypeOK /\ Marked /\ ListsAgree' /\ [Next]_vars => [Register!Next]_(Register!vars)
<1> SUFFICES ASSUME TypeOK, Marked, ListsAgree', [Next]_vars
             PROVE  Register!Next \/ UNCHANGED Register!vars
  OBVIOUS
<1>1. ASSUME revoked' = revoked, crl' = crl PROVE UNCHANGED Register!vars
  BY <1>1 DEF Register!vars
<1>2. ASSUME NEW w \in Workers, Publish(w) PROVE Register!Next \/ UNCHANGED Register!vars
  <2> DEFINE new == [number |-> next_number(w), at |-> job[w].at, listed |-> job[w].entries]
  <2>0. PICK i \in Issuers, k \in Certs \cup {None} : i = job[w].issuer /\ k = job[w].cert
    BY DEF TypeOK, Jobs
  <2>1. CASE revoked' = revoked /\ crl' = crl
    BY <1>1, <2>1
  <2>2. CASE /\ crl' = [crl EXCEPT ![i] = new]
             /\ revoked' = IF k = None THEN revoked ELSE [revoked EXCEPT ![k] = job[w].mark]
    <3>1. new \in CrlStates /\ new # None
      BY NoneAssumption DEF next_number, CrlStates, Jobs, TypeOK
    <3>2. crl'[i] # None /\ \A j \in Issuers \ {i} : crl'[j] = crl[j]
      BY <2>2, <3>1 DEF TypeOK
    <3>3. crl'[i].listed = Register!ListOf(i, revoked')
      BY <3>2 DEF ListsAgree, Register!ListOf
    <3>4. Register!Publish(i)
      BY <3>2, <3>3 DEF Register!Publish
    <3>5. CASE k = None
      BY <2>2, <3>4, <3>5 DEF Register!Next, Register!Refresh
    <3>6. CASE k # None
      <4>1. k \in Certs /\ IssuerOf[k] = i /\ job[w].mark # None
        BY <2>0, <3>6 DEF Marked
      <4>2. revoked'[k] = job[w].mark /\ revoked' = [revoked EXCEPT ![k] = revoked'[k]]
        BY <2>2, <3>6, <4>1 DEF TypeOK, Marks
      <4> QED
        BY <3>4, <4>1, <4>2 DEF Register!Next, Register!Revoke
    <3> QED
      BY <3>5, <3>6
  <2> QED
    BY <1>2, <2>0, <2>1, <2>2 DEF Publish
<1>3. ASSUME NEW w \in Workers, NEW c \in Certs, NEW why \in Reasons, revoke_certificate(w, c, why)
      PROVE  UNCHANGED Register!vars
  BY <1>1, <1>3 DEF revoke_certificate
<1>4. ASSUME NEW w \in Workers, NEW i \in Issuers, current_crl(w, i)
      PROVE  UNCHANGED Register!vars
  BY <1>1, <1>4 DEF current_crl
<1>5. ASSUME NEW w \in Workers, FlushMark(w) \/ LockState(w) \/ ReadEntries(w) \/ Rollback(w)
      PROVE  UNCHANGED Register!vars
  BY <1>1, <1>5 DEF FlushMark, LockState, ReadEntries, Rollback
<1>6. CASE Tick \/ UNCHANGED vars
  BY <1>1, <1>6 DEF Tick, vars
<1> QED
  BY <1>2, <1>3, <1>4, <1>5, <1>6 DEF Next, Continue

(* On a database with row locks, revoke_certificate, current_crl and       *)
(* regenerate_crl, run statement by statement in any number of overlapping *)
(* sessions, implement the register: a revocation and its publication are  *)
(* one step, and no later publication loses it.                            *)
THEOREM RefinesRegister == ASSUME RowLocks PROVE Spec => ImplementsRegister
<1>1. Init => RegisterInv
  BY InitExact, InitListed DEF RegisterInv
<1>2. RegisterInv /\ [Next]_vars => RegisterInv'
  BY TypeStep, HeldStep, ExactStep, ListedStep DEF RegisterInv, ExactInv, ListedInv
<1>3. RegisterInv => TypeOK /\ Marked
  BY DEF RegisterInv, ListedInv
<1>4. Init => Register!Init
  BY DEF Init, Register!Init, NoMarks
<1> QED
  BY <1>1, <1>2, <1>3, <1>4, ExactLists, RegisterStep, PTL DEF Spec, ImplementsRegister, Register!Spec

-----------------------------------------------------------------------------
(* Row locks: a revocation's list has a higher number                      *)

(* A session that revokes reads crl_state for the first time under its     *)
(* lock, so the number it has read is still the stored one.                *)
NumberRead ==
    \A w \in Workers : job[w].cert # None =>
        /\ pc[w] \in {"mark", "state"} => ~ job[w].loaded
        /\ pc[w] \in {"entries", "publish"} /\ job[w].loaded =>
               job[w].number = crl[job[w].issuer].number

ClimbInv == TypeOK /\ Held /\ NumberRead

(* Publish replaces only a row that no other session past LockState holds. *)
LEMMA PublishOwn ==
    ASSUME RowLocks, TypeOK, Held, NEW w \in Workers, Publish(w), NEW u \in Workers \ {w},
           pc[u] \in {"entries", "publish"}, job[u].loaded
    PROVE  crl'[job[u].issuer] = crl[job[u].issuer]
<1>1. job[u].issuer \in Issuers /\ job[w].issuer \in Issuers
  BY DEF TypeOK, Jobs
<1>2. lock[job[u].issuer] = u /\ crl[job[u].issuer] # None
  BY DEF Held
<1>3. CASE job[w].issuer # job[u].issuer
  BY <1>1, <1>3 DEF Publish, TypeOK
<1>4. CASE job[w].issuer = job[u].issuer
  <2>1. ~ job[w].loaded
    BY <1>2, <1>4 DEF Held, Publish
  <2> QED
    BY <1>2, <1>4, <2>1 DEF Publish
<1> QED
  BY <1>3, <1>4

(* Every action keeps what a revoking session has read true.               *)
LEMMA NumberReadStep == ASSUME RowLocks, ClimbInv, [Next]_vars PROVE NumberRead'
<1> USE DEF ClimbInv
<1>0. TypeOK /\ \A w \in Workers : job[w] \in Jobs
  BY DEF TypeOK
<1>1. ASSUME NEW w \in Workers, crl' = crl, job'[w].cert = None,
             \A u \in Workers \ {w} : job'[u] = job[u] /\ pc'[u] = pc[u]
      PROVE  NumberRead'
  BY <1>1 DEF NumberRead
<1>2. ASSUME NEW w \in Workers, NEW c \in Certs, NEW why \in Reasons, revoke_certificate(w, c, why)
      PROVE  NumberRead'
  <2>1. pc'[w] = "mark" /\ ~ job'[w].loaded
    BY <1>0, <1>2 DEF revoke_certificate, Goto, NoJob, TypeOK
  <2>2. crl' = crl /\ \A u \in Workers \ {w} : job'[u] = job[u] /\ pc'[u] = pc[u]
    BY <1>0, <1>2 DEF revoke_certificate, Goto, TypeOK
  <2> QED
    BY <2>1, <2>2 DEF NumberRead
<1>3. ASSUME NEW w \in Workers, FlushMark(w) PROVE NumberRead'
  <2>1. job' = job /\ crl' = crl /\ pc[w] = "mark" /\ pc'[w] = "state"
    BY <1>0, <1>3 DEF FlushMark, Goto, TypeOK
  <2>2. \A u \in Workers \ {w} : pc'[u] = pc[u]
    BY <1>0, <1>3 DEF FlushMark, Goto, TypeOK
  <2> QED
    BY <2>1, <2>2 DEF NumberRead
<1>4. ASSUME NEW w \in Workers, NEW i \in Issuers, current_crl(w, i) PROVE NumberRead'
  BY <1>0, <1>1, <1>4 DEF current_crl, Goto, NoJob, TypeOK
<1>5. ASSUME NEW w \in Workers, LockState(w) PROVE NumberRead'
  <2>1. /\ job'[w].issuer = job[w].issuer /\ job'[w].cert = job[w].cert /\ pc'[w] = "entries"
        /\ crl' = crl
    BY <1>0, <1>5 DEF LockState, Goto, TypeOK, Jobs
  <2>2. job[w].cert # None => ~ job[w].loaded
    BY <1>5 DEF LockState, NumberRead
  <2>3. ~ job[w].loaded /\ job'[w].loaded => job'[w].number = crl[job[w].issuer].number
    BY <1>0, <1>5 DEF LockState, Goto, TypeOK, Jobs, stored_number
  <2>4. \A u \in Workers \ {w} : job'[u] = job[u] /\ pc'[u] = pc[u]
    BY <1>0, <1>5 DEF LockState, Goto, TypeOK
  <2> QED
    BY <2>1, <2>2, <2>3, <2>4 DEF NumberRead
<1>6. ASSUME NEW w \in Workers, ReadEntries(w) PROVE NumberRead'
  <2>1. /\ job'[w].issuer = job[w].issuer /\ job'[w].cert = job[w].cert
        /\ job'[w].loaded = job[w].loaded /\ job'[w].number = job[w].number
        /\ pc[w] = "entries" /\ pc'[w] = "publish" /\ crl' = crl
    BY <1>0, <1>6 DEF ReadEntries, Goto, TypeOK, Jobs
  <2>2. \A u \in Workers \ {w} : job'[u] = job[u] /\ pc'[u] = pc[u]
    BY <1>0, <1>6 DEF ReadEntries, Goto, TypeOK
  <2> QED
    BY <2>1, <2>2 DEF NumberRead
<1>7. ASSUME NEW w \in Workers, Publish(w) PROVE NumberRead'
  <2>1. job'[w].cert = None /\ \A u \in Workers \ {w} : job'[u] = job[u] /\ pc'[u] = pc[u]
    BY <1>0, <1>7 DEF Publish, Goto, NoJob, TypeOK
  <2>2. \A u \in Workers \ {w} : pc[u] \in {"entries", "publish"} /\ job[u].loaded
            => crl'[job[u].issuer] = crl[job[u].issuer]
    BY <1>7, PublishOwn
  <2> QED
    BY <2>1, <2>2 DEF NumberRead
<1>8. ASSUME NEW w \in Workers, Rollback(w) PROVE NumberRead'
  BY <1>0, <1>1, <1>8 DEF Rollback, Goto, NoJob, TypeOK
<1>9. CASE Tick
  BY <1>9 DEF Tick, NumberRead
<1>10. CASE UNCHANGED vars
  BY <1>10 DEF vars, NumberRead
<1> QED
  BY <1>2, <1>3, <1>4, <1>5, <1>6, <1>7, <1>8, <1>9, <1>10 DEF Next, Continue

(* The CRL that regenerate_crl publishes for a revocation has a higher     *)
(* number than the one it replaces, on a database with row locks and       *)
(* however many sessions overlap it.  (A refresh may repeat a number or    *)
(* fall behind, since it has read crl_state before the lock; the number    *)
(* that a revocation exceeds may be such a one.)                           *)
THEOREM RevocationsClimb == ASSUME RowLocks PROVE Spec => RevocationClimbs
<1>1. Init => ClimbInv
  BY InitExact DEF ClimbInv, ExactInv, Init, NumberRead, NoJob
<1>2. ClimbInv /\ [Next]_vars => ClimbInv'
  BY TypeStep, HeldStep, NumberReadStep DEF ClimbInv
<1>3. ASSUME ClimbInv, NEW w \in Workers, NEW i \in Issuers, job[w].cert # None, Publish(w),
             crl'[i] # crl[i]
      PROVE  crl'[i].number > stored_number(i)
  <2>1. job[w] \in Jobs /\ i = job[w].issuer /\ job[w].number \in Nat
    BY <1>3 DEF ClimbInv, TypeOK, Jobs, Publish
  <2>2. (job[w].loaded \/ crl[i] = None) /\ crl'[i].number = job[w].number + 1
    BY <1>3, <2>1 DEF ClimbInv, TypeOK, Publish, next_number
  <2>3. job[w].loaded => stored_number(i) = job[w].number
    BY <1>3, <2>1 DEF ClimbInv, Held, NumberRead, Publish, stored_number
  <2>4. ~ job[w].loaded => stored_number(i) = 0
    BY <2>2 DEF stored_number
  <2> QED
    BY <2>1, <2>2, <2>3, <2>4
<1>4. ClimbInv /\ [Next]_vars =>
        [\A w \in Workers, i \in Issuers :
            job[w].cert # None /\ Publish(w) /\ crl'[i] # crl[i] =>
                crl'[i].number > stored_number(i)]_vars
  BY <1>3
<1> QED
  BY <1>1, <1>2, <1>4, PTL DEF Spec, RevocationClimbs

-----------------------------------------------------------------------------
(* Any database: nobody waits in a circle                                  *)

(* Who holds a lock: a session past the flush of its mark, and past        *)
(* LockState if the lock is on crl_state.                                  *)
Holders ==
    \A w \in Workers :
        /\ pc[w] = "mark" => job[w].cert \in Certs
        /\ \A l \in Locks : lock[l] = w =>
               /\ pc[w] \in {"state", "entries", "publish"}
               /\ l \in Issuers => pc[w] \in {"entries", "publish"}

(* Locks are taken in one order: certificate or database, then crl_state.  *)
LEMMA HoldersStep == TypeOK /\ Holders /\ [Next]_vars => Holders'
<1> SUFFICES ASSUME TypeOK, Holders, [Next]_vars PROVE Holders'
  OBVIOUS
<1>0. None \notin Workers
  BY CrlAssumption
<1>1. ASSUME NEW w \in Workers, lock' = Released(w), pc'[w] = "idle",
             \A u \in Workers \ {w} : job'[u] = job[u] /\ pc'[u] = pc[u]
      PROVE  Holders'
  <2>1. \A l \in Locks : lock'[l] # w /\ (lock'[l] = None \/ lock'[l] = lock[l])
    BY <1>0, <1>1 DEF Released
  <2> QED
    BY <1>0, <1>1, <2>1 DEF Holders
<1>2. ASSUME NEW w \in Workers, NEW c \in Certs, NEW why \in Reasons, revoke_certificate(w, c, why)
      PROVE  Holders'
  <2>1. pc[w] = "idle" /\ pc'[w] = "mark" /\ job'[w].cert = c /\ lock' = lock
    BY <1>2 DEF revoke_certificate, Goto, NoJob, TypeOK
  <2>2. \A u \in Workers \ {w} : job'[u] = job[u] /\ pc'[u] = pc[u]
    BY <1>2 DEF revoke_certificate, Goto, TypeOK
  <2> QED
    BY <2>1, <2>2 DEF Holders
<1>3. ASSUME NEW w \in Workers, FlushMark(w) PROVE Holders'
  <2> DEFINE k == IF RowLocks THEN job[w].cert ELSE "database"
  <2>1. pc[w] = "mark" /\ pc'[w] = "state" /\ job' = job
    BY <1>3 DEF FlushMark, Goto, TypeOK
  <2>2. \A u \in Workers \ {w} : pc'[u] = pc[u]
    BY <1>3 DEF FlushMark, Goto, TypeOK
  <2>3. k \in Locks \ Issuers
    BY <2>1, LockAssumption DEF Holders, Locks
  <2>4. lock'[k] = w /\ \A l \in Locks \ {k} : lock'[l] = lock[l]
    BY <1>3, <2>3 DEF FlushMark, Acquire, TypeOK
  <2>5. \A l \in Locks \ {k} : lock[l] # w
    BY <2>1 DEF Holders
  <2> HIDE DEF k
  <2> QED
    BY <2>1, <2>2, <2>3, <2>4, <2>5 DEF Holders
<1>4. ASSUME NEW w \in Workers, NEW i \in Issuers, current_crl(w, i) PROVE Holders'
  <2>1. pc[w] = "idle" /\ pc'[w] = "state" /\ lock' = lock
    BY <1>4 DEF current_crl, Goto, TypeOK
  <2>2. \A u \in Workers \ {w} : job'[u] = job[u] /\ pc'[u] = pc[u]
    BY <1>4 DEF current_crl, Goto, TypeOK
  <2> QED
    BY <2>1, <2>2 DEF Holders
<1>5. ASSUME NEW w \in Workers, LockState(w) PROVE Holders'
  <2>1. pc'[w] = "entries" /\ \A u \in Workers \ {w} : job'[u] = job[u] /\ pc'[u] = pc[u]
    BY <1>5 DEF LockState, Goto, TypeOK
  <2>2. job[w].issuer \in Locks
    BY DEF TypeOK, Jobs, Locks
  <2>3. \A l \in Locks : lock'[l] = lock[l] \/ lock'[l] = w
    BY <1>5, <2>2 DEF LockState, Acquire, TypeOK
  <2> QED
    BY <2>1, <2>3 DEF Holders
<1>6. ASSUME NEW w \in Workers, ReadEntries(w) PROVE Holders'
  <2>1. pc'[w] = "publish" /\ lock' = lock
    BY <1>6 DEF ReadEntries, Goto, TypeOK
  <2>2. \A u \in Workers \ {w} : job'[u] = job[u] /\ pc'[u] = pc[u]
    BY <1>6 DEF ReadEntries, Goto, TypeOK
  <2> QED
    BY <2>1, <2>2 DEF Holders
<1>7. ASSUME NEW w \in Workers, Publish(w) \/ Rollback(w) PROVE Holders'
  BY <1>1, <1>7 DEF Publish, Rollback, Goto, TypeOK
<1>8. CASE Tick
  BY <1>8 DEF Tick, Holders
<1>9. CASE UNCHANGED vars
  BY <1>9 DEF vars, Holders
<1> QED
  BY <1>2, <1>3, <1>4, <1>5, <1>6, <1>7, <1>8, <1>9 DEF Next, Continue

BlockInv == TypeOK /\ Holders /\ (RowLocks => Held)

(* With this lock order somebody can always go on: follow the locks, which *)
(* takes two steps at most.                                                *)
LEMMA NotAllBlocked == BlockInv => NeverAllBlocked
<1> SUFFICES ASSUME BlockInv, NEW w \in Workers, pc[w] # "idle"
             PROVE  \E u \in Workers : pc[u] # "idle" /\ CanGoOn(u)
  BY DEF NeverAllBlocked
<1> USE DEF BlockInv
<1>0. RowLocks \in BOOLEAN /\ None \notin Workers /\ IssuerOf \in [Certs -> Issuers]
  BY CrlAssumption
<1>1. \A u \in Workers : job[u].issuer \in Issuers
  BY DEF TypeOK, Jobs
<1>2. \A l \in Locks, u \in Workers : Free(l, u) \/ (\E v \in Workers : v # u /\ lock[l] = v)
  BY DEF TypeOK, Free
<1>3. ASSUME RowLocks, NEW u \in Workers, pc[u] \in {"entries", "publish"} PROVE CanGoOn(u)
  BY <1>3 DEF CanGoOn, Held, Free
<1>4. ASSUME RowLocks, NEW u \in Workers, pc[u] = "state"
      PROVE  \E v \in Workers : pc[v] # "idle" /\ CanGoOn(v)
  <2>1. CASE Free(job[u].issuer, u)
    BY <1>4, <2>1 DEF CanGoOn
  <2>2. CASE ~ Free(job[u].issuer, u)
    <3>1. job[u].issuer \in Locks
      BY <1>1 DEF Locks
    <3>2. PICK v \in Workers : lock[job[u].issuer] = v
      BY <1>2, <2>2, <3>1
    <3>3. pc[v] \in {"entries", "publish"}
      BY <1>1, <3>1, <3>2 DEF Holders
    <3> QED
      BY <1>3, <1>4, <3>3
  <2> QED
    BY <2>1, <2>2
<1>5. ASSUME ~ RowLocks, NEW u \in Workers, pc[u] \in {"state", "entries", "publish"},
             pc[u] # "publish" \/ Free("database", u)
      PROVE  pc[u] # "idle" /\ CanGoOn(u)
  BY <1>5 DEF CanGoOn
<1>6. ASSUME ~ RowLocks, NEW u \in Workers, lock["database"] = u
      PROVE  pc[u] # "idle" /\ CanGoOn(u)
  <2>1. pc[u] \in {"state", "entries", "publish"} /\ Free("database", u)
    BY <1>6 DEF Holders, Locks, Free
  <2> QED
    BY <1>5, <1>6, <2>1
<1>7. pc[w] \in {"mark", "state", "entries", "publish"}
  BY DEF TypeOK, Steps
<1>8. CASE RowLocks
  <2>1. CASE pc[w] = "mark"
    <3>1. job[w].cert \in Locks
      BY <2>1 DEF Holders, Locks
    <3>2. CASE Free(job[w].cert, w)
      BY <1>8, <2>1, <3>2 DEF CanGoOn
    <3>3. CASE ~ Free(job[w].cert, w)
      <4>1. PICK v \in Workers : lock[job[w].cert] = v
        BY <1>2, <3>1, <3>3
      <4>2. pc[v] \in {"state", "entries", "publish"}
        BY <3>1, <4>1 DEF Holders
      <4> QED
        BY <1>3, <1>4, <1>8, <4>2
    <3> QED
      BY <3>2, <3>3
  <2> QED
    BY <1>3, <1>4, <1>7, <1>8, <2>1
<1>9. CASE ~ RowLocks
  <2>1. CASE Free("database", w)
    BY <1>5, <1>7, <1>9, <2>1 DEF CanGoOn
  <2>2. CASE ~ Free("database", w)
    <3>1. PICK v \in Workers : lock["database"] = v
      BY <1>2, <2>2 DEF Locks
    <3> QED
      BY <1>6, <1>9, <3>1
  <2> QED
    BY <2>1, <2>2
<1> QED
  BY <1>0, <1>8, <1>9

(* Revocations and lazy refreshes of any number of sessions and issuers,   *)
(* on either database, never all wait for each other: FlushMark takes the  *)
(* certificate's lock or the database's before LockState takes the one of  *)
(* crl_state, and a session that has the last lock it needs can commit.    *)
THEOREM NoCircularWait == Spec => []NeverAllBlocked
<1>0. RowLocks \in BOOLEAN
  BY CrlAssumption
<1>1. Init => BlockInv
  BY InitExact, CrlAssumption DEF BlockInv, ExactInv, Init, Holders
<1>2. BlockInv /\ [Next]_vars => BlockInv'
  BY <1>0, TypeStep, HoldersStep, HeldStep DEF BlockInv
<1> QED
  BY <1>1, <1>2, NotAllBlocked, PTL DEF Spec

-----------------------------------------------------------------------------
(* Any database: a mark is never set without its list, and never removed   *)

(* What a session publishes has its own mark.                              *)
OwnMark ==
    \A w \in Workers :
        pc[w] = "publish" /\ job[w].cert # None => job[w].entries[job[w].cert] = job[w].mark

(* Only ReadEntries leads to Publish, and it adds the session's mark.      *)
LEMMA OwnMarkStep == TypeOK /\ OwnMark /\ [Next]_vars => OwnMark'
<1> SUFFICES ASSUME TypeOK, OwnMark, [Next]_vars, NEW w \in Workers,
                    pc'[w] = "publish", job'[w].cert # None
             PROVE  job'[w].entries[job'[w].cert] = job'[w].mark
  BY DEF OwnMark
<1>1. CASE pc'[w] = pc[w] /\ job'[w] = job[w]
  BY <1>1 DEF OwnMark
<1>2. CASE ReadEntries(w)
  <2>1. job[w] \in Jobs
    BY DEF TypeOK
  <2>2. /\ job'[w].cert = job[w].cert /\ job'[w].mark = job[w].mark
        /\ job'[w].entries = _revoked_entries(w)
    BY <1>2, <2>1 DEF ReadEntries, Goto, TypeOK, Jobs
  <2>3. job[w].cert \in Certs
    BY <2>1, <2>2 DEF Jobs
  <2> QED
    BY <2>2, <2>3 DEF _revoked_entries
<1>3. ASSUME NEW u \in Workers,
             \/ \E c \in Certs, why \in Reasons : revoke_certificate(u, c, why)
             \/ \E i \in Issuers : current_crl(u, i)
             \/ FlushMark(u) \/ LockState(u) \/ Publish(u) \/ Rollback(u)
      PROVE  pc'[w] = pc[w] /\ job'[w] = job[w]
  BY <1>3 DEF revoke_certificate, current_crl, FlushMark, LockState, Publish, Rollback, Goto, TypeOK
<1>4. ASSUME NEW u \in Workers, u # w, ReadEntries(u) PROVE pc'[w] = pc[w] /\ job'[w] = job[w]
  BY <1>4 DEF ReadEntries, Goto, TypeOK
<1>5. CASE Tick \/ UNCHANGED vars
  BY <1>1, <1>5 DEF Tick, vars
<1> QED
  BY <1>1, <1>2, <1>3, <1>4, <1>5 DEF Next, Continue

MarkInv == ListedInv /\ OwnMark

(* Whatever the database, the commit of revoke_certificate shows the mark  *)
(* that it sets on the CRL that it stores, and no step takes a mark away:  *)
(* without row locks it is only a later refresh that can drop the entry.   *)
THEOREM MarksArePublished == Spec => MarkIsPublished
<1>1. Init => MarkInv
  BY InitListed DEF MarkInv, Init, OwnMark
<1>2. MarkInv /\ [Next]_vars => MarkInv'
  BY TypeStep, ListedStep, OwnMarkStep DEF MarkInv, ListedInv
<1>3. ASSUME MarkInv, [Next]_vars, NEW c \in Certs, revoked'[c] # revoked[c]
      PROVE  /\ revoked'[c] # None
             /\ crl'[IssuerOf[c]] # None /\ crl'[IssuerOf[c]].listed[c] = revoked'[c]
  <2> USE DEF MarkInv, ListedInv
  <2>1. PICK w \in Workers : Publish(w)
    BY <1>3 DEF Next, Continue, revoke_certificate, current_crl, FlushMark, LockState,
                ReadEntries, Rollback, Tick, vars
  <2> DEFINE new == [number |-> next_number(w), at |-> job[w].at, listed |-> job[w].entries]
  <2>2. job[w] \in Jobs /\ job[w].issuer \in Issuers
    BY <1>3 DEF TypeOK, Jobs
  <2>3. new # None /\ new.listed = job[w].entries
    BY <2>2, NoneAssumption DEF next_number, CrlStates, Jobs
  <2>4. c = job[w].cert /\ c # None /\ revoked'[c] = job[w].mark
    BY <1>3, <2>1, <2>2, CrlAssumption DEF Publish, TypeOK, Marks, Jobs
  <2>5. crl' = [crl EXCEPT ![job[w].issuer] = new]
    BY <1>3, <2>1 DEF Publish
  <2>6. IssuerOf[c] = job[w].issuer /\ job[w].mark # None /\ job[w].entries[c] = job[w].mark
    BY <1>3, <2>1, <2>4 DEF Marked, OwnMark, Publish
  <2>7. crl'[IssuerOf[c]] = new
    BY <1>3, <2>2, <2>5, <2>6 DEF TypeOK
  <2> QED
    BY <2>3, <2>4, <2>6, <2>7
<1>4. MarkInv /\ [Next]_vars =>
        [\A c \in Certs : revoked'[c] # revoked[c] =>
            /\ revoked'[c] # None
            /\ crl'[IssuerOf[c]] # None /\ crl'[IssuerOf[c]].listed[c] = revoked'[c]]_vars
  BY <1>3
<1> QED
  BY <1>1, <1>2, <1>4, PTL DEF Spec, MarkIsPublished

=============================================================================
