-------------------------------- MODULE Crl --------------------------------
(***************************************************************************)
(* Revocation and the certificate revocation lists: ca/crl.py.             *)
(*                                                                         *)
(* A revocation and the CRL that lists it are one transaction; a CRL is    *)
(* also rebuilt lazily, when somebody fetches one that is about to go      *)
(* stale.  RowLocks tells the two supported databases apart:               *)
(*   TRUE   PostgreSQL: the UPDATE locks the certificate row, FOR UPDATE   *)
(*          locks the crl_state row, both until commit;                    *)
(*   FALSE  SQLite: FOR UPDATE does nothing, the first UPDATE or INSERT of *)
(*          a transaction takes the one write lock, and a SELECT before it *)
(*          reads whatever is committed, outside any transaction.          *)
(***************************************************************************)
EXTENDS Naturals

CONSTANTS
    Issuers, Certs, IssuerOf,
    Reasons,
    Workers,
    RowLocks,
    CrlValidity,   \* CRL_VALIDITY
    CrlMaxAge,     \* CRL_MAX_AGE
    MaxTime,       \* bound on the clock
    None           \* SQL NULL, no lock holder, no row

ASSUME CrlAssumption ==
    /\ Issuers # {} /\ Certs # {} /\ Reasons # {}
    /\ IssuerOf \in [Certs -> Issuers]
    /\ RowLocks \in BOOLEAN
    /\ CrlValidity \in Nat /\ CrlMaxAge \in Nat /\ MaxTime \in Nat
    /\ CrlMaxAge < CrlValidity
    /\ None \notin Workers /\ None \notin Certs

VARIABLES
    revoked,   \* certificates.revoked_at and revocation_reason, or None
    crl,       \* crl_state: number, generated_at and the entries of crl_der, or None
    lock,      \* who holds the lock on a certificate, a crl_state row or the database
    pc, job,
    now

vars == <<revoked, crl, lock, pc, job, now>>

-----------------------------------------------------------------------------

Revocations == [at : Nat, why : Reasons]

Marks == [Certs -> Revocations \cup {None}]

CrlStates == [number : Nat \ {0}, at : Nat, listed : Marks]

ASSUME NoneAssumption == None \notin Revocations /\ None \notin CrlStates

(* Rows of two tables have different locks.                                *)
ASSUME LockAssumption == Certs \cap Issuers = {} /\ "database" \notin Certs \cup Issuers

Steps == {"idle", "mark", "state", "entries", "publish"}

Locks == Certs \cup Issuers \cup {"database"}

(* cert is None in a lazy refresh.  loaded says that crl_state is in the   *)
(* session's identity map: reading it again, FOR UPDATE or not, keeps the  *)
(* attributes that were loaded first.                                      *)
Jobs == [issuer : Issuers, cert : Certs \cup {None}, mark : Revocations \cup {None},
         loaded : BOOLEAN, number : Nat, at : Nat, entries : Marks]

NoMarks == [c \in Certs |-> None]

NoJob == [issuer |-> CHOOSE i \in Issuers : TRUE, cert |-> None, mark |-> None,
          loaded |-> FALSE, number |-> 0, at |-> 0, entries |-> NoMarks]

Goto(w, step, j) == pc' = [pc EXCEPT ![w] = step] /\ job' = [job EXCEPT ![w] = j]

Free(l, w) == lock[l] \in {None, w}

Acquire(l, w) == Free(l, w) /\ lock' = [lock EXCEPT ![l] = w]

(* Mutant: the transaction is left open.                                   *)
Released_never(w) == lock

(* Commit and rollback give back every lock of the session.                *)
Released(w) == [l \in Locks |-> IF lock[l] = w THEN None ELSE lock[l]]

-----------------------------------------------------------------------------
(* revoke_certificate                                                      *)

(* The row is loaded; an already revoked certificate is returned untouched.*)
revoke_certificate(w, c, why) ==
    /\ pc[w] = "idle"
    /\ revoked[c] = None
    /\ Goto(w, "mark", [NoJob EXCEPT !.issuer = IssuerOf[c], !.cert = c, !.at = now,
                                     !.mark = [at |-> now, why |-> why]])
    /\ UNCHANGED <<revoked, crl, lock, now>>

(* The next SELECT flushes the mark: UPDATE certificates ... WHERE id = ?, *)
(* which waits for the lock and then writes over whatever it finds.        *)
FlushMark(w) ==
    /\ pc[w] = "mark"
    /\ Acquire(IF RowLocks THEN job[w].cert ELSE "database", w)
    /\ Goto(w, "state", job[w])
    /\ UNCHANGED <<revoked, crl, now>>

-----------------------------------------------------------------------------
(* current_crl                                                             *)

next_update(i) == crl[i].at + CrlValidity

stored_number(i) == IF crl[i] = None THEN 0 ELSE crl[i].number

(* A CRL that is missing or within CRL_MAX_AGE of its end is rebuilt.      *)
current_crl(w, i) ==
    /\ pc[w] = "idle"
    /\ crl[i] # None => now + CrlMaxAge >= next_update(i)
    /\ Goto(w, "state", [NoJob EXCEPT !.issuer = i, !.at = now,
                                      !.loaded = (crl[i] # None),
                                      !.number = stored_number(i)])
    /\ UNCHANGED <<revoked, crl, lock, now>>

-----------------------------------------------------------------------------
(* regenerate_crl                                                          *)

(* Mutant: FOR UPDATE forgotten.                                           *)
LockState_unlocked(w) ==
    LET i == job[w].issuer
    IN  /\ pc[w] = "state"
        /\ Goto(w, "entries",
                IF job[w].loaded \/ crl[i] = None THEN job[w]
                ELSE [job[w] EXCEPT !.loaded = TRUE, !.number = stored_number(i)])
        /\ UNCHANGED <<revoked, crl, lock, now>>

(* SELECT crl_state ... FOR UPDATE.                                        *)
LockState(w) ==
    LET i == job[w].issuer
    IN  /\ pc[w] = "state"
        /\ IF RowLocks /\ crl[i] # None THEN Acquire(i, w) ELSE UNCHANGED lock
        /\ Goto(w, "entries",
                IF job[w].loaded \/ crl[i] = None THEN job[w]
                ELSE [job[w] EXCEPT !.loaded = TRUE, !.number = stored_number(i)])
        /\ UNCHANGED <<revoked, crl, now>>

(* Mutant: the mark is flushed only after the rows have been read.         *)
_revoked_entries_committed(w) ==
    [c \in Certs |-> IF IssuerOf[c] = job[w].issuer THEN revoked[c] ELSE None]

(* The issuer's revoked rows, as committed, with the session's own mark.   *)
_revoked_entries(w) ==
    [c \in Certs |-> IF c = job[w].cert THEN job[w].mark
                     ELSE IF IssuerOf[c] = job[w].issuer THEN revoked[c] ELSE None]

ReadEntries(w) ==
    /\ pc[w] = "entries"
    /\ Goto(w, "publish", [job[w] EXCEPT !.entries = _revoked_entries(w)])
    /\ UNCHANGED <<revoked, crl, lock, now>>

next_number(w) == job[w].number + 1

(* Write crl_state and commit, the caller's mark included.  An INSERT into *)
(* a row that exists by now is an IntegrityError: everything rolls back.   *)
Publish(w) ==
    LET i == job[w].issuer
        c == job[w].cert
    IN  /\ pc[w] = "publish"
        /\ RowLocks \/ Free("database", w)
        /\ RowLocks /\ job[w].loaded => Free(i, w)
        /\ IF job[w].loaded \/ crl[i] = None
           THEN /\ crl' = [crl EXCEPT ![i] = [number |-> next_number(w), at |-> job[w].at,
                                              listed |-> job[w].entries]]
                /\ revoked' = IF c = None THEN revoked ELSE [revoked EXCEPT ![c] = job[w].mark]
           ELSE UNCHANGED <<crl, revoked>>
        /\ lock' = Released(w)
        /\ Goto(w, "idle", NoJob)
        /\ UNCHANGED now

(* The issuer's key cannot be used, a lock times out, the process dies:    *)
(* the session rolls back.                                                 *)
Rollback(w) ==
    /\ pc[w] # "idle"
    /\ lock' = Released(w)
    /\ Goto(w, "idle", NoJob)
    /\ UNCHANGED <<revoked, crl, now>>

Tick == now < MaxTime /\ now' = now + 1 /\ UNCHANGED <<revoked, crl, lock, pc, job>>

-----------------------------------------------------------------------------

Init ==
    /\ revoked = NoMarks
    /\ crl = [i \in Issuers |-> None]
    /\ lock = [l \in Locks |-> None]
    /\ pc = [w \in Workers |-> "idle"]
    /\ job = [w \in Workers |-> NoJob]
    /\ now = 0

Continue(w) == FlushMark(w) \/ LockState(w) \/ ReadEntries(w) \/ Publish(w)

Next ==
    \/ \E w \in Workers, c \in Certs, why \in Reasons : revoke_certificate(w, c, why)
    \/ \E w \in Workers, i \in Issuers : current_crl(w, i)
    \/ \E w \in Workers : Continue(w) \/ Rollback(w)
    \/ Tick

Spec == Init /\ [][Next]_vars

(* A session that has started goes on, and a lock that keeps being given   *)
(* back is granted to each waiter in the end (PostgreSQL queues them).     *)
FairSpec == Spec /\ \A w \in Workers : SF_vars(Continue(w))

-----------------------------------------------------------------------------
(* Properties                                                              *)

(* Every row and every session variable holds what it can hold.            *)
TypeOK ==
    /\ revoked \in Marks
    /\ crl \in [Issuers -> CrlStates \cup {None}]
    /\ lock \in [Locks -> Workers \cup {None}]
    /\ pc \in [Workers -> Steps]
    /\ job \in [Workers -> Jobs]
    /\ now \in Nat

(* regenerate_crl on a database with row locks: the published list of an   *)
(* issuer is exactly its committed revocations, dates and reasons          *)
(* included, whatever revocations and refreshes overlap.                   *)
CrlExact ==
    \A c \in Certs :
        LET state == crl[IssuerOf[c]]
        IN  revoked[c] = IF state = None THEN None ELSE state.listed[c]

(* The weaker half, which needs no row locks: a CRL lists only revoked     *)
(* certificates, and only those of its own issuer.                         *)
CrlListsRevoked ==
    \A i \in Issuers, c \in Certs :
        crl[i] # None /\ crl[i].listed[c] # None => IssuerOf[c] = i /\ revoked[c] # None

(* The comment in revoke_certificate: a certificate recorded as revoked    *)
(* that no CRL mentions would be a revocation nobody can see.              *)
CrlComplete ==
    \A c \in Certs : revoked[c] # None =>
        crl[IssuerOf[c]] # None /\ crl[IssuerOf[c]].listed[c] # None

(* revoke_certificate on any database: the commit that sets a mark puts    *)
(* the certificate on its issuer's list, and no step takes a mark away.    *)
MarkIsPublished ==
    [][\A c \in Certs : revoked'[c] # revoked[c] =>
        /\ revoked'[c] # None
        /\ crl'[IssuerOf[c]] # None /\ crl'[IssuerOf[c]].listed[c] = revoked'[c]]_vars

(* The docstring of regenerate_crl: the number of an issuer's CRL only     *)
(* ever climbs, a relying party rejects one whose number went backwards.   *)
NumberNeverFalls ==
    [][\A i \in Issuers : crl[i] # None => crl'[i].number >= crl[i].number]_vars

(* What a relying party sees: the revocations and the list of each issuer. *)
Register == INSTANCE RevocationRegister
    WITH published <- [i \in Issuers |-> IF crl[i] = None THEN None ELSE crl[i].listed]

(* revoke_certificate on a database with row locks, however its statements *)
(* interleave with those of others: the mark and the list that shows it    *)
(* appear in one step, and neither ever goes away again.                   *)
ImplementsRegister == Register!Spec

(* regenerate_crl in a session that revokes: it has not read crl_state     *)
(* before the lock, so the list with the new entry has a higher number     *)
(* than the list that it replaces, whatever others published while it      *)
(* waited.  Not than every list before that one: a refresh may have put    *)
(* the number back, see NumberNeverFalls.                                  *)
RevocationClimbs ==
    [][\A w \in Workers, i \in Issuers :
        job[w].cert # None /\ Publish(w) /\ crl'[i] # crl[i] =>
            crl'[i].number > stored_number(i)]_vars

(* The lock that the next statement of a session needs is not another's.   *)
CanGoOn(w) ==
    \/ pc[w] = "mark" /\ Free(IF RowLocks THEN job[w].cert ELSE "database", w)
    \/ pc[w] = "state" /\ (RowLocks /\ crl[job[w].issuer] # None => Free(job[w].issuer, w))
    \/ pc[w] = "entries"
    \/ /\ pc[w] = "publish"
       /\ RowLocks \/ Free("database", w)
       /\ RowLocks /\ job[w].loaded => Free(job[w].issuer, w)

(* The order in which revocations and refreshes take their locks (the      *)
(* certificate before crl_state) never lets sessions wait in a circle:     *)
(* while any has started, one of them has its next statement granted.      *)
NeverAllBlocked ==
    (\E w \in Workers : pc[w] # "idle") => \E w \in Workers : pc[w] # "idle" /\ CanGoOn(w)

(* Row and database locks never leave two sessions waiting for each other: *)
(* every revocation and every refresh comes to an end.                     *)
SessionsEnd == \A w \in Workers : pc[w] # "idle" ~> pc[w] = "idle"

=============================================================================
