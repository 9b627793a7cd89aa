----------------------------- MODULE TlsManager -----------------------------
(***************************************************************************)
(* cabin's own TLS certificate (tls.py): two files on disk, the context    *)
(* that handshakes use, the hourly check, and the requests that change     *)
(* what the certificate should be.                                         *)
(*                                                                         *)
(* A worker is the renewal loop or one request.  ensure_current runs under *)
(* one lock; the settings and the issuers it reads belong to the database  *)
(* and change under it.  A request's session keeps the issuer row that it  *)
(* has already read (expire_on_commit=False).  Time is in units of at      *)
(* least one check interval, see Advance.  TLS is on throughout.           *)
(***************************************************************************)
EXTENDS Integers, FiniteSets, FiniteSetsExt

CONSTANTS
    Issuers,          \* intermediates
    Names,            \* names a base URL can give
    Fallback,         \* the names used before there is a base URL
    Forbids,          \* <<issuer, name>>: the issuer's constraints refuse it
    Loop,             \* the renewal loop
    Requests,
    CERT_DAYS, RENEW_BEFORE, MIN_RENEWAL_GAIN,
    IssuerYears,      \* life of a new or renewed intermediate
    MaxTime,          \* bound on the clock
    MaxFaults,        \* bound on crashes and exceptions
    None              \* no row, no file, SQL NULL

ASSUME TlsAssumption ==
    /\ Loop \notin Requests
    /\ Forbids \subseteq Issuers \X (Names \cup {Fallback})
    /\ CERT_DAYS \in Nat /\ RENEW_BEFORE \in 1 .. CERT_DAYS - 1 /\ MIN_RENEWAL_GAIN \in Nat \ {0}
    /\ IssuerYears \in [Issuers -> Nat] /\ MaxTime \in Nat /\ MaxFaults \in Nat
    /\ None \notin Issuers \cup Requests \cup {Loop}

VARIABLES
    now, faults,
    base,       \* the names of BASE_URL, or Fallback
    binding,    \* TLS_ISSUER_ID
    issuers,    \* ca_certificates: status and end of each intermediate
    crt,        \* cabin.crt
    key,        \* cabin.key.sealed: does it fit cabin.crt?
    live,       \* the certificate loaded into the SSLContext
    mode, last_error,
    unloaded,   \* history: has the last load into the context failed?
    lock, pc, job,
    check,      \* history: is a renewal check up to date with what it read?
    overlap     \* history: did a retirement and a new binding ever overlap?

database == <<base, binding, issuers>>

files == <<crt, key>>

process == <<live, mode, last_error, unloaded>>

history == <<check, overlap>>

vars == <<now, faults, base, binding, issuers, crt, key, live, mode, last_error, unloaded,
          lock, pc, job, check, overlap>>

-----------------------------------------------------------------------------

Workers == {Loop} \cup Requests

Modes == {"self_signed", "ca_issued"}

Rows == [status : {"active", "retired"}, end : Nat]

(* A certificate; the issuer is None when it is self-signed.               *)
Certs == [name : Names \cup {Fallback}, issuer : Issuers \cup {None}, end : Nat]

(* NULL is none of the values that a column or a file can hold.            *)
ASSUME NullAssumption == None \notin Rows \cup Certs \cup {"fits", "refused", "expired"}

Steps == {"idle", "save base", "save issuer", "retire",
          "ensure", "sole", "bind", "decide", "crt", "key", "load"}

(* row is the issuer whose row the session holds, end as it read it; name  *)
(* what was chosen or wanted, choice the issuer chosen or resolved,        *)
(* changed whether a setting was saved, and cert the certificate at hand.  *)
Jobs == [row : Issuers \cup {None}, end : Nat, name : Names \cup {Fallback},
         choice : Issuers \cup {None}, changed : BOOLEAN, cert : Certs \cup {None}]

NoJob == [row |-> None, end |-> 0, name |-> Fallback, choice |-> None,
          changed |-> FALSE, cert |-> None]

Goto(w, step, j) == pc' = [pc EXCEPT ![w] = step] /\ job' = [job EXCEPT ![w] = j]

Finish(w) == Goto(w, "idle", NoJob)

active(i) == issuers[i] # None /\ issuers[i].status = "active"

active_issuers == {i \in Issuers : active(i)}

(* A retirement commits in the middle of a new binding, or the reverse.    *)
NoteOverlap(steps) == overlap' = (overlap \/ \E w \in Workers : pc[w] \in steps)

(* Something that a check reads has changed, or a check has failed.        *)
Changed == check' = "stale"

-----------------------------------------------------------------------------
(* TlsManager: the files                                                   *)

ModeOf(c) == IF c.issuer = None THEN "self_signed" ELSE "ca_issued"

(* The certificate on disk when the key fits it.                           *)
_load_current == IF key = "fits" THEN crt ELSE None

-----------------------------------------------------------------------------
(* TlsManager.ensure_current                                               *)

(* Mutant: the material of an earlier process is not loaded.               *)
Adopt_none == UNCHANGED <<live, mode, unloaded>>

(* A new process serves what an earlier one has left.                      *)
Adopts == _load_current # None /\ mode = None

Adopt ==
    IF Adopts
    THEN live' = _load_current /\ mode' = ModeOf(_load_current) /\ unloaded' = FALSE
    ELSE UNCHANGED <<live, mode, unloaded>>

(* Mutant: two checks may run side by side.                                *)
Acquire_unlocked(w) == lock' = w

Acquire(w) == lock = None /\ lock' = w

(* The names and the binding are read.  A row that the session already     *)
(* holds is not read again.                                                *)
ensure_current(w) ==
    LET seen == binding # None /\ job[w].row = binding
        usable == binding # None /\ (seen \/ active(binding))
    IN
    /\ pc[w] = "ensure"
    /\ Acquire(w)
    /\ Adopt
    /\ check' = IF w = Loop THEN "running" ELSE check
    /\ Goto(w, IF binding = None THEN "sole" ELSE "decide",
            [job[w] EXCEPT !.name = base,
                           !.choice = IF usable THEN binding ELSE None,
                           !.end = IF usable /\ ~seen THEN issuers[binding].end ELSE @])
    /\ UNCHANGED <<now, faults, database, files, last_error, overlap>>

(* resolve_tls_issuer without a binding: is there just one active issuer?  *)
SoleIssuer(w) ==
    /\ pc[w] = "sole"
    /\ IF Cardinality(active_issuers) = 1
       THEN \E i \in active_issuers :
                Goto(w, "bind", [job[w] EXCEPT
                    !.choice = i, !.end = IF job[w].row = i THEN @ ELSE issuers[i].end])
       ELSE Goto(w, "decide", job[w])
    /\ UNCHANGED <<now, faults, database, files, process, lock, history>>

(* ... then it is written down.                                            *)
BindSole(w) ==
    /\ pc[w] = "bind"
    /\ binding' = job[w].choice
    /\ NoteOverlap({"retire"})
    /\ Goto(w, "decide", job[w])
    /\ UNCHANGED <<now, faults, base, issuers, files, process, lock, check>>

(* Mutant: without an issuer the target is a self-signed certificate.      *)
Target_downgrade(issuer, current) == IF issuer # None THEN "ca_issued" ELSE "self_signed"

Target(issuer, current) ==
    IF issuer # None \/ (current # None /\ current.issuer # None)
    THEN "ca_issued"
    ELSE "self_signed"

(* The end that clamp_validity gives a certificate of this issuer.         *)
Until(issuer, end) ==
    IF issuer = None \/ end > now + CERT_DAYS THEN now + CERT_DAYS ELSE end

(* Nothing about the certificate has to change yet, or renewing it would   *)
(* not gain enough.                                                        *)
StillGood(current, name, issuer, end) ==
    /\ current # None /\ current.name = name /\ current.issuer = issuer
    /\ \/ now < current.end - RENEW_BEFORE
       \/ issuer # None /\ Until(issuer, end) - current.end < MIN_RENEWAL_GAIN

(* Why issue_and_store refuses, None when it does not.                     *)
Refusal(name, issuer, end) ==
    IF issuer = None THEN None
    ELSE IF end <= now THEN "expired"
    ELSE IF <<issuer, name>> \in Forbids THEN "refused"
    ELSE None

Release(w) ==
    /\ lock' = None
    /\ check' = IF w = Loop /\ check = "running" THEN "done" ELSE check
    /\ Finish(w)

(* Keep what there is: _ensure_current_locked returns False.               *)
Keep(w, current) ==
    /\ mode' = IF current = None THEN None ELSE ModeOf(current)
    /\ Release(w)
    /\ UNCHANGED <<files, live, unloaded>>

(* _ensure_current_locked from the target mode to the call of _issue.      *)
Decide(w) ==
    LET current == _load_current
        issuer == job[w].choice
        name == job[w].name
        end == job[w].end
        refusal == Refusal(name, issuer, end)
    IN
    /\ pc[w] = "decide"
    /\ \/ /\ \/ Target(issuer, current) = "ca_issued" /\ issuer = None
             \/ StillGood(current, name, issuer, end)
          /\ Keep(w, current)
          /\ UNCHANGED last_error
       \/ /\ Target(issuer, current) = "ca_issued" => issuer # None
          /\ ~StillGood(current, name, issuer, end)
          /\ refusal # None
          /\ Keep(w, current)
          /\ last_error' = refusal
       \/ /\ Target(issuer, current) = "ca_issued" => issuer # None
          /\ ~StillGood(current, name, issuer, end)
          /\ refusal = None
          /\ Goto(w, "crt", [NoJob EXCEPT !.cert =
                 [name |-> name, issuer |-> issuer, end |-> Until(issuer, end)]])
          /\ UNCHANGED <<files, process, lock, check>>
    /\ UNCHANGED <<now, faults, database, overlap>>

(* _write_and_load: each file is replaced atomically, first the            *)
(* certificate and then the key.  Every certificate has a key of its own.  *)
WriteCrt(w) ==
    /\ pc[w] = "crt"
    /\ crt' = job[w].cert
    /\ key' = IF key = None THEN None ELSE "other"
    /\ Goto(w, "key", job[w])
    /\ UNCHANGED <<now, faults, database, process, lock, history>>

WriteKey(w) ==
    /\ pc[w] = "key"
    /\ key' = "fits"
    /\ Goto(w, "load", job[w])
    /\ UNCHANGED <<now, faults, database, crt, process, lock, history>>

Load(w) ==
    /\ pc[w] = "load"
    /\ live' = crt /\ unloaded' = FALSE
    /\ mode' = ModeOf(job[w].cert)
    /\ last_error' = None
    /\ Release(w)
    /\ UNCHANGED <<now, faults, database, files, overlap>>

(* The next call is _load_into_live_context.                               *)
Loads(w) == pc[w] = "load" \/ (pc[w] = "ensure" /\ Adopts)

(* A file or a row cannot be read or written, or the context does not take *)
(* the pair: the exception leaves ensure_current wherever it is, and       *)
(* renewal_loop swallows it.  A failed load leaves the context as it was,  *)
(* or with a certificate without its key, which serves nobody.             *)
Raise(w) ==
    /\ pc[w] \in {"ensure", "sole", "bind", "decide", "crt", "key", "load"}
    /\ lock \in {None, w}
    /\ faults < MaxFaults
    /\ faults' = faults + 1
    /\ live' \in IF Loads(w) THEN {live, None} ELSE {live}
    /\ unloaded' = (unloaded \/ Loads(w))
    /\ lock' = None
    /\ Finish(w)
    /\ Changed
    /\ UNCHANGED <<now, database, files, mode, last_error, overlap>>

-----------------------------------------------------------------------------
(* Requests                                                                *)

(* The settings form is checked; the chosen issuer's row stays in hand.    *)
settings_submit(w) ==
    /\ pc[w] = "idle"
    /\ \E n \in Names \cup {Fallback}, i \in active_issuers \cup {None} :
           Goto(w, "save base", [NoJob EXCEPT
               !.name = n, !.choice = i, !.row = i,
               !.end = IF i = None THEN 0 ELSE issuers[i].end])
    /\ UNCHANGED <<now, faults, database, files, process, lock, history>>

SaveBase(w) ==
    /\ pc[w] = "save base"
    /\ base' = job[w].name
    /\ IF base' # base THEN Changed ELSE UNCHANGED check
    /\ Goto(w, "save issuer", [job[w] EXCEPT !.changed = base' # base])
    /\ UNCHANGED <<now, faults, binding, issuers, files, process, lock, overlap>>

SaveIssuer(w) ==
    /\ pc[w] = "save issuer"
    /\ binding' = job[w].choice
    /\ IF binding' # binding THEN Changed ELSE UNCHANGED check
    /\ IF job[w].changed \/ binding' # binding
       THEN Goto(w, "ensure", [NoJob EXCEPT !.row = job[w].row, !.end = job[w].end])
       ELSE Finish(w)
    /\ NoteOverlap({"retire"})
    /\ UNCHANGED <<now, faults, base, issuers, files, process, lock>>

(* A new intermediate, created or imported, then ensure_current.           *)
create_intermediate(w, i) ==
    /\ pc[w] = "idle"
    /\ issuers[i] = None
    /\ issuers' = [issuers EXCEPT ![i] = [status |-> "active", end |-> now + IssuerYears[i]]]
    /\ Changed
    /\ Goto(w, "ensure", [NoJob EXCEPT !.row = i, !.end = now + IssuerYears[i]])
    /\ UNCHANGED <<now, faults, base, binding, files, process, lock, overlap>>

(* Same key, later end: what it signed stays its own.                      *)
renew_in_place(i) ==
    /\ active(i)
    /\ issuers[i].end # now + IssuerYears[i]
    /\ issuers' = [issuers EXCEPT ![i].end = now + IssuerYears[i]]
    /\ Changed
    /\ UNCHANGED <<now, faults, base, binding, files, process, lock, pc, job, overlap>>

(* Mutant: the issuer of cabin's own certificate is not protected.         *)
_refuse_retire_of_tls_issuer_never(i) == FALSE

(* i is the one target: the intermediates that go with a root are left out.*)
_refuse_retire_of_tls_issuer(i) == binding = i

(* The check of the retire route ...                                       *)
ca_retire(w, i) ==
    /\ pc[w] = "idle"
    /\ active(i)
    /\ ~_refuse_retire_of_tls_issuer(i)
    /\ Goto(w, "retire", [NoJob EXCEPT !.choice = i])
    /\ UNCHANGED <<now, faults, database, files, process, lock, history>>

(* ... and ca_service.retire, which keeps one active issuer.               *)
retire(w) ==
    LET i == job[w].choice IN
    /\ pc[w] = "retire"
    /\ IF active_issuers \ {i} # {}
       THEN issuers' = [issuers EXCEPT ![i].status = "retired"] /\ Changed
       ELSE UNCHANGED <<issuers, check>>
    /\ NoteOverlap({"save base", "save issuer", "bind"})
    /\ Finish(w)
    /\ UNCHANGED <<now, faults, base, binding, files, process, lock>>

-----------------------------------------------------------------------------
(* The loop, the clock and crashes                                         *)

renewal_loop ==
    /\ pc[Loop] = "idle"
    /\ Goto(Loop, "ensure", NoJob)
    /\ UNCHANGED <<now, faults, database, files, process, lock, history>>

(* A unit of time is long against CHECK_INTERVAL: before it is over the    *)
(* loop has made a check that nothing has disturbed.                       *)
Advance ==
    /\ now < MaxTime
    /\ check = "done" /\ lock = None
    /\ now' = now + 1
    /\ Changed
    /\ UNCHANGED <<faults, database, files, process, lock, pc, job, overlap>>

(* The process dies and starts again, with an empty context.               *)
Crash ==
    /\ faults < MaxFaults
    /\ faults' = faults + 1
    /\ live' = None /\ mode' = None /\ last_error' = None /\ unloaded' = FALSE
    /\ lock' = None
    /\ pc' = [w \in Workers |-> "idle"] /\ job' = [w \in Workers |-> NoJob]
    /\ Changed
    /\ UNCHANGED <<now, database, files, overlap>>

-----------------------------------------------------------------------------

Init ==
    /\ now = 0 /\ faults = 0
    /\ base = Fallback /\ binding = None
    /\ issuers = [i \in Issuers |-> None]
    /\ crt = None /\ key = None
    /\ live = None /\ mode = None /\ last_error = None /\ unloaded = FALSE
    /\ lock = None
    /\ pc = [w \in Workers |-> "idle"] /\ job = [w \in Workers |-> NoJob]
    /\ check = "stale" /\ overlap = FALSE

Ensure(w) ==
    \/ ensure_current(w) \/ SoleIssuer(w) \/ BindSole(w) \/ Decide(w)
    \/ WriteCrt(w) \/ WriteKey(w) \/ Load(w) \/ Raise(w)

Request(w) ==
    \/ settings_submit(w) \/ SaveBase(w) \/ SaveIssuer(w) \/ retire(w)
    \/ \E i \in Issuers : create_intermediate(w, i) \/ ca_retire(w, i)

Next ==
    \/ \E w \in Workers : Ensure(w)
    \/ \E w \in Requests : Request(w)
    \/ \E i \in Issuers : renew_in_place(i)
    \/ renewal_loop \/ Advance \/ Crash

Spec == Init /\ [][Next]_vars

-----------------------------------------------------------------------------
(* Properties                                                              *)

(* The types; and whoever is inside ensure_current holds the lock, so that *)
(* the two files are never written by two checks at once (tls.py, _lock).  *)
TypeOK ==
    /\ now \in 0 .. MaxTime /\ faults \in 0 .. MaxFaults
    /\ base \in Names \cup {Fallback} /\ binding \in Issuers \cup {None}
    /\ issuers \in [Issuers -> Rows \cup {None}]
    /\ crt \in Certs \cup {None} /\ key \in {"fits", "other", None} /\ live \in Certs \cup {None}
    /\ mode \in Modes \cup {None} /\ last_error \in {"refused", "expired", None}
    /\ unloaded \in BOOLEAN /\ lock \in Workers \cup {None}
    /\ pc \in [Workers -> Steps] /\ job \in [Workers -> Jobs]
    /\ check \in {"stale", "running", "done"} /\ overlap \in BOOLEAN
    /\ \A w \in Workers :
           pc[w] \in {"sole", "bind", "decide", "crt", "key", "load"} <=> lock = w

(* Once the renewal loop has made a check that no change has disturbed,    *)
(* whatever crash, exception, rebinding, renamed instance or renewed       *)
(* issuer came before it: the intact pair on disk is the one served; if    *)
(* the bound issuer can sign, it has signed for the wanted names and the   *)
(* certificate is not due, or renewing it would gain too little; if it     *)
(* cannot, a failure is on record; and without a usable issuer there still *)
(* is a certificate, a self-signed one being fresh.  If the context did    *)
(* not take the pair just written, the check that follows calls the pair   *)
(* good and does not load it (_ensure_current_locked loads only while mode *)
(* is None): until the next renewal or restart the context is then as the  *)
(* failed load left it (unloaded), and only the files are up to date.      *)
UpToDate ==
    LET stored == _load_current
        refusal == Refusal(base, binding, issuers[binding].end)
    IN
    check = "done" /\ lock = None =>
        /\ stored # None => live = stored \/ unloaded
        /\ IF binding # None /\ active(binding)
           THEN \/ stored # None /\ StillGood(stored, base, binding, issuers[binding].end)
                \/ refusal # None /\ last_error # None
           ELSE /\ stored # None
                /\ \/ stored.issuer # None
                   \/ stored.name = base /\ now < stored.end - RENEW_BEFORE

(* FR-17: an intact CA-issued certificate on disk is never replaced by a   *)
(* self-signed one, whatever becomes of the issuer it is bound to.         *)
NotDowngraded ==
    [][_load_current # None /\ _load_current.issuer # None =>
           crt'.issuer # None]_vars

(* The issuer bound to cabin's own certificate is active, unless a         *)
(* retirement and a new binding were both between their check and their    *)
(* commit at one time.                                                     *)
BoundIssuerActive == binding # None => active(binding) \/ overlap

=============================================================================
