-------------------------- MODULE TlsManagerProofs --------------------------
(***************************************************************************)
(* Proofs about TlsManager, for any issuers, names and number of requests, *)
(* and any number of crashes and exceptions.                               *)
(*                                                                         *)
(* UpToDate speaks of the moment after a check.  It is kept because every  *)
(* check, whoever makes it, works on what the database says as long as the *)
(* last check of the loop counts as undisturbed (RunningOK, DoneOK); and   *)
(* because the row that a request's session still holds can only be older, *)
(* with an earlier end, so that it never asks for a certificate that the   *)
(* loop would not ask for (Holds, OlderIsNoBetter).                        *)
(***************************************************************************)
EXTENDS TlsManager, TLAPS

Locked == {"sole", "bind", "decide", "crt", "key", "load"}

Writing == {"crt", "key", "load"}

(* What a worker has read and is about to use.                             *)
Holds(w) ==
    LET j == job[w]
    IN  /\ pc[w] \in {"save base", "save issuer", "ensure", "sole"} /\ j.row # None =>
               issuers[j.row] # None /\ j.end <= issuers[j.row].end
        /\ pc[w] \in {"bind", "decide"} /\ j.choice # None =>
               issuers[j.choice] # None /\ j.end <= issuers[j.choice].end
        /\ pc[w] = "sole" => j.choice = None
        /\ pc[w] = "bind" => j.choice # None
        /\ pc[w] = "retire" => j.choice # None /\ issuers[j.choice] # None
        /\ w = Loop /\ pc[w] \in {"ensure", "sole"} => j.row = None

(* What the one who writes the files has done so far.                      *)
Writes(w) ==
    LET j == job[w]
    IN  /\ pc[w] \in Writing => j.cert # None
        /\ pc[w] = "crt" => \/ j.cert.issuer # None
                            \/ _load_current = None \/ _load_current.issuer = None
        /\ pc[w] \in {"key", "load"} => crt = j.cert
        /\ pc[w] = "key" => key # "fits"
        /\ pc[w] = "load" => key = "fits"

(* No intermediate lives longer than one that is renewed now.              *)
EndsOK == \A i \in Issuers : issuers[i] # None => issuers[i].end <= now + IssuerYears[i]

(* The binding, and those that are on their way to replace it or to retire *)
(* an issuer.                                                              *)
BindingOK ==
    \/ overlap
    \/ /\ binding # None => active(binding)
       /\ \A w \in Workers :
              /\ pc[w] \in {"save base", "save issuer", "bind"} /\ job[w].choice # None =>
                     active(job[w].choice)
              /\ pc[w] = "retire" => job[w].choice # binding

(* An intact pair is the one that is served, or its load has failed.       *)
Served == _load_current # None => live = _load_current \/ unloaded

(* So it is, but for the moment before it is loaded and after a restart.   *)
ServedOK ==
    \/ Served
    \/ lock = None /\ mode = None
    \/ \E w \in Workers : pc[w] = "load"

(* The issuer that resolve_tls_issuer gives, and that it would bind none.  *)
Resolved == IF binding # None /\ active(binding) THEN binding ELSE None

Settled == binding = None => Cardinality(active_issuers) # 1

(* What UpToDate says of the two files and the context.                    *)
Good ==
    /\ Served
    /\ Resolved # None =>
           \/ /\ _load_current # None
              /\ StillGood(_load_current, base, Resolved, issuers[Resolved].end)
           \/ /\ Refusal(base, Resolved, issuers[Resolved].end) # None
              /\ last_error # None
    /\ Resolved = None =>
           /\ _load_current # None
           /\ \/ _load_current.issuer # None
              \/ _load_current.name = base /\ now < _load_current.end - RENEW_BEFORE

(* The loop's own check while nothing has disturbed it.                    *)
RunningOK ==
    LET j == job[Loop]
    IN  check = "running" =>
            /\ lock = Loop
            /\ pc[Loop] = "sole" => binding = None /\ j.name = base
            /\ pc[Loop] = "bind" =>
                   j.name = base /\ active(j.choice) /\ j.end = issuers[j.choice].end
            /\ pc[Loop] \in {"decide", "crt", "key", "load"} => Settled
            /\ pc[Loop] = "decide" =>
                   /\ j.name = base /\ j.choice = Resolved
                   /\ j.choice # None => j.end = issuers[j.choice].end
            /\ pc[Loop] \in Writing =>
                   /\ j.cert.name = base /\ j.cert.issuer = Resolved
                   /\ Resolved = None => j.cert.end = now + CERT_DAYS
                   /\ Resolved # None => j.cert.end = Until(Resolved, issuers[Resolved].end)

(* A request's check after it.                                             *)
Follows(w) ==
    LET j == job[w]
    IN  /\ pc[w] # "bind"
        /\ pc[w] = "sole" => binding = None /\ j.name = base
        /\ pc[w] = "decide" => j.name = base /\ (Resolved # None => j.choice = Resolved)
        /\ pc[w] \in Writing =>
               /\ Resolved = None /\ j.cert.name = base
               /\ j.cert.issuer # None \/ j.cert.end = now + CERT_DAYS

DoneOK ==
    check = "done" =>
        /\ Settled
        /\ \A w \in Workers : Follows(w)
        /\ (\A w \in Workers : pc[w] \notin Writing) => Good

IInv ==
    /\ TypeOK
    /\ \A w \in Workers : Holds(w)
    /\ \A w \in Workers : Writes(w)
    /\ EndsOK
    /\ BindingOK
    /\ ServedOK
    /\ RunningOK
    /\ DoneOK

-----------------------------------------------------------------------------
(* Operators                                                               *)

(* The numbers and the rows.                                               *)
LEMMA Types ==
    ASSUME IInv
    PROVE  /\ now \in Nat /\ CERT_DAYS \in Nat /\ RENEW_BEFORE \in Nat /\ MIN_RENEWAL_GAIN \in Nat
           /\ RENEW_BEFORE < CERT_DAYS /\ MIN_RENEWAL_GAIN > 0
           /\ None \notin Issuers /\ None \notin Workers /\ Loop \in Workers
           /\ \A i \in Issuers : issuers[i] # None =>
                  /\ issuers[i] \in Rows /\ issuers[i].end \in Nat
                  /\ issuers[i].status \in {"active", "retired"}
           /\ \A w \in Workers :
                  /\ job[w] \in Jobs /\ job[w].end \in Nat /\ job[w].row \in Issuers \cup {None}
                  /\ job[w].choice \in Issuers \cup {None} /\ job[w].name \in Names \cup {Fallback}
                  /\ job[w].cert \in Certs \cup {None}
<1>1. /\ now \in Nat /\ CERT_DAYS \in Nat /\ RENEW_BEFORE \in Nat /\ MIN_RENEWAL_GAIN \in Nat
      /\ RENEW_BEFORE < CERT_DAYS /\ MIN_RENEWAL_GAIN > 0
    BY TlsAssumption DEF IInv, TypeOK
<1>2. None \notin Issuers /\ None \notin Workers /\ Loop \in Workers
    BY TlsAssumption DEF Workers
<1>3. ASSUME NEW i \in Issuers, issuers[i] # None
      PROVE  /\ issuers[i] \in Rows /\ issuers[i].end \in Nat
             /\ issuers[i].status \in {"active", "retired"}
    <2>1. issuers[i] \in Rows
        BY <1>3 DEF IInv, TypeOK
    <2> QED
        BY <2>1 DEF Rows
<1>4. ASSUME NEW w \in Workers
      PROVE  /\ job[w] \in Jobs /\ job[w].end \in Nat /\ job[w].row \in Issuers \cup {None}
             /\ job[w].choice \in Issuers \cup {None} /\ job[w].name \in Names \cup {Fallback}
             /\ job[w].cert \in Certs \cup {None}
    <2>1. job[w] \in Jobs
        BY DEF IInv, TypeOK
    <2> QED
        BY <2>1 DEF Jobs
<1> QED
    BY <1>1, <1>2, <1>3, <1>4

(* _lock: one worker at most is inside ensure_current.                     *)
LEMMA Alone ==
    ASSUME IInv, NEW w \in Workers, pc[w] \in Locked
    PROVE  lock = w /\ lock # None /\ \A v \in Workers \ {w} : pc[v] \notin Locked
BY Types DEF IInv, TypeOK, Locked

(* Nobody is, while the lock is free.                                      *)
LEMMA NobodyInside ==
    ASSUME IInv, lock = None
    PROVE  \A v \in Workers : pc[v] \notin Locked
BY Types DEF IInv, TypeOK, Locked

(* The end of a certificate that is issued now is a number, and is no      *)
(* later for an issuer that ends earlier.                                  *)
LEMMA UntilIsMonotone ==
    ASSUME IInv, NEW i, NEW old \in Nat, NEW end \in Nat, old <= end
    PROVE  /\ Until(i, old) \in Nat /\ Until(i, end) \in Nat /\ Until(i, old) <= Until(i, end)
           /\ Until(None, end) = now + CERT_DAYS
BY Types DEF Until

(* A certificate on disk that would not be replaced is not replaced by one *)
(* who believes that the issuer ends earlier; and what is refused, one who *)
(* believes so is refused as well.                                         *)
LEMMA OlderIsNoBetter ==
    ASSUME IInv, NEW i \in Issuers, NEW name, NEW old \in Nat, NEW end \in Nat, old <= end,
           NEW current \in Certs
    PROVE  /\ StillGood(current, name, i, end) => StillGood(current, name, i, old)
           /\ Refusal(name, i, end) # None => Refusal(name, i, old) # None
<1>1. current.end \in Nat
    BY DEF Certs
<1>2. Until(i, old) \in Nat /\ Until(i, end) \in Nat /\ Until(i, old) <= Until(i, end)
    BY UntilIsMonotone
<1>3. StillGood(current, name, i, end) => StillGood(current, name, i, old)
    BY <1>1, <1>2, Types DEF StillGood
<1>4. Refusal(name, i, end) # None => Refusal(name, i, old) # None
    BY Types, NullAssumption DEF Refusal
<1> QED
    BY <1>3, <1>4

(* The certificate on disk.                                                *)
LEMMA CurrentType ==
    ASSUME IInv
    PROVE  /\ _load_current \in Certs \cup {None}
           /\ _load_current # None => _load_current = crt /\ key = "fits"
BY DEF IInv, TypeOK, _load_current

(* The issuer that is resolved is bound, and active.                       *)
LEMMA ResolvedType ==
    ASSUME IInv, Resolved # None
    PROVE  /\ Resolved = binding /\ Resolved \in Issuers /\ active(Resolved)
           /\ issuers[Resolved] # None /\ issuers[Resolved].end \in Nat
<1>1. Resolved = binding /\ binding # None /\ active(binding)
    BY DEF Resolved
<1>2. binding \in Issuers
    BY <1>1 DEF IInv, TypeOK
<1> QED
    BY <1>1, <1>2, Types DEF active

(* What UpToDate is about is all there is to it.                           *)
LEMMA SameGood ==
    ASSUME Good, UNCHANGED <<now, database, files, last_error>>, Served'
    PROVE  Good'
BY DEF Good, database, files, _load_current, Resolved, active, StillGood, Until, Refusal

(* IInv says what UpToDate does, while nobody is inside ensure_current.    *)
LEMMA GoodIsUpToDate == IInv => UpToDate
<1> SUFFICES ASSUME IInv, check = "done", lock = None PROVE UpToDate
    BY DEF UpToDate
<1>1. Good
    BY NobodyInside DEF IInv, DoneOK, Locked, Writing
<1>2. CASE binding # None /\ active(binding)
    <2>1. Resolved = binding
        BY <1>2 DEF Resolved
    <2> QED
        BY <1>1, <1>2, <2>1 DEF Good, Served, UpToDate
<1>3. CASE ~(binding # None /\ active(binding))
    <2>1. Resolved = None
        BY <1>3 DEF Resolved
    <2> QED
        BY <1>1, <1>3, <2>1 DEF Good, Served, UpToDate
<1> QED
    BY <1>2, <1>3

-----------------------------------------------------------------------------
(* What a step leaves alone                                                *)

(* Rows are never deleted, and a renewal only puts their end off.          *)
Later ==
    \A i \in Issuers : issuers[i] # None =>
        issuers'[i] # None /\ issuers'[i].end \in Nat /\ issuers[i].end <= issuers'[i].end

(* What a worker has read is still no newer than the rows.                 *)
LEMMA StillHolds ==
    ASSUME IInv, Later, NEW w \in Workers, pc'[w] = pc[w], job'[w] = job[w]
    PROVE  Holds(w)'
<1>1. Holds(w)
    BY DEF IInv
<1>2. /\ job[w].end \in Nat /\ job[w].row \in Issuers \cup {None}
      /\ job[w].choice \in Issuers \cup {None}
    BY Types
<1>3. ASSUME NEW i \in Issuers, issuers[i] # None, job[w].end <= issuers[i].end
      PROVE  issuers'[i] # None /\ job[w].end <= issuers'[i].end
    BY <1>2, <1>3, Types DEF Later
<1>4. ASSUME pc[w] \in {"save base", "save issuer", "ensure", "sole"}, job[w].row # None
      PROVE  issuers'[job[w].row] # None /\ job[w].end <= issuers'[job[w].row].end
    BY <1>1, <1>2, <1>3, <1>4 DEF Holds
<1>5. ASSUME pc[w] \in {"bind", "decide"}, job[w].choice # None
      PROVE  issuers'[job[w].choice] # None /\ job[w].end <= issuers'[job[w].choice].end
    BY <1>1, <1>2, <1>3, <1>5 DEF Holds
<1>6. ASSUME pc[w] = "retire"
      PROVE  job[w].choice # None /\ issuers'[job[w].choice] # None
    BY <1>1, <1>2, <1>6 DEF Holds, Later
<1> QED
    BY <1>1, <1>4, <1>5, <1>6 DEF Holds

(* The binding is in order as long as nobody new is about to change it.    *)
LEMMA StillBound ==
    ASSUME IInv, UNCHANGED <<binding, issuers, overlap>>,
           \A v \in Workers : \/ pc'[v] = pc[v] /\ job'[v] = job[v]
                              \/ pc'[v] \notin {"save base", "save issuer", "bind", "retire"}
    PROVE  BindingOK'
<1>1. CASE overlap
    BY <1>1 DEF BindingOK
<1>2. CASE ~overlap
    <2>1. /\ binding # None => active(binding)
          /\ \A w \in Workers :
                 /\ pc[w] \in {"save base", "save issuer", "bind"} /\ job[w].choice # None =>
                        active(job[w].choice)
                 /\ pc[w] = "retire" => job[w].choice # binding
        BY <1>2 DEF IInv, BindingOK
    <2>2. \A i : active(i) => active(i)'
        BY DEF active
    <2> QED
        BY <2>1, <2>2 DEF BindingOK, active
<1> QED
    BY <1>1, <1>2

(* A step outside ensure_current keeps the invariant when what it commits  *)
(* is in order: either it disturbs the last check, or the check would have *)
(* read the same.                                                          *)
LEMMA OutsideKeepsIInv ==
    ASSUME IInv, now' \in 0 .. MaxTime, base' \in Names \cup {Fallback},
           binding' \in Issuers \cup {None}, issuers' \in [Issuers -> Rows \cup {None}],
           pc' \in [Workers -> Steps], job' \in [Workers -> Jobs], overlap' \in BOOLEAN,
           UNCHANGED <<faults, files, process, lock>>,
           \A v \in Workers : \/ pc'[v] = pc[v] /\ job'[v] = job[v]
                              \/ pc[v] \notin Locked /\ pc'[v] \notin Locked,
           \A v \in Workers : Holds(v)', EndsOK', BindingOK',
           check' = "stale" \/ UNCHANGED <<now, database, check>>
    PROVE  IInv'
<1>1. \A v \in Workers : pc'[v] \in Locked <=> pc[v] \in Locked
    OBVIOUS
<1>2. TypeOK'
    <2>1. check' \in {"stale", "running", "done"}
        BY DEF IInv, TypeOK
    <2>2. \A w \in Workers : pc'[w] \in Locked <=> lock' = w
        BY <1>1 DEF IInv, TypeOK, Locked
    <2> QED
        BY <2>1, <2>2 DEF IInv, TypeOK, files, process, Locked
<1>3. \A v \in Workers : pc'[v] \in Locked => pc'[v] = pc[v] /\ job'[v] = job[v]
    OBVIOUS
<1>4. crt' = crt /\ key' = key /\ _load_current' = _load_current
    BY DEF files, _load_current
<1>5. ASSUME NEW v \in Workers PROVE Writes(v)'
    <2>1. Writes(v)
        BY DEF IInv
    <2>2. CASE pc'[v] \in Locked
        BY <1>3, <1>4, <2>1, <2>2 DEF Writes
    <2>3. CASE pc'[v] \notin Locked
        BY <2>3 DEF Writes, Writing, Locked
    <2> QED
        BY <2>2, <2>3
<1>6. ServedOK'
    <2>1. ASSUME NEW w \in Workers, pc[w] = "load" PROVE pc'[w] = "load"
        BY <2>1 DEF Locked
    <2> QED
        BY <1>4, <2>1 DEF IInv, ServedOK, Served, process
<1>7. CASE check' = "stale"
    <2>1. RunningOK' /\ DoneOK'
        BY <1>7 DEF RunningOK, DoneOK
    <2> QED
        BY <1>2, <1>5, <1>6, <2>1 DEF IInv
<1>8. CASE UNCHANGED <<now, database, check>>
    <2>1. Resolved' = Resolved /\ Settled' = Settled /\ \A i : active(i)' = active(i)
        BY <1>8 DEF Resolved, Settled, active, active_issuers, database
    <2>2. RunningOK'
        <3> SUFFICES ASSUME check = "running" PROVE RunningOK'
            BY <1>8 DEF RunningOK
        <3>1. lock = Loop /\ pc[Loop] \in Locked /\ Loop \in Workers
            BY Types DEF IInv, RunningOK, TypeOK, Locked
        <3>2. pc'[Loop] = pc[Loop] /\ job'[Loop] = job[Loop]
            BY <3>1
        <3>3. \A i, e : Until(i, e)' = Until(i, e)
            BY <1>8 DEF Until
        <3> QED
            BY <1>8, <2>1, <3>1, <3>2, <3>3 DEF IInv, RunningOK, database
    <2>3. DoneOK'
        <3> SUFFICES ASSUME check = "done" PROVE DoneOK'
            BY <1>8 DEF DoneOK
        <3>1. ASSUME NEW v \in Workers PROVE Follows(v)'
            <4>1. Follows(v)
                BY DEF IInv, DoneOK
            <4>2. CASE pc'[v] \in Locked
                BY <1>3, <1>8, <2>1, <4>1, <4>2 DEF Follows, database
            <4>3. CASE pc'[v] \notin Locked
                BY <4>3 DEF Follows, Locked, Writing
            <4> QED
                BY <4>2, <4>3
        <3>2. ASSUME \A v \in Workers : pc'[v] \notin Writing PROVE Good'
            <4>1. \A v \in Workers : pc[v] \notin Writing
                BY <1>1, <3>2 DEF Writing, Locked
            <4> QED
                <5>1. Good
                    BY <1>8, <4>1 DEF IInv, DoneOK
                <5>2. Served'
                    BY <1>4, <5>1 DEF Good, Served, process
                <5> QED
                    BY <1>8, <5>1, <5>2, SameGood DEF process
        <3> QED
            BY <2>1, <3>1, <3>2 DEF IInv, DoneOK
    <2> QED
        BY <1>2, <1>5, <1>6, <2>2, <2>3 DEF IInv
<1> QED
    BY <1>7, <1>8

(* A step of the one who holds the lock, after it or before it.            *)
LEMMA InsideKeepsIInv ==
    ASSUME IInv, NEW w \in Workers, \A v \in Workers \ {w} : pc[v] \notin Locked,
           NEW step \in Steps, NEW j \in Jobs, Goto(w, step, j),
           lock' = (IF step \in Locked THEN w ELSE None),
           UNCHANGED <<now, base, issuers>>, faults' \in 0 .. MaxFaults,
           binding' \in Issuers \cup {None}, overlap' \in BOOLEAN,
           crt' \in Certs \cup {None}, key' \in {"fits", "other", None},
           live' \in Certs \cup {None}, mode' \in Modes \cup {None}, unloaded' \in BOOLEAN,
           last_error' \in {"refused", "expired", None},
           check' \in {"stale", "running", "done"},
           Holds(w)', Writes(w)', BindingOK', ServedOK', RunningOK',
           check' = "done" => /\ Settled' /\ Follows(w)'
                              /\ step \notin Writing => Good'
    PROVE  IInv'
<1>1. pc' = [pc EXCEPT ![w] = step] /\ job' = [job EXCEPT ![w] = j]
    BY DEF Goto
<1>2. /\ pc'[w] = step /\ job'[w] = j
      /\ \A v \in Workers \ {w} : pc'[v] = pc[v] /\ job'[v] = job[v]
    BY <1>1 DEF IInv, TypeOK
<1>3. \A v \in Workers : pc'[v] \in Locked <=> lock' = v
    <2>1. CASE step \in Locked
        BY <1>2, <2>1
    <2>2. CASE step \notin Locked
        BY <1>2, <2>2, Types
    <2> QED
        BY <2>1, <2>2
<1>4. TypeOK'
    <2>1. pc' \in [Workers -> Steps] /\ job' \in [Workers -> Jobs]
        BY <1>1 DEF IInv, TypeOK
    <2>2. lock' \in Workers \cup {None}
        OBVIOUS
    <2> QED
        BY <1>3, <2>1, <2>2 DEF IInv, TypeOK, Locked
<1>5. Later /\ EndsOK'
    BY Types DEF IInv, EndsOK, Later
<1>6. \A v \in Workers : Holds(v)'
    BY <1>2, <1>5, StillHolds
<1>7. \A v \in Workers \ {w} : Writes(v)' /\ Follows(v)'
    BY <1>2 DEF Writes, Follows, Locked, Writing
<1>8. DoneOK'
    BY <1>2, <1>7 DEF DoneOK
<1> QED
    BY <1>4, <1>5, <1>6, <1>7, <1>8 DEF IInv

(* A step of one worker leaves the others where they are.                  *)
LEMMA OthersStay ==
    ASSUME IInv, NEW w \in Workers, NEW step \in Steps, NEW j \in Jobs, Goto(w, step, j)
    PROVE  /\ pc' \in [Workers -> Steps] /\ job' \in [Workers -> Jobs]
           /\ pc'[w] = step /\ job'[w] = j
           /\ \A v \in Workers \ {w} : pc'[v] = pc[v] /\ job'[v] = job[v]
BY DEF Goto, IInv, TypeOK

(* The job of a worker that has nothing to do.                             *)
LEMMA NoJobType == NoJob \in Jobs
BY DEF NoJob, Jobs

-----------------------------------------------------------------------------
(* Requests                                                                *)

(* The request or the loop reads, before it asks for the lock.             *)
LEMMA ReadKeepsIInv ==
    ASSUME IInv, NEW w \in Workers, NEW step \in Steps, NEW j \in Jobs, Goto(w, step, j),
           UNCHANGED <<now, faults, database, files, process, lock, history>>,
           pc[w] \notin Locked, step \notin Locked, Holds(w)', BindingOK'
    PROVE  IInv'
<1>1. /\ pc' \in [Workers -> Steps] /\ job' \in [Workers -> Jobs]
      /\ pc'[w] = step /\ job'[w] = j
      /\ \A v \in Workers \ {w} : pc'[v] = pc[v] /\ job'[v] = job[v]
    BY OthersStay
<1>2. Later /\ EndsOK'
    BY Types DEF IInv, EndsOK, Later, database
<1>3. \A v \in Workers : Holds(v)'
    BY <1>1, <1>2, StillHolds
<1>4. /\ now' \in 0 .. MaxTime /\ base' \in Names \cup {Fallback}
      /\ binding' \in Issuers \cup {None} /\ issuers' \in [Issuers -> Rows \cup {None}]
      /\ overlap' \in BOOLEAN /\ UNCHANGED <<now, database, check>>
    BY DEF IInv, TypeOK, database, history
<1> QED
    BY <1>1, <1>2, <1>3, <1>4, OutsideKeepsIInv

(* settings_submit: the issuer that is chosen is active.                   *)
LEMMA SettingsSubmitKeepsIInv ==
    ASSUME IInv, NEW w \in Workers, w # Loop, settings_submit(w)
    PROVE  IInv'
<1>1. PICK n \in Names \cup {Fallback}, i \in active_issuers \cup {None} :
          Goto(w, "save base", [NoJob EXCEPT
               !.name = n, !.choice = i, !.row = i, !.end = IF i = None THEN 0 ELSE issuers[i].end])
    BY DEF settings_submit
<1>2. i # None => i \in Issuers /\ active(i) /\ issuers[i] # None
    BY <1>1 DEF active_issuers, active
<1>3. PICK e : e = IF i = None THEN 0 ELSE issuers[i].end
    OBVIOUS
<1>4. e \in Nat
    BY <1>2, <1>3, Types
<1>5. PICK j : j = [NoJob EXCEPT !.name = n, !.choice = i, !.row = i, !.end = e]
    OBVIOUS
<1>6. j \in Jobs /\ j.row = i /\ j.choice = i /\ j.end = e
    <2>1. j = [row |-> i, end |-> e, name |-> n, choice |-> i, changed |-> FALSE, cert |-> None]
        BY <1>5 DEF NoJob
    <2> QED
        BY <1>2, <1>4, <2>1 DEF Jobs
<1>7. Goto(w, "save base", j)
    BY <1>1, <1>3, <1>5
<1>8. pc[w] = "idle" /\ UNCHANGED <<now, faults, database, files, process, lock, history>>
    BY DEF settings_submit
<1>9. /\ pc'[w] = "save base" /\ job'[w] = j
      /\ \A v \in Workers \ {w} : pc'[v] = pc[v] /\ job'[v] = job[v]
    BY <1>6, <1>7, OthersStay DEF Steps
<1>10. issuers' = issuers /\ binding' = binding /\ overlap' = overlap
       /\ \A x : active(x)' = active(x)
    BY <1>8 DEF database, history, active
<1>11. Holds(w)'
    <2>1. i # None => e <= issuers[i].end
        BY <1>2, <1>3, <1>4
    <2> QED
        BY <1>2, <1>6, <1>9, <1>10, <2>1 DEF Holds
<1>12. BindingOK'
    <2>1. j.choice # None => active(j.choice)
        BY <1>2, <1>6
    <2> QED
        BY <1>9, <1>10, <2>1 DEF IInv, BindingOK, active
<1> QED
    BY <1>6, <1>7, <1>8, <1>11, <1>12, ReadKeepsIInv DEF Steps, Locked

(* ca_retire: the row is there, and it is not the one that is bound.       *)
LEMMA CaRetireKeepsIInv ==
    ASSUME IInv, NEW w \in Workers, w # Loop, NEW i \in Issuers, ca_retire(w, i)
    PROVE  IInv'
<1>1. PICK j : j = [NoJob EXCEPT !.choice = i]
    OBVIOUS
<1>2. j \in Jobs /\ j.choice = i
    <2>1. j = [row |-> None, end |-> 0, name |-> Fallback, choice |-> i,
               changed |-> FALSE, cert |-> None]
        BY <1>1 DEF NoJob
    <2> QED
        BY <2>1 DEF Jobs
<1>3. /\ pc[w] = "idle" /\ active(i) /\ binding # i /\ Goto(w, "retire", j)
      /\ UNCHANGED <<now, faults, database, files, process, lock, history>>
    BY <1>1 DEF ca_retire, _refuse_retire_of_tls_issuer
<1>4. /\ pc'[w] = "retire" /\ job'[w] = j
      /\ \A v \in Workers \ {w} : pc'[v] = pc[v] /\ job'[v] = job[v]
    BY <1>2, <1>3, OthersStay DEF Steps
<1>5. issuers' = issuers /\ binding' = binding /\ overlap' = overlap
      /\ \A x : active(x)' = active(x)
    BY <1>3 DEF database, history, active
<1>6. Holds(w)'
    BY <1>2, <1>3, <1>4, <1>5, Types DEF Holds, active
<1>7. BindingOK'
    BY <1>2, <1>3, <1>4, <1>5 DEF IInv, BindingOK, active
<1> QED
    BY <1>2, <1>3, <1>6, <1>7, ReadKeepsIInv DEF Steps, Locked

(* renewal_loop: a session of its own, with no row in it.                  *)
LEMMA RenewalLoopKeepsIInv ==
    ASSUME IInv, renewal_loop
    PROVE  IInv'
<1>1. /\ pc[Loop] = "idle" /\ Goto(Loop, "ensure", NoJob)
      /\ UNCHANGED <<now, faults, database, files, process, lock, history>>
    BY DEF renewal_loop
<1>2. /\ pc'[Loop] = "ensure" /\ job'[Loop] = NoJob
      /\ \A v \in Workers \ {Loop} : pc'[v] = pc[v] /\ job'[v] = job[v]
    BY <1>1, Types, NoJobType, OthersStay DEF Steps
<1>3. NoJob.row = None
    BY DEF NoJob
<1>4. Holds(Loop)'
    BY <1>2, <1>3 DEF Holds
<1>5. BindingOK'
    BY <1>1, <1>2, StillBound DEF database, history
<1> QED
    BY <1>1, <1>4, <1>5, Types, NoJobType, ReadKeepsIInv DEF Steps, Locked

(* A setting is saved, or an issuer is created or retired.                 *)
LEMMA CommitKeepsIInv ==
    ASSUME IInv, NEW w \in Workers, NEW step \in Steps, NEW j \in Jobs, Goto(w, step, j),
           UNCHANGED <<now, faults, files, process, lock>>,
           base' \in Names \cup {Fallback}, binding' \in Issuers \cup {None},
           issuers' \in [Issuers -> Rows \cup {None}], overlap' \in BOOLEAN,
           pc[w] \notin Locked, step \notin Locked, Holds(w)', BindingOK',
           Later, EndsOK', check' = "stale" \/ UNCHANGED <<database, check>>
    PROVE  IInv'
<1>1. /\ pc' \in [Workers -> Steps] /\ job' \in [Workers -> Jobs]
      /\ pc'[w] = step /\ job'[w] = j
      /\ \A v \in Workers \ {w} : pc'[v] = pc[v] /\ job'[v] = job[v]
    BY OthersStay
<1>2. \A v \in Workers : Holds(v)'
    BY <1>1, StillHolds
<1>3. now' \in 0 .. MaxTime
    BY DEF IInv, TypeOK
<1> QED
    BY <1>1, <1>2, <1>3, OutsideKeepsIInv

(* Rows that are not touched are no newer than they were.                  *)
LEMMA SameRows ==
    ASSUME IInv, UNCHANGED <<issuers, now>>
    PROVE  Later /\ EndsOK' /\ \A x : active(x)' = active(x)
BY Types DEF IInv, EndsOK, Later, active

(* SaveBase: the new names disturb the check, the old ones do not.         *)
LEMMA SaveBaseKeepsIInv ==
    ASSUME IInv, NEW w \in Workers, w # Loop, SaveBase(w)
    PROVE  IInv'
<1>1. PICK j : j = [job[w] EXCEPT !.changed = base' # base]
    OBVIOUS
<1>2. /\ pc[w] = "save base" /\ base' = job[w].name /\ Goto(w, "save issuer", j)
      /\ base' # base => check' = "stale"
      /\ base' = base => check' = check
      /\ UNCHANGED <<now, faults, binding, issuers, files, process, lock, overlap>>
    BY <1>1 DEF SaveBase, Changed
<1>4. /\ j \in Jobs /\ j.row = job[w].row /\ j.end = job[w].end /\ j.choice = job[w].choice
    <2> DEFINE other == base' # base
    <2>1. other \in BOOLEAN
        BY Zenon
    <2>2. j = [job[w] EXCEPT !.changed = other]
        BY <1>1
    <2> HIDE DEF other
    <2> QED
        BY <2>1, <2>2, Types DEF Jobs
<1>5. /\ pc'[w] = "save issuer" /\ job'[w] = j
      /\ \A v \in Workers \ {w} : pc'[v] = pc[v] /\ job'[v] = job[v]
    BY <1>2, <1>4, OthersStay DEF Steps
<1>6. Holds(w)'
    BY <1>2, <1>4, <1>5 DEF IInv, Holds
<1>7. BindingOK'
    <2>1. \A x : active(x)' = active(x)
        BY <1>2, SameRows
    <2> QED
        BY <1>2, <1>4, <1>5, <2>1 DEF IInv, BindingOK, active
<1>8. /\ base' \in Names \cup {Fallback} /\ binding' \in Issuers \cup {None}
      /\ issuers' \in [Issuers -> Rows \cup {None}] /\ overlap' \in BOOLEAN
    BY <1>2, Types DEF IInv, TypeOK
<1>9. Later /\ EndsOK'
    BY <1>2, SameRows
<1>10. check' = "stale" \/ UNCHANGED <<database, check>>
    BY <1>2 DEF database
<1> QED
    BY <1>2, <1>4, <1>6, <1>7, <1>8, <1>9, <1>10, CommitKeepsIInv DEF Steps, Locked

(* What NoteOverlap records.                                               *)
LEMMA Noted ==
    ASSUME IInv, NEW steps, NoteOverlap(steps)
    PROVE  /\ overlap' \in BOOLEAN
           /\ ~overlap' => ~overlap /\ \A v \in Workers : pc[v] \notin steps
<1> DEFINE met == \E w \in Workers : pc[w] \in steps
<1>1. overlap' = (overlap \/ met)
    BY DEF NoteOverlap
<1>2. overlap' \in BOOLEAN
    <2> HIDE DEF met
    <2> QED
        BY <1>1, Zenon
<1>3. ~overlap' => ~overlap /\ ~met
    BY <1>1
<1> QED
    BY <1>2, <1>3

(* SaveIssuer: the binding is the active issuer that was chosen, unless a  *)
(* retirement is under way.                                                *)
LEMMA SaveIssuerKeepsIInv ==
    ASSUME IInv, NEW w \in Workers, w # Loop, SaveIssuer(w)
    PROVE  IInv'
<1>1. /\ pc[w] = "save issuer" /\ binding' = job[w].choice
      /\ binding' # binding => check' = "stale"
      /\ binding' = binding => check' = check
      /\ NoteOverlap({"retire"})
      /\ UNCHANGED <<now, faults, base, issuers, files, process, lock>>
    BY DEF SaveIssuer, Changed
<1>2. PICK j, step : /\ Goto(w, step, j) /\ step \in {"ensure", "idle"} /\ j \in Jobs
                     /\ step = "ensure" => j.row = job[w].row /\ j.end = job[w].end
    <2>1. CASE job[w].changed \/ binding' # binding
        <3>1. PICK row, end, j : /\ row = job[w].row /\ end = job[w].end
                                 /\ j = [NoJob EXCEPT !.row = row, !.end = end]
            OBVIOUS
        <3>2. j = [row |-> row, end |-> end, name |-> Fallback, choice |-> None,
                   changed |-> FALSE, cert |-> None]
            BY <3>1 DEF NoJob
        <3>3. row \in Issuers \cup {None} /\ end \in Nat
            BY <3>1, Types
        <3>4. j \in Jobs /\ j.row = row /\ j.end = end
            BY <3>2, <3>3 DEF Jobs
        <3>5. Goto(w, "ensure", j)
            BY <2>1, <3>1 DEF SaveIssuer
        <3> QED
            BY <3>1, <3>4, <3>5
    <2>2. CASE ~(job[w].changed \/ binding' # binding)
        <3>1. Goto(w, "idle", NoJob)
            BY <2>2 DEF SaveIssuer, Finish
        <3> QED
            BY <3>1, NoJobType
    <2> QED
        BY <2>1, <2>2
<1>3. /\ pc'[w] = step /\ job'[w] = j
      /\ \A v \in Workers \ {w} : pc'[v] = pc[v] /\ job'[v] = job[v]
    BY <1>2, OthersStay DEF Steps
<1>4. Holds(w)'
    BY <1>1, <1>2, <1>3 DEF IInv, Holds
<1>5. /\ overlap' \in BOOLEAN
      /\ ~overlap' => ~overlap /\ \A v \in Workers : pc[v] # "retire"
    BY <1>1, Noted
<1>6. BindingOK'
    <2> SUFFICES ASSUME ~overlap' PROVE BindingOK'
        BY DEF BindingOK
    <2>1. \A x : active(x)' = active(x)
        BY <1>1, SameRows
    <2>2. binding' # None => active(binding')
        BY <1>1, <1>5 DEF IInv, BindingOK
    <2>3. \A v \in Workers : pc'[v] # "retire"
        BY <1>2, <1>3, <1>5
    <2>4. \A v \in Workers : pc'[v] \in {"save base", "save issuer", "bind"} =>
              pc'[v] = pc[v] /\ job'[v] = job[v]
        BY <1>2, <1>3
    <2>5. \A v \in Workers : pc[v] \in {"save base", "save issuer", "bind"}
              /\ job[v].choice # None => active(job[v].choice)
        BY <1>5 DEF IInv, BindingOK
    <2> QED
        BY <1>1, <2>2, <2>3, <2>4, <2>5 DEF BindingOK, active
<1>7. /\ base' \in Names \cup {Fallback} /\ binding' \in Issuers \cup {None}
      /\ issuers' \in [Issuers -> Rows \cup {None}]
    BY <1>1, Types DEF IInv, TypeOK
<1>8. Later /\ EndsOK'
    BY <1>1, SameRows
<1>9. check' = "stale" \/ UNCHANGED <<database, check>>
    BY <1>1 DEF database
<1> QED
    BY <1>1, <1>2, <1>4, <1>5, <1>6, <1>7, <1>8, <1>9, CommitKeepsIInv DEF Steps, Locked

(* One row is new, renewed or retired; the others are what they were.      *)
LEMMA OneRow ==
    ASSUME IInv, UNCHANGED now, NEW i \in Issuers, NEW row \in Rows,
           issuers' = [issuers EXCEPT ![i] = row], row.end <= now + IssuerYears[i],
           issuers[i] # None => issuers[i].end <= row.end
    PROVE  /\ issuers' \in [Issuers -> Rows \cup {None}] /\ Later /\ EndsOK'
           /\ \A x \in Issuers \ {i} : active(x)' = active(x)
           /\ active(i)' = (row.status = "active")
<1>1. issuers \in [Issuers -> Rows \cup {None}] /\ row.end \in Nat /\ row # None
    BY NullAssumption DEF IInv, TypeOK, Rows
<1>2. issuers'[i] = row /\ \A x \in Issuers \ {i} : issuers'[x] = issuers[x]
    BY <1>1
<1>3. issuers' \in [Issuers -> Rows \cup {None}]
    BY <1>1
<1>4. Later
    BY <1>1, <1>2, Types DEF Later
<1>5. EndsOK'
    BY <1>2 DEF IInv, EndsOK
<1> QED
    BY <1>1, <1>2, <1>3, <1>4, <1>5 DEF active

(* The life that a new or renewed intermediate gets.                       *)
LEMMA NewEnd ==
    ASSUME IInv, NEW i \in Issuers, NEW end, end = now + IssuerYears[i],
           NEW status \in {"active", "retired"}
    PROVE  /\ end \in Nat /\ [status |-> status, end |-> end] \in Rows
           /\ issuers[i] # None => issuers[i].end <= end
<1>1. IssuerYears[i] \in Nat /\ now \in Nat
    BY Types, TlsAssumption
<1>2. end \in Nat
    BY <1>1
<1> QED
    BY <1>2 DEF IInv, EndsOK, Rows

(* create_intermediate: the row that the session holds is the new one.     *)
LEMMA CreateKeepsIInv ==
    ASSUME IInv, NEW w \in Workers, w # Loop, NEW i \in Issuers, create_intermediate(w, i)
    PROVE  IInv'
<1>1. PICK end : end = now + IssuerYears[i]
    OBVIOUS
<1>2. PICK row : row = [status |-> "active", end |-> end]
    OBVIOUS
<1>3. PICK j : j = [NoJob EXCEPT !.row = i, !.end = end]
    OBVIOUS
<1>4. /\ pc[w] = "idle" /\ issuers[i] = None /\ issuers' = [issuers EXCEPT ![i] = row]
      /\ check' = "stale" /\ Goto(w, "ensure", j)
      /\ UNCHANGED <<now, faults, base, binding, files, process, lock, overlap>>
    BY <1>1, <1>2, <1>3 DEF create_intermediate, Changed
<1>5. end \in Nat /\ row \in Rows /\ row.end = end /\ row.status = "active" /\ row # None
    BY <1>1, <1>2, NewEnd, NullAssumption
<1>6. j \in Jobs /\ j.row = i /\ j.end = end
    <2>1. j = [row |-> i, end |-> end, name |-> Fallback, choice |-> None,
               changed |-> FALSE, cert |-> None]
        BY <1>3 DEF NoJob
    <2> QED
        BY <1>5, <2>1 DEF Jobs
<1>7. /\ issuers' \in [Issuers -> Rows \cup {None}] /\ Later /\ EndsOK'
      /\ \A x \in Issuers \ {i} : active(x)' = active(x)
      /\ active(i)' = (row.status = "active")
    <2>1. row.end <= now + IssuerYears[i]
        BY <1>1, <1>5
    <2> QED
        BY <1>4, <1>5, <2>1, OneRow
<1>8. /\ pc'[w] = "ensure" /\ job'[w] = j
      /\ \A v \in Workers \ {w} : pc'[v] = pc[v] /\ job'[v] = job[v]
    BY <1>4, <1>6, OthersStay DEF Steps
<1>9. Holds(w)'
    <2>1. issuers'[i] = row
        BY <1>4 DEF IInv, TypeOK
    <2> QED
        BY <1>5, <1>6, <1>8, <2>1 DEF Holds
<1>10. BindingOK'
    <2> SUFFICES ASSUME ~overlap PROVE BindingOK'
        BY <1>4 DEF BindingOK
    <2>1. \A x \in Issuers : active(x) => active(x)'
        BY <1>5, <1>7
    <2>2. ASSUME NEW b, b = binding, b # None PROVE active(b)'
        BY <2>1, <2>2 DEF IInv, BindingOK, TypeOK
    <2>3. ASSUME NEW v \in Workers, pc[v] \in {"save base", "save issuer", "bind"},
                 NEW c, c = job[v].choice, c # None
          PROVE  active(c)'
        BY <2>1, <2>3, Types DEF IInv, BindingOK
    <2>4. \A v \in Workers : pc'[v] \in {"save base", "save issuer", "bind", "retire"} =>
              pc'[v] = pc[v] /\ job'[v] = job[v]
        BY <1>8
    <2> QED
        BY <1>4, <2>2, <2>3, <2>4 DEF IInv, BindingOK, active
<1>11. /\ base' \in Names \cup {Fallback} /\ binding' \in Issuers \cup {None}
       /\ overlap' \in BOOLEAN
    BY <1>4 DEF IInv, TypeOK
<1> QED
    BY <1>4, <1>6, <1>7, <1>9, <1>10, <1>11, CommitKeepsIInv DEF Steps, Locked

(* renew_in_place: the row stays active, and its end is no earlier.        *)
LEMMA RenewKeepsIInv ==
    ASSUME IInv, NEW i \in Issuers, renew_in_place(i)
    PROVE  IInv'
<1>1. PICK end : end = now + IssuerYears[i]
    OBVIOUS
<1>2. /\ active(i) /\ issuers' = [issuers EXCEPT ![i].end = end] /\ check' = "stale"
      /\ UNCHANGED <<now, faults, base, binding, files, process, lock, pc, job, overlap>>
    BY <1>1 DEF renew_in_place, Changed
<1>3. issuers[i] \in Rows /\ issuers[i].status = "active" /\ issuers[i] # None
    BY <1>2, Types DEF active
<1>4. PICK row : row = [issuers[i] EXCEPT !.end = end]
    OBVIOUS
<1>5. end \in Nat /\ issuers[i].end <= end
    BY <1>1, <1>3, NewEnd
<1>6. row \in Rows /\ row.end = end /\ row.status = "active"
    BY <1>3, <1>4, <1>5 DEF Rows
<1>7. issuers' = [issuers EXCEPT ![i] = row]
    BY <1>2, <1>4
<1>8. /\ issuers' \in [Issuers -> Rows \cup {None}] /\ Later /\ EndsOK'
      /\ \A x \in Issuers \ {i} : active(x)' = active(x)
      /\ active(i)' = (row.status = "active")
    <2>1. row.end <= now + IssuerYears[i] /\ issuers[i].end <= row.end
        BY <1>1, <1>5, <1>6
    <2> QED
        BY <1>2, <1>6, <1>7, <2>1, OneRow
<1>9. \A v \in Workers : Holds(v)'
    BY <1>2, <1>8, StillHolds
<1>10. BindingOK'
    <2> SUFFICES ASSUME ~overlap PROVE BindingOK'
        BY <1>2 DEF BindingOK
    <2>1. \A x \in Issuers : active(x) => active(x)'
        BY <1>6, <1>8
    <2>2. ASSUME NEW b, b = binding, b # None PROVE active(b)'
        BY <2>1, <2>2 DEF IInv, BindingOK, TypeOK
    <2>3. ASSUME NEW v \in Workers, pc[v] \in {"save base", "save issuer", "bind"},
                 NEW c, c = job[v].choice, c # None
          PROVE  active(c)'
        BY <2>1, <2>3, Types DEF IInv, BindingOK
    <2> QED
        BY <1>2, <2>2, <2>3 DEF IInv, BindingOK, active
<1>11. /\ now' \in 0 .. MaxTime /\ base' \in Names \cup {Fallback}
       /\ binding' \in Issuers \cup {None} /\ overlap' \in BOOLEAN
       /\ pc' \in [Workers -> Steps] /\ job' \in [Workers -> Jobs]
    BY <1>2 DEF IInv, TypeOK
<1> QED
    BY <1>2, <1>8, <1>9, <1>10, <1>11, OutsideKeepsIInv

(* retire: the bound issuer is another one, and whoever was about to bind  *)
(* the one that goes is noted.                                             *)
LEMMA RetireKeepsIInv ==
    ASSUME IInv, NEW w \in Workers, w # Loop, retire(w)
    PROVE  IInv'
<1>1. PICK i : i = job[w].choice
    OBVIOUS
<1>2. /\ pc[w] = "retire" /\ Goto(w, "idle", NoJob)
      /\ NoteOverlap({"save base", "save issuer", "bind"})
      /\ UNCHANGED <<now, faults, base, binding, files, process, lock>>
    BY DEF retire, Finish
<1>3. i \in Issuers /\ issuers[i] # None
    BY <1>1, <1>2, Types DEF IInv, Holds
<1>4. /\ pc'[w] = "idle" /\ \A v \in Workers \ {w} : pc'[v] = pc[v] /\ job'[v] = job[v]
    BY <1>2, NoJobType, OthersStay DEF Steps
<1>5. Holds(w)'
    BY <1>4 DEF Holds
<1>6. /\ overlap' \in BOOLEAN
      /\ ~overlap' =>
             /\ ~overlap
             /\ \A v \in Workers : pc[v] \notin {"save base", "save issuer", "bind"}
    BY <1>2, Noted
<1>7. /\ issuers' \in [Issuers -> Rows \cup {None}] /\ Later /\ EndsOK'
      /\ \A x \in Issuers \ {i} : active(x)' = active(x)
      /\ check' = "stale" \/ UNCHANGED <<issuers, check>>
    <2>1. CASE active_issuers \ {i} # {}
        <3>1. issuers' = [issuers EXCEPT ![i].status = "retired"] /\ check' = "stale"
            BY <1>1, <2>1 DEF retire, Changed
        <3>2. PICK row : row = [issuers[i] EXCEPT !.status = "retired"]
            OBVIOUS
        <3>3. issuers[i] \in Rows /\ issuers[i].end \in Nat
            BY <1>3, Types
        <3>4. row \in Rows /\ row.end = issuers[i].end
            BY <3>2, <3>3 DEF Rows
        <3>5. issuers' = [issuers EXCEPT ![i] = row]
            BY <3>1, <3>2
        <3>6. row.end <= now + IssuerYears[i] /\ issuers[i].end <= row.end
            BY <1>3, <3>3, <3>4 DEF IInv, EndsOK
        <3>7. /\ issuers' \in [Issuers -> Rows \cup {None}] /\ Later /\ EndsOK'
              /\ \A x \in Issuers \ {i} : active(x)' = active(x)
            BY <1>2, <1>3, <3>4, <3>5, <3>6, OneRow
        <3> QED
            BY <3>1, <3>7
    <2>2. CASE active_issuers \ {i} = {}
        <3>1. UNCHANGED <<issuers, check>>
            BY <1>1, <2>2 DEF retire
        <3> QED
            BY <1>2, <3>1, SameRows DEF IInv, TypeOK
    <2> QED
        BY <2>1, <2>2
<1>8. BindingOK'
    <2> SUFFICES ASSUME ~overlap' PROVE BindingOK'
        BY DEF BindingOK
    <2>1. binding # None => active(binding) /\ binding # i
        BY <1>1, <1>2, <1>6 DEF IInv, BindingOK
    <2>2. ASSUME NEW b, b = binding, b # None PROVE active(b)'
        BY <1>7, <2>1, <2>2 DEF IInv, TypeOK
    <2>3. \A v \in Workers : pc'[v] \notin {"save base", "save issuer", "bind"}
        BY <1>4, <1>6
    <2>4. \A v \in Workers : pc'[v] = "retire" => job'[v].choice # binding
        BY <1>4, <1>6 DEF IInv, BindingOK
    <2> QED
        BY <1>2, <2>2, <2>3, <2>4 DEF BindingOK, active
<1>9. base' \in Names \cup {Fallback} /\ binding' \in Issuers \cup {None}
    BY <1>2 DEF IInv, TypeOK
<1>10. check' = "stale" \/ UNCHANGED <<database, check>>
    BY <1>2, <1>7 DEF database
<1> QED
    BY <1>2, <1>5, <1>6, <1>7, <1>8, <1>9, <1>10, NoJobType, CommitKeepsIInv DEF Steps, Locked

-----------------------------------------------------------------------------
(* The clock and crashes                                                   *)

(* Advance: later ends are only further off, and the check is old.         *)
LEMMA AdvanceKeepsIInv ==
    ASSUME IInv, Advance
    PROVE  IInv'
<1>1. /\ now' = now + 1 /\ now < MaxTime /\ check' = "stale"
      /\ UNCHANGED <<faults, database, files, process, lock, pc, job, overlap>>
    BY DEF Advance, Changed
<1>2. issuers' = issuers /\ base' = base /\ binding' = binding
    BY <1>1 DEF database
<1>3. Later
    BY <1>2, Types DEF Later
<1>4. \A v \in Workers : Holds(v)'
    BY <1>1, <1>3, StillHolds
<1>5. EndsOK'
    <2> SUFFICES ASSUME NEW i \in Issuers, issuers[i] # None
                 PROVE  issuers[i].end <= now' + IssuerYears[i]
        BY <1>2 DEF EndsOK
    <2>1. issuers[i].end <= now + IssuerYears[i] /\ issuers[i].end \in Nat /\ now \in Nat
        BY Types DEF IInv, EndsOK
    <2>2. IssuerYears[i] \in Nat
        BY TlsAssumption
    <2> QED
        BY <1>1, <2>1, <2>2
<1>6. BindingOK'
    BY <1>1, <1>2, StillBound
<1>7. /\ now' \in 0 .. MaxTime /\ base' \in Names \cup {Fallback}
      /\ binding' \in Issuers \cup {None} /\ issuers' \in [Issuers -> Rows \cup {None}]
      /\ overlap' \in BOOLEAN /\ pc' \in [Workers -> Steps] /\ job' \in [Workers -> Jobs]
    BY <1>1, <1>2, TlsAssumption DEF IInv, TypeOK
<1> QED
    BY <1>1, <1>4, <1>5, <1>6, <1>7, OutsideKeepsIInv

(* Crash: nobody is left, and the next check loads what is on disk.        *)
LEMMA CrashKeepsIInv ==
    ASSUME IInv, Crash
    PROVE  IInv'
<1>1. /\ faults < MaxFaults /\ faults' = faults + 1 /\ check' = "stale"
      /\ live' = None /\ mode' = None /\ last_error' = None /\ unloaded' = FALSE /\ lock' = None
      /\ pc' = [w \in Workers |-> "idle"] /\ job' = [w \in Workers |-> NoJob]
      /\ UNCHANGED <<now, database, files, overlap>>
    BY DEF Crash, Changed
<1>2. /\ issuers' = issuers /\ base' = base /\ binding' = binding /\ crt' = crt /\ key' = key
    BY <1>1 DEF database, files
<1>3. \A v \in Workers : pc'[v] = "idle"
    BY <1>1
<1>4. TypeOK'
    <2>1. pc' \in [Workers -> Steps] /\ job' \in [Workers -> Jobs]
        BY <1>1, NoJobType DEF Steps
    <2>2. faults' \in 0 .. MaxFaults
        BY <1>1, TlsAssumption DEF IInv, TypeOK
    <2>3. \A v \in Workers : pc'[v] \in Locked <=> lock' = v
        BY <1>1, <1>3, Types DEF Locked
    <2> QED
        BY <1>1, <1>2, <2>1, <2>2, <2>3 DEF IInv, TypeOK, Locked
<1>5. \A v \in Workers : Holds(v)' /\ Writes(v)'
    BY <1>3 DEF Holds, Writes, Writing
<1>6. BindingOK'
    BY <1>1, <1>2, <1>3, StillBound
<1>7. EndsOK' /\ ServedOK' /\ RunningOK' /\ DoneOK'
    BY <1>1, <1>2, SameRows DEF ServedOK, RunningOK, DoneOK
<1> QED
    BY <1>4, <1>5, <1>6, <1>7 DEF IInv

-----------------------------------------------------------------------------
(* ensure_current                                                          *)

(* A check that has not loaded anything yet finds the context as it is.    *)
LEMMA ServedInside ==
    ASSUME IInv, NEW w \in Workers, pc[w] \in {"sole", "bind", "decide", "crt"}
    PROVE  Served
<1>1. lock # None /\ \A v \in Workers \ {w} : pc[v] \notin Locked
    BY Alone DEF Locked
<1>2. \A v \in Workers : pc[v] # "load"
    BY <1>1 DEF Locked
<1> QED
    BY <1>1, <1>2 DEF IInv, ServedOK

(* ensure_current: the loop reads what the database says; a request may    *)
(* take its own, older row for the bound issuer's.                         *)
LEMMA EnsureCurrentKeepsIInv ==
    ASSUME IInv, NEW w \in Workers, ensure_current(w)
    PROVE  IInv'
<1> DEFINE seen == binding # None /\ job[w].row = binding
           usable == binding # None /\ (seen \/ active(binding))
<1>1. PICK c, e, j :
          /\ c = IF usable THEN binding ELSE None
          /\ e = IF usable /\ ~seen THEN issuers[binding].end ELSE job[w].end
          /\ j = [job[w] EXCEPT !.name = base, !.choice = c, !.end = e]
    OBVIOUS
<1>2. PICK step : step = IF binding = None THEN "sole" ELSE "decide"
    OBVIOUS
<1>3. /\ pc[w] = "ensure" /\ lock = None /\ lock' = w /\ Adopt
      /\ check' = IF w = Loop THEN "running" ELSE check
      /\ Goto(w, step, j)
      /\ UNCHANGED <<now, faults, database, files, last_error, overlap>>
    BY <1>1, <1>2 DEF ensure_current, Acquire
<1>4. /\ binding \in Issuers \cup {None} /\ base \in Names \cup {Fallback}
      /\ Holds(w) /\ job[w] \in Jobs
    BY Types DEF IInv, TypeOK
<1>5. /\ c \in Issuers \cup {None} /\ e \in Nat
      /\ c # None => c = binding /\ issuers[c] # None /\ e <= issuers[c].end
    <2>1. CASE ~usable
        BY <1>1, <1>4, <2>1, Types
    <2>2. CASE usable /\ seen
        <3>1. issuers[binding] # None /\ job[w].end <= issuers[binding].end
            BY <1>3, <1>4, <2>2 DEF Holds
        <3> QED
            BY <1>1, <1>4, <2>2, <3>1, Types
    <2>3. CASE usable /\ ~seen
        <3>1. binding \in Issuers /\ issuers[binding] # None
            BY <1>4, <2>3 DEF active
        <3>2. issuers[binding].end \in Nat
            BY <3>1, Types
        <3> QED
            BY <1>1, <2>3, <3>1, <3>2
    <2> QED
        BY <2>1, <2>2, <2>3
<1>6. j \in Jobs /\ j.name = base /\ j.choice = c /\ j.end = e /\ j.row = job[w].row
    BY <1>1, <1>4, <1>5 DEF Jobs
<1>7. /\ pc'[w] = step /\ job'[w] = j
      /\ \A v \in Workers \ {w} : pc'[v] = pc[v] /\ job'[v] = job[v]
    BY <1>2, <1>3, <1>6, OthersStay DEF Steps
<1>8. /\ issuers' = issuers /\ base' = base /\ binding' = binding
      /\ crt' = crt /\ key' = key /\ _load_current' = _load_current
      /\ Resolved' = Resolved /\ Settled' = Settled
    BY <1>3 DEF database, files, _load_current, Resolved, Settled, active, active_issuers
<1>9. \A v \in Workers : pc[v] \notin Locked
    BY <1>3, NobodyInside
<1>10. Served'
    <2>1. \A v \in Workers : pc[v] # "load"
        BY <1>9 DEF Locked
    <2> QED
        BY <1>3, <1>8, <2>1 DEF IInv, ServedOK, Served, Adopt, Adopts
<1>11. live' \in Certs \cup {None} /\ mode' \in Modes \cup {None} /\ unloaded' \in BOOLEAN
    BY <1>3, CurrentType DEF IInv, TypeOK, Adopt, Adopts, ModeOf, Modes
<1>12. Holds(w)'
    <2>1. binding = None => c = None /\ e = job[w].end
        BY <1>1
    <2> QED
        BY <1>2, <1>3, <1>4, <1>5, <1>6, <1>7, <1>8, <2>1 DEF Holds
<1>13. Writes(w)'
    BY <1>2, <1>7 DEF Writes, Writing
<1>14. BindingOK'
    BY <1>2, <1>3, <1>7, <1>8, StillBound
<1>15. ServedOK'
    BY <1>10 DEF ServedOK
<1>16. Resolved # None => c = Resolved
    BY <1>1 DEF Resolved
<1>17. RunningOK'
    <2>1. CASE w = Loop
        <3>1. job[w].row = None
            BY <1>3, <1>4, <2>1 DEF Holds
        <3>2. c = Resolved
            BY <1>1, <3>1 DEF Resolved
        <3>3. c # None => e = issuers[c].end
            BY <1>1, <3>1
        <3>4. pc'[Loop] = "decide" => Settled'
            BY <1>2, <1>7, <1>8, <2>1 DEF Settled
        <3> QED
            BY <1>2, <1>3, <1>6, <1>7, <1>8, <2>1, <3>2, <3>3, <3>4 DEF RunningOK, Writing
    <2>2. CASE w # Loop
        <3>1. check # "running"
            BY <1>3, Types DEF IInv, RunningOK
        <3> QED
            BY <1>3, <2>2, <3>1 DEF RunningOK
    <2> QED
        BY <2>1, <2>2
<1>18. ASSUME check' = "done" PROVE Settled' /\ Follows(w)' /\ Good'
    <2>1. check = "done" /\ Good /\ Settled
        BY <1>3, <1>9, <1>18 DEF IInv, DoneOK, Writing, Locked
    <2>3. Good'
        BY <1>3, <1>10, <2>1, SameGood
    <2> QED
        BY <1>2, <1>6, <1>7, <1>8, <1>16, <2>1, <2>3 DEF Follows, Writing
<1>19. check' \in {"stale", "running", "done"} /\ overlap' \in BOOLEAN
       /\ faults' \in 0 .. MaxFaults /\ binding' \in Issuers \cup {None}
       /\ crt' \in Certs \cup {None} /\ key' \in {"fits", "other", None}
       /\ last_error' \in {"refused", "expired", None}
    BY <1>3, <1>8 DEF IInv, TypeOK
<1>20. step \in Steps /\ lock' = (IF step \in Locked THEN w ELSE None)
    BY <1>2, <1>3 DEF Steps, Locked
<1> QED
    BY <1>3, <1>6, <1>8, <1>9, <1>11, <1>12, <1>13, <1>14, <1>15, <1>17, <1>18, <1>19, <1>20,
       InsideKeepsIInv

(* A step under the lock that changes neither files nor context.           *)
LEMMA ResolveKeepsIInv ==
    ASSUME IInv, NEW w \in Workers, pc[w] \in {"sole", "bind"},
           NEW step \in {"bind", "decide"}, NEW j \in Jobs, Goto(w, step, j),
           UNCHANGED <<now, faults, base, issuers, files, process, lock, check>>,
           binding' \in Issuers \cup {None}, overlap' \in BOOLEAN,
           Holds(w)', BindingOK', RunningOK',
           check = "done" => Settled' /\ Follows(w)' /\ binding' = binding
    PROVE  IInv'
<1>1. lock = w /\ \A v \in Workers \ {w} : pc[v] \notin Locked
    BY Alone DEF Locked
<1>2. pc'[w] = step /\ job'[w] = j
    BY OthersStay DEF Steps
<1>3. Writes(w)'
    BY <1>2 DEF Writes, Writing
<1>4. Served'
    BY ServedInside DEF files, process, _load_current, Served
<1>5. ServedOK'
    BY <1>4 DEF ServedOK
<1>6. ASSUME check' = "done" PROVE Settled' /\ Follows(w)' /\ Good'
    <2>1. Good
        BY <1>1, <1>6 DEF IInv, DoneOK, Writing, Locked
    <2> QED
        BY <1>4, <1>6, <2>1, SameGood DEF database, process
<1>7. /\ faults' \in 0 .. MaxFaults /\ check' \in {"stale", "running", "done"}
      /\ crt' \in Certs \cup {None} /\ key' \in {"fits", "other", None}
      /\ live' \in Certs \cup {None} /\ mode' \in Modes \cup {None} /\ unloaded' \in BOOLEAN
      /\ last_error' \in {"refused", "expired", None}
    BY DEF IInv, TypeOK, files, process
<1>8. step \in Steps /\ lock' = (IF step \in Locked THEN w ELSE None)
    BY <1>1 DEF Steps, Locked
<1> QED
    BY <1>1, <1>3, <1>5, <1>6, <1>7, <1>8, InsideKeepsIInv

(* SoleIssuer: the one active issuer there is, or none.                    *)
LEMMA SoleIssuerKeepsIInv ==
    ASSUME IInv, NEW w \in Workers, SoleIssuer(w)
    PROVE  IInv'
<1>1. /\ pc[w] = "sole" /\ UNCHANGED <<now, faults, database, files, process, lock, history>>
    BY DEF SoleIssuer
<1>2. /\ issuers' = issuers /\ base' = base /\ binding' = binding
      /\ overlap' = overlap /\ check' = check
      /\ Resolved' = Resolved /\ Settled' = Settled /\ \A x : active(x)' = active(x)
    BY <1>1 DEF database, history, Resolved, Settled, active, active_issuers
<1>3. Holds(w) /\ lock = w /\ job[w] \in Jobs /\ job[w].choice = None
    BY <1>1, Alone, Types DEF IInv, Holds, Locked
<1>4. binding' \in Issuers \cup {None} /\ overlap' \in BOOLEAN
    BY <1>2 DEF IInv, TypeOK
<1>5. CASE Cardinality(active_issuers) = 1
    <2>1. PICK i \in active_issuers :
              Goto(w, "bind", [job[w] EXCEPT
                    !.choice = i, !.end = IF job[w].row = i THEN @ ELSE issuers[i].end])
        BY <1>5 DEF SoleIssuer
    <2>2. PICK e, j : /\ e = IF job[w].row = i THEN job[w].end ELSE issuers[i].end
                      /\ j = [job[w] EXCEPT !.choice = i, !.end = e]
        OBVIOUS
    <2>3. Goto(w, "bind", j)
        BY <2>1, <2>2
    <2>4. i \in Issuers /\ active(i) /\ issuers[i] # None /\ i # None
        BY Types DEF active_issuers, active
    <2>5. e \in Nat /\ e <= issuers[i].end
        <3>1. issuers[i].end \in Nat /\ job[w].end \in Nat
            BY <2>4, Types
        <3>2. job[w].row = i => job[w].end <= issuers[i].end
            BY <1>1, <1>3, <2>4 DEF Holds
        <3> QED
            BY <2>2, <3>1, <3>2
    <2>6. j \in Jobs /\ j.choice = i /\ j.end = e /\ j.name = job[w].name
        BY <1>3, <2>2, <2>4, <2>5 DEF Jobs
    <2>7. /\ pc'[w] = "bind" /\ job'[w] = j
          /\ \A v \in Workers \ {w} : pc'[v] = pc[v] /\ job'[v] = job[v]
        BY <2>3, <2>6, OthersStay DEF Steps
    <2>8. Holds(w)'
        BY <1>2, <2>4, <2>5, <2>6, <2>7 DEF Holds
    <2>9. BindingOK'
        BY <1>2, <2>4, <2>6, <2>7 DEF IInv, BindingOK, active
    <2>10. RunningOK'
        <3> SUFFICES ASSUME check = "running" PROVE RunningOK'
            BY <1>2 DEF RunningOK
        <3>1. w = Loop /\ job[w].name = base
            BY <1>1, <1>3 DEF IInv, RunningOK
        <3>2. e = issuers[i].end
            BY <1>1, <1>3, <2>2, <2>4, <3>1 DEF Holds
        <3>3. lock' = Loop
            BY <1>1, <1>3, <3>1
        <3> QED
            BY <1>2, <2>4, <2>6, <2>7, <3>1, <3>2, <3>3 DEF RunningOK, Writing, active
    <2>11. check # "done"
        BY <1>1, <1>5 DEF IInv, DoneOK, Follows, Settled
    <2> QED
        BY <1>1, <1>2, <1>4, <2>3, <2>6, <2>8, <2>9, <2>10, <2>11, ResolveKeepsIInv
<1>6. CASE Cardinality(active_issuers) # 1
    <2>1. Goto(w, "decide", job[w])
        BY <1>6 DEF SoleIssuer
    <2>2. /\ pc'[w] = "decide" /\ job'[w] = job[w]
          /\ \A v \in Workers \ {w} : pc'[v] = pc[v] /\ job'[v] = job[v]
        BY <1>3, <2>1, OthersStay DEF Steps
    <2>3. Holds(w)'
        BY <1>3, <2>2 DEF Holds
    <2>4. BindingOK'
        BY <1>2, <2>2, StillBound
    <2>5. Settled
        BY <1>6 DEF Settled
    <2>6. binding = None => Resolved = None
        BY DEF Resolved
    <2>7. RunningOK'
        <3> SUFFICES ASSUME check = "running" PROVE RunningOK'
            BY <1>2 DEF RunningOK
        <3>1. w = Loop /\ job[w].name = base /\ binding = None /\ lock' = Loop
            BY <1>1, <1>3 DEF IInv, RunningOK
        <3> QED
            BY <1>2, <1>3, <2>2, <2>5, <2>6, <3>1 DEF RunningOK, Writing
    <2>8. check = "done" => Follows(w)'
        BY <1>1, <1>2, <2>2, <2>6 DEF IInv, DoneOK, Follows, Writing
    <2> QED
        BY <1>1, <1>2, <1>3, <1>4, <2>1, <2>3, <2>4, <2>5, <2>7, <2>8, ResolveKeepsIInv
<1> QED
    BY <1>5, <1>6

(* BindSole: the binding is written down.                                  *)
LEMMA BindSoleKeepsIInv ==
    ASSUME IInv, NEW w \in Workers, BindSole(w)
    PROVE  IInv'
<1>1. /\ pc[w] = "bind" /\ binding' = job[w].choice /\ NoteOverlap({"retire"})
      /\ Goto(w, "decide", job[w])
      /\ UNCHANGED <<now, faults, base, issuers, files, process, lock, check>>
    BY DEF BindSole
<1>2. /\ Holds(w) /\ lock = w /\ job[w] \in Jobs /\ job[w].choice \in Issuers
      /\ job[w].choice # None
    BY <1>1, Alone, Types DEF IInv, Holds, Locked
<1>3. /\ pc'[w] = "decide" /\ job'[w] = job[w]
      /\ \A v \in Workers \ {w} : pc'[v] = pc[v] /\ job'[v] = job[v]
    BY <1>1, <1>2, OthersStay DEF Steps
<1>4. Holds(w)'
    BY <1>1, <1>2, <1>3 DEF Holds
<1>5. /\ overlap' \in BOOLEAN
      /\ ~overlap' => ~overlap /\ \A v \in Workers : pc[v] # "retire"
    BY <1>1, Noted
<1>6. BindingOK'
    <2> SUFFICES ASSUME ~overlap' PROVE BindingOK'
        BY DEF BindingOK
    <2>1. binding' # None => active(binding')
        BY <1>1, <1>5 DEF IInv, BindingOK
    <2>2. \A v \in Workers : pc'[v] # "retire"
        BY <1>3, <1>5
    <2>3. \A v \in Workers : pc'[v] \in {"save base", "save issuer", "bind"} =>
              pc'[v] = pc[v] /\ job'[v] = job[v]
        BY <1>3
    <2>4. \A v \in Workers : pc[v] \in {"save base", "save issuer", "bind"}
              /\ job[v].choice # None => active(job[v].choice)
        BY <1>5 DEF IInv, BindingOK
    <2> QED
        BY <1>1, <2>1, <2>2, <2>3, <2>4 DEF BindingOK, active
<1>7. RunningOK'
    <2> SUFFICES ASSUME check = "running" PROVE RunningOK'
        BY <1>1 DEF RunningOK
    <2>1. /\ w = Loop /\ job[w].name = base /\ active(job[w].choice)
          /\ job[w].end = issuers[job[w].choice].end /\ lock' = Loop
        BY <1>1, <1>2 DEF IInv, RunningOK
    <2>2. Resolved' = job[w].choice /\ Settled'
        BY <1>1, <1>2, <2>1 DEF Resolved, Settled, active
    <2> QED
        BY <1>1, <1>3, <2>1, <2>2 DEF RunningOK, Writing
<1>8. check # "done"
    BY <1>1 DEF IInv, DoneOK, Follows
<1> QED
    BY <1>1, <1>2, <1>4, <1>5, <1>6, <1>7, <1>8, ResolveKeepsIInv

(* A check ends: the lock is free, and the loop's check counts when        *)
(* nothing has disturbed it.                                               *)
LEMMA ReleaseKeepsIInv ==
    ASSUME IInv, NEW w \in Workers, pc[w] \in Locked, Release(w),
           UNCHANGED <<now, faults, database, files, overlap>>,
           live' \in Certs \cup {None}, mode' \in Modes \cup {None}, unloaded' \in BOOLEAN,
           last_error' \in {"refused", "expired", None}, Served',
           check \in {"running", "done"} => Settled /\ Good'
    PROVE  IInv'
<1>1. /\ lock' = None /\ Goto(w, "idle", NoJob)
      /\ check' = IF w = Loop /\ check = "running" THEN "done" ELSE check
    BY DEF Release, Finish
<1>2. lock = w /\ \A v \in Workers \ {w} : pc[v] \notin Locked
    BY Alone
<1>3. /\ pc'[w] = "idle" /\ \A v \in Workers \ {w} : pc'[v] = pc[v] /\ job'[v] = job[v]
    BY <1>1, NoJobType, OthersStay DEF Steps
<1>4. /\ issuers' = issuers /\ base' = base /\ binding' = binding
      /\ crt' = crt /\ key' = key /\ _load_current' = _load_current /\ Settled' = Settled
    BY DEF database, files, _load_current, Settled, active, active_issuers
<1>5. Holds(w)' /\ Writes(w)' /\ Follows(w)'
    BY <1>3 DEF Holds, Writes, Follows, Writing
<1>6. BindingOK'
    BY <1>3, <1>4, StillBound
<1>7. ServedOK'
    BY DEF ServedOK
<1>8. RunningOK'
    <2>1. check = "running" => w = Loop
        BY <1>2 DEF IInv, RunningOK
    <2> QED
        BY <1>1, <2>1 DEF RunningOK
<1>9. check' = "done" => Settled' /\ Good'
    BY <1>1, <1>4
<1>10. /\ check' \in {"stale", "running", "done"} /\ overlap' \in BOOLEAN
       /\ faults' \in 0 .. MaxFaults /\ binding' \in Issuers \cup {None}
       /\ crt' \in Certs \cup {None} /\ key' \in {"fits", "other", None}
    BY <1>1, <1>4 DEF IInv, TypeOK
<1>11. "idle" \in Steps /\ lock' = (IF "idle" \in Locked THEN w ELSE None)
    BY <1>1 DEF Steps, Locked
<1> QED
    BY <1>1, <1>2, <1>4, <1>5, <1>6, <1>7, <1>8, <1>9, <1>10, <1>11, NoJobType, InsideKeepsIInv

(* What a check decides on, as far as the loop's last check is concerned:  *)
(* the wanted names, the resolved issuer, and an end that is no later.     *)
LEMMA DecidesOn ==
    ASSUME IInv, NEW w \in Workers, pc[w] = "decide", check \in {"running", "done"}
    PROVE  /\ Settled /\ job[w].name = base
           /\ Resolved # None => /\ job[w].choice = Resolved
                                 /\ job[w].end <= issuers[Resolved].end
           /\ check = "running" =>
                  /\ w = Loop /\ job[w].choice = Resolved
                  /\ Resolved # None => job[w].end = issuers[Resolved].end
           /\ check = "done" => Good
<1>1. lock = w /\ \A v \in Workers \ {w} : pc[v] \notin Locked
    BY Alone DEF Locked
<1>2. Holds(w)
    BY DEF IInv
<1>3. CASE check = "running"
    BY <1>1, <1>2, <1>3 DEF IInv, RunningOK, Holds
<1>4. CASE check = "done"
    <2>1. Good
        BY <1>1, <1>4 DEF IInv, DoneOK, Writing, Locked
    <2> QED
        BY <1>2, <1>4, <2>1 DEF IInv, DoneOK, Follows, Holds
<1> QED
    BY <1>3, <1>4

(* Decide: to keep what there is is right whenever it is decided.          *)
LEMMA KeepIsGood ==
    ASSUME IInv, NEW w \in Workers, pc[w] = "decide", check \in {"running", "done"},
           UNCHANGED <<now, database, files, live, unloaded>>,
           NEW current, current = _load_current,
           NEW issuer, issuer = job[w].choice, NEW name, name = job[w].name,
           NEW end, end = job[w].end,
           \/ /\ \/ Target(issuer, current) = "ca_issued" /\ issuer = None
                 \/ StillGood(current, name, issuer, end)
              /\ UNCHANGED last_error
           \/ /\ ~StillGood(current, name, issuer, end)
              /\ Refusal(name, issuer, end) # None
              /\ last_error' = Refusal(name, issuer, end)
    PROVE  Good'
<1>1. /\ Settled /\ name = base
      /\ Resolved # None => issuer = Resolved /\ end <= issuers[Resolved].end
      /\ check = "running" => /\ issuer = Resolved
                              /\ Resolved # None => end = issuers[Resolved].end
      /\ check = "done" => Good
    BY DecidesOn
<1>2. Served'
    BY ServedInside DEF Served, _load_current, files
<1>3. end \in Nat /\ issuer \in Issuers \cup {None} /\ None \notin Issuers
    BY Types
<1>4. current \in Certs \cup {None}
    BY CurrentType
<1>5. /\ _load_current' = current /\ Resolved' = Resolved /\ base' = base
      /\ now' = now /\ issuers' = issuers
    BY DEF database, files, _load_current, Resolved, active
<1>6. CASE Resolved # None
    <2>1. PICK real : real = issuers[Resolved].end
        OBVIOUS
    <2>2. real \in Nat /\ end <= real /\ issuer = Resolved /\ issuer \in Issuers /\ issuer # None
        BY <1>1, <1>6, <2>1, ResolvedType
    <2>3. ASSUME check = "done"
          PROVE  \/ current # None /\ StillGood(current, name, issuer, real)
                 \/ Refusal(name, issuer, real) # None /\ last_error # None
        BY <1>1, <1>6, <2>1, <2>2, <2>3 DEF Good
    <2>4. \/ current # None /\ StillGood(current, name, issuer, real)
          \/ Refusal(name, issuer, real) # None /\ last_error' # None
        <3>1. CASE check = "running"
            <4>1. end = real
                BY <1>1, <1>6, <2>1, <3>1
            <4> QED
                BY <2>2, <4>1 DEF StillGood
        <3>2. CASE check = "done"
            BY <2>3, <3>2
        <3> QED
            BY <3>1, <3>2
    <2>5. /\ StillGood(current, base, issuer, real)' = StillGood(current, base, issuer, real)
          /\ Refusal(base, issuer, real)' = Refusal(base, issuer, real)
        BY <1>5 DEF StillGood, Until, Refusal
    <2> QED
        BY <1>1, <1>2, <1>5, <1>6, <2>1, <2>2, <2>4, <2>5 DEF Good, StillGood, Until, Refusal
<1>7. CASE Resolved = None
    <2>1. /\ current # None
          /\ \/ current.issuer # None
             \/ current.name = base /\ now < current.end - RENEW_BEFORE
        <3>1. CASE check = "done"
            BY <1>1, <1>7, <3>1 DEF Good
        <3>2. CASE check = "running"
            <4>1. issuer = None
                BY <1>1, <1>7, <3>2
            <4>2. Refusal(name, issuer, end) = None
                BY <4>1 DEF Refusal
            <4> QED
                BY <1>1, <1>2, <4>1, <4>2 DEF Target, StillGood
        <3> QED
            BY <3>1, <3>2
    <2> QED
        BY <1>2, <1>5, <1>7, <2>1 DEF Good
<1> QED
    BY <1>6, <1>7

(* The certificate that is about to be written.                            *)
LEMMA CertType ==
    ASSUME IInv, NEW name \in Names \cup {Fallback}, NEW issuer \in Issuers \cup {None},
           NEW end \in Nat, NEW cert,
           cert = [name |-> name, issuer |-> issuer, end |-> Until(issuer, end)]
    PROVE  /\ cert \in Certs /\ cert # None /\ cert.name = name /\ cert.issuer = issuer
           /\ cert.end = Until(issuer, end)
<1>1. PICK until \in Nat : until = Until(issuer, end)
    BY UntilIsMonotone
<1>2. cert \in Certs /\ cert.name = name /\ cert.issuer = issuer /\ cert.end = until
    BY <1>1 DEF Certs
<1> QED
    BY <1>1, <1>2, NullAssumption

(* After an undisturbed check a request never replaces a certificate that  *)
(* the bound issuer can stand by.                                          *)
LEMMA ReplacesNothingGood ==
    ASSUME IInv, NEW w \in Workers, pc[w] = "decide", check = "done",
           ~StillGood(_load_current, job[w].name, job[w].choice, job[w].end),
           Refusal(job[w].name, job[w].choice, job[w].end) = None
    PROVE  Resolved = None
<1> SUFFICES ASSUME Resolved # None PROVE FALSE
    OBVIOUS
<1>1. PICK issuer, name, end, real :
          /\ issuer = job[w].choice /\ name = job[w].name /\ end = job[w].end
          /\ real = issuers[Resolved].end
    OBVIOUS
<1>2. /\ name = base /\ issuer = Resolved /\ end <= real /\ Good
      /\ end \in Nat /\ real \in Nat /\ issuer \in Issuers
    BY <1>1, DecidesOn, ResolvedType, Types
<1>3. PICK current \in Certs \cup {None} : current = _load_current
    BY CurrentType
<1>4. \/ current # None /\ StillGood(current, name, issuer, real)
      \/ Refusal(name, issuer, real) # None
    BY <1>1, <1>2, <1>3 DEF Good
<1>5. CASE current # None /\ StillGood(current, name, issuer, real)
    <2>1. StillGood(current, name, issuer, end)
        BY <1>2, <1>3, <1>5, OlderIsNoBetter
    <2> QED
        BY <1>1, <1>3, <2>1
<1>6. CASE Refusal(name, issuer, real) # None
    <2>1. Refusal(name, issuer, end) # None
        <3>1. [name |-> Fallback, issuer |-> None, end |-> 0] \in Certs
            BY DEF Certs
        <3> QED
            BY <1>2, <1>6, <3>1, OlderIsNoBetter
    <2> QED
        BY <1>1, <1>6, <2>1
<1> QED
    BY <1>4, <1>5, <1>6

(* Decide: keep what there is, record why not, or issue.                   *)
LEMMA DecideKeepsIInv ==
    ASSUME IInv, NEW w \in Workers, Decide(w)
    PROVE  IInv'
<1>1. PICK current, issuer, name, end, refusal :
          /\ current = _load_current /\ issuer = job[w].choice /\ name = job[w].name
          /\ end = job[w].end /\ refusal = Refusal(name, issuer, end)
    OBVIOUS
<1>2. pc[w] = "decide" /\ UNCHANGED <<now, faults, database, overlap>>
    BY DEF Decide
<1>3. /\ issuer \in Issuers \cup {None} /\ name \in Names \cup {Fallback} /\ end \in Nat
      /\ current \in Certs \cup {None} /\ refusal \in {"refused", "expired", None}
    BY <1>1, Types, CurrentType DEF Refusal
<1>4. lock = w /\ \A v \in Workers \ {w} : pc[v] \notin Locked
    BY <1>2, Alone DEF Locked
<1>5. Served
    BY <1>2, ServedInside
<1>6. ASSUME Keep(w, current),
             \/ /\ \/ Target(issuer, current) = "ca_issued" /\ issuer = None
                   \/ StillGood(current, name, issuer, end)
                /\ UNCHANGED last_error
             \/ /\ ~StillGood(current, name, issuer, end)
                /\ Refusal(name, issuer, end) # None
                /\ last_error' = Refusal(name, issuer, end)
      PROVE  IInv'
    <2>1. /\ mode' = IF current = None THEN None ELSE ModeOf(current)
          /\ Release(w) /\ UNCHANGED <<files, live, unloaded>>
        BY <1>6 DEF Keep
    <2>2. mode' \in Modes \cup {None} /\ live' \in Certs \cup {None} /\ unloaded' \in BOOLEAN
        BY <2>1 DEF IInv, TypeOK, ModeOf, Modes
    <2>3. last_error' \in {"refused", "expired", None}
        BY <1>1, <1>3, <1>6 DEF IInv, TypeOK
    <2>4. check \in {"running", "done"} => Settled /\ Good'
        BY <1>1, <1>2, <1>6, <2>1, DecidesOn, KeepIsGood
    <2>5. Served'
        BY <1>5, <2>1 DEF Served, _load_current, files
    <2> QED
        BY <1>1, <1>2, <2>1, <2>2, <2>3, <2>4, <2>5, ReleaseKeepsIInv DEF Locked
<1>7. ASSUME NEW cert, cert = [name |-> name, issuer |-> issuer, end |-> Until(issuer, end)],
             Target(issuer, current) = "ca_issued" => issuer # None,
             ~StillGood(current, name, issuer, end), refusal = None,
             Goto(w, "crt", [NoJob EXCEPT !.cert = cert]),
             UNCHANGED <<files, process, lock, check>>
      PROVE  IInv'
    <2>1. /\ cert \in Certs /\ cert # None /\ cert.name = name /\ cert.issuer = issuer
          /\ cert.end = Until(issuer, end)
        BY <1>3, <1>7, CertType
    <2>2. PICK j : j = [NoJob EXCEPT !.cert = cert]
        OBVIOUS
    <2>3. j \in Jobs /\ j.cert = cert
        <3>1. j = [row |-> None, end |-> 0, name |-> Fallback, choice |-> None,
                   changed |-> FALSE, cert |-> cert]
            BY <2>2 DEF NoJob
        <3> QED
            BY <2>1, <3>1 DEF Jobs
    <2>4. /\ pc'[w] = "crt" /\ job'[w] = j /\ Goto(w, "crt", j)
          /\ \A v \in Workers \ {w} : pc'[v] = pc[v] /\ job'[v] = job[v]
        BY <1>7, <2>2, <2>3, OthersStay DEF Steps
    <2>5. /\ issuers' = issuers /\ base' = base /\ binding' = binding /\ now' = now
          /\ crt' = crt /\ key' = key /\ _load_current' = _load_current /\ live' = live
          /\ Resolved' = Resolved /\ Settled' = Settled /\ lock' = w /\ check' = check
        BY <1>2, <1>4, <1>7
           DEF database, files, process, _load_current, Resolved, Settled, active, active_issuers
    <2>6. Holds(w)'
        BY <2>4 DEF Holds
    <2>7. Writes(w)'
        <3>1. issuer # None \/ current = None \/ current.issuer = None
            BY <1>7 DEF Target
        <3> QED
            BY <1>1, <2>1, <2>3, <2>4, <2>5, <3>1 DEF Writes
    <2>8. BindingOK'
        BY <1>2, <2>4, <2>5, StillBound
    <2>9. ServedOK'
        BY <1>5, <1>7, <2>5 DEF ServedOK, Served, process
    <2>10. issuer = None => cert.end = now + CERT_DAYS
        BY <1>3, <2>1, UntilIsMonotone
    <2>11. RunningOK'
        <3> SUFFICES ASSUME check = "running" PROVE RunningOK'
            BY <2>5 DEF RunningOK
        <3>1. /\ Settled /\ name = base /\ w = Loop /\ issuer = Resolved
              /\ Resolved # None => end = issuers[Resolved].end
            BY <1>1, <1>2, DecidesOn
        <3>2. \A i, e : Until(i, e)' = Until(i, e)
            BY <2>5 DEF Until
        <3> QED
            BY <2>1, <2>3, <2>4, <2>5, <2>10, <3>1, <3>2 DEF RunningOK
    <2>12. check = "done" => Settled' /\ Follows(w)'
        <3> SUFFICES ASSUME check = "done" PROVE Settled' /\ Follows(w)'
            OBVIOUS
        <3>1. Settled /\ name = base
            BY <1>1, <1>2, DecidesOn
        <3>2. Resolved = None
            BY <1>1, <1>2, <1>7, ReplacesNothingGood
        <3> QED
            BY <2>1, <2>3, <2>4, <2>5, <2>10, <3>1, <3>2 DEF Follows
    <2>13. /\ check' \in {"stale", "running", "done"} /\ overlap' \in BOOLEAN
           /\ faults' \in 0 .. MaxFaults /\ binding' \in Issuers \cup {None}
           /\ crt' \in Certs \cup {None} /\ key' \in {"fits", "other", None}
           /\ live' \in Certs \cup {None} /\ mode' \in Modes \cup {None} /\ unloaded' \in BOOLEAN
           /\ last_error' \in {"refused", "expired", None}
        BY <1>2, <1>7, <2>5 DEF IInv, TypeOK, process
    <2>14. "crt" \in Steps /\ "crt" \in Writing /\ lock' = (IF "crt" \in Locked THEN w ELSE None)
        BY <2>5 DEF Steps, Locked, Writing
    <2> QED
        BY <1>4, <2>3, <2>4, <2>5, <2>6, <2>7, <2>8, <2>9, <2>11, <2>12, <2>13, <2>14,
           InsideKeepsIInv
<1> QED
    BY <1>1, <1>6, <1>7 DEF Decide

(* One step of _write_and_load before the context is loaded.               *)
LEMMA WriteKeepsIInv ==
    ASSUME IInv, NEW w \in Workers, pc[w] \in {"crt", "key"}, NEW step \in {"key", "load"},
           Goto(w, step, job[w]), UNCHANGED <<now, faults, database, process, lock, history>>,
           crt' \in Certs \cup {None}, key' \in {"fits", "other", None}, Writes(w)', ServedOK'
    PROVE  IInv'
<1>1. lock = w /\ \A v \in Workers \ {w} : pc[v] \notin Locked
    BY Alone DEF Locked
<1>2. job[w] \in Jobs
    BY Types
<1>3. /\ pc'[w] = step /\ job'[w] = job[w]
      /\ \A v \in Workers \ {w} : pc'[v] = pc[v] /\ job'[v] = job[v]
    BY <1>2, OthersStay DEF Steps
<1>4. /\ issuers' = issuers /\ base' = base /\ binding' = binding /\ now' = now
      /\ Resolved' = Resolved /\ Settled' = Settled /\ lock' = w /\ check' = check
      /\ overlap' = overlap
    BY <1>1 DEF database, history, Resolved, Settled, active, active_issuers
<1>5. Holds(w)'
    BY <1>3 DEF Holds
<1>6. BindingOK'
    BY <1>3, <1>4, StillBound
<1>7. RunningOK'
    <2> SUFFICES ASSUME check = "running" PROVE RunningOK'
        BY <1>4 DEF RunningOK
    <2>1. \A i, e : Until(i, e)' = Until(i, e)
        BY <1>4 DEF Until
    <2>2. w = Loop
        BY <1>1 DEF IInv, RunningOK
    <2> QED
        BY <1>3, <1>4, <2>1, <2>2 DEF IInv, RunningOK, Writing
<1>8. check' = "done" => Settled' /\ Follows(w)'
    BY <1>3, <1>4 DEF IInv, DoneOK, Follows, Writing
<1>9. /\ check' \in {"stale", "running", "done"} /\ overlap' \in BOOLEAN
      /\ faults' \in 0 .. MaxFaults /\ binding' \in Issuers \cup {None}
      /\ live' \in Certs \cup {None} /\ mode' \in Modes \cup {None} /\ unloaded' \in BOOLEAN
      /\ last_error' \in {"refused", "expired", None}
    BY <1>4 DEF IInv, TypeOK, process
<1>10. step \in Steps /\ step \in Writing /\ lock' = (IF step \in Locked THEN w ELSE None)
    BY <1>4 DEF Steps, Locked, Writing
<1> QED
    BY <1>1, <1>2, <1>4, <1>5, <1>6, <1>7, <1>8, <1>9, <1>10, InsideKeepsIInv

(* WriteCrt: the key on disk no longer fits.                               *)
LEMMA WriteCrtKeepsIInv ==
    ASSUME IInv, NEW w \in Workers, WriteCrt(w)
    PROVE  IInv'
<1>1. /\ pc[w] = "crt" /\ crt' = job[w].cert /\ key' = IF key = None THEN None ELSE "other"
      /\ Goto(w, "key", job[w])
      /\ UNCHANGED <<now, faults, database, process, lock, history>>
    BY DEF WriteCrt
<1>2. job[w] \in Jobs /\ job[w].cert \in Certs \cup {None} /\ job[w].cert # None
    BY <1>1, Types DEF IInv, Writes, Writing
<1>3. pc'[w] = "key" /\ job'[w] = job[w]
    BY <1>1, <1>2, OthersStay DEF Steps
<1>4. key' # "fits" /\ key' \in {"fits", "other", None}
    BY <1>1, NullAssumption
<1>5. Writes(w)' /\ ServedOK'
    BY <1>1, <1>2, <1>3, <1>4 DEF Writes, ServedOK, Served, _load_current
<1> QED
    BY <1>1, <1>2, <1>4, <1>5, WriteKeepsIInv

(* WriteKey: the pair fits again, and is about to be loaded.               *)
LEMMA WriteKeyKeepsIInv ==
    ASSUME IInv, NEW w \in Workers, WriteKey(w)
    PROVE  IInv'
<1>1. /\ pc[w] = "key" /\ key' = "fits" /\ crt' = crt /\ Goto(w, "load", job[w])
      /\ UNCHANGED <<now, faults, database, process, lock, history>>
    BY DEF WriteKey
<1>2. job[w] \in Jobs /\ Writes(w)
    BY Types DEF IInv
<1>3. pc'[w] = "load" /\ job'[w] = job[w]
    BY <1>1, <1>2, OthersStay DEF Steps
<1>4. crt' \in Certs \cup {None} /\ key' \in {"fits", "other", None}
    BY <1>1 DEF IInv, TypeOK
<1>5. Writes(w)' /\ ServedOK'
    BY <1>1, <1>2, <1>3 DEF Writes, ServedOK, Writing
<1> QED
    BY <1>1, <1>4, <1>5, WriteKeepsIInv

(* Load: what is served is what is on disk; and it is what the last check  *)
(* of the loop would have asked for.                                       *)
LEMMA LoadKeepsIInv ==
    ASSUME IInv, NEW w \in Workers, Load(w)
    PROVE  IInv'
<1>1. PICK cert : cert = job[w].cert
    OBVIOUS
<1>2. /\ pc[w] = "load" /\ live' = crt /\ mode' = ModeOf(cert) /\ last_error' = None /\ Release(w)
      /\ unloaded' = FALSE /\ UNCHANGED <<now, faults, database, files, overlap>>
    BY <1>1 DEF Load
<1>3. /\ crt = cert /\ key = "fits" /\ cert # None /\ cert \in Certs
    BY <1>1, <1>2, Types DEF IInv, Writes, Writing
<1>4. _load_current = cert /\ live' = cert /\ cert.end \in Nat
    BY <1>2, <1>3 DEF _load_current, Certs
<1>5. /\ _load_current' = cert /\ Resolved' = Resolved /\ base' = base /\ now' = now
      /\ issuers' = issuers
    BY <1>2, <1>4 DEF database, files, _load_current, Resolved, active
<1>6. mode' \in Modes \cup {None} /\ unloaded' \in BOOLEAN /\ Served'
    BY <1>2, <1>4, <1>5 DEF ModeOf, Modes, Served
<1>7. lock = w
    BY <1>2, Alone DEF Locked
<1>8. ASSUME check \in {"running", "done"} PROVE Settled /\ Good'
    <2>1. CASE Resolved = None
        <3>1. Settled /\ cert.name = base /\ (cert.issuer # None \/ cert.end = now + CERT_DAYS)
            BY <1>1, <1>2, <1>7, <1>8, <2>1 DEF IInv, RunningOK, DoneOK, Follows, Writing
        <3>2. cert.end = now + CERT_DAYS => now < cert.end - RENEW_BEFORE
            BY Types
        <3> QED
            BY <1>3, <1>5, <1>6, <2>1, <3>1, <3>2 DEF Good
    <2>2. CASE Resolved # None
        <3>1. check = "running"
            BY <1>2, <1>8, <2>2 DEF IInv, DoneOK, Follows, Writing
        <3>2. /\ Settled /\ cert.name = base /\ cert.issuer = Resolved
              /\ cert.end = Until(Resolved, issuers[Resolved].end)
            BY <1>1, <1>2, <1>7, <2>2, <3>1 DEF IInv, RunningOK, Writing
        <3>3. PICK issuer, real : issuer = Resolved /\ real = issuers[Resolved].end
            OBVIOUS
        <3>4. Until(issuer, real) - cert.end < MIN_RENEWAL_GAIN
            BY <1>4, <3>2, <3>3, Types
        <3>5. StillGood(cert, base, issuer, real)
            BY <1>3, <2>2, <3>2, <3>3, <3>4 DEF StillGood
        <3>6. StillGood(cert, base, issuer, real)'
            BY <1>5, <3>5 DEF StillGood, Until
        <3> QED
            BY <1>3, <1>5, <1>6, <2>2, <3>2, <3>3, <3>6 DEF Good
    <2> QED
        BY <2>1, <2>2
<1> QED
    BY <1>2, <1>3, <1>4, <1>6, <1>8, ReleaseKeepsIInv DEF Locked

(* Raise: the check is void, and what is on disk is either intact and      *)
(* served, or not loaded, or does not fit.                                 *)
LEMMA RaiseKeepsIInv ==
    ASSUME IInv, NEW w \in Workers, Raise(w)
    PROVE  IInv'
<1>1. /\ pc[w] \in {"ensure", "sole", "bind", "decide", "crt", "key", "load"}
      /\ lock \in {None, w} /\ faults < MaxFaults /\ faults' = faults + 1
      /\ lock' = None /\ Goto(w, "idle", NoJob) /\ check' = "stale"
      /\ UNCHANGED <<now, database, files, mode, last_error, overlap>>
    BY DEF Raise, Finish, Changed
<1>2. /\ live' = live \/ live' = None
      /\ ~Loads(w) => live' = live
      /\ unloaded' \in BOOLEAN /\ (unloaded \/ Loads(w) => unloaded')
    <2>1. unloaded' = (unloaded \/ Loads(w)) /\ live' \in IF Loads(w) THEN {live, None} ELSE {live}
        BY DEF Raise
    <2>2. unloaded' \in BOOLEAN /\ (unloaded \/ Loads(w) => unloaded')
        BY <2>1, Zenon
    <2>3. live' = live \/ live' = None
        BY <2>1
    <2>4. ~Loads(w) => live' = live
        BY <2>1
    <2> QED
        BY <2>2, <2>3, <2>4
<1>3. pc[w] = "ensure" => lock = None
    BY <1>1 DEF IInv, TypeOK
<1>4. \A v \in Workers \ {w} : pc[v] \notin Locked
    BY <1>1, <1>3, Alone, NobodyInside DEF Locked
<1>5. /\ pc'[w] = "idle" /\ \A v \in Workers \ {w} : pc'[v] = pc[v] /\ job'[v] = job[v]
    BY <1>1, NoJobType, OthersStay DEF Steps
<1>6. /\ issuers' = issuers /\ base' = base /\ binding' = binding
      /\ crt' = crt /\ key' = key /\ _load_current' = _load_current
    BY <1>1 DEF database, files, _load_current
<1>7. Holds(w)' /\ Writes(w)'
    BY <1>5 DEF Holds, Writes, Writing
<1>8. BindingOK'
    BY <1>1, <1>5, <1>6, StillBound
<1>9. ServedOK'
    <2>1. CASE Loads(w)
        BY <1>2, <2>1 DEF ServedOK, Served
    <2>2. CASE ~Loads(w) /\ Served
        BY <1>2, <1>6, <2>2 DEF ServedOK, Served
    <2>3. CASE pc[w] \in {"sole", "bind", "decide", "crt"}
        BY <2>1, <2>2, <2>3, ServedInside
    <2>4. CASE pc[w] = "key"
        BY <1>6, <2>4 DEF IInv, Writes, ServedOK, Served, _load_current
    <2>5. CASE pc[w] = "load"
        BY <2>1, <2>5 DEF Loads
    <2>6. CASE pc[w] = "ensure"
        <3>1. \A v \in Workers : pc[v] # "load"
            BY <1>4, <2>6 DEF Locked
        <3>2. Served \/ mode = None
            BY <3>1 DEF IInv, ServedOK
        <3> QED
            BY <1>1, <2>1, <2>2, <3>2 DEF ServedOK
    <2> QED
        BY <1>1, <2>3, <2>4, <2>5, <2>6
<1>10. RunningOK'
    BY <1>1 DEF RunningOK
<1>11. /\ overlap' \in BOOLEAN /\ binding' \in Issuers \cup {None}
       /\ crt' \in Certs \cup {None} /\ key' \in {"fits", "other", None}
       /\ live' \in Certs \cup {None} /\ mode' \in Modes \cup {None}
       /\ last_error' \in {"refused", "expired", None} /\ check' \in {"stale", "running", "done"}
    BY <1>1, <1>2, <1>6 DEF IInv, TypeOK
<1>12. faults' \in 0 .. MaxFaults
    BY <1>1, TlsAssumption DEF IInv, TypeOK
<1>13. "idle" \in Steps /\ lock' = (IF "idle" \in Locked THEN w ELSE None)
    BY <1>1 DEF Steps, Locked
<1> QED
    BY <1>1, <1>2, <1>4, <1>6, <1>7, <1>8, <1>9, <1>10, <1>11, <1>12, <1>13, NoJobType,
       InsideKeepsIInv

-----------------------------------------------------------------------------
(* The invariant                                                           *)

(* A new installation: no file, no issuer, nobody at work.                 *)
LEMMA InitIInv == Init => IInv
<1> SUFFICES ASSUME Init PROVE IInv
    OBVIOUS
<1>1. \A w \in Workers : pc[w] = "idle"
    BY DEF Init
<1>2. TypeOK
    <2>1. pc \in [Workers -> Steps] /\ job \in [Workers -> Jobs]
        BY NoJobType DEF Init, Steps
    <2>2. now \in 0 .. MaxTime /\ faults \in 0 .. MaxFaults
        BY TlsAssumption DEF Init
    <2>3. \A w \in Workers :
              pc[w] \in {"sole", "bind", "decide", "crt", "key", "load"} <=> lock = w
        BY <1>1, TlsAssumption DEF Init, Workers
    <2>4. issuers \in [Issuers -> Rows \cup {None}] /\ overlap \in BOOLEAN /\ unloaded \in BOOLEAN
        BY DEF Init
    <2> QED
        BY <2>1, <2>2, <2>3, <2>4 DEF Init, TypeOK
<1>3. \A w \in Workers : Holds(w) /\ Writes(w)
    BY <1>1 DEF Holds, Writes, Writing
<1>4. EndsOK /\ BindingOK /\ ServedOK /\ RunningOK /\ DoneOK
    BY <1>1 DEF Init, EndsOK, BindingOK, ServedOK, Served, RunningOK, DoneOK, _load_current
<1> QED
    BY <1>2, <1>3, <1>4 DEF IInv

(* Nothing happened.                                                       *)
LEMMA StutterKeepsIInv ==
    ASSUME IInv, UNCHANGED vars
    PROVE  IInv'
<1>1. /\ UNCHANGED <<now, faults, base, binding, issuers, lock, pc, job, check, overlap>>
      /\ UNCHANGED <<crt, key, live, mode, last_error, unloaded>>
    BY DEF vars
<1>2. Later /\ EndsOK'
    BY <1>1, SameRows
<1>3. \A v \in Workers : Holds(v)'
    BY <1>1, <1>2, StillHolds
<1>4. BindingOK'
    BY <1>1, StillBound
<1>5. UNCHANGED <<faults, files, process, lock>> /\ UNCHANGED <<now, database, check>>
    BY <1>1 DEF files, process, database
<1>6. /\ now' \in 0 .. MaxTime /\ base' \in Names \cup {Fallback}
      /\ binding' \in Issuers \cup {None} /\ issuers' \in [Issuers -> Rows \cup {None}]
      /\ overlap' \in BOOLEAN /\ pc' \in [Workers -> Steps] /\ job' \in [Workers -> Jobs]
    BY <1>1 DEF IInv, TypeOK
<1> QED
    BY <1>1, <1>2, <1>3, <1>4, <1>5, <1>6, OutsideKeepsIInv

(* Every step keeps it.                                                    *)
LEMMA NextIInv == IInv /\ [Next]_vars => IInv'
<1> SUFFICES ASSUME IInv, [Next]_vars PROVE IInv'
    OBVIOUS
<1>1. ASSUME NEW w \in Workers, Ensure(w) PROVE IInv'
    BY <1>1, EnsureCurrentKeepsIInv, SoleIssuerKeepsIInv, BindSoleKeepsIInv, DecideKeepsIInv,
       WriteCrtKeepsIInv, WriteKeyKeepsIInv, LoadKeepsIInv, RaiseKeepsIInv DEF Ensure
<1>2. ASSUME NEW w \in Requests, Request(w) PROVE IInv'
    <2>1. w \in Workers /\ w # Loop
        BY TlsAssumption DEF Workers
    <2> QED
        BY <1>2, <2>1, SettingsSubmitKeepsIInv, SaveBaseKeepsIInv, SaveIssuerKeepsIInv,
           RetireKeepsIInv, CreateKeepsIInv, CaRetireKeepsIInv DEF Request
<1>3. ASSUME NEW i \in Issuers, renew_in_place(i) PROVE IInv'
    BY <1>3, RenewKeepsIInv
<1>4. CASE renewal_loop
    BY <1>4, RenewalLoopKeepsIInv
<1>5. CASE Advance
    BY <1>5, AdvanceKeepsIInv
<1>6. CASE Crash
    BY <1>6, CrashKeepsIInv
<1>7. CASE UNCHANGED vars
    BY <1>7, StutterKeepsIInv
<1> QED
    BY <1>1, <1>2, <1>3, <1>4, <1>5, <1>6, <1>7 DEF Next

(* In every state that the manager can get into.                           *)
LEMMA SpecIInv == Spec => []IInv
BY InitIInv, NextIInv, PTL DEF Spec

-----------------------------------------------------------------------------
(* What the manager promises                                               *)

(* The types; and the two files are never written by two checks at once,   *)
(* because whoever is inside ensure_current holds the lock.                *)
THEOREM TypeCorrect == Spec => []TypeOK
<1>1. IInv => TypeOK
    BY DEF IInv
<1> QED
    BY <1>1, SpecIInv, PTL

(* UpToDate: after an undisturbed check of the renewal loop, the right     *)
(* certificate is on disk, and served unless the context did not take it,  *)
(* or a refusal is on record; whatever crashes, exceptions and changes     *)
(* came before it, and whatever requests with older rows in hand check     *)
(* after it.                                                               *)
THEOREM CheckBringsUpToDate == Spec => []UpToDate
BY SpecIInv, GoodIsUpToDate, PTL

(* BoundIssuerActive: the route's refusal keeps the bound issuer active,   *)
(* unless a retirement and a new binding crossed.                          *)
THEOREM BoundIssuerStaysActive == Spec => []BoundIssuerActive
<1>1. IInv => BoundIssuerActive
    BY DEF IInv, BindingOK, BoundIssuerActive
<1> QED
    BY <1>1, SpecIInv, PTL

(* NotDowngraded (FR-17): the one who replaces an intact CA-issued         *)
(* certificate has an issuer in hand, and nobody touches the files between *)
(* the decision and the write.                                             *)
THEOREM NeverDowngraded == Spec => NotDowngraded
<1>1. ASSUME IInv, [Next]_vars, _load_current # None, _load_current.issuer # None
      PROVE  crt'.issuer # None
    <2>1. crt = _load_current
        BY <1>1, CurrentType
    <2>2. CASE crt' = crt
        BY <1>1, <2>1, <2>2
    <2>3. ASSUME NEW w \in Workers, WriteCrt(w) PROVE crt'.issuer # None
        BY <1>1, <2>3 DEF WriteCrt, IInv, Writes
    <2>4. ASSUME NEW w \in Workers, Ensure(w), ~WriteCrt(w) PROVE crt' = crt
        BY <2>4 DEF Ensure, ensure_current, SoleIssuer, BindSole, Decide, Keep, WriteKey, Load,
           Raise, files
    <2>5. ASSUME NEW w \in Requests, Request(w) PROVE crt' = crt
        BY <2>5 DEF Request, settings_submit, SaveBase, SaveIssuer, retire, create_intermediate,
           ca_retire, files
    <2>6. ASSUME NEW i \in Issuers, renew_in_place(i) PROVE crt' = crt
        BY <2>6 DEF renew_in_place, files
    <2>7. CASE renewal_loop \/ Advance \/ Crash \/ UNCHANGED vars
        BY <2>2, <2>7 DEF renewal_loop, Advance, Crash, vars, files
    <2> QED
        BY <1>1, <2>2, <2>3, <2>4, <2>5, <2>6, <2>7 DEF Next
<1>2. IInv /\ [Next]_vars =>
          [_load_current # None /\ _load_current.issuer # None => crt'.issuer # None]_vars
    BY <1>1
<1> QED
    BY <1>2, SpecIInv, PTL DEF Spec, NotDowngraded

=============================================================================
