--------------------------- MODULE AcmeNonceProofs ---------------------------
(***************************************************************************)
(* Proofs about AcmeNonce, for any nonces, workers, lifetime and clock.    *)
(*                                                                         *)
(* AcceptedOnce and HandedOutStaysUsable are not inductive by themselves:  *)
(* they need that a request which is about to spend a nonce has been       *)
(* verified, and that a row of the table is that of an unspent nonce and   *)
(* holds the time at which it was handed out.                              *)
(***************************************************************************)
EXTENDS AcmeNonce, TLAPS

(* A request comes to the DELETE only once everything else has held.       *)
VerifiedFirst ==
    \A w \in Workers :
        pc[w] \in {"clock", "consume"} => job[w].valid /\ job[w].nonce \in Nonces

(* A row is that of a nonce which was handed out and has let nothing       *)
(* through.                                                                *)
RowsUnspent ==
    \A n \in Nonces :
        /\ acme_nonces[n] # None => acme_nonces[n] = minted[n] /\ accepted[n] = 0
        /\ minted[n] = None => accepted[n] = 0

IInv ==
    TypeOK /\ VerifiedFirst /\ RowsUnspent /\ AcceptedOnce /\ HandedOutStaysUsable

-----------------------------------------------------------------------------

(* The invariant holds at the start.                                       *)
LEMMA InitIInv == Init => IInv
BY NonceAssumption
   DEF Init, IInv, TypeOK, VerifiedFirst, RowsUnspent, AcceptedOnce, HandedOutStaysUsable,
       Times, Steps, Jobs, NoJob

(* A step of one request that touches neither the table nor the histories, *)
(* and brings to the DELETE only what was verified, keeps the invariant.   *)
LEMMA ControlKeepsIInv ==
    ASSUME IInv, NEW w \in Workers, NEW step \in Steps, NEW j \in Jobs,
           pc' = [pc EXCEPT ![w] = step], job' = [job EXCEPT ![w] = j],
           step \in {"clock", "consume"} => j.valid /\ j.nonce \in Nonces,
           j.moment <= now,
           UNCHANGED <<now, acme_enabled, acme_nonces, minted, accepted>>
    PROVE  IInv'
<1>1. TypeOK'
    BY DEF IInv, TypeOK
<1>2. VerifiedFirst'
    BY DEF IInv, TypeOK, VerifiedFirst
<1>3. RowsUnspent' /\ AcceptedOnce' /\ HandedOutStaysUsable'
    BY DEF IInv, RowsUnspent, AcceptedOnce, HandedOutStaysUsable
<1> QED
    BY <1>1, <1>2, <1>3 DEF IInv

(* What Goto, ReadClock and Finish do to a request is such a step.         *)
LEMMA GotoKeepsIInv ==
    ASSUME IInv, NEW w \in Workers, NEW step \in Steps, Goto(w, step),
           step \in {"clock", "consume"} => job[w].valid /\ job[w].nonce \in Nonces,
           UNCHANGED <<now, acme_enabled, acme_nonces, minted, accepted>>
    PROVE  IInv'
<1>1. job[w] \in Jobs /\ job[w].moment <= now /\ job' = [job EXCEPT ![w] = job[w]]
    BY DEF IInv, TypeOK, Goto
<1> QED
    BY <1>1, ControlKeepsIInv DEF Goto

(* Reading the clock keeps the invariant.                                  *)
LEMMA ReadClockKeepsIInv ==
    ASSUME IInv, NEW w \in Workers, NEW step \in Steps, ReadClock(w, step),
           step \in {"clock", "consume"} => job[w].valid /\ job[w].nonce \in Nonces,
           UNCHANGED <<now, acme_enabled, acme_nonces, minted, accepted>>
    PROVE  IInv'
<1> DEFINE j == [job[w] EXCEPT !.moment = now]
<1>1. j \in Jobs /\ j.moment <= now /\ j.valid = job[w].valid /\ j.nonce = job[w].nonce
    BY DEF IInv, TypeOK, Jobs, Times
<1>2. job' = [job EXCEPT ![w] = j]
    BY DEF IInv, TypeOK, ReadClock
<1> QED
    BY <1>1, <1>2, ControlKeepsIInv DEF ReadClock

(* So does the end of a request.                                           *)
LEMMA FinishKeepsIInv ==
    ASSUME IInv, NEW w \in Workers, Finish(w),
           UNCHANGED <<now, acme_enabled, acme_nonces, minted, accepted>>
    PROVE  IInv'
<1>1. NoJob \in Jobs /\ NoJob.moment <= now /\ "idle" \in Steps
    BY NonceAssumption DEF NoJob, Jobs, Times, Steps, IInv, TypeOK
<1> QED
    BY <1>1, ControlKeepsIInv DEF Finish

-----------------------------------------------------------------------------

(* The DELETE of consume spends a nonce that has let nothing through.      *)
LEMMA ConsumeKeepsIInv ==
    ASSUME IInv, NEW w \in Workers, consume(w)
    PROVE  IInv'
<1> DEFINE n == job[w].nonce
<1>1. n \in Nonces /\ job[w].valid
    BY DEF IInv, VerifiedFirst, consume
<1>2. CASE ~Usable(w, n)
    <2>1. Goto(w, "clock2") /\ UNCHANGED <<now, acme_enabled, acme_nonces, minted, accepted>>
        BY <1>2 DEF consume
    <2> QED
        BY <2>1, GotoKeepsIInv DEF Steps
<1>3. CASE Usable(w, n)
    <2>1. /\ acme_nonces' = [acme_nonces EXCEPT ![n] = None]
          /\ accepted' = [accepted EXCEPT ![n] = @ + 1]
          /\ pc' = [pc EXCEPT ![w] = "route"]
          /\ UNCHANGED <<now, acme_enabled, minted, job>>
        BY <1>1, <1>3 DEF consume, Spend, Goto
    <2>2. minted[n] # None /\ accepted[n] = 0
        BY <1>1, <1>3 DEF Usable, IInv, RowsUnspent
    <2>3. TypeOK'
        BY <1>1, <2>1 DEF IInv, TypeOK, Steps
    <2>4. VerifiedFirst'
        BY <2>1 DEF IInv, TypeOK, VerifiedFirst
    <2>5. RowsUnspent'
        BY <1>1, <2>1, <2>2 DEF IInv, TypeOK, RowsUnspent
    <2>6. AcceptedOnce'
        BY <1>1, <2>1, <2>2 DEF IInv, TypeOK, AcceptedOnce
    <2>7. HandedOutStaysUsable'
        BY <1>1, <2>1, <2>2 DEF IInv, TypeOK, HandedOutStaysUsable
    <2> QED
        BY <2>3, <2>4, <2>5, <2>6, <2>7 DEF IInv
<1> QED
    BY <1>2, <1>3

(* The DELETE of purge works with a time that has passed, so what it takes *)
(* is older than NONCE_LIFETIME by now.                                    *)
LEMMA PurgeKeepsIInv ==
    ASSUME IInv, NEW w \in Workers, purge(w)
    PROVE  IInv'
<1>1. /\ acme_nonces' = [n \in Nonces |-> IF Expired(w, n) THEN None ELSE acme_nonces[n]]
      /\ pc' = [pc EXCEPT ![w] = "insert"]
      /\ UNCHANGED <<now, acme_enabled, minted, accepted, job>>
    BY DEF purge, Goto
<1>2. TypeOK'
    BY <1>1 DEF IInv, TypeOK, Steps
<1>3. VerifiedFirst'
    BY <1>1 DEF IInv, TypeOK, VerifiedFirst
<1>4. RowsUnspent' /\ AcceptedOnce'
    BY <1>1 DEF IInv, TypeOK, RowsUnspent, AcceptedOnce
<1>5. HandedOutStaysUsable'
    <2> SUFFICES ASSUME NEW n \in Nonces, minted[n] # None, accepted[n] = 0,
                        now - minted[n] <= NONCE_LIFETIME
                 PROVE  acme_nonces'[n] = minted[n]
        BY <1>1 DEF HandedOutStaysUsable
    <2>1. acme_nonces[n] = minted[n]
        BY DEF IInv, HandedOutStaysUsable
    <2>2. job[w].moment <= now /\ job[w].moment \in Int /\ now \in Int /\ minted[n] \in Int
        BY DEF IInv, TypeOK, Jobs, Times
    <2>3. ~Expired(w, n)
        BY <2>1, <2>2, NonceAssumption DEF Expired
    <2> QED
        BY <1>1, <2>1, <2>3
<1> QED
    BY <1>2, <1>3, <1>4, <1>5 DEF IInv

(* A new row is that of a nonce which was never handed out before.         *)
LEMMA IssueKeepsIInv ==
    ASSUME IInv, NEW w \in Workers, issue(w)
    PROVE  IInv'
<1>1. PICK n \in Nonces :
        /\ minted[n] = None
        /\ acme_nonces' = [acme_nonces EXCEPT ![n] = job[w].moment]
        /\ minted' = [minted EXCEPT ![n] = job[w].moment]
    BY DEF issue
<1>2. /\ pc' = [pc EXCEPT ![w] = "idle"] /\ job' = [job EXCEPT ![w] = NoJob]
      /\ UNCHANGED <<now, acme_enabled, accepted>>
    BY DEF issue, Finish
<1>3. job[w].moment \in Times /\ NoJob \in Jobs /\ NoJob.moment <= now
    BY NonceAssumption DEF IInv, TypeOK, Jobs, NoJob, Times
<1>4. TypeOK'
    BY <1>1, <1>2, <1>3 DEF IInv, TypeOK, Steps
<1>5. VerifiedFirst'
    BY <1>2 DEF IInv, TypeOK, VerifiedFirst
<1>6. accepted[n] = 0 /\ job[w].moment # None
    BY <1>1, <1>3, NonceAssumption DEF IInv, RowsUnspent, Times
<1>7. RowsUnspent'
    BY <1>1, <1>2, <1>6 DEF IInv, TypeOK, RowsUnspent
<1>8. AcceptedOnce'
    BY <1>1, <1>2, <1>6 DEF IInv, TypeOK, AcceptedOnce
<1>9. HandedOutStaysUsable'
    BY <1>1, <1>2, <1>6 DEF IInv, TypeOK, HandedOutStaysUsable
<1> QED
    BY <1>4, <1>5, <1>7, <1>8, <1>9 DEF IInv

(* Time passes: fewer nonces are still young enough.                       *)
LEMMA TickKeepsIInv == IInv /\ Tick => IInv'
<1> SUFFICES ASSUME IInv, Tick PROVE IInv'
    OBVIOUS
<1>1. now \in Int /\ now' = now + 1 /\ now' \in Times
    BY NonceAssumption DEF Tick, IInv, TypeOK, Times
<1>2. TypeOK'
    BY <1>1 DEF Tick, IInv, TypeOK, Jobs, Times
<1>3. VerifiedFirst' /\ RowsUnspent' /\ AcceptedOnce'
    BY DEF Tick, IInv, VerifiedFirst, RowsUnspent, AcceptedOnce
<1>4. HandedOutStaysUsable'
    <2> SUFFICES ASSUME NEW n \in Nonces, minted[n] # None, accepted[n] = 0,
                        now' - minted[n] <= NONCE_LIFETIME
                 PROVE  acme_nonces[n] = minted[n]
        BY DEF Tick, HandedOutStaysUsable
    <2>1. minted[n] \in Int
        BY DEF IInv, TypeOK, Times
    <2>2. now - minted[n] <= NONCE_LIFETIME
        BY <1>1, <2>1, NonceAssumption
    <2> QED
        BY <2>2 DEF IInv, HandedOutStaysUsable
<1> QED
    BY <1>2, <1>3, <1>4 DEF IInv

-----------------------------------------------------------------------------

(* Every step of a request keeps the invariant.                            *)
LEMMA RequestKeepsIInv ==
    ASSUME IInv, NEW w \in Workers, Request(w)
    PROVE  IInv'
<1> USE DEF Steps
<1>1. CASE Receive(w)
    <2>1. PICK post \in BOOLEAN, n \in Nonces \cup {None}, valid \in BOOLEAN :
            job' = [job EXCEPT ![w] =
                        [post |-> post, nonce |-> n, valid |-> valid, moment |-> 0]]
        BY <1>1 DEF Receive
    <2> DEFINE j == [post |-> post, nonce |-> n, valid |-> valid, moment |-> 0]
    <2>2. j \in Jobs /\ j.moment <= now
        BY NonceAssumption DEF Jobs, Times, IInv, TypeOK
    <2> QED
        BY <1>1, <2>1, <2>2, ControlKeepsIInv DEF Receive
<1>2. CASE require_acme_enabled(w)
    BY <1>2, GotoKeepsIInv, FinishKeepsIInv DEF require_acme_enabled
<1>3. CASE verify_request(w)
    <2>1. job[w].nonce \in Nonces \cup {None}
        BY DEF IInv, TypeOK, Jobs
    <2> QED
        BY <1>3, <2>1, GotoKeepsIInv DEF verify_request
<1>4. CASE Cutoff(w)
    BY <1>4, ReadClockKeepsIInv DEF Cutoff, IInv, VerifiedFirst
<1>5. CASE consume(w)
    BY <1>5, ConsumeKeepsIInv
<1>6. CASE RouteAnswers(w)
    BY <1>6, GotoKeepsIInv DEF RouteAnswers
<1>7. CASE RouteRaises(w)
    BY <1>7, FinishKeepsIInv DEF RouteRaises
<1>8. CASE acme_response_headers(w)
    BY <1>8, ReadClockKeepsIInv DEF acme_response_headers
<1>9. CASE purge(w)
    BY <1>9, PurgeKeepsIInv
<1>10. CASE issue(w)
    BY <1>10, IssueKeepsIInv
<1>11. CASE Crash(w)
    BY <1>11, FinishKeepsIInv DEF Crash
<1> QED
    BY <1>1, <1>2, <1>3, <1>4, <1>5, <1>6, <1>7, <1>8, <1>9, <1>10, <1>11 DEF Request

(* The invariant is inductive.                                             *)
LEMMA NextIInv == IInv /\ [Next]_vars => IInv'
<1> SUFFICES ASSUME IInv, [Next]_vars PROVE IInv'
    OBVIOUS
<1>1. CASE \E w \in Workers : Request(w)
    BY <1>1, RequestKeepsIInv
<1>2. CASE settings_submit
    BY <1>2 DEF settings_submit, IInv, TypeOK, VerifiedFirst, RowsUnspent, AcceptedOnce,
                HandedOutStaysUsable
<1>3. CASE Tick
    BY <1>3, TickKeepsIInv
<1>4. CASE UNCHANGED vars
    BY <1>4 DEF vars, IInv, TypeOK, VerifiedFirst, RowsUnspent, AcceptedOnce,
                HandedOutStaysUsable
<1> QED
    BY <1>1, <1>2, <1>3, <1>4 DEF Next

(* Every reachable state satisfies the inductive invariant.                *)
LEMMA SpecIInv == Spec => []IInv
<1> QED
    BY InitIInv, NextIInv, PTL DEF Spec

(* The types hold, and no request works with a time that has not come      *)
(* (nonces._iso).                                                          *)
THEOREM TypeCorrect == Spec => []TypeOK
<1>1. IInv => TypeOK
    BY DEF IInv
<1> QED
    BY <1>1, SpecIInv, PTL

(* A nonce lets at most one request through (nonces.consume).              *)
THEOREM NonceAcceptedOnce == Spec => []AcceptedOnce
<1>1. IInv => AcceptedOnce
    BY DEF IInv
<1> QED
    BY <1>1, SpecIInv, PTL

(* A nonce that was handed out stays usable until it is used or too old    *)
(* (jws.verify_request, nonces.purge).                                     *)
THEOREM NonceStaysUsable == Spec => []HandedOutStaysUsable
<1>1. IInv => HandedOutStaysUsable
    BY DEF IInv
<1> QED
    BY <1>1, SpecIInv, PTL

=============================================================================
