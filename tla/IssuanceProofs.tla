--------------------------- MODULE IssuanceProofs ---------------------------
(***************************************************************************)
(* Proofs about what an issuer signs: who may have it sign (IssuerGrants), *)
(* for any users, tokens, issuers and number of concurrent requests, and   *)
(* which names it signs (LeafPolicy), for any host names, addresses,       *)
(* networks and name constraints.                                          *)
(*                                                                         *)
(* UsedWithGrant speaks of the step that signs or revokes.  What makes it  *)
(* true is carried from step to step: the role that a request was          *)
(* authenticated with, and the grants and active issuers as of any step,   *)
(* are part of what has been observed of it (ObservedSoFar).               *)
(*                                                                         *)
(* SignedExactly compares the code's test of a host name, on the string,   *)
(* with a relying party's, on the labels.  The dots of the two strings are *)
(* ranked: if the last labels agree, the distances between dots agree, and *)
(* so every character does; and if the string ends in the constraint, each *)
(* dot of the constraint has its rank in the name, raised by the same.     *)
(***************************************************************************)
EXTENDS IssuerGrants, LeafPolicy, FiniteSetTheorems, SequenceTheorems, TLAPS

-----------------------------------------------------------------------------
(* The inductive invariant of the grants                                   *)

(* What a request that is to write grants writes names issuers that exist. *)
WritesCreated ==
    \A w \in Workers : pc[w] \in {"replace", "grant"} =>
        job[w].who \in Principals /\ job[w].choice \subseteq Created

(* Only a token that was minted is dead; a request that decides has a      *)
(* principal with a role.                                                  *)
HasPrincipal ==
    \A w \in Workers : pc[w] \in {"resolve", "revoke", "narrow"} =>
        job[w].who \in Principals /\ job[w].role \in ADMIN_ROLES

(* The issuers that a request may still come to use.                       *)
LeftTo(w) == IF pc[w] \in {"resolve", "revoke"} THEN Issuers ELSE job[w].choice

(* Until it has decided, a request has been seen with whatever it holds at *)
(* this moment, and with every issuer if it came as a superadmin; from     *)
(* then on what it chose is among what it was seen with.                   *)
Observed(w) ==
    /\ pc[w] \in {"resolve", "revoke", "narrow"} =>
        /\ past[w].fit
        /\ Allowed(job[w].who) \cap LeftTo(w) \subseteq past[w].held
        /\ unrestricted(job[w].role) => LeftTo(w) \subseteq past[w].held
    /\ pc[w] = "narrow" => job[w].choice \subseteq past[w].open
    /\ pc[w] = "sign" => past[w].fit /\ job[w].choice \subseteq past[w].held \cap past[w].open
    /\ pc[w] = "mark" => past[w].fit /\ job[w].choice \subseteq past[w].held

ObservedSoFar == \A w \in Workers : Observed(w)

IInv == TypeOK /\ WritesCreated /\ HasPrincipal /\ NoOrphanGrants /\ ObservedSoFar

-----------------------------------------------------------------------------
(* The history variable                                                    *)

(* What Observe records of a request that has not decided yet.             *)
LEMMA RecordedUndecided ==
    ASSUME Observe, NEW w \in Workers, pc'[w] \in {"resolve", "revoke", "narrow"}
    PROVE  /\ past'[w].fit = (past[w].fit \/ Fit(job[w].who)')
           /\ past'[w].held = (past[w].held \cup Allowed(job[w].who)') \cap LeftTo(w)'
           /\ past'[w].open = (past[w].open \cup active_issuers') \cap LeftTo(w)'
<1> DEFINE fit  == past[w].fit \/ Fit(job[w].who)'
           held == (past[w].held \cup Allowed(job[w].who)') \cap LeftTo(w)'
           open == (past[w].open \cup active_issuers') \cap LeftTo(w)'
<1>1. past'[w] = [fit |-> fit, held |-> held, open |-> open]
    BY DEF Observe, LeftTo
<1> HIDE DEF fit, held, open
<1>2. past'[w].fit = fit /\ past'[w].held = held /\ past'[w].open = open
    BY <1>1
<1> QED
    BY <1>2, Zenon DEF fit, held, open

(* Once it has decided, what is recorded is cut down to what it chose.     *)
LEMMA RecordedDecided ==
    ASSUME Observe, NEW w \in Workers, pc'[w] \in {"sign", "mark"}
    PROVE  /\ past'[w].fit = (past[w].fit \/ FALSE)
           /\ past'[w].held = past[w].held \cap job'[w].choice
           /\ past'[w].open = past[w].open \cap job'[w].choice
<1> DEFINE fit  == past[w].fit \/ FALSE
           held == past[w].held \cap job'[w].choice
           open == past[w].open \cap job'[w].choice
<1>1. past'[w] = [fit |-> fit, held |-> held, open |-> open]
    BY DEF Observe
<1> HIDE DEF fit, held, open
<1>2. past'[w].fit = fit /\ past'[w].held = held /\ past'[w].open = open
    BY <1>1
<1> QED
    BY <1>2, Zenon DEF fit, held, open

(* The history keeps its type whatever the other variables do.             *)
LEMMA PastType ==
    ASSUME past \in [Workers -> Pasts], job' \in [Workers -> Jobs], Observe
    PROVE  past' \in [Workers -> Pasts]
<1> SUFFICES ASSUME NEW w \in Workers PROVE past'[w] \in Pasts
    BY DEF Observe
<1>1. past[w] \in Pasts /\ job'[w] \in Jobs
    OBVIOUS
<1>2. job'[w].choice \subseteq Issuers
    BY <1>1 DEF Jobs
<1> QED
    BY <1>1, <1>2 DEF Observe, Pasts, NoPast

(* What was observed of a request stays true of it while others act.       *)
LEMMA StillObserved ==
    ASSUME Observe, NEW w \in Workers, Observed(w), pc'[w] = pc[w], job'[w] = job[w]
    PROVE  Observed(w)'
<1>1. CASE pc[w] \in {"resolve", "revoke", "narrow"}
    <2>1. /\ past'[w].fit = (past[w].fit \/ Fit(job[w].who)')
          /\ past'[w].held = (past[w].held \cup Allowed(job[w].who)') \cap LeftTo(w)'
          /\ past'[w].open = (past[w].open \cup active_issuers') \cap LeftTo(w)'
        BY <1>1, RecordedUndecided
    <2>2. LeftTo(w)' = LeftTo(w) /\ (pc[w] = "narrow" => LeftTo(w) = job[w].choice)
        BY DEF LeftTo
    <2>3. past'[w].fit
        BY <1>1, <2>1 DEF Observed
    <2>4. LeftTo(w) \cap Allowed(job[w].who)' \subseteq past'[w].held
        BY <2>1, <2>2
    <2>5. LeftTo(w) \subseteq past[w].held => LeftTo(w) \subseteq past'[w].held
        BY <2>1, <2>2
    <2>6. pc[w] = "narrow" => job[w].choice \subseteq past'[w].open
        BY <1>1, <2>1, <2>2 DEF Observed
    <2> QED
        BY <1>1, <2>2, <2>3, <2>4, <2>5, <2>6 DEF Observed, unrestricted
<1>2. CASE pc[w] \in {"sign", "mark"}
    <2>1. /\ past'[w].fit = (past[w].fit \/ FALSE)
          /\ past'[w].held = past[w].held \cap job'[w].choice
          /\ past'[w].open = past[w].open \cap job'[w].choice
        BY <1>2, RecordedDecided
    <2> QED
        BY <1>2, <2>1 DEF Observed
<1>3. CASE pc[w] \notin {"resolve", "revoke", "narrow", "sign", "mark"}
    BY <1>3 DEF Observed
<1> QED
    BY <1>1, <1>2, <1>3

-----------------------------------------------------------------------------
(* Steps                                                                   *)

(* The job of an idle request is a job.                                    *)
LEMMA NoJobType == NoJob \in Jobs
BY DEF NoJob, Jobs

(* A step of one request that leaves the tables alone keeps the invariant  *)
(* when what it goes on with is in order.                                  *)
LEMMA ControlKeepsIInv ==
    ASSUME IInv, Observe, NEW w \in Workers, NEW step \in Steps, NEW j \in Jobs,
           Goto(w, step, j), UNCHANGED tables,
           step \in {"replace", "grant"} => j.who \in Principals /\ j.choice \subseteq Created,
           step \in {"resolve", "revoke", "narrow"} =>
               j.who \in Principals /\ j.role \in ADMIN_ROLES,
           Observed(w)'
    PROVE  IInv'
<1>1. pc' = [pc EXCEPT ![w] = step] /\ job' = [job EXCEPT ![w] = j]
    BY DEF Goto
<1>2. pc \in [Workers -> Steps] /\ job \in [Workers -> Jobs]
    BY DEF IInv, TypeOK
<1>3. job' \in [Workers -> Jobs] /\ pc' \in [Workers -> Steps]
    BY <1>1, <1>2
<1>4. TypeOK'
    BY <1>3, PastType DEF IInv, TypeOK, tables, Created
<1>5. WritesCreated'
    BY <1>1, <1>2 DEF IInv, WritesCreated, tables, Created
<1>6. HasPrincipal'
    BY <1>1, <1>2 DEF IInv, HasPrincipal
<1>7. NoOrphanGrants'
    BY DEF IInv, NoOrphanGrants, tables
<1>8. ASSUME NEW v \in Workers PROVE Observed(v)'
    <2>1. CASE v = w
        BY <2>1
    <2>2. CASE v # w
        BY <1>1, <1>2, <2>2, StillObserved DEF IInv, ObservedSoFar
    <2> QED
        BY <2>1, <2>2
<1> QED
    BY <1>4, <1>5, <1>6, <1>7, <1>8 DEF IInv, ObservedSoFar

(* The end of a request that writes no table.                              *)
LEMMA FinishKeepsIInv ==
    ASSUME IInv, Observe, NEW w \in Workers, Finish(w), UNCHANGED tables
    PROVE  IInv'
<1>1. Goto(w, "idle", NoJob) /\ pc'[w] = "idle"
    BY DEF Finish, Goto, IInv, TypeOK
<1>2. Observed(w)'
    BY <1>1 DEF Observed
<1> QED
    BY <1>1, <1>2, NoJobType, ControlKeepsIInv DEF Steps

(* A request that is let in is seen with its role and its grants.          *)
LEMMA AuthenticateKeepsIInv ==
    ASSUME IInv, Observe, NEW w \in Workers, NEW p \in Principals,
           NEW step \in {"resolve", "revoke"}, Authenticate(w, p, step)
    PROVE  IInv'
<1> DEFINE j == [NoJob EXCEPT !.who = p, !.role = RoleOf(p)]
<1>1. RoleOf(p) \in ADMIN_ROLES /\ (p \in Tokens => verify_token(p))
    BY DEF Authenticate, Authenticated
<1>2. ADMIN_ROLES \subseteq Roles
    BY DEF ADMIN_ROLES, Roles
<1>3. j.who = p /\ j.role = RoleOf(p)
    BY DEF NoJob
<1>4. j \in Jobs
    BY <1>1, <1>2 DEF Jobs, NoJob
<1>5. p \notin dead
    <2>1. dead \subseteq Tokens
        BY DEF IInv, TypeOK
    <2> QED
        BY <1>1, <2>1 DEF verify_token
<1>6. /\ pc'[w] = step /\ job'[w] = j
      /\ UNCHANGED tables
    BY DEF Authenticate, Goto, IInv, TypeOK
<1>7. job'[w].who = p /\ job'[w].role = RoleOf(p)
    BY <1>3, <1>6
<1>8. RoleOf(p)' = RoleOf(p) /\ grants' = grants /\ dead' = dead
    BY <1>6 DEF RoleOf, tables
<1>9. Fit(job[w].who)'
    BY <1>1, <1>5, <1>7, <1>8 DEF Fit
<1>10. LeftTo(w)' = Issuers
    BY <1>6 DEF LeftTo
<1>11. past'[w].fit /\ past'[w].held = (past[w].held \cup Allowed(job[w].who)') \cap Issuers
    BY <1>6, <1>9, <1>10, RecordedUndecided
<1>12. RoleOf(p) = "superadmin" => Allowed(job[w].who)' = Issuers
    BY <1>7, <1>8 DEF Allowed
<1>13. Observed(w)'
    BY <1>6, <1>7, <1>10, <1>11, <1>12 DEF Observed, unrestricted
<1> QED
    BY <1>1, <1>3, <1>4, <1>13, ControlKeepsIInv DEF Authenticate, Steps

(* What is left of the active issuers, or the one that was named, was seen *)
(* active.                                                                 *)
LEMMA ResolveKeepsIInv ==
    ASSUME IInv, Observe, NEW w \in Workers, NEW named \in Issuers \cup {None},
           resolve_issuer(w, named)
    PROVE  IInv'
<1> DEFINE S == IF named = None THEN active_issuers ELSE {named}
           j == [job[w] EXCEPT !.choice = S]
<1>1. job[w] \in Jobs /\ pc[w] = "resolve" /\ UNCHANGED tables
    BY DEF IInv, TypeOK, resolve_issuer
<1>2. CASE S \subseteq active_issuers /\ Goto(w, "narrow", j)
    <2>1. S \subseteq Issuers /\ j \in Jobs
        BY <1>1, <1>2 DEF Jobs, active_issuers
    <2>2. j.who = job[w].who /\ j.role = job[w].role /\ j.choice = S
        BY <1>1 DEF Jobs
    <2>3. pc'[w] = "narrow" /\ job'[w] = j
        BY <1>2 DEF Goto, IInv, TypeOK
    <2>4. LeftTo(w)' = S
        BY <2>2, <2>3 DEF LeftTo
    <2>5. active_issuers' = active_issuers
        BY <1>1 DEF active_issuers, tables
    <2>6. /\ past'[w].fit = (past[w].fit \/ Fit(job[w].who)')
          /\ past'[w].held = (past[w].held \cup Allowed(job[w].who)') \cap S
          /\ past'[w].open = (past[w].open \cup active_issuers) \cap S
        BY <2>3, <2>4, <2>5, RecordedUndecided
    <2>7. /\ past[w].fit
          /\ unrestricted(job[w].role) => Issuers \subseteq past[w].held
        BY <1>1 DEF IInv, ObservedSoFar, Observed, LeftTo
    <2>8. past'[w].fit
        BY <2>6, <2>7
    <2>9. S \subseteq past'[w].open
        BY <1>2, <2>6
    <2>10. Allowed(job[w].who)' \cap S \subseteq past'[w].held
        BY <2>6
    <2>11. unrestricted(job[w].role) => S \subseteq past'[w].held
        BY <2>1, <2>6, <2>7
    <2>12. Observed(w)'
        BY <2>2, <2>3, <2>4, <2>8, <2>9, <2>10, <2>11 DEF Observed, unrestricted
    <2>13. job[w].who \in Principals /\ job[w].role \in ADMIN_ROLES
        BY <1>1 DEF IInv, HasPrincipal
    <2> QED
        BY <1>1, <1>2, <2>1, <2>2, <2>12, <2>13, ControlKeepsIInv DEF Steps
<1>3. CASE Finish(w)
    BY <1>1, <1>3, FinishKeepsIInv
<1> QED
    BY <1>2, <1>3 DEF resolve_issuer

(* The grants that decide are grants that were seen.                       *)
LEMMA GrantedKeepsIInv ==
    ASSUME IInv, Observe, NEW w \in Workers, NEW step \in {"sign", "mark"},
           NEW S \in SUBSET Issuers, S \subseteq may_use_issuer(job[w]),
           pc[w] = "narrow" => S \subseteq job[w].choice,
           pc[w] = IF step = "sign" THEN "narrow" ELSE "revoke",
           Goto(w, step, [job[w] EXCEPT !.choice = S]), UNCHANGED tables
    PROVE  IInv'
<1> DEFINE j == [job[w] EXCEPT !.choice = S]
<1>1. job[w] \in Jobs /\ j \in Jobs /\ j.choice = S
    BY DEF IInv, TypeOK, Jobs
<1>2. pc'[w] = step /\ job'[w] = j
    BY DEF Goto, IInv, TypeOK
<1>3. /\ past'[w].fit = (past[w].fit \/ FALSE)
      /\ past'[w].held = past[w].held \cap S
      /\ past'[w].open = past[w].open \cap S
    BY <1>1, <1>2, RecordedDecided
<1>4. /\ past[w].fit
      /\ Allowed(job[w].who) \cap LeftTo(w) \subseteq past[w].held
      /\ unrestricted(job[w].role) => LeftTo(w) \subseteq past[w].held
      /\ pc[w] = "narrow" => job[w].choice \subseteq past[w].open
    BY DEF IInv, ObservedSoFar, Observed
<1>5. S \subseteq LeftTo(w)
    BY DEF LeftTo
<1>6. S \subseteq past[w].held
    <2>1. CASE unrestricted(job[w].role)
        BY <1>4, <1>5, <2>1
    <2>2. CASE ~unrestricted(job[w].role)
        BY <1>4, <1>5, <2>2 DEF may_use_issuer, Allowed
    <2> QED
        BY <2>1, <2>2
<1>7. past'[w].fit /\ S \subseteq past'[w].held
    BY <1>3, <1>4, <1>6
<1>8. step = "sign" => S \subseteq past'[w].open
    BY <1>3, <1>4
<1>9. Observed(w)'
    BY <1>1, <1>2, <1>7, <1>8 DEF Observed
<1> QED
    BY <1>1, <1>9, ControlKeepsIInv DEF Steps

-----------------------------------------------------------------------------
(* Steps that write tables                                                 *)

(* The types of the tables, and what the foreign keys are for.             *)
TablesOK ==
    /\ users \in [Ids -> Roles \cup {None}]
    /\ tokens \in [Tokens -> Roles \cup {None}]
    /\ dead \subseteq {t \in Tokens : tokens[t] # None}
    /\ issuers \in [Issuers -> {"active", "retired", None}]
    /\ grants \in [Principals -> SUBSET Created]
    /\ NoOrphanGrants

(* Rows that change under the requests: no issuer goes away.               *)
LEMMA RowsKeepIInv ==
    ASSUME IInv, Observe, TablesOK', Created \subseteq Created', UNCHANGED <<pc, job>>
    PROVE  IInv'
<1>1. TypeOK'
    BY PastType DEF TablesOK, IInv, TypeOK
<1>2. WritesCreated' /\ HasPrincipal'
    BY DEF IInv, WritesCreated, HasPrincipal
<1>3. ASSUME NEW w \in Workers PROVE Observed(w)'
    BY StillObserved DEF IInv, ObservedSoFar
<1> QED
    BY <1>1, <1>2, <1>3 DEF IInv, ObservedSoFar, TablesOK

(* A request that writes, and ends or goes on to write a grant.            *)
LEMMA WriteKeepsIInv ==
    ASSUME IInv, Observe, TablesOK', Created \subseteq Created',
           NEW w \in Workers, NEW step \in {"idle", "replace", "grant"}, NEW j \in Jobs,
           Goto(w, step, j),
           step # "idle" => j.who \in Principals /\ j.choice \subseteq Created'
    PROVE  IInv'
<1>1. pc' = [pc EXCEPT ![w] = step] /\ job' = [job EXCEPT ![w] = j]
    BY DEF Goto
<1>2. pc \in [Workers -> Steps] /\ job \in [Workers -> Jobs]
    BY DEF IInv, TypeOK
<1>3. job' \in [Workers -> Jobs] /\ pc' \in [Workers -> Steps]
    BY <1>1, <1>2 DEF Steps
<1>4. TypeOK'
    BY <1>3, PastType DEF TablesOK, IInv, TypeOK
<1>5. WritesCreated'
    BY <1>1, <1>2 DEF IInv, WritesCreated
<1>6. HasPrincipal'
    BY <1>1, <1>2 DEF IInv, HasPrincipal
<1>7. ASSUME NEW v \in Workers PROVE Observed(v)'
    <2>1. CASE v = w
        BY <1>1, <1>2, <2>1 DEF Observed
    <2>2. CASE v # w
        BY <1>1, <1>2, <2>2, StillObserved DEF IInv, ObservedSoFar
    <2> QED
        BY <2>1, <2>2
<1> QED
    BY <1>4, <1>5, <1>6, <1>7 DEF IInv, ObservedSoFar, TablesOK

(* Grants are written only to a principal that is there, and name only     *)
(* issuers that are.                                                       *)
LEMMA GrantsKeepIInv ==
    ASSUME IInv, Observe, NEW w \in Workers, set_issuers(w) \/ grant(w)
    PROVE  IInv'
<1>1. job[w].who \in Principals /\ job[w].choice \subseteq Created
    BY DEF IInv, WritesCreated, set_issuers, grant
<1>2. UNCHANGED <<users, tokens, dead, issuers>> /\ Goto(w, "idle", NoJob)
    BY DEF set_issuers, grant, Finish
<1>3. Created' = Created
    BY <1>2 DEF Created
<1>4. grants \in [Principals -> SUBSET Created] /\ grants' \in [Principals -> SUBSET Created]
    BY <1>1 DEF IInv, TypeOK, set_issuers, grant
<1>5. NoOrphanGrants'
    <2> SUFFICES ASSUME NEW u \in Ids, users[u] = None PROVE grants'[u] = {}
        BY <1>2 DEF NoOrphanGrants
    <2>1. grants[u] = {} /\ u \in Principals
        BY DEF IInv, NoOrphanGrants, Principals
    <2>2. u \notin Tokens
        BY GrantsAssumption DEF Ids
    <2>3. ~ForeignKey(u)
        BY <2>2 DEF ForeignKey, RoleOf
    <2> QED
        BY <1>1, <1>4, <2>1, <2>3 DEF set_issuers, grant
<1>6. TablesOK'
    BY <1>2, <1>3, <1>4, <1>5 DEF TablesOK, IInv, TypeOK
<1> QED
    BY <1>2, <1>3, <1>6, NoJobType, WriteKeepsIInv

(* Every other step that writes: no issuer goes away, and a user's grants  *)
(* go with the user.                                                       *)
LEMMA RowStepsKeepIInv ==
    ASSUME IInv, Observe, Rows
    PROVE  IInv'
<1> SUFFICES TablesOK' /\ Created \subseteq Created' /\ UNCHANGED <<pc, job>>
    BY RowsKeepIInv
<1> USE DEF TablesOK, NoOrphanGrants
<1>0. TablesOK /\ None \notin Roles
    BY GrantsAssumption DEF IInv, TypeOK, Roles
<1>1. ASSUME NEW role \in Roles, create_user(role)
      PROVE  TablesOK' /\ Created \subseteq Created' /\ UNCHANGED <<pc, job>>
    <2>1. PICK u \in Ids : users' = [users EXCEPT ![u] = role]
        BY <1>1 DEF create_user
    <2> QED
        BY <1>0, <1>1, <2>1 DEF create_user, Created
<1>2. ASSUME NEW u \in Ids, NEW role \in Roles, update_role(u, role)
      PROVE  TablesOK' /\ Created \subseteq Created' /\ UNCHANGED <<pc, job>>
    BY <1>0, <1>2 DEF update_role, Created
<1>3. ASSUME NEW u \in Ids, delete_user(u)
      PROVE  TablesOK' /\ Created \subseteq Created' /\ UNCHANGED <<pc, job>>
    BY <1>0, <1>3 DEF delete_user, Created, Principals
<1>4. ASSUME NEW t \in Tokens, revoke_token(t)
      PROVE  TablesOK' /\ Created \subseteq Created' /\ UNCHANGED <<pc, job>>
    BY <1>0, <1>4 DEF revoke_token, Created
<1>5. ASSUME NEW i \in Issuers, retire(i)
      PROVE  TablesOK' /\ Created \subseteq Created' /\ UNCHANGED <<pc, job>>
    BY <1>0, <1>5, GrantsAssumption DEF retire, Created
<1> QED
    BY <1>1, <1>2, <1>3, <1>4, <1>5 DEF Rows

(* Creation of a token or an intermediate, and what it leaves to do.       *)
LEMMA CreationKeepsIInv ==
    ASSUME IInv, Observe, NEW w \in Workers,
           \/ \E u \in Ids, i \in Issuers : create_intermediate(w, u, i)
           \/ \E t \in Tokens, role \in Roles, posted \in SUBSET Issuers :
                  create_token(w, t, role, posted)
    PROVE  IInv'
<1>0. TablesOK /\ None \notin Roles /\ NoOrphanGrants
    BY GrantsAssumption DEF IInv, TypeOK, Roles, TablesOK
<1>1. ASSUME NEW u \in Ids, NEW i \in Issuers, create_intermediate(w, u, i)
      PROVE  IInv'
    <2> DEFINE j == [NoJob EXCEPT !.who = u, !.choice = {i}]
    <2>1. j \in Jobs /\ j.who = u /\ j.choice = {i} /\ u \in Principals
        BY DEF Jobs, NoJob, Principals
    <2>2. /\ issuers' = [issuers EXCEPT ![i] = "active"]
          /\ UNCHANGED <<users, tokens, dead, grants>>
          /\ Goto(w, "grant", j)
        BY <1>1 DEF create_intermediate
    <2>3. Created \subseteq Created' /\ {i} \subseteq Created'
        BY <1>0, <2>2, GrantsAssumption DEF TablesOK, Created
    <2>4. TablesOK'
        BY <1>0, <2>2, <2>3 DEF TablesOK, NoOrphanGrants
    <2> HIDE DEF j
    <2> QED
        BY <2>1, <2>2, <2>3, <2>4, WriteKeepsIInv
<1>2. ASSUME NEW t \in Tokens, NEW role \in Roles, NEW posted \in SUBSET Issuers,
             create_token(w, t, role, posted)
      PROVE  IInv'
    <2> DEFINE j == [NoJob EXCEPT !.who = t, !.choice = posted]
    <2>1. j \in Jobs /\ j.who = t /\ j.choice = posted /\ t \in Principals
        BY DEF Jobs, NoJob, Principals
    <2>2. Created' = Created /\ posted \subseteq Created
        BY <1>2 DEF create_token, Created
    <2>3. TablesOK'
        BY <1>0, <1>2, <2>2 DEF create_token, TablesOK, NoOrphanGrants
    <2>4. UNCHANGED <<pc, job>> \/ Goto(w, "replace", j)
        BY <1>2 DEF create_token
    <2> HIDE DEF j
    <2>5. CASE UNCHANGED <<pc, job>>
        BY <2>2, <2>3, <2>5, RowsKeepIInv
    <2>6. CASE Goto(w, "replace", j)
        BY <2>1, <2>2, <2>3, <2>6, WriteKeepsIInv
    <2> QED
        BY <2>4, <2>5, <2>6
<1> QED
    BY <1>1, <1>2

-----------------------------------------------------------------------------
(* Theorems                                                                *)

(* Without users, tokens and grants nothing has been observed.             *)
LEMMA InitIInv == Init => IInv
<1> SUFFICES ASSUME Init PROVE IInv
    OBVIOUS
<1>1. NoJob \in Jobs /\ NoPast \in Pasts
    BY NoJobType DEF NoPast, Pasts
<1>2. TypeOK
    BY <1>1 DEF Init, TypeOK, Steps, Created
<1>3. WritesCreated /\ HasPrincipal /\ NoOrphanGrants
    BY DEF Init, WritesCreated, HasPrincipal, NoOrphanGrants, Principals
<1>4. ObservedSoFar
    BY DEF Init, ObservedSoFar, Observed
<1> QED
    BY <1>2, <1>3, <1>4 DEF IInv

(* The invariant is inductive.                                             *)
LEMMA NextIInv == IInv /\ [Next]_vars => IInv'
<1> SUFFICES ASSUME IInv, [Next]_vars PROVE IInv'
    OBVIOUS
<1>1. ASSUME Rows, Observe PROVE IInv'
    BY <1>1, RowStepsKeepIInv
<1>2. ASSUME NEW w \in Workers, Accept(w), Observe PROVE IInv'
    <2>1. ASSUME NEW p \in Principals, NEW step \in {"resolve", "revoke"}, Authenticate(w, p, step)
          PROVE  IInv'
        BY <1>2, <2>1, AuthenticateKeepsIInv
    <2>2. ASSUME NEW p \in Principals, NEW posted \in SUBSET Issuers,
                 update_issuers_route(w, p, posted)
          PROVE  IInv'
        <3> DEFINE j == [NoJob EXCEPT !.who = p, !.choice = posted]
        <3>1. j \in Jobs /\ j.who = p /\ j.choice = posted
            BY DEF Jobs, NoJob
        <3>2. posted \subseteq Created /\ Goto(w, "replace", j) /\ UNCHANGED tables
            BY <2>2 DEF update_issuers_route
        <3>3. pc'[w] = "replace"
            BY <3>2 DEF Goto, IInv, TypeOK
        <3>4. Observed(w)'
            BY <3>3 DEF Observed
        <3> QED
            BY <1>2, <3>1, <3>2, <3>4, ControlKeepsIInv DEF Steps
    <2> QED
        BY <1>2, <2>1, <2>2, CreationKeepsIInv DEF Accept
<1>3. ASSUME NEW w \in Workers, Continue(w), Observe PROVE IInv'
    <2>1. CASE \E named \in Issuers \cup {None} : resolve_issuer(w, named)
        BY <1>3, <2>1, ResolveKeepsIInv
    <2>2. CASE resolve_granted_issuer(w)
        <3> DEFINE granted == job[w].choice \cap may_use_issuer(job[w])
        <3>1. granted \in SUBSET Issuers
            BY DEF IInv, TypeOK, Jobs
        <3>2. CASE Goto(w, "sign", [job[w] EXCEPT !.choice = granted])
            BY <1>3, <2>2, <3>1, <3>2, GrantedKeepsIInv DEF resolve_granted_issuer
        <3>3. CASE Finish(w)
            BY <1>3, <2>2, <3>3, FinishKeepsIInv DEF resolve_granted_issuer
        <3> QED
            BY <2>2, <3>2, <3>3 DEF resolve_granted_issuer
    <2>3. ASSUME NEW i \in Issuers, revoke_certificate(w, i) PROVE IInv'
        <3>1. CASE i \in may_use_issuer(job[w])
            <4>1. /\ pc[w] = "revoke" /\ UNCHANGED tables
                  /\ Goto(w, "mark", [job[w] EXCEPT !.choice = {i}])
                BY <2>3, <3>1 DEF revoke_certificate
            <4>2. {i} \in SUBSET Issuers /\ {i} \subseteq may_use_issuer(job[w])
                BY <3>1
            <4> QED
                BY <1>3, <4>1, <4>2, GrantedKeepsIInv
        <3>2. CASE i \notin may_use_issuer(job[w])
            BY <1>3, <2>3, <3>2, FinishKeepsIInv DEF revoke_certificate
        <3> QED
            BY <3>1, <3>2
    <2>4. CASE _store(w) \/ Mark(w) \/ Abort(w)
        BY <1>3, <2>4, FinishKeepsIInv DEF _store, Mark, Abort
    <2>5. CASE set_issuers(w) \/ grant(w)
        BY <1>3, <2>5, GrantsKeepIInv
    <2> QED
        BY <1>3, <2>1, <2>2, <2>3, <2>4, <2>5 DEF Continue
<1>4. CASE UNCHANGED vars
    BY <1>4 DEF vars, IInv, TypeOK, WritesCreated, HasPrincipal, NoOrphanGrants, ObservedSoFar,
                Observed, LeftTo, Allowed, RoleOf, Created
<1> QED
    BY <1>1, <1>2, <1>3, <1>4 DEF Next

(* Every reachable state satisfies the inductive invariant.                *)
LEMMA SpecIInv == Spec => []IInv
<1> QED
    BY InitIInv, NextIInv, PTL DEF Spec

(* The tables of users, tokens, issuers and grants, and what every request *)
(* carries, keep their types; a grant always names an issuer that exists.  *)
THEOREM TypeCorrect == Spec => []TypeOK
<1>1. IInv => TypeOK
    BY DEF IInv
<1> QED
    BY <1>1, SpecIInv, PTL

(* delete_user and the foreign keys: however grants, deletions and new     *)
(* users are interleaved, an id without a user has no grants.              *)
THEOREM GrantsGoWithUser == Spec => []NoOrphanGrants
<1>1. IInv => NoOrphanGrants
    BY DEF IInv
<1> QED
    BY <1>1, SpecIInv, PTL

(* resolve_granted_issuer and may_use_issuer: nobody signs or revokes      *)
(* through an issuer without having been fit to and allowed it, and the    *)
(* issuer having been active when a certificate is signed, at some time    *)
(* while the request was being decided.                                    *)
THEOREM GrantsAreKept == Spec => UsedWithGrant
<1> DEFINE A == \A w \in Workers :
        /\ _store(w) => past[w].fit /\ job[w].choice \subseteq past[w].held \cap past[w].open
        /\ Mark(w) => past[w].fit /\ job[w].choice \subseteq past[w].held
<1>1. IInv => A
    BY DEF IInv, ObservedSoFar, Observed, _store, Mark
<1> QED
    BY <1>1, SpecIInv, PTL DEF UsedWithGrant

-----------------------------------------------------------------------------
(* The k-th smallest number of a finite set                                *)

(* How many numbers of a set are smaller than a given one.                 *)
Below(S, x) == {y \in S : y < x}

Rank(S, x) == Cardinality(Below(S, x))

(* The rank of a number is a number, and at most the size of the set.      *)
LEMMA RankType ==
    ASSUME NEW S \in SUBSET Nat, IsFiniteSet(S), NEW x \in Nat
    PROVE  /\ IsFiniteSet(Below(S, x)) /\ Rank(S, x) \in Nat /\ Cardinality(S) \in Nat
           /\ Rank(S, x) <= Cardinality(S)
           /\ x \in S => Rank(S, x) < Cardinality(S)
<1>1. Below(S, x) \in SUBSET S /\ (x \in S => Below(S, x) \in SUBSET (S \ {x}))
  BY DEF Below
<1>2. IsFiniteSet(S \ {x}) /\ (x \in S => Cardinality(S \ {x}) = Cardinality(S) - 1)
  BY FS_RemoveElement
<1>3. IsFiniteSet(Below(S, x)) /\ Rank(S, x) <= Cardinality(S)
  BY <1>1, FS_Subset DEF Rank
<1>4. Rank(S, x) \in Nat /\ Cardinality(S) \in Nat
  BY <1>3, FS_CardinalityType DEF Rank
<1>5. x \in S => Rank(S, x) <= Cardinality(S \ {x})
  BY <1>1, <1>2, FS_Subset DEF Rank
<1> QED
  BY <1>2, <1>3, <1>4, <1>5

(* A greater number has at least the rank of a smaller one, and a higher   *)
(* one if the smaller is in the set.                                       *)
LEMMA RankGrows ==
    ASSUME NEW S \in SUBSET Nat, IsFiniteSet(S), NEW x \in Nat, NEW y \in Nat, x < y
    PROVE  Rank(S, x) <= Rank(S, y) /\ (x \in S => Rank(S, x) < Rank(S, y))
<1>1. IsFiniteSet(Below(S, x)) /\ IsFiniteSet(Below(S, y))
  BY RankType
<1>2. Rank(S, x) \in Nat /\ Rank(S, y) \in Nat
  BY RankType
<1>3. Below(S, x) \in SUBSET Below(S, y)
  <2>1. \A z \in S : z < x => z < y
    OBVIOUS
  <2> QED
    BY <2>1 DEF Below
<1>4. Rank(S, x) <= Rank(S, y)
  BY <1>1, <1>3, FS_Subset DEF Rank
<1>5. ASSUME x \in S PROVE Rank(S, x) < Rank(S, y)
  <2>1. x \notin Below(S, x) /\ x \in Below(S, y)
    BY <1>5 DEF Below
  <2>2. (Below(S, x) \cup {x}) \in SUBSET Below(S, y)
    BY <1>3, <2>1
  <2>3. Cardinality(Below(S, x) \cup {x}) = Rank(S, x) + 1
    BY <1>1, <2>1, FS_AddElement DEF Rank
  <2>4. Cardinality(Below(S, x) \cup {x}) <= Rank(S, y)
    BY <1>1, <2>2, FS_Subset DEF Rank
  <2> QED
    BY <1>2, <2>3, <2>4
<1> QED
  BY <1>4, <1>5

(* Every rank is taken, by the number that Nth chooses.                    *)
LEMMA NthIs ==
    ASSUME NEW S \in SUBSET Nat, IsFiniteSet(S), NEW k \in 1 .. Cardinality(S)
    PROVE  Nth(S, k) \in S /\ Rank(S, Nth(S, k)) = k - 1
<1> DEFINE n == Cardinality(S)
           T == 0 .. n - 1
           f == [x \in S |-> Rank(S, x)]
<1>1. n \in Nat
  BY FS_CardinalityType
<1>2. f \in [S -> T]
  BY <1>1, RankType
<1>3. \A x, y \in S : f[x] = f[y] => x = y
  <2> SUFFICES ASSUME NEW x \in S, NEW y \in S, x # y PROVE Rank(S, x) # Rank(S, y)
    OBVIOUS
  <2>1. Rank(S, x) \in Nat /\ Rank(S, y) \in Nat
    BY RankType
  <2>2. CASE x < y
    BY <2>1, <2>2, RankGrows
  <2>3. CASE y < x
    BY <2>1, <2>3, RankGrows
  <2> QED
    BY <2>2, <2>3
<1>4. f \in Injection(S, T)
  BY <1>2, <1>3 DEF Injection, IsInjective
<1>5. IsFiniteSet(T) /\ Cardinality(T) = n
  <2>1. PICK b \in Int : b = n - 1
    BY <1>1
  <2>2. IsFiniteSet(0 .. b) /\ Cardinality(0 .. b) = IF 0 > b THEN 0 ELSE b - 0 + 1
    BY FS_Interval
  <2> QED
    BY <1>1, <2>1, <2>2
<1>6. f \in Surjection(S, T)
  BY <1>4, <1>5, FS_Injection
<1>7. k - 1 \in T
  BY <1>1
<1>8. \E x \in S : Cardinality({y \in S : y < x}) = k - 1
  BY <1>6, <1>7 DEF Surjection, Rank, Below
<1>9. /\ Nth(S, k) \in S
      /\ Cardinality({y \in S : y < Nth(S, k)}) = k - 1
  <2> HIDE DEF n, T, f
  <2> QED
    BY <1>8, Zenon DEF Nth
<1> QED
  BY <1>9 DEF Rank, Below

(* A number of the set is the one that Nth gives for its rank.             *)
LEMMA NthOfRank ==
    ASSUME NEW S \in SUBSET Nat, IsFiniteSet(S), NEW x \in S
    PROVE  Rank(S, x) + 1 \in 1 .. Cardinality(S) /\ Nth(S, Rank(S, x) + 1) = x
<1>1. Rank(S, x) \in Nat /\ Cardinality(S) \in Nat /\ Rank(S, x) < Cardinality(S)
  BY RankType
<1>2. PICK k \in 1 .. Cardinality(S) : k = Rank(S, x) + 1
  BY <1>1
<1>3. PICK y \in S : y = Nth(S, k)
  BY NthIs
<1>4. Rank(S, y) = Rank(S, x)
  BY <1>1, <1>2, <1>3, NthIs
<1>5. ~ (x < y) /\ ~ (y < x)
  BY <1>1, <1>4, RankGrows
<1> QED
  BY <1>1, <1>2, <1>3, <1>5

(* Nth grows.                                                              *)
LEMMA NthGrows ==
    ASSUME NEW S \in SUBSET Nat, IsFiniteSet(S),
           NEW j \in 1 .. Cardinality(S), NEW k \in 1 .. Cardinality(S), j < k
    PROVE  Nth(S, j) < Nth(S, k)
<1>1. PICK x \in S, y \in S : x = Nth(S, j) /\ y = Nth(S, k)
  BY NthIs
<1>2. Rank(S, x) = j - 1 /\ Rank(S, y) = k - 1
  BY <1>1, NthIs
<1>3. ~ (y < x) /\ x # y
  BY <1>2, RankGrows
<1> QED
  BY <1>1, <1>3

(* A number outside the set lies between the two that its rank points at.  *)
LEMMA NthAround ==
    ASSUME NEW S \in SUBSET Nat, IsFiniteSet(S), NEW p \in Nat, p \notin S,
           NEW k \in 1 .. Cardinality(S) - 1, Rank(S, p) = k
    PROVE  Nth(S, k) < p /\ p < Nth(S, k + 1)
<1>1. Cardinality(S) \in Nat
  BY FS_CardinalityType
<1>2. k \in 1 .. Cardinality(S)
  BY <1>1
<1>a. PICK j \in 1 .. Cardinality(S) : j = k + 1
  BY <1>1
<1>b. PICK x \in S, y \in S : x = Nth(S, k) /\ y = Nth(S, j)
  BY <1>2, NthIs
<1>3. Rank(S, x) = k - 1 /\ Rank(S, y) = k
  BY <1>2, <1>a, <1>b, NthIs
<1>4. ~ (p < x)
  BY <1>3, RankGrows
<1>5. ~ (y < p)
  BY <1>3, RankGrows
<1> QED
  BY <1>a, <1>b, <1>4, <1>5

(* A sequence of numbers whose neighbours are equal is constant.           *)
LEMMA Constant ==
    ASSUME NEW m \in Nat \ {0}, NEW D \in [1 .. m -> Int],
           \A k \in 1 .. m - 1 : D[k] = D[k + 1]
    PROVE  \A k \in 1 .. m : D[k] = D[m]
<1> DEFINE T == {k \in 1 .. m : D[k] # D[m]}
<1> SUFFICES ASSUME T # {} PROVE FALSE
  OBVIOUS
<1>1. T \in SUBSET Nat /\ IsFiniteSet(T)
  <2>1. IsFiniteSet(1 .. m)
    BY FS_Interval
  <2> QED
    BY <2>1, FS_Subset
<1>a. \A k \in T : k \in 1 .. m - 1 /\ D[k] # D[m]
  OBVIOUS
<1>b. \A k \in 1 .. m : k \notin T => D[k] = D[m]
  OBVIOUS
<1> HIDE DEF T
<1>2. Cardinality(T) \in Nat \ {0}
  BY <1>1, FS_CardinalityType, FS_EmptySet
<1>3. PICK c \in 1 .. Cardinality(T) : c = Cardinality(T)
  BY <1>2
<1>4. PICK x \in T : x = Nth(T, c)
  BY <1>1, NthIs
<1>5. Rank(T, x) = Cardinality(T) - 1
  BY <1>1, <1>3, <1>4, NthIs
<1>6. x \in 1 .. m - 1 /\ D[x] # D[m]
  BY <1>4, <1>a
<1>7. x + 1 \notin T
  <2> SUFFICES ASSUME x + 1 \in T PROVE FALSE
    OBVIOUS
  <2>1. Rank(T, x + 1) < Cardinality(T) /\ Rank(T, x + 1) \in Nat
    BY <1>1, RankType
  <2>2. Rank(T, x) < Rank(T, x + 1)
    <3>1. x \in Nat /\ x + 1 \in Nat /\ x < x + 1
      BY <1>6
    <3> QED
      BY <1>1, <3>1, RankGrows
  <2> QED
    BY <1>2, <1>5, <2>1, <2>2
<1> QED
  BY <1>6, <1>7, <1>b


-----------------------------------------------------------------------------
(* Host names and their labels                                             *)

(* The characters of host names.  A dot, a small letter and a digit are    *)
(* strings too; the provers are told so.                                   *)
Chars == STRING \cup {".", "a", "1"}

(* The cuts of a host name run from 0 to one past its end, with the dots   *)
(* in between.                                                             *)
LEMMA CutsOf ==
    ASSUME NEW s \in Seq(Chars)
    PROVE  /\ Cuts(s) \in SUBSET Nat /\ IsFiniteSet(Cuts(s))
           /\ 0 \in Cuts(s) /\ Len(s) + 1 \in Cuts(s)
           /\ \A x \in Cuts(s) : x <= Len(s) + 1
           /\ \A p \in 1 .. Len(s) : p \in Cuts(s) <=> s[p] = "."
<1>1. Len(s) \in Nat /\ DOMAIN s = 1 .. Len(s)
  OBVIOUS
<1>2. \A x \in Cuts(s) : x \in 0 .. Len(s) + 1
  BY <1>1 DEF Cuts
<1>3. IsFiniteSet(0 .. Len(s) + 1)
  BY <1>1, FS_Interval
<1>4. IsFiniteSet(Cuts(s))
  BY <1>2, <1>3, FS_Subset
<1> QED
  BY <1>1, <1>2, <1>4 DEF Cuts

(* The first cut is 0 and the last one is past the end.                    *)
LEMMA CutsEnds ==
    ASSUME NEW s \in Seq(Chars), NEW C, C = Cuts(s)
    PROVE  /\ Cardinality(C) \in Nat /\ Cardinality(C) >= 2
           /\ Rank(C, 0) = 0 /\ Rank(C, Len(s) + 1) = Cardinality(C) - 1
           /\ Nth(C, 1) = 0 /\ Nth(C, Cardinality(C)) = Len(s) + 1
<1>1. /\ C \in SUBSET Nat /\ IsFiniteSet(C) /\ 0 \in C /\ Len(s) + 1 \in C
      /\ \A x \in C : x <= Len(s) + 1
  BY CutsOf
<1>2. PICK n \in Nat : n = Cardinality(C)
  BY <1>1, FS_CardinalityType
<1>3. PICK e \in Nat : e = Len(s) + 1
  OBVIOUS
<1>4. Below(C, 0) = {}
  BY <1>1 DEF Below
<1>5. Rank(C, 0) = 0
  BY <1>4, FS_EmptySet DEF Rank
<1>6. Below(C, e) = C \ {e}
  <2>1. \A x \in C : x < e <=> x # e
    BY <1>1, <1>3
  <2> QED
    BY <2>1 DEF Below
<1>7. Rank(C, e) = n - 1
  BY <1>1, <1>2, <1>3, <1>6, FS_RemoveElement DEF Rank
<1>8. Rank(C, 0) < Rank(C, e)
  BY <1>1, <1>3, RankGrows
<1>9. Nth(C, Rank(C, 0) + 1) = 0 /\ Nth(C, Rank(C, e) + 1) = e
  BY <1>1, <1>3, NthOfRank
<1> QED
  BY <1>2, <1>3, <1>5, <1>7, <1>8, <1>9

(* What lies between two places of a host name.                            *)
Part(s, a, b) == SubSeq(s, a + 1, b - 1)

(* Its length and its characters.                                          *)
LEMMA PartOf ==
    ASSUME NEW s \in Seq(Chars), NEW a \in Nat, NEW b \in Nat, a < b, b <= Len(s) + 1
    PROVE  /\ Part(s, a, b) \in Seq(Chars) /\ Len(Part(s, a, b)) = b - a - 1
           /\ \A q \in 1 .. b - a - 1 : Part(s, a, b)[q] = s[a + q]
<1>1. PICK u : u = SubSeq(s, a + 1, b - 1)
  OBVIOUS
<1>2. /\ u \in Seq(Chars) /\ Len(u) = b - a - 1
      /\ \A q \in 1 .. b - a - 1 : u[q] = s[a + q]
  BY <1>1
<1> QED
  BY <1>1, <1>2 DEF Part

(* What it is for a sequence to end another one.                           *)
LEMMA Suffix ==
    ASSUME NEW X, NEW u \in Seq(X), NEW v \in Seq(X)
    PROVE  IsSuffix(u, v)
             <=> /\ Len(u) <= Len(v)
                 /\ \A k \in 1 .. Len(u) : u[k] = v[Len(v) - Len(u) + k]
<1>1. PICK ur : ur = Reverse(u)
  OBVIOUS
<1>2. PICK vr : vr = Reverse(v)
  OBVIOUS
<1>a. PICK m \in Nat, n \in Nat : m = Len(u) /\ n = Len(v)
  OBVIOUS
<1>3. ur \in Seq(X) /\ Len(ur) = m /\ \A k \in 1 .. m : ur[k] = u[m - k + 1]
  BY <1>1, <1>a DEF Reverse
<1>4. vr \in Seq(X) /\ Len(vr) = n /\ \A k \in 1 .. n : vr[k] = v[n - k + 1]
  BY <1>2, <1>a DEF Reverse
<1>5. IsSuffix(u, v) <=> m <= n /\ \A k \in 1 .. m : ur[k] = vr[k]
  BY <1>1, <1>2, <1>3, <1>4 DEF IsSuffix, IsPrefix
<1>6. ASSUME m <= n, NEW k \in 1 .. m
      PROVE  /\ ur[m - k + 1] = u[k] /\ vr[m - k + 1] = v[n - m + k]
             /\ m - k + 1 \in 1 .. m
  <2>1. PICK j \in 1 .. m : j = m - k + 1
    BY <1>6
  <2>2. j \in 1 .. n /\ m - j + 1 = k /\ n - j + 1 = n - m + k
    BY <1>6, <2>1
  <2> QED
    BY <1>3, <1>4, <2>1, <2>2
<1>7. ASSUME m <= n, NEW k \in 1 .. m
      PROVE  ur[k] = u[m - k + 1] /\ vr[k] = v[n - m + (m - k + 1)] /\ m - k + 1 \in 1 .. m
  <2>1. k \in 1 .. n /\ n - k + 1 = n - m + (m - k + 1)
    BY <1>7
  <2> QED
    BY <1>3, <1>4, <2>1
<1>8. ASSUME m <= n
      PROVE  (\A k \in 1 .. m : ur[k] = vr[k]) <=> \A k \in 1 .. m : u[k] = v[n - m + k]
  <2>1. ASSUME \A k \in 1 .. m : ur[k] = vr[k], NEW k \in 1 .. m PROVE u[k] = v[n - m + k]
    BY <1>6, <1>8, <2>1
  <2>2. ASSUME \A k \in 1 .. m : u[k] = v[n - m + k], NEW k \in 1 .. m PROVE ur[k] = vr[k]
    BY <1>7, <1>8, <2>2
  <2> QED
    BY <2>1, <2>2
<1> QED
  BY <1>a, <1>5, <1>8

(* _dns_within on characters: the constraint is the end of the name, and   *)
(* what stands before it, if anything does, is a dot.                      *)
Ends(s, t, d) ==
    /\ Len(s) = Len(t) + d /\ (d = 0 \/ s[d] = ".")
    /\ \A p \in 1 .. Len(t) : s[d + p] = t[p]

(* That is what the code tests.                                            *)
LEMMA WithinEnds ==
    ASSUME NEW s \in Seq(Chars), NEW t \in Seq(Chars)
    PROVE  _dns_within(s, t) <=> \E d \in Nat : Ends(s, t, d)
<1>1. s = t <=> Ends(s, t, 0)
  BY DEF Ends
<1>2. PICK u : u = <<".">> \o t
  OBVIOUS
<1>3. /\ u \in Seq(Chars) /\ Len(u) = Len(t) + 1 /\ u[1] = "."
      /\ \A p \in 1 .. Len(t) : u[p + 1] = t[p]
  <2>1. PICK w : w = <<".">>
    OBVIOUS
  <2>a. Len(w) = 1
    BY <2>1
  <2>b. w[1] = "."
    BY <2>1
  <2>c. w \in Seq(Chars)
    BY <2>1 DEF Chars
  <2>2. w \in Seq(Chars) /\ Len(w) = 1 /\ w[1] = "."
    BY <2>a, <2>b, <2>c
  <2>3. /\ u \in Seq(Chars) /\ Len(u) = Len(w) + Len(t)
        /\ \A i \in 1 .. Len(w) + Len(t) : u[i] = IF i <= Len(w) THEN w[i] ELSE t[i - Len(w)]
    BY <1>2, <2>1, <2>2, ConcatProperties
  <2>4. Len(t) \in Nat
    OBVIOUS
  <2> QED
    BY <2>2, <2>3, <2>4
<1>4. ASSUME endswith(s, u) PROVE \E d \in Nat : Ends(s, t, d)
  <2>0. Len(t) + 1 <= Len(s) /\ Len(t) \in Nat /\ Len(s) \in Nat
    BY <1>3, <1>4 DEF endswith
  <2>1. PICK d \in Nat \ {0} : Len(s) = Len(t) + d /\ d = Len(s) - Len(t)
    BY <2>0
  <2>2. SubSeq(s, d, Len(s)) = u
    BY <1>3, <1>4, <2>0, <2>1 DEF endswith
  <2>3. \A q \in 1 .. Len(t) + 1 : u[q] = s[d + q - 1]
    <3>1. PICK l \in Nat : l = Len(s)
      OBVIOUS
    <3>2. \A i \in d .. l : s[i] \in Chars
      BY <2>1, <3>1, ElementOfSeq
    <3>3. \A i \in 1 .. l - d + 1 : SubSeq(s, d, l)[i] = s[d + i - 1]
      BY <3>2, SubSeqProperties
    <3> QED
      BY <2>0, <2>1, <2>2, <3>1, <3>3
  <2>4. s[d] = "."
    BY <1>3, <2>1, <2>3
  <2>5. \A p \in 1 .. Len(t) : s[d + p] = t[p]
    <3> TAKE p \in 1 .. Len(t)
    <3>1. p + 1 \in 1 .. Len(t) + 1 /\ d + (p + 1) - 1 = d + p
      BY <2>1
    <3> QED
      BY <1>3, <2>3, <3>1
  <2> QED
    BY <2>1, <2>4, <2>5 DEF Ends
<1>5. ASSUME NEW d \in Nat \ {0}, Ends(s, t, d) PROVE endswith(s, u)
  <2>1. Len(s) = Len(t) + d /\ s[d] = "." /\ \A p \in 1 .. Len(t) : s[d + p] = t[p]
    BY <1>5 DEF Ends
  <2>2. PICK v : v = SubSeq(s, d, Len(s))
    OBVIOUS
  <2>3. /\ v \in Seq(Chars) /\ Len(v) = Len(t) + 1
        /\ \A q \in 1 .. Len(t) + 1 : v[q] = s[d + q - 1]
    BY <2>1, <2>2
  <2>4. \A q \in 1 .. Len(t) + 1 : v[q] = u[q]
    <3> TAKE q \in 1 .. Len(t) + 1
    <3>1. CASE q = 1
      BY <1>3, <2>1, <2>3, <3>1
    <3>2. CASE q # 1
      <4>1. PICK p \in 1 .. Len(t) : q = p + 1
        BY <3>2
      <4>2. v[q] = s[d + p]
        BY <2>3, <4>1
      <4> QED
        BY <1>3, <2>1, <4>1, <4>2
    <3> QED
      BY <3>1, <3>2
  <2>5. v = u
    BY <1>3, <2>3, <2>4
  <2> QED
    BY <1>3, <2>1, <2>2, <2>5 DEF endswith
<1> QED
  BY <1>1, <1>2, <1>4, <1>5 DEF _dns_within


(* The cuts of a host name in their order, and how many there are.         *)
Cut(s, k) == Nth(Cuts(s), k)

Count(s) == Cardinality(Cuts(s))

(* The labels of a host name are sequences of characters, one for each two *)
(* neighbouring cuts.                                                      *)
LEMMA LabelsOf ==
    ASSUME NEW s \in Seq(Chars)
    PROVE  /\ Count(s) \in Nat /\ Count(s) >= 2
           /\ Cut(s, 1) = 0 /\ Cut(s, Count(s)) = Len(s) + 1
           /\ \A k \in 1 .. Count(s) : Cut(s, k) \in Cuts(s) /\ Cut(s, k) \in Nat
           /\ \A k \in 1 .. Count(s) - 1 : /\ Cut(s, k) < Cut(s, k + 1)
                                           /\ Cut(s, k + 1) <= Len(s) + 1
           /\ Labels(s) = [k \in 1 .. Count(s) - 1 |-> Part(s, Cut(s, k), Cut(s, k + 1))]
           /\ Labels(s) \in Seq(Seq(Chars)) /\ Len(Labels(s)) = Count(s) - 1
<1> DEFINE C == Cuts(s)
<1>1. /\ C \in SUBSET Nat /\ IsFiniteSet(C)
      /\ \A x \in C : x <= Len(s) + 1
  BY CutsOf
<1>a. PICK n \in Nat : n = Count(s) /\ n = Cardinality(C)
  BY <1>1, FS_CardinalityType DEF Count
<1>2. n >= 2 /\ n - 1 \in Nat /\ Cut(s, 1) = 0 /\ Cut(s, n) = Len(s) + 1
  BY <1>a, CutsEnds DEF Cut
<1> HIDE DEF C
<1>3. \A k \in 1 .. n - 1 : k \in 1 .. n /\ k + 1 \in 1 .. n /\ k < k + 1
  OBVIOUS
<1>b. \A k : Cut(s, k) = Nth(C, k)
  BY DEF C, Cut
<1>4. /\ \A k \in 1 .. n : Cut(s, k) \in C /\ Cut(s, k) \in Nat
      /\ \A k \in 1 .. n - 1 : Cut(s, k) < Cut(s, k + 1)
  BY <1>1, <1>3, <1>a, <1>b, NthIs, NthGrows
<1>5. Labels(s) = [k \in 1 .. n - 1 |-> Part(s, Cut(s, k), Cut(s, k + 1))]
  BY <1>a DEF Labels, Part, Cut, C
<1>6. \A k \in 1 .. n - 1 : Part(s, Cut(s, k), Cut(s, k + 1)) \in Seq(Chars)
  <2> TAKE k \in 1 .. n - 1
  <2>1. PICK a \in Nat, b \in Nat : /\ a = Cut(s, k) /\ b = Cut(s, k + 1)
                                    /\ a < b /\ b <= Len(s) + 1
    BY <1>1, <1>3, <1>4
  <2>2. SubSeq(s, a + 1, b - 1) \in Seq(Chars)
    BY <2>1
  <2> QED
    BY <2>1, <2>2 DEF Part
<1>7. PICK L : L = Labels(s)
  OBVIOUS
<1>8. L \in [1 .. n - 1 -> Seq(Chars)]
  BY <1>5, <1>6, <1>7
<1>9. L \in Seq(Seq(Chars)) /\ Len(L) = n - 1
  BY <1>2, <1>8
<1>10. \A k \in 1 .. n - 1 : Cut(s, k) < Cut(s, k + 1) /\ Cut(s, k + 1) <= Len(s) + 1
  BY <1>1, <1>3, <1>4
<1> QED
  BY <1>a, <1>2, <1>4, <1>5, <1>7, <1>9, <1>10 DEF C

(* Two labels are equal when their cuts are as far apart and they agree in *)
(* every character.                                                        *)
LEMMA SameLabel ==
    ASSUME NEW s \in Seq(Chars), NEW t \in Seq(Chars),
           NEW j \in 1 .. Count(s) - 1, NEW k \in 1 .. Count(t) - 1
    PROVE  Labels(s)[j] = Labels(t)[k]
             <=> /\ Cut(s, j + 1) - Cut(s, j) = Cut(t, k + 1) - Cut(t, k)
                 /\ \A q \in 1 .. Cut(s, j + 1) - Cut(s, j) - 1 :
                        s[Cut(s, j) + q] = t[Cut(t, k) + q]
<1>0. /\ j \in 1 .. Count(s) /\ j + 1 \in 1 .. Count(s)
      /\ k \in 1 .. Count(t) /\ k + 1 \in 1 .. Count(t)
  <2>1. Count(s) \in Nat /\ Count(t) \in Nat
    BY LabelsOf
  <2> QED
    BY <2>1
<1>1. PICK a \in Nat, b \in Nat : a = Cut(s, j) /\ b = Cut(s, j + 1)
  BY <1>0, LabelsOf
<1>2. PICK c \in Nat, d \in Nat : c = Cut(t, k) /\ d = Cut(t, k + 1)
  BY <1>0, LabelsOf
<1>3. a < b /\ b <= Len(s) + 1 /\ c < d /\ d <= Len(t) + 1
  BY <1>1, <1>2, LabelsOf
<1>4. Part(s, a, b) = Part(t, c, d)
        <=> b - a = d - c /\ \A q \in 1 .. b - a - 1 : s[a + q] = t[c + q]
  <2>1. PICK u : u = Part(s, a, b)
    OBVIOUS
  <2>2. PICK v : v = Part(t, c, d)
    OBVIOUS
  <2>3. /\ u \in Seq(Chars) /\ Len(u) = b - a - 1
        /\ \A q \in 1 .. b - a - 1 : u[q] = s[a + q]
    BY <1>3, <2>1, PartOf
  <2>4. /\ v \in Seq(Chars) /\ Len(v) = d - c - 1
        /\ \A q \in 1 .. d - c - 1 : v[q] = t[c + q]
    BY <1>3, <2>2, PartOf
  <2>5. u = v <=> Len(u) = Len(v) /\ \A q \in 1 .. Len(u) : u[q] = v[q]
    BY <2>3, <2>4, SeqEqual
  <2>6. Len(u) = Len(v) <=> b - a = d - c
    BY <2>3, <2>4
  <2>7. ASSUME b - a = d - c
        PROVE  (\A q \in 1 .. Len(u) : u[q] = v[q])
                 <=> \A q \in 1 .. b - a - 1 : s[a + q] = t[c + q]
    BY <2>3, <2>4, <2>7
  <2> QED
    BY <2>1, <2>2, <2>5, <2>6, <2>7
<1>5. Labels(s)[j] = Part(s, a, b) /\ Labels(t)[k] = Part(t, c, d)
  BY <1>1, <1>2, LabelsOf
<1> QED
  BY <1>1, <1>2, <1>4, <1>5

(* A name that has the labels of a constraint at its end has its           *)
(* characters there, behind a dot: the differences between the cuts of the *)
(* two are all the same.                                                   *)
LEMMA LabelsToEnds ==
    ASSUME NEW s \in Seq(Chars), NEW t \in Seq(Chars),
           IsSuffix(Labels(t), Labels(s))
    PROVE  \E d \in Nat : Ends(s, t, d)
<1>1. PICK C, D : C = Cuts(s) /\ D = Cuts(t)
  OBVIOUS
<1>2. /\ C \in SUBSET Nat /\ IsFiniteSet(C)
      /\ \A p \in 1 .. Len(s) : p \in C <=> s[p] = "."
  BY <1>1, CutsOf
<1>3. /\ D \in SUBSET Nat /\ IsFiniteSet(D) /\ 0 \in D
      /\ \A p \in 1 .. Len(t) : p \in D <=> t[p] = "."
  BY <1>1, CutsOf
<1>4. PICK n \in Nat, m \in Nat : n = Count(s) /\ m = Count(t)
  BY LabelsOf
<1>5. /\ m >= 2 /\ Cut(t, 1) = 0 /\ Cut(t, m) = Len(t) + 1
      /\ m = Cardinality(D) /\ Rank(D, 0) = 0 /\ Rank(D, Len(t) + 1) = m - 1
  BY <1>1, <1>4, CutsEnds, LabelsOf DEF Count
<1>6. n >= 2 /\ Cut(s, n) = Len(s) + 1
  BY <1>4, LabelsOf
<1>7. /\ Labels(s) \in Seq(Seq(Chars)) /\ Len(Labels(s)) = n - 1
      /\ Labels(t) \in Seq(Seq(Chars)) /\ Len(Labels(t)) = m - 1
  BY <1>4, LabelsOf
<1>8. /\ m - 1 <= n - 1
      /\ \A k \in 1 .. m - 1 : Labels(t)[k] = Labels(s)[(n - 1) - (m - 1) + k]
  <2>1. PICK u \in Seq(Seq(Chars)), v \in Seq(Seq(Chars)) :
           u = Labels(t) /\ v = Labels(s)
    BY <1>7
  <2>2. IsSuffix(u, v)
    BY <2>1
  <2>3. Len(u) <= Len(v) /\ \A k \in 1 .. Len(u) : u[k] = v[Len(v) - Len(u) + k]
    BY <2>2, Suffix, Zenon
  <2>4. Len(u) = m - 1 /\ Len(v) = n - 1
    BY <1>7, <2>1
  <2>5. m - 1 <= n - 1 /\ \A k \in 1 .. m - 1 : u[k] = v[(n - 1) - (m - 1) + k]
    BY <2>3, <2>4
  <2> QED
    BY <2>1, <2>5
<1>9. PICK e \in Nat : n = m + e
  BY <1>8
<1>10. \A k \in 1 .. m - 1 : e + k \in 1 .. n - 1 /\ Labels(s)[e + k] = Labels(t)[k]
  <2> TAKE k \in 1 .. m - 1
  <2>1. (n - 1) - (m - 1) + k = e + k /\ e + k \in 1 .. n - 1
    BY <1>9
  <2> QED
    BY <1>8, <2>1
<1>11. \A k \in 1 .. m : /\ e + k \in 1 .. n /\ Cut(s, e + k) \in C /\ Cut(t, k) \in D
                         /\ Cut(s, e + k) \in Nat /\ Cut(t, k) \in Nat
  <2> TAKE k \in 1 .. m
  <2>1. e + k \in 1 .. n
    BY <1>9
  <2> QED
    BY <1>1, <1>4, <2>1, LabelsOf
<1> DEFINE A == [k \in 1 .. m |-> Cut(s, e + k) - Cut(t, k)]
<1>12. A \in [1 .. m -> Int]
  <2>1. \A k \in 1 .. m : Cut(s, e + k) - Cut(t, k) \in Int
    BY <1>11
  <2> QED
    BY <2>1
<1>13. \A k \in 1 .. m - 1 :
         /\ A[k] = A[k + 1]
         /\ \A q \in 1 .. Cut(t, k + 1) - Cut(t, k) - 1 : s[Cut(s, e + k) + q] = t[Cut(t, k) + q]
  <2> TAKE k \in 1 .. m - 1
  <2>1. k \in 1 .. m /\ k + 1 \in 1 .. m /\ e + (k + 1) = (e + k) + 1
    OBVIOUS
  <2>2. PICK a \in Nat, b \in Nat : a = Cut(s, e + k) /\ b = Cut(s, (e + k) + 1)
    BY <1>11, <2>1
  <2>3. PICK c \in Nat, d \in Nat : c = Cut(t, k) /\ d = Cut(t, k + 1)
    BY <1>11, <2>1
  <2>4. PICK j \in 1 .. Count(s) - 1 : j = e + k
    BY <1>4, <1>10
  <2>5. k \in 1 .. Count(t) - 1 /\ Labels(s)[j] = Labels(t)[k]
    BY <1>4, <1>10, <2>4
  <2>6. /\ Cut(s, j + 1) - Cut(s, j) = Cut(t, k + 1) - Cut(t, k)
        /\ \A q \in 1 .. Cut(s, j + 1) - Cut(s, j) - 1 : s[Cut(s, j) + q] = t[Cut(t, k) + q]
    BY <2>5, SameLabel, Zenon
  <2>7. b - a = d - c /\ \A q \in 1 .. d - c - 1 : s[a + q] = t[c + q]
    BY <2>2, <2>3, <2>4, <2>6
  <2>8. A[k] = a - c /\ A[k + 1] = b - d
    BY <2>1, <2>2, <2>3
  <2> HIDE DEF A
  <2>9. A[k] = A[k + 1]
    BY <2>7, <2>8
  <2> QED
    BY <2>2, <2>3, <2>7, <2>9
<1>14. \A k \in 1 .. m : A[k] = A[m]
  <2> HIDE DEF A
  <2>1. m \in Nat \ {0} /\ \A k \in 1 .. m - 1 : A[k] = A[k + 1]
    BY <1>5, <1>13
  <2> QED
    BY <1>12, <2>1, Constant
<1>15. m \in 1 .. m /\ 1 \in 1 .. m /\ e + m = n
  BY <1>5, <1>9
<1>16. PICK d \in Nat : d \in C /\ A[1] = d
  <2>1. Cut(s, e + 1) \in C /\ Cut(s, e + 1) \in Nat
    BY <1>11, <1>15
  <2>2. A[1] = Cut(s, e + 1) - 0
    BY <1>5, <1>15
  <2> HIDE DEF A
  <2> QED
    BY <2>1, <2>2
<1>17. Len(s) = Len(t) + d
  <2>1. A[m] = (Len(s) + 1) - (Len(t) + 1)
    BY <1>5, <1>6, <1>15
  <2>2. A[m] = d
    BY <1>14, <1>15, <1>16
  <2>3. Len(s) \in Nat /\ Len(t) \in Nat
    OBVIOUS
  <2> HIDE DEF A
  <2> QED
    BY <2>1, <2>2, <2>3
<1>18. \A k \in 1 .. m : Cut(s, e + k) = d + Cut(t, k)
  <2> TAKE k \in 1 .. m
  <2>1. PICK a \in Nat, c \in Nat : a = Cut(s, e + k) /\ c = Cut(t, k)
    BY <1>11
  <2>2. A[k] = a - c
    BY <2>1
  <2>3. A[k] = d
    BY <1>14, <1>15, <1>16
  <2> HIDE DEF A
  <2> QED
    BY <2>1, <2>2, <2>3
<1> HIDE DEF A
<1>19. d = 0 \/ s[d] = "."
  <2>1. d # 0 => d \in 1 .. Len(s)
    <3>1. Len(t) \in Nat /\ Len(s) \in Nat
      OBVIOUS
    <3> QED
      BY <1>17, <3>1
  <2> QED
    BY <1>2, <1>16, <2>1
<1>20. ASSUME NEW p \in 1 .. Len(t) PROVE s[d + p] = t[p]
  <2>1. p \in Nat /\ Len(t) \in Nat /\ d + p \in 1 .. Len(s)
    BY <1>17
  <2>2. CASE p \in D
    <3>1. PICK k \in 1 .. m : Cut(t, k) = p
      BY <1>1, <1>3, <1>5, <2>2, NthOfRank DEF Cut
    <3>2. d + p \in C
      BY <1>11, <1>18, <3>1
    <3> QED
      BY <1>2, <1>3, <2>1, <2>2, <3>2
  <2>3. CASE p \notin D
    <3>0. PICK l \in Nat : l = Len(t) + 1
      BY <2>1
    <3>1. 0 < p /\ p < l
      BY <2>1, <3>0
    <3>2. Rank(D, 0) < Rank(D, p) /\ Rank(D, p) <= Rank(D, l) /\ Rank(D, p) \in Nat
      BY <1>3, <2>1, <3>1, RankGrows, RankType
    <3>3. PICK k \in 1 .. m - 1 : k = Rank(D, p)
      BY <1>5, <3>0, <3>2
    <3>4. PICK c \in Nat, b \in Nat : /\ c = Cut(t, k) /\ b = Cut(t, k + 1)
                                      /\ c < p /\ p < b
      <4>1. k \in 1 .. m /\ k + 1 \in 1 .. m
        OBVIOUS
      <4>2. Cut(t, k) \in Nat /\ Cut(t, k + 1) \in Nat
        BY <1>11, <4>1
      <4>3. Cut(t, k) < p /\ p < Cut(t, k + 1)
        BY <1>1, <1>3, <1>5, <2>1, <2>3, <3>3, NthAround DEF Cut
      <4> QED
        BY <4>2, <4>3
    <3>5. PICK q \in 1 .. b - c - 1 : q = p - c
      BY <2>1, <3>4
    <3>6. s[Cut(s, e + k) + q] = t[c + q]
      BY <1>13, <3>4, <3>5
    <3>7. Cut(s, e + k) = d + c
      <4>1. k \in 1 .. m
        OBVIOUS
      <4> QED
        BY <1>18, <3>4, <4>1
    <3>8. p \in Int /\ c \in Int /\ d \in Int /\ q = p - c
      BY <2>1, <3>5
    <3>9. d + c + q = d + p /\ c + q = p
      BY <3>8
    <3> QED
      BY <3>6, <3>7, <3>9
  <2> QED
    BY <2>2, <2>3
<1> QED
  BY <1>17, <1>19, <1>20 DEF Ends


(* Where a name ends in a constraint, behind a dot, the cuts of the        *)
(* constraint are cuts of the name, shifted.                               *)
LEMMA ShiftedCuts ==
    ASSUME NEW s \in Seq(Chars), NEW t \in Seq(Chars), NEW d \in Nat, Ends(s, t, d),
           NEW y \in 0 .. Len(t) + 1
    PROVE  d + y \in Cuts(s) <=> y \in Cuts(t)
<1>1. Len(t) \in Nat /\ Len(s) = Len(t) + d /\ (d = 0 \/ s[d] = ".")
  BY DEF Ends
<1>2. CASE y = 0
  <2>1. d = 0 \/ d \in 1 .. Len(s)
    BY <1>1
  <2> QED
    BY <1>1, <1>2, <2>1, CutsOf
<1>3. CASE y = Len(t) + 1
  <2>1. d + y = Len(s) + 1
    BY <1>1, <1>3
  <2> QED
    BY <1>3, <2>1, CutsOf
<1>4. CASE y \in 1 .. Len(t)
  <2>1. s[d + y] = t[y]
    BY <1>4 DEF Ends
  <2>2. d + y \in 1 .. Len(s)
    BY <1>1, <1>4
  <2> QED
    BY <1>4, <2>1, <2>2, CutsOf
<1> QED
  BY <1>1, <1>2, <1>3, <1>4

(* Below a place of the name lie the cuts before the constraint and those  *)
(* of the constraint up to there.                                          *)
LEMMA ShiftedRanks ==
    ASSUME NEW s \in Seq(Chars), NEW t \in Seq(Chars), NEW d \in Nat, Ends(s, t, d),
           NEW y \in 0 .. Len(t) + 1
    PROVE  Rank(Cuts(s), d + y) = Rank(Cuts(s), d) + Rank(Cuts(t), y)
<1>1. PICK C, D : C = Cuts(s) /\ D = Cuts(t)
  OBVIOUS
<1>2. C \in SUBSET Nat /\ IsFiniteSet(C) /\ D \in SUBSET Nat /\ IsFiniteSet(D)
  BY <1>1, CutsOf
<1>3. PICK l \in Nat : l = Len(t) + 1
  OBVIOUS
<1>4. \A z \in 0 .. l : d + z \in C <=> z \in D
  BY <1>1, <1>3, ShiftedCuts
<1>5. y \in 0 .. l /\ y \in Nat /\ d + y \in Nat
  BY <1>3
<1>6. PICK F, G : F = Below(C, d) /\ G = Below(D, y)
  OBVIOUS
<1>7. IsFiniteSet(F) /\ IsFiniteSet(G) /\ G \in SUBSET Nat
  BY <1>2, <1>5, <1>6, RankType DEF Below
<1> DEFINE E == {d + z : z \in G}
<1>8. IsFiniteSet(E) /\ Cardinality(E) = Cardinality(G)
  <2> DEFINE f == [z \in G |-> d + z]
  <2>1. /\ f \in [G -> E] /\ \A a, b \in G : f[a] = f[b] => a = b
        /\ \A x \in E : \E z \in G : f[z] = x
    BY <1>7
  <2>2. f \in Bijection(G, E)
    BY <2>1 DEF Bijection, Injection, Surjection, IsInjective
  <2>3. ExistsBijection(G, E)
    BY <2>2 DEF ExistsBijection
  <2> QED
    BY <1>7, <2>3, FS_Bijection
<1>9. \A x : x \in E <=> x \in C /\ x < d + y /\ d <= x
  <2>1. ASSUME NEW x \in E PROVE x \in C /\ x < d + y /\ d <= x
    <3>1. PICK z \in G : x = d + z
      BY <2>1
    <3>2. z \in D /\ z \in Nat /\ z < y
      BY <1>2, <1>6 DEF Below
    <3>3. z \in 0 .. l
      BY <1>5, <3>2
    <3> QED
      BY <1>4, <1>5, <3>1, <3>2, <3>3
  <2>2. ASSUME NEW x \in C, x < d + y, d <= x PROVE x \in E
    <3>1. PICK z \in Nat : x = d + z
      BY <1>2, <2>2
    <3>2. z < y /\ z \in 0 .. l
      BY <1>5, <2>2, <3>1
    <3>3. z \in G
      BY <1>4, <1>6, <3>1, <3>2 DEF Below
    <3> QED
      BY <3>1, <3>3
  <2> QED
    BY <2>1, <2>2
<1> HIDE DEF E
<1>10. Below(C, d + y) = F \cup E
  <2>1. \A x \in C : x < d + y <=> x < d \/ (x < d + y /\ d <= x)
    BY <1>2, <1>5
  <2> QED
    BY <1>6, <1>9, <2>1 DEF Below
<1>11. F \cap E = {}
  <2>1. \A x \in F : x \in Nat /\ x < d
    BY <1>2, <1>6 DEF Below
  <2>2. \A x \in E : d <= x
    BY <1>9
  <2> QED
    BY <2>1, <2>2
<1>12. Cardinality(F \cup E) = Cardinality(F) + Cardinality(E) - 0
  BY <1>7, <1>8, <1>11, FS_Union, FS_EmptySet
<1>13. Cardinality(F) \in Nat /\ Cardinality(G) \in Nat
  BY <1>7, FS_CardinalityType
<1>14. Cardinality(F \cup E) = Cardinality(F) + Cardinality(G)
  BY <1>8, <1>12, <1>13
<1> QED
  BY <1>1, <1>6, <1>10, <1>14 DEF Rank

(* So the labels of the constraint are at the end of those of the name.    *)
LEMMA EndsToLabels ==
    ASSUME NEW s \in Seq(Chars), NEW t \in Seq(Chars), NEW d \in Nat, Ends(s, t, d)
    PROVE  IsSuffix(Labels(t), Labels(s))
<1>1. PICK C, D : C = Cuts(s) /\ D = Cuts(t)
  OBVIOUS
<1>2. /\ C \in SUBSET Nat /\ IsFiniteSet(C) /\ D \in SUBSET Nat /\ IsFiniteSet(D)
      /\ \A x \in D : x <= Len(t) + 1
  BY <1>1, CutsOf
<1>3. PICK n \in Nat, m \in Nat : n = Count(s) /\ m = Count(t)
  BY LabelsOf
<1>4. n = Cardinality(C) /\ m = Cardinality(D) /\ n >= 2 /\ m >= 2
  BY <1>1, <1>3, LabelsOf DEF Count
<1>5. Rank(C, Len(s) + 1) = n - 1 /\ Rank(D, Len(t) + 1) = m - 1
  BY <1>1, <1>4, CutsEnds
<1>6. PICK e \in Nat : e = Rank(C, d)
  BY <1>2, RankType
<1>7. \A y \in 0 .. Len(t) + 1 : Rank(C, d + y) = e + Rank(D, y) /\ (d + y \in C <=> y \in D)
  BY <1>1, <1>6, ShiftedRanks, ShiftedCuts
<1>8. n = e + m
  <2>1. PICK l \in Nat : l = Len(t) + 1
    OBVIOUS
  <2>2. l \in 0 .. l /\ Len(s) + 1 = d + l
    BY <2>1 DEF Ends
  <2>3. Rank(C, d + l) = e + Rank(D, l)
    BY <1>7, <2>1, <2>2
  <2>4. n - 1 = e + (m - 1)
    BY <1>5, <2>1, <2>2, <2>3
  <2> QED
    BY <2>4
<1>9. \A k \in 1 .. m : /\ e + k \in 1 .. n /\ Cut(s, e + k) = d + Cut(t, k)
                        /\ Cut(t, k) \in Nat
  <2> TAKE k \in 1 .. m
  <2>1. PICK y \in D : y = Cut(t, k) /\ Rank(D, y) = k - 1
    BY <1>1, <1>2, <1>4, NthIs DEF Cut
  <2>2. y \in Nat /\ y \in 0 .. Len(t) + 1
    BY <1>2, <2>1
  <2>3. d + y \in C /\ Rank(C, d + y) = e + (k - 1)
    BY <1>7, <2>1, <2>2
  <2>4. PICK x \in C : x = d + y
    BY <2>3
  <2>5. Nth(C, Rank(C, x) + 1) = x
    BY <1>2, NthOfRank
  <2>6. Rank(C, x) + 1 = e + k
    BY <2>3, <2>4
  <2>7. Cut(s, e + k) = d + y
    BY <1>1, <2>4, <2>5, <2>6 DEF Cut
  <2>8. e + k \in 1 .. n
    BY <1>8
  <2> QED
    BY <2>1, <2>2, <2>7, <2>8
<1>10. \A k \in 1 .. m - 1 : Labels(t)[k] = Labels(s)[e + k]
  <2> TAKE k \in 1 .. m - 1
  <2>1. k \in 1 .. m /\ k + 1 \in 1 .. m /\ e + (k + 1) = (e + k) + 1
    OBVIOUS
  <2>2. PICK j \in 1 .. Count(s) - 1 : j = e + k
    BY <1>3, <1>8
  <2>3. PICK c \in Nat, b \in Nat : c = Cut(t, k) /\ b = Cut(t, k + 1)
    BY <1>9, <2>1
  <2>4. Cut(s, j) = d + c /\ Cut(s, j + 1) = d + b
    BY <1>9, <2>1, <2>2, <2>3
  <2>5. c < b /\ b <= Len(t) + 1
    BY <1>3, <2>3, LabelsOf
  <2>6. /\ (d + b) - (d + c) = b - c
        /\ \A q \in 1 .. (d + b) - (d + c) - 1 : s[(d + c) + q] = t[c + q]
    <3>1. (d + b) - (d + c) = b - c
      OBVIOUS
    <3>2. ASSUME NEW q \in 1 .. b - c - 1 PROVE s[(d + c) + q] = t[c + q]
      <4>1. c + q \in 1 .. Len(t) /\ d + (c + q) = (d + c) + q
        BY <2>5
      <4> QED
        BY <4>1 DEF Ends
    <3> QED
      BY <3>1, <3>2
  <2>7. /\ Cut(s, j + 1) - Cut(s, j) = Cut(t, k + 1) - Cut(t, k)
        /\ \A q \in 1 .. Cut(s, j + 1) - Cut(s, j) - 1 : s[Cut(s, j) + q] = t[Cut(t, k) + q]
    BY <2>3, <2>4, <2>6
  <2>8. k \in 1 .. Count(t) - 1
    BY <1>3
  <2>9. Labels(s)[j] = Labels(t)[k]
    BY <2>7, <2>8, SameLabel, Zenon
  <2> QED
    BY <2>2, <2>9
<1>11. PICK u \in Seq(Seq(Chars)), v \in Seq(Seq(Chars)) :
          u = Labels(t) /\ v = Labels(s) /\ Len(u) = m - 1 /\ Len(v) = n - 1
  BY <1>3, LabelsOf
<1>12. Len(u) <= Len(v) /\ \A k \in 1 .. Len(u) : u[k] = v[Len(v) - Len(u) + k]
  <2>1. Len(u) <= Len(v) /\ Len(v) - Len(u) = e
    BY <1>8, <1>11
  <2>2. \A k \in 1 .. m - 1 : u[k] = v[e + k]
    BY <1>10, <1>11
  <2> QED
    BY <1>11, <2>1, <2>2
<1>13. IsSuffix(u, v)
  BY <1>12, Suffix, Zenon
<1> QED
  BY <1>11, <1>13

(* The string test of _dns_within is the test by labels.                   *)
LEMMA WithinLabels ==
    ASSUME NEW s \in Seq(Chars), NEW t \in Seq(Chars)
    PROVE  _dns_within(s, t) <=> IsSuffix(Labels(t), Labels(s))
  BY WithinEnds, LabelsToEnds, EndsToLabels


-----------------------------------------------------------------------------
(* Addresses and networks                                                  *)

(* What is left of an address under the mask of a network is its first     *)
(* address exactly for the addresses of its range.                         *)
LEMMA MaskIsRange ==
    ASSUME NEW x \in Nat, NEW base \in Nat, NEW size \in Nat \ {0}, base % size = 0
    PROVE  x - (x % size) = base <=> x \in base .. base + size - 1
<1>1. PICK q \in Nat, r \in 0 .. size - 1 : x = size * q + r /\ r = x % size
  <2>1. x % size \in 0 .. size - 1 /\ x = size * (x \div size) + (x % size) /\ x \div size \in Nat
    OBVIOUS
  <2> QED
    BY <2>1
<1>2. PICK b \in Nat : base = size * b
  <2>1. base = size * (base \div size) + (base % size) /\ base \div size \in Nat
    OBVIOUS
  <2> QED
    BY <2>1
<1>3. size * q \in Nat /\ size * b \in Nat
  OBVIOUS
<1>4. x - (x % size) = base => x \in base .. base + size - 1
  BY <1>1, <1>3
<1>5. ASSUME x \in base .. base + size - 1 PROVE size * q = size * b
  <2>1. CASE q = b
    BY <2>1
  <2>2. CASE q < b
    <3>1. PICK k \in Nat : b = q + 1 + k
      BY <2>2
    <3>2. size * b = size * q + size + size * k /\ size * k \in Nat
      BY <3>1
    <3>3. size * b >= size * q + size
      BY <1>3, <3>2
    <3> QED
      BY <1>1, <1>2, <1>3, <1>5, <3>3
  <2>3. CASE b < q
    <3>1. PICK k \in Nat : q = b + 1 + k
      BY <2>3
    <3>2. size * q = size * b + size + size * k /\ size * k \in Nat
      BY <3>1
    <3>3. size * q >= size * b + size
      BY <1>3, <3>2
    <3> QED
      BY <1>1, <1>2, <1>3, <1>5, <3>3
  <2> QED
    BY <2>1, <2>2, <2>3
<1>6. x \in base .. base + size - 1 => x - (x % size) = base
  BY <1>1, <1>2, <1>3, <1>5
<1> QED
  BY <1>4, <1>6

-----------------------------------------------------------------------------
(* What the signer checks and what a relying party accepts                 *)

(* Names in small letters are names.                                       *)
LEMMA LowerType ==
    ASSUME NEW name \in Seq(Chars)
    PROVE  lower(name) \in Seq(Chars)
<1>1. PICK n \in Nat : n = Len(name) /\ DOMAIN name = 1 .. n
  OBVIOUS
<1>2. PICK f : f = lower(name)
  OBVIOUS
<1>3. \A k \in 1 .. n : name[k] \in Chars
  BY <1>1
<1>4. f \in [1 .. n -> Chars]
  BY <1>1, <1>2, <1>3 DEF lower, Chars
<1> QED
  BY <1>2, <1>4

(* The names that are checked: those of requests, and the dotted quad that *)
(* stands for a common name.                                               *)
Checked == SANs \cup {[form |-> "DNS", value |-> Quad]}

(* Their parts have the types that the lemmas above are about.             *)
LEMMA CheckedType ==
    ASSUME NEW san \in Checked
    PROVE  /\ san.form \in {"DNS", "IP", "EMAIL"}
           /\ san.form = "DNS" => san.value \in Seq(Chars)
           /\ san.form = "IP" => san.value.number \in Nat
<1>1. \A h \in Hosts : h \in Seq(Chars)
  <2>1. \A x \in STRING : x \in Chars
    BY DEF Chars
  <2> QED
    BY <2>1, SeqMonotonic, NamesAssumption
<1>2. CASE san \in SANs
  BY <1>1, <1>2, NamesAssumption DEF SANs
<1>3. CASE san = [form |-> "DNS", value |-> Quad]
  <2>1. "1" \in Chars /\ "." \in Chars
    BY DEF Chars
  <2>2. Quad \in Seq(Chars)
    BY <2>1 DEF Quad
  <2> QED
    BY <1>3, <2>2
<1> QED
  BY <1>2, <1>3 DEF Checked

(* So have the parts of a subtree.                                         *)
LEMMA SubtreeType ==
    ASSUME NEW c \in Subtrees
    PROVE  /\ c.form \in {"DNS", "IP", "EMAIL"}
           /\ c.form = "DNS" => c.value \in Seq(Chars)
           /\ c.form = "IP" => /\ c.value.base \in Nat /\ c.value.size \in Nat \ {0}
                               /\ c.value.base % c.value.size = 0
<1>1. \A h \in Domains : h \in Seq(Chars)
  <2>1. \A x \in STRING : x \in Chars
    BY DEF Chars
  <2> QED
    BY <2>1, SeqMonotonic, NamesAssumption
<1> QED
  BY <1>1, NamesAssumption DEF Subtrees

(* A subtree holds a name exactly when the test of its form says so; one   *)
(* for e-mail addresses holds none.                                        *)
LEMMA HoldsIsWithin ==
    ASSUME NEW c \in Subtrees, NEW san \in Checked
    PROVE  /\ c.form # san.form => ~ Holds(c, san)
           /\ c.form = "EMAIL" => ~ Holds(c, san)
           /\ c.form = "DNS" /\ san.form = "DNS" =>
                (Holds(c, san)
                   <=> _dns_within(lower(san.value), lower(c.value)))
           /\ c.form = "IP" /\ san.form = "IP" =>
                (Holds(c, san) <=> _ip_within(san.value, c.value))
<1>1. c.form # san.form => ~ Holds(c, san)
  BY DEF Holds
<1>2. c.form = "EMAIL" => ~ Holds(c, san)
  BY DEF Holds
<1>3. ASSUME c.form = "DNS", san.form = "DNS"
      PROVE  Holds(c, san) <=> _dns_within(lower(san.value), lower(c.value))
  <2>1. PICK s \in Seq(Chars), t \in Seq(Chars) :
           s = lower(san.value) /\ t = lower(c.value)
    BY <1>3, CheckedType, SubtreeType, LowerType
  <2>2. Holds(c, san) <=> IsSuffix(Labels(t), Labels(s))
    BY <1>3, <2>1 DEF Holds
  <2> QED
    BY <2>1, <2>2, WithinLabels
<1>4. ASSUME c.form = "IP", san.form = "IP"
      PROVE  Holds(c, san) <=> _ip_within(san.value, c.value)
  <2>1. PICK x \in Nat, base \in Nat, size \in Nat \ {0} :
           /\ x = san.value.number /\ base = c.value.base /\ size = c.value.size
           /\ base % size = 0
    BY <1>4, CheckedType, SubtreeType
  <2>2. Holds(c, san)
          <=> san.value.family = c.value.family /\ x \in base .. base + size - 1
    BY <1>4, <2>1 DEF Holds
  <2>3. _ip_within(san.value, c.value)
          <=> san.value.family = c.value.family /\ x - (x % size) = base
    BY <2>1 DEF _ip_within
  <2>4. x - (x % size) = base <=> x \in base .. base + size - 1
    <3>1. base % size = 0
      BY <2>1
    <3> QED
      BY <3>1, MaskIsRange
  <2> QED
    BY <2>2, <2>3, <2>4
<1> QED
  BY <1>1, <1>2, <1>3, <1>4


(* The check of each form is what a relying party finds acceptable, under  *)
(* whatever constraints; e-mail names are refused under any constraint on  *)
(* their form, which a relying party need not do.                          *)
LEMMA CheckIsAcceptable ==
    ASSUME permitted \in SUBSET Subtrees, excluded \in SUBSET Subtrees,
           NEW san \in Checked
    PROVE  /\ san.form = "DNS" => (Acceptable(san) <=> _check_dns(san.value))
           /\ san.form = "IP" => (Acceptable(san) <=> _check_ip(san.value))
           /\ san.form = "EMAIL" => (_check_unevaluable => Acceptable(san))
<1>1. ASSUME san.form = "DNS" PROVE Acceptable(san) <=> _check_dns(san.value)
  <2>1. \A c \in permitted \cup excluded :
          Holds(c, san)
            <=> c.form = "DNS" /\ _dns_within(lower(san.value), lower(c.value))
    BY <1>1, HoldsIsWithin, SubtreeType
  <2> QED
    BY <1>1, <2>1 DEF Acceptable, _check_dns
<1>2. ASSUME san.form = "IP" PROVE Acceptable(san) <=> _check_ip(san.value)
  <2>1. \A c \in permitted \cup excluded :
          Holds(c, san) <=> c.form = "IP" /\ _ip_within(san.value, c.value)
    BY <1>2, HoldsIsWithin, SubtreeType
  <2> QED
    BY <1>2, <2>1 DEF Acceptable, _check_ip
<1>3. ASSUME san.form = "EMAIL", _check_unevaluable PROVE Acceptable(san)
  <2>1. \A c \in permitted \cup excluded : c.form # "EMAIL" /\ ~ Holds(c, san)
    BY <1>3, HoldsIsWithin DEF _check_unevaluable
  <2> QED
    BY <1>3, <2>1 DEF Acceptable
<1> QED
  BY <1>1, <1>2, <1>3

(* The whole check: every name that the certificate speaks for is          *)
(* acceptable, and no e-mail name meets an e-mail constraint.              *)
LEMMA CheckIsAccepted ==
    ASSUME permitted \in SUBSET Subtrees, excluded \in SUBSET Subtrees,
           NEW cn \in CNs, NEW sans \in SUBSET SANs
    PROVE  check_name_constraints(cn, sans)
             <=> /\ RelyingPartyAccepts([cn |-> cn, sans |-> sans])
                 /\ ~ (/\ \E san \in sans : san.form = "EMAIL"
                       /\ \E c \in permitted \cup excluded : c.form = "EMAIL")
<1> DEFINE host == [form |-> "DNS", value |-> HostOf(cn)]
           speaks == /\ \A san \in sans : san.form # "DNS"
                     /\ cn # Absent /\ _is_hostname(cn)
           email == /\ \E san \in sans : san.form = "EMAIL"
                    /\ \E c \in permitted \cup excluded : c.form = "EMAIL"
<1>1. \A san \in sans : san \in Checked /\ san.form \in {"DNS", "IP", "EMAIL"}
  BY CheckedType DEF Checked
<1>2. speaks => host \in Checked /\ host.form = "DNS" /\ host.value = HostOf(cn)
  BY DEF CNs, SANs, _is_hostname, HostOf, Checked
<1>3. RelyingPartyAccepts([cn |-> cn, sans |-> sans])
        <=> /\ \A san \in sans : Acceptable(san)
            /\ speaks => Acceptable(host)
  BY DEF RelyingPartyAccepts, NamesOf
<1>4. check_name_constraints(cn, sans)
        <=> /\ \A san \in sans : /\ san.form = "DNS" => _check_dns(san.value)
                                 /\ san.form = "IP" => _check_ip(san.value)
                                 /\ san.form = "EMAIL" => _check_unevaluable
            /\ speaks => _check_dns(HostOf(cn))
  BY DEF check_name_constraints
<1>5. speaks => (Acceptable(host) <=> _check_dns(HostOf(cn)))
  BY <1>2, CheckIsAcceptable
<1>6. \A san \in sans :
        /\ san.form = "DNS" => (Acceptable(san) <=> _check_dns(san.value))
        /\ san.form = "IP" => (Acceptable(san) <=> _check_ip(san.value))
        /\ san.form = "EMAIL" => (_check_unevaluable => Acceptable(san))
  BY <1>1, CheckIsAcceptable
<1>7. _check_unevaluable <=> ~ \E c \in permitted \cup excluded : c.form = "EMAIL"
  BY DEF _check_unevaluable
<1> HIDE DEF host, speaks
<1> QED
  BY <1>1, <1>3, <1>4, <1>5, <1>6, <1>7

-----------------------------------------------------------------------------
(* The panel and the signer                                                *)

(* The names of a request, the verdict on them, and whether it has the     *)
(* subject that its door requires.                                         *)
Resolved == resolve_sans(request.explicit, request.csr, request.cn)

Verdict == Resolved # {} /\ check_name_constraints(request.cn, Resolved)

Named == request.cn # Absent \/ request.door = "finalize"

(* The request and the constraints stay what they are, and the signer and  *)
(* the panel have answered by the verdict if they have answered.           *)
LeafInv ==
    /\ request \in Requests
    /\ permitted \in SUBSET Subtrees /\ excluded \in SUBSET Subtrees
    /\ leaf # Absent => leaf = IF Named /\ Verdict THEN [cn |-> request.cn, sans |-> Resolved]
                             ELSE Refused
    /\ preview # "none" => preview = IF Verdict THEN "permitted" ELSE "refused"

(* The parts of a request.                                                 *)
LEMMA RequestType ==
    ASSUME request \in Requests
    PROVE  /\ request.cn \in CNs
           /\ request.explicit \in SUBSET SANs /\ request.csr \in SUBSET SANs
           /\ request.door = "issue_certificate" => request.csr = {}
<1>1. \A S \in Two(SANs) : S \in SUBSET SANs
  BY DEF Two
<1>2. \A S \in One(SANs) : S \in SUBSET SANs
  BY DEF One
<1>3. /\ request.cn \in CNs
      /\ request.explicit \in Two(SANs) /\ request.csr \in One(SANs)
      /\ request.door = "issue_certificate" => request.csr = {}
  BY DEF Requests
<1> QED
  BY <1>1, <1>2, <1>3

(* The ladder gives names that exist: the common name only if it is one.   *)
LEMMA ResolvedType ==
    ASSUME request \in Requests
    PROVE  /\ Resolved \in SUBSET SANs
           /\ Resolved = IF request.explicit # {} THEN request.explicit
                         ELSE IF request.csr # {} THEN request.csr
                         ELSE {request.cn} \cap SANs
<1>1. PICK cn \in CNs : cn = request.cn
  BY RequestType
<1>2. _san_from_cn(cn) = {cn} \cap SANs
  <2>1. CASE cn = Absent
    BY <2>1, NamesAssumption DEF _san_from_cn
  <2>2. CASE cn # Absent /\ cn = [form |-> "text", value |-> Absent]
    <3>1. cn \notin SANs
      BY <2>2 DEF SANs
    <3> QED
      BY <2>2, <3>1 DEF _san_from_cn
  <2>3. CASE cn # Absent /\ cn \in SANs
    <3>1. cn.form # "text"
      BY <2>3 DEF SANs
    <3> QED
      BY <2>3, <3>1 DEF _san_from_cn
  <2> QED
    BY <2>1, <2>2, <2>3 DEF CNs
<1> QED
  BY <1>1, <1>2, RequestType DEF Resolved, resolve_sans

(* Steps that leave request and constraints alone leave the verdict alone. *)
LEMMA VerdictKept ==
    ASSUME UNCHANGED <<permitted, excluded, request>>
    PROVE  Resolved' = Resolved /\ Named' = Named /\ Verdict' = Verdict
<1>1. Resolved' = Resolved
  BY DEF Resolved, resolve_sans, _san_from_cn
<1>2. check_name_constraints(request.cn, Resolved)'
        = check_name_constraints(request.cn, Resolved)
  BY <1>1 DEF check_name_constraints, _check_dns, _check_ip,
              _check_unevaluable
<1> QED
  BY <1>1, <1>2 DEF Verdict, Named

(* Nothing has been answered at first.                                     *)
LEMMA LeafInvInit ==
    ASSUME LeafInit
    PROVE  LeafInv
<1>1. \A S \in Two(Subtrees) : S \in SUBSET Subtrees
  BY DEF Two
<1>2. \A S \in One(Subtrees) : S \in SUBSET Subtrees
  BY DEF One
<1> QED
  BY <1>1, <1>2 DEF LeafInit, LeafInv

(* Each of the panel and the signers answers by the verdict.               *)
LEMMA LeafInvStep ==
    ASSUME LeafInv, [LeafNext]_leafVars
    PROVE  LeafInv'
<1>1. UNCHANGED <<permitted, excluded, request>>
  BY DEF LeafNext, leafVars, _issue_preview, issue_certificate, sign_csr
<1>2. Resolved' = Resolved /\ Named' = Named /\ Verdict' = Verdict
  BY <1>1, VerdictKept
<1>3. request.door = "issue_certificate" =>
        Resolved = resolve_sans(request.explicit, {}, request.cn)
  BY RequestType DEF LeafInv, Resolved
<1>4. CASE _issue_preview
  <2>1. leaf' = leaf /\ preview' = IF Verdict THEN "permitted" ELSE "refused"
    BY <1>3, <1>4 DEF _issue_preview, Verdict
  <2> QED
    BY <1>1, <1>2, <2>1 DEF LeafInv
<1>5. CASE issue_certificate
  <2>1. preview' = preview /\ leaf' = IF Named /\ Verdict
                                      THEN [cn |-> request.cn, sans |-> Resolved] ELSE Refused
    BY <1>3, <1>5 DEF issue_certificate, _build_leaf, Verdict, Named
  <2> QED
    BY <1>1, <1>2, <2>1 DEF LeafInv, Refused
<1>6. CASE sign_csr
  <2>1. preview' = preview /\ leaf' = IF Named /\ Verdict
                                      THEN [cn |-> request.cn, sans |-> Resolved] ELSE Refused
    BY <1>6 DEF sign_csr, _build_leaf, Verdict, Named, Resolved
  <2> QED
    BY <1>1, <1>2, <2>1 DEF LeafInv, Refused
<1>7. CASE UNCHANGED leafVars
  BY <1>1, <1>2, <1>7 DEF LeafInv, leafVars, Refused
<1> QED
  BY <1>4, <1>5, <1>6, <1>7 DEF LeafNext

(* What was answered by the verdict was answered as SignedExactly says.    *)
LEMMA LeafInvExact ==
    ASSUME LeafInv
    PROVE  SignedExactly
<1> DEFINE given == IF request.explicit # {} THEN request.explicit
                    ELSE IF request.csr # {} THEN request.csr
                    ELSE {request.cn} \cap SANs
           wanted == [cn |-> request.cn, sans |-> given]
           email == /\ \E san \in given : san.form = "EMAIL"
                    /\ \E c \in permitted \cup excluded : c.form = "EMAIL"
<1>1. Resolved = given /\ given \in SUBSET SANs /\ request.cn \in CNs
  BY ResolvedType, RequestType DEF LeafInv
<1>2. Verdict <=> given # {} /\ RelyingPartyAccepts(wanted) /\ ~ email
  BY <1>1, CheckIsAccepted DEF LeafInv, Verdict
<1>3. given # {} => wanted # Refused
  BY DEF Refused
<1>4. leaf # Absent => leaf = IF Named /\ Verdict THEN wanted ELSE Refused
  BY <1>1 DEF LeafInv
<1>5. leaf # Absent => leaf = IF /\ request.cn # Absent \/ request.door = "finalize"
                               /\ given # {} /\ RelyingPartyAccepts(wanted) /\ ~ email
                            THEN wanted ELSE Refused
  BY <1>2, <1>4 DEF Named
<1>6. preview # "none" /\ leaf # Absent /\ request.cn # Absent =>
        (preview = "permitted" <=> leaf # Refused)
  <2>1. preview # "none" => preview = IF Verdict THEN "permitted" ELSE "refused"
    BY DEF LeafInv
  <2>2. request.cn # Absent => Named
    BY DEF Named
  <2>3. Verdict => wanted # Refused
    BY <1>2, <1>3
  <2> HIDE DEF given, wanted, email
  <2> QED
    BY <1>4, <2>1, <2>2, <2>3
<1> QED
  BY <1>5, <1>6 DEF SignedExactly

(* FR-7 of spec 0020 and FR-4 of spec 0029, for any host names, networks   *)
(* and constraints: what issue_certificate, sign_csr and finalize sign is  *)
(* what a relying party that reads the issuer's extension label by label   *)
(* accepts, and the panel told it beforehand.                              *)
THEOREM LeavesExact == LeafSpec => []SignedExactly
<1>1. LeafInit => LeafInv
  BY LeafInvInit
<1>2. LeafInv /\ [LeafNext]_leafVars => LeafInv'
  BY LeafInvStep
<1>3. LeafInv => SignedExactly
  BY LeafInvExact
<1> QED
  BY <1>1, <1>2, <1>3, PTL DEF LeafSpec

=============================================================================
