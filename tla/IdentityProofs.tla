--------------------------- MODULE IdentityProofs ---------------------------
(***************************************************************************)
(* Proofs about Identity, for any number of users, sessions and requests   *)
(* under way.                                                              *)
(*                                                                         *)
(* That a superadmin remains rests on what a request that changes a role   *)
(* or deletes a user has read: as long as no two of them overlapped, the   *)
(* role it loaded is still the role of the row, and the other superadmin   *)
(* it counted is still there (Request).  That nobody finds the sessions of *)
(* another rests on the id of a new user being unused.                     *)
(***************************************************************************)
EXTENDS Identity, FiniteSetTheorems, WellFoundedInduction, TLAPS

(* What a request carries from step to step.                               *)
Request(w) ==
    LET j == job[w]
    IN  /\ pc[w] \notin {"idle", "setup", "create"} => j.user \in Ids
        /\ pc[w] \in {"login", "session"} => j.person \in 1 .. MaxPersons
        /\ pc[w] = "role" => j.newRole \in Roles
        /\ pc[w] = "delete" => j.newRole = None
        /\ pc[w] = "create" => j.newRole \in Roles /\ persons > 0
        /\ ~overlap /\ pc[w] = "setup" => persons = 0
        /\ ~overlap /\ Changing(w) => j.user \in Existing /\ users[j.user].role = j.role
        /\ ~overlap /\ pc[w] \in {"role", "delete"} =>
               (j.role = "superadmin" /\ j.newRole # "superadmin" => superadmins \ {j.user} # {})

Requests == \A w \in Workers : Request(w)

(* The lock of setup_submit.                                               *)
SetupAlone == \A v, w \in Workers : pc[v] = "setup" /\ pc[w] = "setup" => v = w

(* Whoever has an account was counted.                                     *)
SomebodyHad == Existing # {} => persons > 0

IInv ==
    /\ TypeOK /\ Requests /\ SetupAlone /\ SomebodyHad
    /\ OwnSession /\ CurrentPassword /\ SuperadminRemains

-----------------------------------------------------------------------------
(* Numbers                                                                 *)

(* A set of naturals that is not empty has a least member.                 *)
LEMMA MinExists ==
    ASSUME NEW S \in SUBSET Nat, S # {}
    PROVE  \E x \in S : \A y \in S : x <= y
<1> DEFINE R == OpToRel(<, Nat)
<1>1. IsWellFoundedOn(R, Nat)
    BY NatLessThanWellFounded
<1>2. PICK x \in S : \A y \in S : ~(<<y, x>> \in R)
    <2> HIDE DEF R
    <2> QED
        BY <1>1, WFMin
<1>3. ASSUME NEW y \in S PROVE x <= y
    <2>1. ~(y < x)
        BY <1>2 DEF OpToRel
    <2> QED
        BY <2>1
<1> QED
    BY <1>3

(* A bounded one has a greatest, which Max is.                             *)
LEMMA MaxIsMax ==
    ASSUME NEW n \in Nat, NEW S \in SUBSET (0 .. n), S # {}
    PROVE  Max(S) \in S /\ \A y \in S : Max(S) >= y
<1> DEFINE D == {n - x : x \in S}
<1>1. D \in SUBSET Nat /\ D # {}
    <2>1. ASSUME NEW x \in S PROVE n - x \in Nat
        OBVIOUS
    <2> QED
        BY <2>1
<1>2. PICK d \in D : \A e \in D : d <= e
    BY <1>1, MinExists
<1>3. PICK x \in S : d = n - x
    BY <1>2
<1>4. ASSUME NEW y \in S PROVE x >= y
    <2>1. n - x <= n - y
        BY <1>2, <1>3
    <2> QED
        BY <2>1
<1> QED
    BY <1>4 DEF Max

(* The id of a new user is one that nobody has.                            *)
LEMMA NewIdIsNew == NewId \notin Existing
<1> DEFINE S == {0} \cup Existing
<1>1. S \in SUBSET (0 .. MaxUsers) /\ S # {} /\ MaxUsers \in Nat
    BY IdentityAssumption DEF Existing, Ids
<1>2. Max(S) \in S /\ \A y \in S : Max(S) >= y
    BY <1>1, MaxIsMax
<1>3. Max(S) \in 0 .. MaxUsers
    BY <1>1, <1>2
<1>4. Max(S) + 1 \notin S
    BY <1>1, <1>2, <1>3
<1> QED
    BY <1>4 DEF NewId

-----------------------------------------------------------------------------
(* Rows that stay                                                          *)

(* The sessions there are after a step were there before it, and differ at *)
(* most in their expiry.                                                   *)
SameLogins ==
    \A s \in Tokens : sessions'[s] # None =>
        /\ sessions[s] # None
        /\ sessions'[s].user = sessions[s].user
        /\ sessions'[s].person = sessions[s].person
        /\ sessions'[s].password = sessions[s].password
        /\ sessions'[s].late = sessions[s].late

(* Whoever had an account has it still, with the same role.                *)
SameRoles == \A u \in Existing : u \in Existing' /\ users'[u].role = users[u].role

(* Whoever has a session has the account still.                            *)
SamePersons ==
    \A s \in Live' : /\ sessions'[s].user \in Existing'
                     /\ users'[sessions'[s].user].person = users[sessions'[s].user].person

(* ... and the password.                                                   *)
SamePasswords ==
    \A s \in Live' : users'[sessions'[s].user].password = users[sessions'[s].user].password

(* A request that has nothing to do with a step is not disturbed by it:    *)
(* the roles are those it read, or the overlap was noted.                  *)
LEMMA StillRequest ==
    ASSUME NEW w \in Workers, Request(w), pc'[w] = pc[w], job'[w] = job[w],
           persons > 0 => persons' > 0, ~overlap' /\ pc[w] = "setup" => persons' = 0,
           ~overlap' => ~overlap /\ (Changing(w) => SameRoles)
    PROVE  Request(w)'
<1>1. ASSUME ~overlap', Changing(w)
      PROVE  job[w].user \in Existing' /\ users'[job[w].user].role = job[w].role
    BY <1>1 DEF Request, SameRoles
<1>2. ASSUME ~overlap', pc[w] \in {"role", "delete"},
             job[w].role = "superadmin" /\ job[w].newRole # "superadmin"
      PROVE  superadmins' \ {job[w].user} # {}
    <2>1. SameRoles
        BY <1>2 DEF Changing
    <2>2. PICK u \in superadmins : u # job[w].user
        BY <1>2 DEF Request
    <2>3. u \in superadmins'
        BY <2>1, <2>2 DEF SameRoles, superadmins
    <2> QED
        BY <2>2, <2>3
<1> QED
    BY <1>1, <1>2 DEF Request, Changing

(* A superadmin stays one when roles stay.                                 *)
LEMMA StillSuperadmins ==
    ASSUME SameRoles
    PROVE  superadmins \subseteq superadmins'
BY DEF SameRoles, superadmins

-----------------------------------------------------------------------------
(* Sessions                                                                *)

(* Users who are left as they were, and so are those who have sessions.    *)
LEMMA SameUsers ==
    ASSUME IInv, SameLogins, UNCHANGED users
    PROVE  SamePersons /\ SamePasswords
<1>1. Existing' = Existing
    BY DEF Existing
<1>2. ASSUME NEW s \in Live' PROVE s \in Live /\ sessions'[s].user = sessions[s].user
    BY <1>2 DEF Live, SameLogins
<1>3. ASSUME NEW s \in Live' PROVE sessions'[s].user \in Existing'
    BY <1>1, <1>2 DEF IInv, OwnSession
<1> QED
    BY <1>3 DEF SamePersons, SamePasswords

(* Fewer sessions, or younger ones, of the same users.                     *)
LEMMA StillOwn ==
    ASSUME IInv, SameLogins, SamePersons
    PROVE  OwnSession'
<1>1. ASSUME NEW s \in Live' PROVE s \in Live
    BY <1>1 DEF Live, SameLogins
<1> QED
    BY <1>1 DEF IInv, OwnSession, SameLogins, SamePersons, Live

(* A session that the old password opened: whoever is about to clear it    *)
(* is still about to, or has done it.                                      *)
LEMMA StillCurrent ==
    ASSUME IInv, SameLogins, SamePasswords, faults' >= faults, faults' \in Nat,
           NEW w \in Workers, \A v \in Workers \ {w} : pc'[v] = pc[v] /\ job'[v] = job[v],
           pc[w] = "clear" =>
               \/ pc'[w] = pc[w] /\ job'[w] = job[w]
               \/ \A s \in Live' : sessions'[s].user # job[w].user
    PROVE  CurrentPassword'
<1> SUFFICES ASSUME NEW s \in Live'
             PROVE  \/ users'[sessions'[s].user].password = sessions'[s].password
                    \/ sessions'[s].late
                    \/ faults' > 0
                    \/ \E v \in Workers : pc'[v] = "clear" /\ job'[v].user = sessions'[s].user
    BY DEF CurrentPassword
<1> DEFINE u == sessions[s].user
<1>1. /\ s \in Live
      /\ sessions'[s].user = u
      /\ sessions'[s].password = sessions[s].password
      /\ sessions'[s].late = sessions[s].late
    BY DEF Live, SameLogins
<1>2. \/ users[u].password = sessions[s].password
      \/ sessions[s].late
      \/ faults > 0
      \/ \E v \in Workers : pc[v] = "clear" /\ job[v].user = u
    BY <1>1 DEF IInv, CurrentPassword
<1>3. CASE users[u].password = sessions[s].password \/ sessions[s].late
    BY <1>1, <1>3 DEF SamePasswords
<1>4. CASE faults > 0
    BY <1>4 DEF IInv, TypeOK
<1>5. ASSUME NEW v \in Workers, pc[v] = "clear", job[v].user = u
      PROVE  \E x \in Workers : pc'[x] = "clear" /\ job'[x].user = u
    <2>1. CASE v # w
        BY <1>5, <2>1
    <2>2. CASE v = w
        BY <1>1, <1>5, <2>2
    <2> QED
        BY <2>1, <2>2
<1> QED
    BY <1>1, <1>2, <1>3, <1>4, <1>5

(* A page view, a logout or time that passes.                              *)
LEMMA SessionsKeepIInv ==
    ASSUME IInv, SameLogins, sessions' \in [Tokens -> UserSessions \cup {None}],
           UNCHANGED <<users, pc, job, persons, overlap, faults>>
    PROVE  IInv'
<1>1. TypeOK'
    BY DEF IInv, TypeOK
<1>2. Existing' = Existing /\ superadmins' = superadmins
    BY DEF Existing, superadmins
<1>3. Requests' /\ SetupAlone' /\ SomebodyHad' /\ SuperadminRemains'
    BY <1>2 DEF IInv, Requests, Request, Changing, SetupAlone, SomebodyHad, SuperadminRemains
<1>4. OwnSession'
    BY SameUsers, StillOwn
<1>5. CurrentPassword'
    BY <1>2 DEF IInv, CurrentPassword, SameLogins, Live
<1> QED
    BY <1>1, <1>3, <1>4, <1>5 DEF IInv

(* A step of one request that leaves the users alone keeps the invariant   *)
(* when what it goes on with is in order.                                  *)
LEMMA ControlKeepsIInv ==
    ASSUME IInv, NEW w \in Workers, NEW step \in Steps, NEW j \in Jobs, Goto(w, step, j),
           UNCHANGED <<users, persons, overlap, faults>>,
           SameLogins, sessions' \in [Tokens -> UserSessions \cup {None}],
           pc[w] = "clear" => \A s \in Live' : sessions'[s].user # job[w].user,
           step = "setup" => _setup_lock,
           Request(w)'
    PROVE  IInv'
<1>1. pc' = [pc EXCEPT ![w] = step] /\ job' = [job EXCEPT ![w] = j]
    BY DEF Goto
<1>2. pc \in [Workers -> Steps] /\ job \in [Workers -> Jobs] /\ faults \in Nat
    BY IdentityAssumption DEF IInv, TypeOK
<1>3. TypeOK'
    BY <1>1, <1>2 DEF IInv, TypeOK
<1>4. Existing' = Existing /\ superadmins' = superadmins /\ SameRoles
    BY DEF Existing, superadmins, SameRoles
<1>5. \A v \in Workers \ {w} : pc'[v] = pc[v] /\ job'[v] = job[v]
    BY <1>1, <1>2
<1>6. ASSUME NEW v \in Workers PROVE Request(v)'
    <2>1. CASE v = w
        BY <2>1
    <2>2. CASE v # w
        <3>1. ~overlap' /\ pc[v] = "setup" => persons' = 0
            BY DEF IInv, Requests, Request
        <3> QED
            BY <1>4, <1>5, <2>2, <3>1, StillRequest DEF IInv, Requests
    <2> QED
        BY <2>1, <2>2
<1>7. SetupAlone'
    BY <1>1, <1>2 DEF IInv, SetupAlone, _setup_lock
<1>8. OwnSession'
    BY SameUsers, StillOwn
<1>9. CurrentPassword'
    BY <1>2, <1>5, SameUsers, StillCurrent
<1>10. SuperadminRemains' /\ SomebodyHad'
    BY <1>4 DEF IInv, SuperadminRemains, SomebodyHad
<1> QED
    BY <1>3, <1>6, <1>7, <1>8, <1>9, <1>10 DEF IInv, Requests

(* The expiry of a session slides on.                                      *)
LEMMA TouchedLogins ==
    ASSUME IInv, NEW s \in Tokens, sessions[s] # None, sessions' = Touched(s)
    PROVE  SameLogins /\ sessions' \in [Tokens -> UserSessions \cup {None}]
<1>1. sessions[s] \in UserSessions
    BY DEF IInv, TypeOK
<1> QED
    BY <1>1 DEF IInv, TypeOK, UserSessions, Touched, SameLogins

(* Pages, logouts and time.                                                *)
LEMMA SessionStepsKeepIInv ==
    ASSUME IInv, NEW s \in Tokens, touch_session(s) \/ logout(s) \/ Age(s)
    PROVE  IInv'
<1>1. CASE touch_session(s)
    BY <1>1, TouchedLogins, SessionsKeepIInv DEF touch_session, get_current_user, get_session
<1>2. CASE logout(s)
    <2>1. SameLogins /\ sessions' \in [Tokens -> UserSessions \cup {None}]
        BY <1>2 DEF logout, IInv, TypeOK, SameLogins
    <2> QED
        BY <1>2, <2>1, SessionsKeepIInv DEF logout
<1>3. CASE Age(s)
    <2>1. sessions[s] \in UserSessions
        BY <1>3 DEF Age, get_session, IInv, TypeOK
    <2> DEFINE e == IF sessions[s].expires = "far" THEN "near" ELSE "over"
               r == [sessions[s] EXCEPT !.expires = e]
    <2>2. sessions' = [sessions EXCEPT ![s] = r]
        BY <1>3 DEF Age
    <2>3. e \in {"far", "near", "over"}
        OBVIOUS
    <2> HIDE DEF e
    <2>4. /\ r \in UserSessions /\ r.user = sessions[s].user /\ r.person = sessions[s].person
          /\ r.password = sessions[s].password /\ r.late = sessions[s].late
        BY <2>1, <2>3 DEF UserSessions
    <2> HIDE DEF r
    <2>5. sessions[s] # None
        BY <1>3 DEF Age, get_session
    <2>6. SameLogins /\ sessions' \in [Tokens -> UserSessions \cup {None}]
        BY <2>2, <2>4, <2>5 DEF IInv, TypeOK, SameLogins
    <2> QED
        BY <1>3, <2>6, SessionsKeepIInv DEF Age
<1> QED
    BY <1>1, <1>2, <1>3

-----------------------------------------------------------------------------
(* Requests that leave the users alone                                     *)

(* The job of a request that has ended is a job.                           *)
LEMMA NoJobType == NoJob \in Jobs
BY IdentityAssumption DEF NoJob, Jobs

(* The end of a request.                                                   *)
LEMMA FinishKeepsIInv ==
    ASSUME IInv, NEW w \in Workers, Finish(w), UNCHANGED <<users, persons, overlap, faults>>,
           SameLogins, sessions' \in [Tokens -> UserSessions \cup {None}],
           pc[w] = "clear" => \A s \in Live' : sessions'[s].user # job[w].user
    PROVE  IInv'
<1>1. pc'[w] = "idle" /\ Goto(w, "idle", NoJob)
    BY DEF Finish, Goto, IInv, TypeOK
<1>2. Request(w)'
    BY <1>1 DEF Request, Changing
<1> QED
    BY <1>1, <1>2, NoJobType, ControlKeepsIInv DEF Steps

(* Requests that are let in, and the count of the other superadmins.       *)
LEMMA AcceptKeepsIInv ==
    ASSUME IInv, NEW w \in Workers, Accept(w)
    PROVE  IInv'
<1>0. /\ pc \in [Workers -> Steps] /\ job \in [Workers -> Jobs]
      /\ users \in [Ids -> Users \cup {None}]
      /\ sessions \in [Tokens -> UserSessions \cup {None}]
    BY DEF IInv, TypeOK
<1>1. CASE setup_submit(w)
    <2>1. /\ Goto(w, "setup", NoJob) /\ _setup_lock /\ Existing = {} /\ pc[w] = "idle"
          /\ UNCHANGED <<users, sessions, persons, overlap, faults>>
        BY <1>1 DEF setup_submit
    <2>2. pc'[w] = "setup" /\ superadmins = {} /\ persons \in Nat
        BY <1>0, <2>1 DEF Goto, superadmins, IInv, TypeOK
    <2>3. Request(w)'
        BY <2>1, <2>2 DEF IInv, SuperadminRemains, Request, Changing
    <2>4. SameLogins
        BY <2>1 DEF SameLogins
    <2> QED
        BY <1>0, <2>1, <2>3, <2>4, NoJobType, ControlKeepsIInv DEF Steps
<1>2. ASSUME NEW u \in Ids, verify_credentials(w, u) PROVE IInv'
    <2> DEFINE j == [NoJob EXCEPT !.user = u, !.person = users[u].person,
                                  !.password = users[u].password]
    <2>1. /\ Goto(w, "login", j) /\ u \in Existing /\ pc[w] = "idle"
          /\ UNCHANGED <<users, sessions, persons, overlap, faults>>
        BY <1>2 DEF verify_credentials
    <2>2. users[u].person \in 1 .. MaxPersons /\ users[u].password \in 0 .. MaxResets
        BY <1>0, <2>1 DEF Existing, Users
    <2>3. j \in Jobs /\ j.user = u /\ j.person \in 1 .. MaxPersons
        <3>1. users[u].person \in 0 .. MaxPersons
            BY <2>2, IdentityAssumption
        <3> QED
            BY <2>2, <3>1 DEF Jobs, NoJob
    <2>4. pc'[w] = "login" /\ job'[w] = j
        BY <1>0, <2>1 DEF Goto
    <2> HIDE DEF j
    <2>5. Request(w)'
        BY <2>3, <2>4 DEF Request, Changing
    <2>6. SameLogins
        BY <2>1 DEF SameLogins
    <2> QED
        BY <1>0, <2>1, <2>3, <2>5, <2>6, ControlKeepsIInv DEF Steps
<1>3. ASSUME NEW s \in Tokens, NEW u \in Ids, NEW role \in Roles \cup {None},
             update_role_route(w, s, u, role)
      PROVE  IInv'
    <2> DEFINE j == [NoJob EXCEPT !.user = u, !.role = users[u].role, !.newRole = role]
    <2>1. /\ Goto(w, "count", j) /\ u \in Existing /\ sessions' = Touched(s) /\ pc[w] = "idle"
          /\ UNCHANGED <<users, persons, overlap, faults>> /\ sessions[s] # None
        BY <1>3 DEF update_role_route, require_superadmin, get_current_user, get_session
    <2>2. users[u].role \in Roles
        BY <1>0, <2>1 DEF Existing, Users
    <2>3. j \in Jobs /\ j.user = u /\ j.role = users[u].role
        BY <2>2, NoJobType DEF Jobs, NoJob
    <2>4. pc'[w] = "count" /\ job'[w] = j /\ Existing' = Existing /\ users' = users
        BY <1>0, <2>1 DEF Goto, Existing
    <2> HIDE DEF j
    <2>5. Request(w)'
        BY <2>1, <2>3, <2>4 DEF Request, Changing
    <2> QED
        BY <2>1, <2>3, <2>5, TouchedLogins, ControlKeepsIInv DEF Steps
<1>4. ASSUME NEW s \in Tokens, NEW u \in Ids, reset_password_route(w, s, u)
      PROVE  IInv'
    <2> DEFINE j == [NoJob EXCEPT !.user = u]
    <2>1. /\ Goto(w, "reset", j) /\ sessions' = Touched(s) /\ pc[w] = "idle"
          /\ UNCHANGED <<users, persons, overlap, faults>> /\ sessions[s] # None
        BY <1>4 DEF reset_password_route, require_superadmin, get_current_user, get_session
    <2>2. j \in Jobs /\ j.user = u
        BY NoJobType DEF Jobs, NoJob
    <2>3. pc'[w] = "reset" /\ job'[w] = j
        BY <1>0, <2>1 DEF Goto
    <2> HIDE DEF j
    <2>4. Request(w)'
        BY <2>2, <2>3 DEF Request, Changing
    <2> QED
        BY <2>1, <2>2, <2>4, TouchedLogins, ControlKeepsIInv DEF Steps
<1>5. ASSUME NEW s \in Tokens, NEW role \in Roles, create_user_route(w, s, role)
      PROVE  IInv'
    <2> DEFINE j == [NoJob EXCEPT !.newRole = role]
    <2>1. /\ Goto(w, "create", j) /\ sessions' = Touched(s) /\ pc[w] = "idle"
          /\ UNCHANGED <<users, persons, overlap, faults>> /\ sessions[s] # None
          /\ sessions[s].user \in Existing
        BY <1>5 DEF create_user_route, require_superadmin, get_current_user, get_session
    <2>2. j \in Jobs /\ j.newRole = role
        BY NoJobType DEF Jobs, NoJob
    <2>3. pc'[w] = "create" /\ job'[w] = j
        BY <1>0, <2>1 DEF Goto
    <2> HIDE DEF j
    <2>4. persons > 0
        BY <2>1 DEF IInv, SomebodyHad
    <2>5. Request(w)'
        BY <2>1, <2>2, <2>3, <2>4 DEF Request, Changing
    <2> QED
        BY <2>1, <2>2, <2>5, TouchedLogins, ControlKeepsIInv DEF Steps
<1> QED
    BY <1>1, <1>2, <1>3, <1>4, <1>5 DEF Accept

(* A login, once its password was checked, replaces older sessions.        *)
LEMMA ReplaceKeepsIInv ==
    ASSUME IInv, NEW w \in Workers, NEW cookie \in Tokens \cup {None}, ReplaceSession(w, cookie)
    PROVE  IInv'
<1>1. /\ pc[w] = "login" /\ Goto(w, "session", job[w])
      /\ UNCHANGED <<users, persons, overlap, faults>>
    BY DEF ReplaceSession
<1>2. SameLogins /\ sessions' \in [Tokens -> UserSessions \cup {None}]
    BY DEF ReplaceSession, SameLogins, IInv, TypeOK
<1>3. job[w] \in Jobs /\ pc'[w] = "session" /\ job'[w] = job[w]
    BY <1>1 DEF Goto, IInv, TypeOK
<1>4. Request(w)'
    BY <1>1, <1>3 DEF IInv, Requests, Request, Changing
<1> QED
    BY <1>1, <1>2, <1>3, <1>4, ControlKeepsIInv DEF Steps

(* No count of zero: there is another superadmin.                          *)
LEMMA CountedSuperadmins ==
    ASSUME NEW u, _count_superadmins(u) # 0
    PROVE  superadmins \ {u} # {}
<1>1. Cardinality({}) = 0
    BY FS_EmptySet
<1> QED
    BY <1>1 DEF _count_superadmins

(* A change of role or a deletion goes on when there is another superadmin *)
(* or none is lost.                                                        *)
LEMMA CheckKeepsIInv ==
    ASSUME IInv, NEW w \in Workers, CheckSuperadmins(w)
    PROVE  IInv'
<1> DEFINE step == IF job[w].newRole = None THEN "delete" ELSE "role"
<1>1. pc[w] = "count" /\ UNCHANGED <<users, sessions, persons, overlap, faults>>
    BY DEF CheckSuperadmins
<1>2. SameLogins /\ sessions' \in [Tokens -> UserSessions \cup {None}]
    BY <1>1 DEF SameLogins, IInv, TypeOK
<1>3. CASE Finish(w)
    BY <1>1, <1>2, <1>3, FinishKeepsIInv
<1>4. CASE ~LastSuperadminError(job[w]) /\ Goto(w, step, job[w])
    <2>1. /\ job[w] \in Jobs /\ pc'[w] = step /\ job'[w] = job[w]
          /\ Existing' = Existing /\ superadmins' = superadmins
        BY <1>1, <1>4 DEF Goto, IInv, TypeOK, Existing, superadmins
    <2>2. job[w].role = "superadmin" /\ job[w].newRole # "superadmin" =>
              superadmins \ {job[w].user} # {}
        BY <1>4, CountedSuperadmins DEF LastSuperadminError
    <2>3. step = "role" => job[w].newRole \in Roles
        BY <2>1 DEF Jobs
    <2>4. Request(w)
        BY DEF IInv, Requests
    <2>5. Request(w)'
        BY <1>1, <2>1, <2>2, <2>3, <2>4 DEF Request, Changing
    <2> QED
        BY <1>1, <1>2, <1>4, <2>1, <2>5, ControlKeepsIInv DEF Steps
<1> QED
    BY <1>3, <1>4 DEF CheckSuperadmins

(* The end of a reset or of a deletion.                                    *)
LEMMA ClearKeepsIInv ==
    ASSUME IInv, NEW w \in Workers, delete_sessions_for_user(w)
    PROVE  IInv'
<1>1. /\ SameLogins /\ sessions' \in [Tokens -> UserSessions \cup {None}]
      /\ \A s \in Live' : sessions'[s].user # job[w].user
    BY DEF delete_sessions_for_user, SameLogins, IInv, TypeOK, Live
<1> QED
    BY <1>1, FinishKeepsIInv DEF delete_sessions_for_user

-----------------------------------------------------------------------------
(* Requests that write                                                     *)

(* The requests that do not write go on, and so does the setup.            *)
LEMMA WriteKeepsIInv ==
    ASSUME IInv, NEW w \in Workers, NEW step \in Steps \ {"setup"}, NEW j \in Jobs,
           Goto(w, step, j),
           users' \in [Ids -> Users \cup {None}],
           sessions' \in [Tokens -> UserSessions \cup {None}],
           persons' \in 0 .. MaxPersons, overlap' \in BOOLEAN, UNCHANGED faults,
           persons > 0 => persons' > 0,
           \A v \in Workers \ {w} : ~overlap' /\ pc[v] = "setup" => persons' = 0,
           \A v \in Workers \ {w} : ~overlap' => ~overlap /\ (Changing(v) => SameRoles),
           Request(w)', SomebodyHad', OwnSession', CurrentPassword', SuperadminRemains'
    PROVE  IInv'
<1>1. pc' = [pc EXCEPT ![w] = step] /\ job' = [job EXCEPT ![w] = j]
    BY DEF Goto
<1>2. pc \in [Workers -> Steps] /\ job \in [Workers -> Jobs]
    BY DEF IInv, TypeOK
<1>3. TypeOK'
    BY <1>1, <1>2 DEF IInv, TypeOK
<1>4. ASSUME NEW v \in Workers PROVE Request(v)'
    <2>1. CASE v = w
        BY <2>1
    <2>2. CASE v # w
        BY <1>1, <1>2, <2>2, StillRequest DEF IInv, Requests
    <2> QED
        BY <2>1, <2>2
<1>5. SetupAlone'
    BY <1>1, <1>2 DEF IInv, SetupAlone
<1> QED
    BY <1>3, <1>4, <1>5 DEF IInv, Requests

(* A session is opened for a user who is there; when the account is not    *)
(* what was checked the session is a late one.                             *)
LEMMA CreateSessionKeepsIInv ==
    ASSUME IInv, NEW w \in Workers, NEW s \in Tokens, create_session(w, s)
    PROVE  IInv'
<1> DEFINE u == job[w].user
           late == users[u].person # job[w].person \/ users[u].password # job[w].password
           r == [user |-> u, expires |-> "far", person |-> job[w].person,
                 password |-> job[w].password, late |-> late]
<1>0. /\ pc \in [Workers -> Steps] /\ job \in [Workers -> Jobs]
      /\ users \in [Ids -> Users \cup {None}]
      /\ sessions \in [Tokens -> UserSessions \cup {None}]
    BY DEF IInv, TypeOK
<1>1. /\ pc[w] = "session" /\ sessions[s] = None /\ Finish(w)
      /\ UNCHANGED <<users, persons, overlap, faults>>
    BY DEF create_session
<1>2. CASE u \notin Existing
    <2>1. sessions' = sessions
        BY <1>2 DEF create_session
    <2>2. SameLogins
        BY <2>1 DEF SameLogins
    <2> QED
        BY <1>0, <1>1, <2>1, <2>2, FinishKeepsIInv
<1>3. CASE u \in Existing
    <2>1. sessions' = [sessions EXCEPT ![s] = r]
        BY <1>3 DEF create_session
    <2>2. late \in BOOLEAN
        BY Zenon
    <2>3. users[u].person # job[w].person \/ users[u].password # job[w].password => late
        OBVIOUS
    <2> HIDE DEF late
    <2>4. r.user = u /\ r.person = job[w].person /\ r.password = job[w].password /\ r.late = late
        OBVIOUS
    <2>5. r \in UserSessions
        <3>1. u \in Ids /\ job[w].person \in 1 .. MaxPersons /\ job[w] \in Jobs
            BY <1>0, <1>1 DEF IInv, Requests, Request
        <3> QED
            BY <2>2, <3>1 DEF UserSessions, Jobs
    <2> HIDE DEF r
    <2>6. sessions' \in [Tokens -> UserSessions \cup {None}] /\ sessions'[s] = r
        BY <1>0, <2>1, <2>5
    <2>7. /\ Existing' = Existing /\ superadmins' = superadmins /\ SameRoles
          /\ pc'[w] = "idle" /\ Goto(w, "idle", NoJob)
        BY <1>0, <1>1 DEF Existing, superadmins, SameRoles, Finish, Goto
    <2>8. ASSUME NEW t \in Live', t # s PROVE t \in Live /\ sessions'[t] = sessions[t]
        BY <1>0, <2>1, <2>8 DEF Live
    <2>9. OwnSession'
        <3> SUFFICES ASSUME NEW t \in Live'
                     PROVE  /\ sessions'[t].user \in Existing
                            /\ users[sessions'[t].user].person # sessions'[t].person
                                   => sessions'[t].late
            BY <1>1, <2>7 DEF OwnSession
        <3>1. CASE t = s
            BY <1>3, <2>3, <2>4, <2>6, <3>1
        <3>2. CASE t # s
            BY <2>8, <3>2 DEF IInv, OwnSession
        <3> QED
            BY <3>1, <3>2
    <2>10. CurrentPassword'
        <3> SUFFICES ASSUME NEW t \in Live'
                     PROVE  \/ users[sessions'[t].user].password = sessions'[t].password
                            \/ sessions'[t].late
                            \/ faults > 0
                            \/ \E v \in Workers : pc'[v] = "clear"
                                                  /\ job'[v].user = sessions'[t].user
            BY <1>1 DEF CurrentPassword
        <3>1. CASE t = s
            BY <2>3, <2>4, <2>6, <3>1
        <3>2. CASE t # s
            <4>1. \A v \in Workers : pc[v] = "clear" => pc'[v] = "clear" /\ job'[v] = job[v]
                BY <1>0, <1>1 DEF Finish, Goto
            <4> QED
                BY <2>8, <3>2, <4>1 DEF IInv, CurrentPassword
        <3> QED
            BY <3>1, <3>2
    <2>11. Request(w)'
        BY <2>7 DEF Request, Changing
    <2>12. SuperadminRemains' /\ SomebodyHad'
        BY <1>1, <2>7 DEF IInv, SuperadminRemains, SomebodyHad
    <2>13. /\ \A v \in Workers \ {w} : ~overlap' /\ pc[v] = "setup" => persons' = 0
           /\ users' \in [Ids -> Users \cup {None}] /\ UNCHANGED <<overlap, faults>>
           /\ persons' \in 0 .. MaxPersons /\ overlap' \in BOOLEAN
        BY <1>1, <2>7 DEF IInv, TypeOK, Requests, Request
    <2> QED
        BY <1>1, <2>6, <2>7, <2>9, <2>10, <2>11, <2>12, <2>13, NoJobType, WriteKeepsIInv
        DEF Steps
<1> QED
    BY <1>2, <1>3

(* A new user gets a row of its own, and nobody loses one.                 *)
LEMMA CreatedUser ==
    ASSUME IInv, NEW role \in Roles, create_user(role)
    PROVE  /\ users' \in [Ids -> Users \cup {None}]
           /\ NewId \in Ids /\ persons' = persons + 1
           /\ persons + 1 \in 1 .. MaxPersons
           /\ Existing' = Existing \cup {NewId}
           /\ \A u \in Existing : users'[u] = users[u]
           /\ users'[NewId].role = role
<1> DEFINE r == [role |-> role, password |-> 0, person |-> persons + 1]
<1>1. NewId \in Ids /\ users' = [users EXCEPT ![NewId] = r] /\ persons' = persons + 1
    BY DEF create_user
<1>2. persons + 1 \in 1 .. MaxPersons
    BY IdentityAssumption DEF create_user, IInv, TypeOK
<1>3. r \in Users /\ r.role = role
    BY <1>2, IdentityAssumption DEF Users
<1> HIDE DEF r
<1>4. users \in [Ids -> Users \cup {None}] /\ r # None
    BY <1>3, RowsAssumption DEF IInv, TypeOK
<1>5. Existing' = Existing \cup {NewId}
    BY <1>1, <1>4 DEF Existing
<1>6. \A u \in Existing : users'[u] = users[u]
    BY <1>1, <1>4, NewIdIsNew DEF Existing
<1> QED
    BY <1>1, <1>2, <1>3, <1>4, <1>5, <1>6

(* ... so that every session is its user's still, and every role is what   *)
(* was read.                                                               *)
LEMMA CreatedKeeps ==
    ASSUME IInv, NEW role \in Roles, create_user(role), SameLogins
    PROVE  SamePersons /\ SamePasswords /\ SameRoles
<1>1. Existing' = Existing \cup {NewId} /\ \A u \in Existing : users'[u] = users[u]
    BY CreatedUser
<1>2. ASSUME NEW s \in Live' PROVE sessions'[s].user \in Existing
    BY <1>2 DEF IInv, OwnSession, SameLogins, Live
<1> QED
    BY <1>1, <1>2 DEF SamePersons, SamePasswords, SameRoles

(* A superadmin had asked for an account: somebody has had one, so that    *)
(* nobody is at /setup, or an overlap was noted.                           *)
LEMMA InsertUserKeepsIInv ==
    ASSUME IInv, NEW w \in Workers, InsertUser(w)
    PROVE  IInv'
<1> DEFINE role == job[w].newRole
<1>1. /\ pc[w] = "create" /\ create_user(role) /\ Goto(w, "idle", NoJob)
      /\ UNCHANGED <<sessions, overlap, faults>>
    BY DEF InsertUser, Finish
<1>2. role \in Roles /\ persons > 0
    BY <1>1 DEF IInv, Requests, Request
<1> HIDE DEF role
<1>3. /\ users' \in [Ids -> Users \cup {None}]
      /\ persons' = persons + 1 /\ persons + 1 \in 1 .. MaxPersons
    BY <1>1, <1>2, CreatedUser
<1>4. SameLogins /\ sessions' \in [Tokens -> UserSessions \cup {None}]
    BY <1>1 DEF SameLogins, IInv, TypeOK
<1>5. SamePersons /\ SamePasswords /\ SameRoles
    BY <1>1, <1>2, <1>4, CreatedKeeps
<1>6. /\ pc'[w] = "idle"
      /\ \A v \in Workers \ {w} : pc'[v] = pc[v] /\ job'[v] = job[v]
    BY <1>1 DEF Goto, IInv, TypeOK
<1>7. Request(w)'
    BY <1>6 DEF Request, Changing
<1>8. OwnSession'
    BY <1>4, <1>5, StillOwn
<1>9. CurrentPassword'
    <2>1. faults' >= faults /\ faults' \in Nat
        BY <1>1, IdentityAssumption DEF IInv, TypeOK
    <2> QED
        BY <1>1, <1>4, <1>5, <1>6, <2>1, StillCurrent
<1>10. SuperadminRemains'
    BY <1>1, <1>2, <1>5, StillSuperadmins DEF IInv, SuperadminRemains
<1>11. \A v \in Workers : ~overlap' => pc[v] # "setup"
    BY <1>1, <1>2 DEF IInv, Requests, Request
<1>12. persons' \in 0 .. MaxPersons /\ overlap' \in BOOLEAN /\ persons' > 0 /\ SomebodyHad'
    BY <1>1, <1>3, IdentityAssumption DEF IInv, TypeOK, SomebodyHad
<1> QED
    BY <1>1, <1>3, <1>4, <1>5, <1>7, <1>8, <1>9, <1>10, <1>11, <1>12, NoJobType, WriteKeepsIInv
    DEF Steps

(* The first account is a superadmin's, and only the request that holds    *)
(* the lock of the setup creates it.                                       *)
LEMMA CreateFirstKeepsIInv ==
    ASSUME IInv, NEW w \in Workers, CreateFirst(w)
    PROVE  IInv'
<1> DEFINE j == [NoJob EXCEPT !.user = NewId, !.person = persons + 1]
<1>1. /\ pc[w] = "setup" /\ create_user("superadmin") /\ Goto(w, "session", j)
      /\ UNCHANGED <<sessions, overlap, faults>>
    BY DEF CreateFirst
<1>2. "superadmin" \in Roles
    BY DEF Roles
<1>3. /\ users' \in [Ids -> Users \cup {None}]
      /\ NewId \in Ids /\ persons' = persons + 1 /\ persons + 1 \in 1 .. MaxPersons
      /\ Existing' = Existing \cup {NewId}
      /\ users'[NewId].role = "superadmin"
    BY <1>1, <1>2, CreatedUser
<1>4. SameLogins /\ sessions' \in [Tokens -> UserSessions \cup {None}]
    BY <1>1 DEF SameLogins, IInv, TypeOK
<1>5. SamePersons /\ SamePasswords /\ SameRoles
    BY <1>1, <1>2, <1>4, CreatedKeeps
<1>6. /\ j \in Jobs /\ j.user = NewId /\ j.person = persons + 1
    <2>1. persons + 1 \in 0 .. MaxPersons
        BY <1>3, IdentityAssumption
    <2> QED
        BY <1>3, <2>1, NoJobType DEF Jobs, NoJob
<1> HIDE DEF j
<1>7. /\ pc'[w] = "session" /\ job'[w] = j
      /\ \A v \in Workers \ {w} : pc'[v] = pc[v] /\ job'[v] = job[v]
    BY <1>1 DEF Goto, IInv, TypeOK
<1>8. Request(w)'
    BY <1>3, <1>6, <1>7 DEF Request, Changing
<1>9. OwnSession'
    BY <1>4, <1>5, StillOwn
<1>10. CurrentPassword'
    <2>1. faults' >= faults /\ faults' \in Nat
        BY <1>1, IdentityAssumption DEF IInv, TypeOK
    <2> QED
        BY <1>1, <1>4, <1>5, <1>7, <2>1, StillCurrent
<1>11. SuperadminRemains'
    BY <1>3 DEF SuperadminRemains, superadmins
<1>12. \A v \in Workers \ {w} : pc[v] # "setup"
    BY <1>1 DEF IInv, SetupAlone
<1>13. persons' \in 0 .. MaxPersons /\ overlap' \in BOOLEAN /\ persons' > 0 /\ SomebodyHad'
    BY <1>1, <1>3, IdentityAssumption DEF IInv, TypeOK, SomebodyHad
<1> QED
    BY <1>1, <1>3, <1>4, <1>5, <1>6, <1>8, <1>9, <1>10, <1>11, <1>12, <1>13, WriteKeepsIInv
    DEF Steps

(* When no overlap is noted nobody else was about to change an account.    *)
LEMMA NotedOverlap ==
    ASSUME NEW w \in Workers, overlap \in BOOLEAN, NoteOverlap(w)
    PROVE  /\ overlap' \in BOOLEAN
           /\ ~overlap' => ~overlap /\ \A v \in Workers \ {w} : ~Changing(v)
<1> DEFINE others == \E v \in Workers \ {w} : Changing(v)
<1>1. overlap' = (overlap \/ others)
    BY DEF NoteOverlap
<1>2. ~others => \A v \in Workers \ {w} : ~Changing(v)
    OBVIOUS
<1> HIDE DEF others
<1>3. overlap' \in BOOLEAN /\ (~overlap' => ~overlap /\ ~others)
    BY <1>1, Zenon
<1> QED
    BY <1>2, <1>3

(* A role is changed: another superadmin was counted, and nobody else      *)
(* changed or removed that one since.                                      *)
LEMMA UpdateRoleKeepsIInv ==
    ASSUME IInv, NEW w \in Workers, update_role(w)
    PROVE  IInv'
<1> DEFINE u == job[w].user
           new == job[w].newRole
           r == [users[u] EXCEPT !.role = new]
<1>0. /\ pc \in [Workers -> Steps] /\ job \in [Workers -> Jobs] /\ overlap \in BOOLEAN
      /\ users \in [Ids -> Users \cup {None}] /\ sessions \in [Tokens -> UserSessions \cup {None}]
    BY DEF IInv, TypeOK
<1>1. /\ pc[w] = "role" /\ Goto(w, "idle", NoJob) /\ NoteOverlap(w)
      /\ UNCHANGED <<sessions, persons, faults>>
    BY DEF update_role, Finish
<1>2. Request(w) /\ new \in Roles /\ u \in Ids
    BY <1>1 DEF IInv, Requests, Request
<1>3. /\ overlap' \in BOOLEAN
      /\ ~overlap' => ~overlap /\ \A v \in Workers \ {w} : ~Changing(v)
    BY <1>0, <1>1, NotedOverlap
<1>4. /\ users' \in [Ids -> Users \cup {None}] /\ Existing' = Existing
      /\ \A x \in Existing : /\ users'[x].person = users[x].person
                             /\ users'[x].password = users[x].password
                             /\ x # u => users'[x] = users[x]
      /\ u \in Existing => users'[u].role = new \/ users' = users
    <2>1. CASE users' = users
        BY <1>0, <2>1 DEF Existing
    <2>2. CASE u \in Existing /\ users' = [users EXCEPT ![u] = r]
        <3>1. users[u] \in Users
            BY <1>0, <2>2 DEF Existing
        <3>2. r \in Users /\ r.role = new /\ r.person = users[u].person
              /\ r.password = users[u].password
            BY <1>2, <3>1 DEF Users
        <3> HIDE DEF r
        <3>3. r # None
            BY <3>2, RowsAssumption
        <3> QED
            BY <1>0, <2>2, <3>2, <3>3 DEF Existing
    <2> QED
        BY <2>1, <2>2 DEF update_role
<1>5. SuperadminRemains'
    <2> SUFFICES ASSUME persons > 0, ~overlap' PROVE superadmins' # {}
        BY <1>1 DEF SuperadminRemains
    <2>1. superadmins # {} /\ u \in Existing /\ users[u].role = job[w].role
        BY <1>1, <1>2, <1>3 DEF IInv, SuperadminRemains, Request, Changing
    <2>2. CASE users' = users
        BY <2>1, <2>2 DEF superadmins, Existing
    <2>3. CASE users' # users /\ job[w].role = "superadmin"
        <3>1. new # "superadmin"
            BY <2>3 DEF update_role
        <3>2. PICK x \in superadmins : x # u
            BY <1>1, <1>2, <1>3, <2>3, <3>1 DEF Request
        <3>3. x \in superadmins'
            BY <1>4, <3>2 DEF superadmins
        <3> QED
            BY <3>3
    <2>4. CASE users' # users /\ job[w].role # "superadmin"
        <3>1. PICK x \in superadmins : TRUE
            BY <2>1
        <3>2. x \in Existing /\ x # u /\ users[x].role = "superadmin"
            BY <2>1, <2>4, <3>1 DEF superadmins
        <3>3. x \in superadmins'
            BY <1>4, <3>2 DEF superadmins
        <3> QED
            BY <3>3
    <2> QED
        BY <2>2, <2>3, <2>4
<1>6. SameLogins
    BY <1>1 DEF SameLogins
<1>7. ASSUME NEW s \in Live' PROVE sessions'[s].user \in Existing
    BY <1>1, <1>7 DEF IInv, OwnSession, Live
<1>8. SamePersons /\ SamePasswords
    BY <1>4, <1>7 DEF SamePersons, SamePasswords
<1>9. /\ pc'[w] = "idle"
      /\ \A v \in Workers \ {w} : pc'[v] = pc[v] /\ job'[v] = job[v]
    BY <1>0, <1>1 DEF Goto
<1>10. Request(w)'
    BY <1>9 DEF Request, Changing
<1>11. OwnSession'
    BY <1>6, <1>8, StillOwn
<1>12. CurrentPassword'
    <2>1. faults' >= faults /\ faults' \in Nat
        BY <1>1, IdentityAssumption DEF IInv, TypeOK
    <2> QED
        BY <1>1, <1>6, <1>8, <1>9, <2>1, StillCurrent
<1>13. \A v \in Workers \ {w} : ~overlap' /\ pc[v] = "setup" => persons' = 0
    BY <1>1, <1>3 DEF IInv, Requests, Request
<1>14. persons' \in 0 .. MaxPersons /\ SomebodyHad'
    BY <1>1, <1>4 DEF IInv, TypeOK, SomebodyHad
<1> QED
    BY <1>0, <1>1, <1>3, <1>4, <1>5, <1>10, <1>11, <1>12, <1>13, <1>14, NoJobType, WriteKeepsIInv
    DEF Steps

(* A user goes, with all sessions; the superadmin who was counted stays.   *)
LEMMA DeleteUserKeepsIInv ==
    ASSUME IInv, NEW w \in Workers, delete_user(w)
    PROVE  IInv'
<1> DEFINE u == job[w].user
           j == [NoJob EXCEPT !.user = u]
<1>0. /\ pc \in [Workers -> Steps] /\ job \in [Workers -> Jobs] /\ overlap \in BOOLEAN
      /\ users \in [Ids -> Users \cup {None}] /\ sessions \in [Tokens -> UserSessions \cup {None}]
    BY DEF IInv, TypeOK
<1>1. /\ pc[w] = "delete" /\ Goto(w, "clear", j) /\ NoteOverlap(w)
      /\ users' = [users EXCEPT ![u] = None] /\ sessions' = WithoutSessionsOf(u)
      /\ UNCHANGED <<persons, faults>>
    BY DEF delete_user
<1>2. Request(w) /\ job[w].newRole = None /\ u \in Ids
    BY <1>1 DEF IInv, Requests, Request
<1>3. /\ overlap' \in BOOLEAN
      /\ ~overlap' => ~overlap /\ \A v \in Workers \ {w} : ~Changing(v)
    BY <1>0, <1>1, NotedOverlap
<1>4. /\ users' \in [Ids -> Users \cup {None}] /\ Existing' = Existing \ {u}
      /\ \A x \in Existing \ {u} : users'[x] = users[x]
    BY <1>0, <1>1, <1>2 DEF Existing
<1>5. SuperadminRemains'
    <2> SUFFICES ASSUME persons > 0, ~overlap' PROVE superadmins' # {}
        BY <1>1 DEF SuperadminRemains
    <2>1. superadmins # {} /\ u \in Existing /\ users[u].role = job[w].role
        BY <1>1, <1>2, <1>3 DEF IInv, SuperadminRemains, Request, Changing
    <2>2. None # "superadmin"
        BY IdentityAssumption
    <2>3. PICK x \in superadmins : x # u
        <3>1. CASE job[w].role = "superadmin"
            BY <1>1, <1>2, <1>3, <2>2, <3>1 DEF Request
        <3>2. CASE job[w].role # "superadmin"
            BY <2>1, <3>2 DEF superadmins
        <3> QED
            BY <3>1, <3>2
    <2>4. x \in superadmins'
        BY <1>4, <2>3 DEF superadmins
    <2> QED
        BY <2>4
<1>6. /\ SameLogins /\ sessions' \in [Tokens -> UserSessions \cup {None}]
      /\ \A s \in Live' : sessions'[s].user # u /\ s \in Live /\ sessions'[s] = sessions[s]
    BY <1>0, <1>1 DEF WithoutSessionsOf, SameLogins, Live
<1>7. ASSUME NEW s \in Live' PROVE sessions'[s].user \in Existing \ {u}
    BY <1>6, <1>7 DEF IInv, OwnSession
<1>8. SamePersons /\ SamePasswords
    BY <1>4, <1>7 DEF SamePersons, SamePasswords
<1>9. j \in Jobs /\ j.user = u
    BY <1>2, NoJobType DEF Jobs, NoJob
<1> HIDE DEF j
<1>10. /\ pc'[w] = "clear" /\ job'[w] = j
       /\ \A v \in Workers \ {w} : pc'[v] = pc[v] /\ job'[v] = job[v]
    BY <1>0, <1>1 DEF Goto
<1>11. Request(w)'
    BY <1>2, <1>9, <1>10 DEF Request, Changing
<1>12. OwnSession'
    BY <1>6, <1>8, StillOwn
<1>13. CurrentPassword'
    <2>1. faults' >= faults /\ faults' \in Nat
        BY <1>1, IdentityAssumption DEF IInv, TypeOK
    <2> QED
        BY <1>1, <1>6, <1>8, <1>10, <2>1, StillCurrent
<1>14. \A v \in Workers \ {w} : ~overlap' /\ pc[v] = "setup" => persons' = 0
    BY <1>1, <1>3 DEF IInv, Requests, Request
<1>15. persons' \in 0 .. MaxPersons /\ SomebodyHad'
    BY <1>1, <1>4 DEF IInv, TypeOK, SomebodyHad
<1> QED
    BY <1>1, <1>3, <1>4, <1>5, <1>6, <1>9, <1>11, <1>12, <1>13, <1>14, <1>15, WriteKeepsIInv
    DEF Steps

(* A new password: the request that set it is the one that clears the      *)
(* sessions of the old one.                                                *)
LEMMA ResetKeepsIInv ==
    ASSUME IInv, NEW w \in Workers, reset_password(w)
    PROVE  IInv'
<1> DEFINE u == job[w].user
           r == [users[u] EXCEPT !.password = @ + 1]
<1>0. /\ pc \in [Workers -> Steps] /\ job \in [Workers -> Jobs]
      /\ users \in [Ids -> Users \cup {None}] /\ sessions \in [Tokens -> UserSessions \cup {None}]
    BY DEF IInv, TypeOK
<1>1. /\ pc[w] = "reset" /\ UNCHANGED <<sessions, persons, overlap, faults>>
      /\ job[w] \in Jobs /\ Request(w) /\ u \in Ids
    BY <1>0 DEF reset_password, IInv, Requests, Request
<1>2. SameLogins
    BY <1>1 DEF SameLogins
<1>3. CASE u \notin Existing
    BY <1>0, <1>1, <1>2, <1>3, FinishKeepsIInv DEF reset_password
<1>4. CASE u \in Existing
    <2>1. /\ users' = [users EXCEPT ![u] = r] /\ Goto(w, "clear", job[w])
          /\ users[u].password < MaxResets
        BY <1>4 DEF reset_password
    <2>2. users[u] \in Users
        BY <1>0, <1>4 DEF Existing
    <2>3. users[u].password + 1 \in 0 .. MaxResets
        BY <2>1, <2>2, IdentityAssumption DEF Users
    <2>4. r \in Users /\ r.role = users[u].role /\ r.person = users[u].person
        BY <2>2, <2>3 DEF Users
    <2> HIDE DEF r
    <2>5. r # None
        BY <2>4, RowsAssumption
    <2>6. /\ users' \in [Ids -> Users \cup {None}] /\ Existing' = Existing
          /\ \A x \in Existing : /\ users'[x].role = users[x].role
                                 /\ users'[x].person = users[x].person
                                 /\ x # u => users'[x] = users[x]
        BY <1>0, <1>4, <2>1, <2>4, <2>5 DEF Existing
    <2>7. SameRoles
        BY <2>6 DEF SameRoles
    <2>8. ASSUME NEW s \in Live' PROVE s \in Live /\ sessions'[s].user \in Existing
        BY <1>1, <2>8 DEF IInv, OwnSession, Live
    <2>9. SamePersons
        BY <2>6, <2>8 DEF SamePersons
    <2>10. /\ pc'[w] = "clear" /\ job'[w] = job[w]
           /\ \A v \in Workers \ {w} : pc'[v] = pc[v] /\ job'[v] = job[v]
        BY <1>0, <2>1 DEF Goto
    <2>11. Request(w)'
        BY <1>1, <2>10 DEF Request, Changing
    <2>12. OwnSession'
        BY <1>2, <2>9, StillOwn
    <2>13. CurrentPassword'
        <3> SUFFICES ASSUME NEW s \in Live'
                     PROVE  \/ users'[sessions[s].user].password = sessions[s].password
                            \/ sessions[s].late
                            \/ faults > 0
                            \/ \E v \in Workers : pc'[v] = "clear"
                                                  /\ job'[v].user = sessions[s].user
            BY <1>1 DEF CurrentPassword
        <3>1. CASE sessions[s].user = u
            BY <2>10, <3>1
        <3>2. CASE sessions[s].user # u
            <4>1. s \in Live /\ users'[sessions[s].user] = users[sessions[s].user]
                BY <1>1, <2>6, <2>8, <3>2
            <4>2. \A v \in Workers : pc[v] = "clear" => pc'[v] = "clear" /\ job'[v] = job[v]
                BY <1>1, <2>10
            <4> QED
                BY <4>1, <4>2 DEF IInv, CurrentPassword
        <3> QED
            BY <3>1, <3>2
    <2>14. SuperadminRemains'
        BY <1>1, <2>7, StillSuperadmins DEF IInv, SuperadminRemains
    <2>15. /\ \A v \in Workers \ {w} : ~overlap' /\ pc[v] = "setup" => persons' = 0
           /\ persons' \in 0 .. MaxPersons /\ overlap' \in BOOLEAN /\ SomebodyHad'
        BY <1>1, <2>6 DEF IInv, TypeOK, Requests, Request, SomebodyHad
    <2> QED
        BY <1>0, <1>1, <2>1, <2>6, <2>7, <2>11, <2>12, <2>13, <2>14, <2>15, WriteKeepsIInv
        DEF Steps
<1> QED
    BY <1>3, <1>4

(* A crash ends every request, and from then on a session of an old        *)
(* password may be left.                                                   *)
LEMMA CrashKeepsIInv ==
    ASSUME IInv, Crash
    PROVE  IInv'
<1>1. /\ \A w \in Workers : pc'[w] = "idle"
      /\ faults' = faults + 1 /\ UNCHANGED <<users, sessions, persons, overlap>>
    BY DEF Crash
<1>2. faults' > 0 /\ faults' \in 0 .. MaxFaults
    BY <1>1, IdentityAssumption DEF Crash, IInv, TypeOK
<1>3. TypeOK'
    BY <1>1, <1>2, NoJobType DEF Crash, IInv, TypeOK, Steps
<1>4. Existing' = Existing /\ Live' = Live /\ superadmins' = superadmins
    BY <1>1 DEF Existing, Live, superadmins
<1>5. Requests' /\ SetupAlone' /\ SomebodyHad'
    BY <1>1, <1>4 DEF IInv, Requests, Request, Changing, SetupAlone, SomebodyHad
<1>6. OwnSession' /\ CurrentPassword' /\ SuperadminRemains'
    BY <1>1, <1>2, <1>4 DEF IInv, OwnSession, CurrentPassword, SuperadminRemains
<1> QED
    BY <1>3, <1>5, <1>6 DEF IInv

-----------------------------------------------------------------------------
(* Theorems                                                                *)

(* An empty instance.                                                      *)
LEMMA InitIInv == Init => IInv
<1> SUFFICES ASSUME Init PROVE IInv
    OBVIOUS
<1>1. TypeOK
    <2>1. overlap \in BOOLEAN
        BY DEF Init
    <2>2. persons \in 0 .. MaxPersons /\ faults \in 0 .. MaxFaults
        BY IdentityAssumption DEF Init
    <2>3. pc \in [Workers -> Steps] /\ job \in [Workers -> Jobs]
        BY NoJobType DEF Init, Steps
    <2>4. users \in [Ids -> Users \cup {None}] /\ sessions \in [Tokens -> UserSessions \cup {None}]
        BY DEF Init
    <2> QED
        BY <2>1, <2>2, <2>3, <2>4 DEF TypeOK
<1>2. Requests /\ SetupAlone /\ SomebodyHad
    BY DEF Init, Requests, Request, Changing, SetupAlone, SomebodyHad, Existing
<1>3. OwnSession /\ CurrentPassword /\ SuperadminRemains
    BY DEF Init, OwnSession, CurrentPassword, SuperadminRemains, Live
<1> QED
    BY <1>1, <1>2, <1>3 DEF IInv

(* The invariant is inductive.                                             *)
LEMMA NextIInv == IInv /\ [Next]_vars => IInv'
<1> SUFFICES ASSUME IInv, [Next]_vars PROVE IInv'
    OBVIOUS
<1>1. ASSUME NEW w \in Workers, Accept(w) PROVE IInv'
    BY <1>1, AcceptKeepsIInv
<1>2. ASSUME NEW w \in Workers, Continue(w) PROVE IInv'
    BY <1>2, ReplaceKeepsIInv, CreateSessionKeepsIInv, CreateFirstKeepsIInv, CheckKeepsIInv,
       InsertUserKeepsIInv, UpdateRoleKeepsIInv, DeleteUserKeepsIInv, ResetKeepsIInv, ClearKeepsIInv DEF Continue
<1>3. ASSUME NEW s \in Tokens, touch_session(s) \/ logout(s) \/ Age(s) PROVE IInv'
    BY <1>3, SessionStepsKeepIInv
<1>4. CASE Crash
    BY <1>4, CrashKeepsIInv
<1>5. CASE UNCHANGED vars
    BY <1>5 DEF vars, IInv, TypeOK, Requests, Request, Changing, SetupAlone, OwnSession,
                SomebodyHad, CurrentPassword, SuperadminRemains, Existing, Live, superadmins
<1> QED
    BY <1>1, <1>2, <1>3, <1>4, <1>5 DEF Next

(* Every reachable state satisfies the inductive invariant.                *)
LEMMA SpecIInv == Spec => []IInv
<1> QED
    BY InitIInv, NextIInv, PTL DEF Spec

(* The rows of users and sessions and what each request carries keep their *)
(* types.                                                                  *)
THEOREM TypeCorrect == Spec => []TypeOK
<1>1. IInv => TypeOK
    BY DEF IInv
<1> QED
    BY <1>1, SpecIInv, PTL

(* delete_user, create_user and create_session, in any order: a session    *)
(* always has a user, and it is another's only when the login was under    *)
(* way while the account changed hands.                                    *)
THEOREM SessionsAreOwn == Spec => []OwnSession
<1>1. IInv => OwnSession
    BY DEF IInv
<1> QED
    BY <1>1, SpecIInv, PTL

(* delete_sessions_for_user: sessions of an old password are on their way  *)
(* out, however many resets and logins there are at once.                  *)
THEOREM PasswordsAreCurrent == Spec => []CurrentPassword
<1>1. IInv => CurrentPassword
    BY DEF IInv
<1> QED
    BY <1>1, SpecIInv, PTL

(* LastSuperadminError does what it is for when no two changes overlap.    *)
THEOREM ASuperadminRemains == Spec => []SuperadminRemains
<1>1. IInv => SuperadminRemains
    BY DEF IInv
<1> QED
    BY <1>1, SpecIInv, PTL

(* setup_submit under _setup_lock, with create_user_route and delete_user  *)
(* outside it: /setup makes the first account there has ever been, unless  *)
(* two changes of users or roles overlapped and emptied the table.         *)
THEOREM SetupIsFirst == Spec => SetupOnlyFirst
<1>1. IInv => \A w \in Workers : CreateFirst(w) => persons = 0 \/ overlap
    BY DEF IInv, Requests, Request, CreateFirst
<1> QED
    BY <1>1, SpecIInv, PTL DEF SetupOnlyFirst

=============================================================================
