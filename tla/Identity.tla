------------------------------ MODULE Identity ------------------------------
(***************************************************************************)
(* Users and their sessions: users.py, sessions.py and the routes of       *)
(* web/ui.py and web/deps.py that change them.                             *)
(*                                                                         *)
(* A worker is one request.  What it loaded is in its job; each write is a *)
(* commit of its own.  Usernames are left out: a taken one is refused, by  *)
(* the look-up or by the unique index, with nothing written.  A password   *)
(* is the number of times it was reset.                                    *)
(***************************************************************************)
EXTENDS Integers, FiniteSets, FiniteSetsExt

CONSTANTS
    MaxUsers,   \* bound on users.id
    MaxPersons, \* bound on the people who ever get an account
    MaxResets,  \* bound on the resets of one account
    Tokens,     \* session cookies
    Workers,
    MaxFaults,  \* bound on crashes
    None        \* SQL NULL

ASSUME IdentityAssumption ==
    /\ MaxUsers \in Nat \ {0} /\ MaxPersons \in Nat /\ MaxResets \in Nat /\ MaxFaults \in Nat
    /\ None \notin Nat \cup Tokens \cup {"superadmin", "admin"}

VARIABLES
    users,    \* users by id, None when there is no such row
    sessions, \* sessions by token
    pc, job,  \* what each request does next, and what it has read
    persons,  \* history: how many people have had an account
    overlap,  \* history: a role or a user changed under a request that changes one
    faults

vars == <<users, sessions, pc, job, persons, overlap, faults>>

-----------------------------------------------------------------------------

Ids == 1 .. MaxUsers

(* A viewer, like an admin, is not a superadmin, and nothing here tells    *)
(* the two apart.                                                          *)
Roles == {"superadmin", "admin"}

(* person is history: whose account this is.                               *)
Users == [role : Roles, password : 0 .. MaxResets, person : 1 .. MaxPersons]

(* expires is what is left of SESSION_LIFETIME: more than _REFRESH_WINDOW, *)
(* less, or nothing.  person and password are history: who logged in with  *)
(* what; late says that the account had changed since they were checked.   *)
UserSessions ==
    [user : Ids, expires : {"far", "near", "over"},
     person : 1 .. MaxPersons, password : 0 .. MaxResets, late : BOOLEAN]

(* NULL is no row.                                                         *)
ASSUME RowsAssumption == None \notin Users \cup UserSessions

Steps == {"idle", "login", "session", "setup", "create", "count", "role", "delete", "reset",
          "clear"}

(* role is the role that was loaded, newRole the one that was posted, None *)
(* for a deletion.                                                         *)
Jobs ==
    [user : Ids \cup {None}, role : Roles \cup {None}, newRole : Roles \cup {None},
     person : 0 .. MaxPersons, password : 0 .. MaxResets]

NoJob == [user |-> None, role |-> None, newRole |-> None, person |-> 0, password |-> 0]

Goto(w, step, j) == pc' = [pc EXCEPT ![w] = step] /\ job' = [job EXCEPT ![w] = j]

Finish(w) == Goto(w, "idle", NoJob)

Existing == {u \in Ids : users[u] # None}

Live == {s \in Tokens : sessions[s] # None}

superadmins == {u \in Existing : users[u].role = "superadmin"}

_count_superadmins(exclude) == Cardinality(superadmins \ {exclude})

(* get_session: the row is there and not past its expiry.                  *)
get_session(s) == sessions[s] # None /\ sessions[s].expires # "over"

(* A request that has loaded the role it is about to change or remove.     *)
Changing(w) == pc[w] \in {"count", "role", "delete"}

NoteOverlap(w) == overlap' = (overlap \/ \E v \in Workers \ {w} : Changing(v))

-----------------------------------------------------------------------------
(* The front door                                                          *)

(* get_current_user: a live session of a stored user; its expiry slides on *)
(* when it is near.  A row that is deleted between the look-up and the     *)
(* UPDATE makes the request fail, as if it had come later.                 *)
get_current_user(s) ==
    /\ get_session(s)
    /\ sessions[s].user \in Existing

Touched(s) == [sessions EXCEPT ![s].expires = IF @ = "near" THEN "far" ELSE @]

require_superadmin(s) == get_current_user(s) /\ users[sessions[s].user].role = "superadmin"

(* Any page.                                                               *)
touch_session(s) ==
    /\ get_current_user(s)
    /\ sessions[s].expires = "near"
    /\ sessions' = Touched(s)
    /\ UNCHANGED <<users, pc, job, persons, overlap, faults>>

logout(s) ==
    /\ get_current_user(s)
    /\ sessions' = [sessions EXCEPT ![s] = None]
    /\ UNCHANGED <<users, pc, job, persons, overlap, faults>>

(* The right password of an account; a wrong one only leaves an event.     *)
verify_credentials(w, u) ==
    /\ pc[w] = "idle"
    /\ u \in Existing
    /\ Goto(w, "login", [NoJob EXCEPT !.user = u, !.person = users[u].person,
                                      !.password = users[u].password])
    /\ UNCHANGED <<users, sessions, persons, overlap, faults>>

(* login_submit: the session of the cookie that came along goes if it is   *)
(* the same user's; every expired one goes.                                *)
ReplaceSession(w, cookie) ==
    /\ pc[w] = "login"
    /\ cookie # None => get_session(cookie) /\ sessions[cookie].user = job[w].user
    /\ sessions' = [s \in Tokens |->
                        IF s \in Live /\ (s = cookie \/ sessions[s].expires = "over")
                        THEN None ELSE sessions[s]]
    /\ Goto(w, "session", job[w])
    /\ UNCHANGED <<users, persons, overlap, faults>>

(* The row names the user by id.  The foreign key refuses an id that is    *)
(* gone; the request then fails.                                           *)
create_session(w, s) ==
    LET j == job[w]
    IN  /\ pc[w] = "session"
        /\ sessions[s] = None
        /\ sessions' =
               IF j.user \in Existing
               THEN [sessions EXCEPT ![s] =
                       [user |-> j.user, expires |-> "far",
                        person |-> j.person, password |-> j.password,
                        late |-> \/ users[j.user].person # j.person
                                 \/ users[j.user].password # j.password]]
               ELSE sessions
        /\ Finish(w)
        /\ UNCHANGED <<users, persons, overlap, faults>>

-----------------------------------------------------------------------------
(* Accounts                                                                *)

(* SQLite takes the highest id in use and one: the id of a deleted user    *)
(* comes back.                                                             *)
NewId == Max({0} \cup Existing) + 1

create_user(role) ==
    /\ NewId \in Ids
    /\ persons < MaxPersons
    /\ users' = [users EXCEPT ![NewId] = [role |-> role, password |-> 0, person |-> persons + 1]]
    /\ persons' = persons + 1

(* Mutant: nothing holds off a second request between check and creation.  *)
_setup_lock_none == TRUE

(* One request at a time is between the check for users and the creation.  *)
_setup_lock == \A w \in Workers : pc[w] # "setup"

setup_submit(w) ==
    /\ pc[w] = "idle"
    /\ _setup_lock
    /\ Existing = {}
    /\ Goto(w, "setup", NoJob)
    /\ UNCHANGED <<users, sessions, persons, overlap, faults>>

(* Whoever set the instance up is logged in.                               *)
CreateFirst(w) ==
    /\ pc[w] = "setup"
    /\ create_user("superadmin")
    /\ Goto(w, "session", [NoJob EXCEPT !.user = NewId, !.person = persons + 1])
    /\ UNCHANGED <<sessions, overlap, faults>>

(* A superadmin posts a new account.  The password is hashed before the    *)
(* INSERT, and _setup_lock is not taken.                                   *)
create_user_route(w, s, role) ==
    /\ pc[w] = "idle"
    /\ require_superadmin(s)
    /\ sessions' = Touched(s)
    /\ Goto(w, "create", [NoJob EXCEPT !.newRole = role])
    /\ UNCHANGED <<users, persons, overlap, faults>>

(* By now the superadmin who asked may be gone, or everybody.              *)
InsertUser(w) ==
    /\ pc[w] = "create"
    /\ create_user(job[w].newRole)
    /\ Finish(w)
    /\ UNCHANGED <<sessions, overlap, faults>>

(* A superadmin posts a new role for u, or None to delete u.  The row is   *)
(* loaded here, the others are counted in a later statement.               *)
update_role_route(w, s, u, newRole) ==
    /\ pc[w] = "idle"
    /\ require_superadmin(s)
    /\ u \in Existing
    /\ sessions' = Touched(s)
    /\ Goto(w, "count", [NoJob EXCEPT !.user = u, !.role = users[u].role, !.newRole = newRole])
    /\ UNCHANGED <<users, persons, overlap, faults>>

(* Mutant: the superadmin in question is counted too.                      *)
LastSuperadminError_itself(j) ==
    j.role = "superadmin" /\ j.newRole # "superadmin" /\ _count_superadmins(None) = 0

LastSuperadminError(j) ==
    j.role = "superadmin" /\ j.newRole # "superadmin" /\ _count_superadmins(j.user) = 0

CheckSuperadmins(w) ==
    /\ pc[w] = "count"
    /\ IF LastSuperadminError(job[w]) THEN Finish(w)
       ELSE Goto(w, IF job[w].newRole = None THEN "delete" ELSE "role", job[w])
    /\ UNCHANGED <<users, sessions, persons, overlap, faults>>

(* The role that was loaded needs no UPDATE; an UPDATE of a row that is    *)
(* gone fails.                                                             *)
update_role(w) ==
    LET j == job[w]
    IN  /\ pc[w] = "role"
        /\ users' = IF j.role # j.newRole /\ j.user \in Existing
                    THEN [users EXCEPT ![j.user].role = j.newRole] ELSE users
        /\ NoteOverlap(w)
        /\ Finish(w)
        /\ UNCHANGED <<sessions, persons, faults>>

(* Mutant: the sessions are left to the statement that follows.            *)
WithoutSessionsOf_later(u) == sessions

(* The rows of sessions go with the user's (ON DELETE CASCADE).            *)
WithoutSessionsOf(u) ==
    [s \in Tokens |-> IF s \in Live /\ sessions[s].user = u THEN None ELSE sessions[s]]

delete_user(w) ==
    /\ pc[w] = "delete"
    /\ users' = [users EXCEPT ![job[w].user] = None]
    /\ sessions' = WithoutSessionsOf(job[w].user)
    /\ NoteOverlap(w)
    /\ Goto(w, "clear", [NoJob EXCEPT !.user = job[w].user])
    /\ UNCHANGED <<persons, faults>>

reset_password_route(w, s, u) ==
    /\ pc[w] = "idle"
    /\ require_superadmin(s)
    /\ u \in Existing
    /\ users[u].password < MaxResets
    /\ sessions' = Touched(s)
    /\ Goto(w, "reset", [NoJob EXCEPT !.user = u])
    /\ UNCHANGED <<users, persons, overlap, faults>>

(* Mutant: the route ends with the new password.                           *)
reset_password_only(w) ==
    LET u == job[w].user
    IN  /\ pc[w] = "reset"
        /\ u \in Existing => users[u].password < MaxResets
        /\ IF u \in Existing
           THEN users' = [users EXCEPT ![u].password = @ + 1]
           ELSE UNCHANGED users
        /\ Finish(w)
        /\ UNCHANGED <<sessions, persons, overlap, faults>>

(* The hash is written over whatever the row holds by now.                 *)
reset_password(w) ==
    LET u == job[w].user
    IN  /\ pc[w] = "reset"
        /\ u \in Existing => users[u].password < MaxResets
        /\ IF u \in Existing
           THEN users' = [users EXCEPT ![u].password = @ + 1] /\ Goto(w, "clear", job[w])
           ELSE UNCHANGED users /\ Finish(w)
        /\ UNCHANGED <<sessions, persons, overlap, faults>>

delete_sessions_for_user(w) ==
    /\ pc[w] = "clear"
    /\ sessions' = [s \in Tokens |-> IF s \in Live /\ sessions[s].user = job[w].user
                                     THEN None ELSE sessions[s]]
    /\ Finish(w)
    /\ UNCHANGED <<users, persons, overlap, faults>>

-----------------------------------------------------------------------------
(* Time and faults                                                         *)

Age(s) ==
    /\ get_session(s)
    /\ sessions' = [sessions EXCEPT ![s].expires = IF @ = "far" THEN "near" ELSE "over"]
    /\ UNCHANGED <<users, pc, job, persons, overlap, faults>>

(* The process ends; every request is gone, what was committed stays.      *)
Crash ==
    /\ faults < MaxFaults
    /\ faults' = faults + 1
    /\ pc' = [w \in Workers |-> "idle"]
    /\ job' = [w \in Workers |-> NoJob]
    /\ UNCHANGED <<users, sessions, persons, overlap>>

-----------------------------------------------------------------------------

Init ==
    /\ users = [u \in Ids |-> None]
    /\ sessions = [s \in Tokens |-> None]
    /\ pc = [w \in Workers |-> "idle"]
    /\ job = [w \in Workers |-> NoJob]
    /\ persons = 0 /\ overlap = FALSE /\ faults = 0

Accept(w) ==
    \/ setup_submit(w)
    \/ \E u \in Ids : verify_credentials(w, u)
    \/ \E s \in Tokens, role \in Roles : create_user_route(w, s, role)
    \/ \E s \in Tokens, u \in Ids, role \in Roles \cup {None} : update_role_route(w, s, u, role)
    \/ \E s \in Tokens, u \in Ids : reset_password_route(w, s, u)

Continue(w) ==
    \/ \E cookie \in Tokens \cup {None} : ReplaceSession(w, cookie)
    \/ \E s \in Tokens : create_session(w, s)
    \/ CreateFirst(w) \/ InsertUser(w)
    \/ CheckSuperadmins(w) \/ update_role(w) \/ delete_user(w)
    \/ reset_password(w) \/ delete_sessions_for_user(w)

Next ==
    \/ \E w \in Workers : Accept(w) \/ Continue(w)
    \/ \E s \in Tokens : touch_session(s) \/ logout(s) \/ Age(s)
    \/ Crash

Spec == Init /\ [][Next]_vars

-----------------------------------------------------------------------------
(* Properties                                                              *)

(* Every column and every session variable holds what it can hold.         *)
TypeOK ==
    /\ users \in [Ids -> Users \cup {None}]
    /\ sessions \in [Tokens -> UserSessions \cup {None}]
    /\ pc \in [Workers -> Steps]
    /\ job \in [Workers -> Jobs]
    /\ persons \in 0 .. MaxPersons /\ overlap \in BOOLEAN /\ faults \in 0 .. MaxFaults

(* delete_user and the foreign key of sessions: a session always has a     *)
(* user, and nobody who gets the id of a deleted user finds that user's    *)
(* sessions.  Only a login that had checked its password before the        *)
(* deletion can be stored under somebody else.                             *)
OwnSession ==
    \A s \in Live :
        /\ sessions[s].user \in Existing
        /\ users[sessions[s].user].person # sessions[s].person => sessions[s].late

(* delete_sessions_for_user's docstring: after a password reset no session *)
(* that the old password opened is left, but for one whose login was under *)
(* way, or while the reset has not come to it, or if a crash cut it off.   *)
CurrentPassword ==
    \A s \in Live :
        LET u == sessions[s].user
        IN  \/ users[u].password = sessions[s].password
            \/ sessions[s].late
            \/ faults > 0
            \/ \E w \in Workers : pc[w] = "clear" /\ job[w].user = u

(* LastSuperadminError: once somebody has an account there is a superadmin *)
(* and /setup stays closed, unless two changes of roles or users ran into  *)
(* each other.                                                             *)
SuperadminRemains == persons > 0 /\ ~ overlap => superadmins # {}

(* setup_submit: the account that needs no permission is only ever made on *)
(* an instance where nobody has had one, whoever else is at /setup.  Two   *)
(* changes that ran into each other may have emptied the table; then, and  *)
(* only then, /setup is open again, and an account that was asked for      *)
(* before may be stored between its look at the table and its INSERT.      *)
SetupOnlyFirst == [][\A w \in Workers : CreateFirst(w) => persons = 0 \/ overlap]_vars

=============================================================================
