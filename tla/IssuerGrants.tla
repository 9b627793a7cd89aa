---------------------------- MODULE IssuerGrants ----------------------------
(***************************************************************************)
(* Who may issue and revoke through which issuer: issuer_grants.py, the    *)
(* principals of users.py and api_tokens.py, and the routes that change    *)
(* grants while others use them.                                           *)
(*                                                                         *)
(* A worker is one request; a principal is taken from the row that was     *)
(* loaded when the request was authenticated, and that role is used to the *)
(* end.  Users are those whose rights are in question; the superadmin who  *)
(* manages them is not one of them.  Sessions and the rule about the last  *)
(* superadmin are in Identity, the rules of retirement in CaHierarchy.     *)
(***************************************************************************)
EXTENDS Integers, FiniteSets, FiniteSetsExt

CONSTANTS
    MaxUsers, \* bound on users.id
    Tokens,   \* rows of api_tokens
    Issuers,  \* intermediates
    Workers,
    None      \* SQL NULL

ASSUME GrantsAssumption ==
    /\ MaxUsers \in Nat \ {0} /\ Tokens \cap Nat = {} /\ None \notin Nat \cup Tokens
    /\ None \notin {"superadmin", "admin", "viewer", "active", "retired"}

VARIABLES
    users,   \* the role of each user, None when there is no such row
    tokens,  \* the role of each API token, None before it is minted
    dead,    \* tokens that were revoked or have expired
    issuers, \* the status of each intermediate, None before it is created
    grants,  \* user_issuers and token_issuers
    pc, job, \* what each request does next, and what it has read
    past     \* history: what was true at some time before each request decided

tables == <<users, tokens, dead, issuers, grants>>

vars == <<users, tokens, dead, issuers, grants, pc, job, past>>

-----------------------------------------------------------------------------

Ids == 1 .. MaxUsers

Roles == {"superadmin", "admin", "viewer"}

ADMIN_ROLES == {"superadmin", "admin"}

Principals == Ids \cup Tokens

Steps == {"idle", "resolve", "narrow", "sign", "revoke", "mark", "replace", "grant"}

(* who is the principal, or the one whose grants are changed, role the     *)
(* role it was loaded with, choice the issuers that are left.              *)
Jobs == [who : Principals \cup {None}, role : Roles \cup {None}, choice : SUBSET Issuers]

NoJob == [who |-> None, role |-> None, choice |-> {}]

(* Whether the principal could issue at all, which issuers it was allowed, *)
(* and which were active.                                                  *)
Pasts == [fit : BOOLEAN, held : SUBSET Issuers, open : SUBSET Issuers]

NoPast == [fit |-> FALSE, held |-> {}, open |-> {}]

Goto(w, step, j) == pc' = [pc EXCEPT ![w] = step] /\ job' = [job EXCEPT ![w] = j]

Finish(w) == Goto(w, "idle", NoJob)

Created == {i \in Issuers : issuers[i] # None}

active_issuers == {i \in Issuers : issuers[i] = "active"}

(* The row of a principal as it is now.                                    *)
RoleOf(p) == IF p \in Tokens THEN tokens[p] ELSE users[p]

-----------------------------------------------------------------------------
(* Principals                                                              *)

(* Principal.unrestricted, of users and tokens.                            *)
unrestricted(role) == role = "superadmin"

(* A token that was minted and is neither revoked nor expired.             *)
verify_token(t) == tokens[t] # None /\ t \notin dead

(* require_admin and require_api_write.                                    *)
Authenticated(p) ==
    /\ p \in Tokens => verify_token(p)
    /\ RoleOf(p) \in ADMIN_ROLES

(* What the rows say at this moment, for the history variables: whether a  *)
(* principal may issue at all, and the issuers that it is allowed.         *)
Fit(p) == p \notin dead /\ RoleOf(p) \in ADMIN_ROLES

Allowed(p) == IF RoleOf(p) = "superadmin" THEN Issuers ELSE grants[p]

(* The issuers that a principal may use; their status is not looked at.    *)
may_use_issuer(j) == IF unrestricted(j.role) THEN Issuers ELSE grants[j.who]

-----------------------------------------------------------------------------
(* Issuing and revoking                                                    *)

(* A request to issue or to revoke, of the UI, the API or MCP, is let in.  *)
Authenticate(w, p, step) ==
    /\ pc[w] = "idle"
    /\ Authenticated(p)
    /\ Goto(w, step, [NoJob EXCEPT !.who = p, !.role = RoleOf(p)])
    /\ UNCHANGED tables

(* resolve_issuer: a named issuer has to be active; with none named all    *)
(* the active ones are left.                                               *)
resolve_issuer(w, named) ==
    /\ pc[w] = "resolve"
    /\ IF named = None THEN Goto(w, "narrow", [job[w] EXCEPT !.choice = active_issuers])
       ELSE IF named \in active_issuers THEN Goto(w, "narrow", [job[w] EXCEPT !.choice = {named}])
       ELSE Finish(w)
    /\ UNCHANGED tables

(* Mutant: the grants are not read for an issuer that is the only one.     *)
resolve_granted_issuer_sole(w) ==
    LET j == job[w]
        granted == IF Cardinality(j.choice) = 1 THEN j.choice ELSE j.choice \cap may_use_issuer(j)
    IN  /\ pc[w] = "narrow"
        /\ IF Cardinality(granted) = 1 THEN Goto(w, "sign", [j EXCEPT !.choice = granted])
           ELSE Finish(w)
        /\ UNCHANGED tables

(* The grants are read; exactly one issuer has to be left, or the request  *)
(* is refused (forbidden, none granted, or one has to be named).           *)
resolve_granted_issuer(w) ==
    LET j == job[w]
        granted == j.choice \cap may_use_issuer(j)
    IN  /\ pc[w] = "narrow"
        /\ IF Cardinality(granted) = 1 THEN Goto(w, "sign", [j EXCEPT !.choice = granted])
           ELSE Finish(w)
        /\ UNCHANGED tables

(* The certificate is signed and stored, whatever has happened since.  The *)
(* inventory it joins is not part of this module.                          *)
_store(w) ==
    /\ pc[w] = "sign"
    /\ Finish(w)
    /\ UNCHANGED tables

(* The grant on the issuer of the certificate is looked up first.          *)
revoke_certificate(w, i) ==
    /\ pc[w] = "revoke"
    /\ i \in Created
    /\ IF i \in may_use_issuer(job[w]) THEN Goto(w, "mark", [job[w] EXCEPT !.choice = {i}])
       ELSE Finish(w)
    /\ UNCHANGED tables

Mark(w) ==
    /\ pc[w] = "mark"
    /\ Finish(w)
    /\ UNCHANGED tables

-----------------------------------------------------------------------------
(* Grants                                                                  *)

(* Mutant: the ids are not looked up.                                      *)
update_issuers_route_unchecked(w, p, posted) ==
    /\ pc[w] = "idle"
    /\ RoleOf(p) # None
    /\ Goto(w, "replace", [NoJob EXCEPT !.who = p, !.choice = posted])
    /\ UNCHANGED tables

(* A superadmin posts the whole set of an existing user or token; every id *)
(* names an intermediate, retired or not.                                  *)
update_issuers_route(w, p, posted) ==
    /\ pc[w] = "idle"
    /\ RoleOf(p) # None
    /\ posted \subseteq Created
    /\ Goto(w, "replace", [NoJob EXCEPT !.who = p, !.choice = posted])
    /\ UNCHANGED tables

(* Mutant: the tables have no foreign keys.                                *)
ForeignKey_none(p) == TRUE

(* An INSERT for a user who is gone fails, and its transaction with it.    *)
ForeignKey(p) == RoleOf(p) # None

(* The rows there are are read, deleted and inserted anew; on SQLite the   *)
(* DELETE takes the database.  The same set again writes nothing, which is *)
(* as good as having written it when it was read.  Only an INSERT meets    *)
(* the foreign key.                                                        *)
set_issuers(w) ==
    LET j == job[w]
    IN  /\ pc[w] = "replace"
        /\ grants' = IF j.choice = {} \/ ForeignKey(j.who)
                     THEN [grants EXCEPT ![j.who] = j.choice] ELSE grants
        /\ Finish(w)
        /\ UNCHANGED <<users, tokens, dead, issuers>>

(* create_intermediate_under by the route of an administrator, who is      *)
(* granted the new issuer in a second transaction.                         *)
create_intermediate(w, u, i) ==
    /\ pc[w] = "idle"
    /\ users[u] \in ADMIN_ROLES
    /\ issuers[i] = None
    /\ issuers' = [issuers EXCEPT ![i] = "active"]
    /\ Goto(w, "grant", [NoJob EXCEPT !.who = u, !.choice = {i}])
    /\ UNCHANGED <<users, tokens, dead, grants>>

(* A row that exists is not inserted again.                                *)
grant(w) ==
    LET j == job[w]
    IN  /\ pc[w] = "grant"
        /\ grants' = IF ForeignKey(j.who) THEN [grants EXCEPT ![j.who] = @ \cup j.choice] ELSE grants
        /\ Finish(w)
        /\ UNCHANGED <<users, tokens, dead, issuers>>

-----------------------------------------------------------------------------
(* Rows that come, change and go                                           *)

(* The lowest free id above every other one: an id may come back.          *)
create_user(role) ==
    LET u == Max({0} \cup {v \in Ids : users[v] # None}) + 1
    IN  /\ u \in Ids
        /\ users' = [users EXCEPT ![u] = role]
        /\ UNCHANGED <<tokens, dead, issuers, grants, pc, job>>

update_role(u, role) ==
    /\ users[u] # None
    /\ users' = [users EXCEPT ![u] = role]
    /\ UNCHANGED <<tokens, dead, issuers, grants, pc, job>>

(* The user's grants go in the same transaction.                           *)
delete_user(u) ==
    /\ users[u] # None
    /\ users' = [users EXCEPT ![u] = None]
    /\ grants' = [grants EXCEPT ![u] = {}]
    /\ UNCHANGED <<tokens, dead, issuers, pc, job>>

(* The route mints the token in one transaction and posts its grants in    *)
(* another.                                                                *)
create_token(w, t, role, posted) ==
    /\ pc[w] = "idle"
    /\ tokens[t] = None
    /\ posted \subseteq Created
    /\ tokens' = [tokens EXCEPT ![t] = role]
    /\ IF posted = {} THEN UNCHANGED <<pc, job>>
       ELSE Goto(w, "replace", [NoJob EXCEPT !.who = t, !.choice = posted])
    /\ UNCHANGED <<users, dead, issuers, grants>>

(* Revocation or expiry; either is final, and the token keeps its grants.  *)
revoke_token(t) ==
    /\ tokens[t] # None
    /\ dead' = dead \cup {t}
    /\ UNCHANGED <<users, tokens, issuers, grants, pc, job>>

retire(i) ==
    /\ issuers[i] = "active"
    /\ issuers' = [issuers EXCEPT ![i] = "retired"]
    /\ UNCHANGED <<users, tokens, dead, grants, pc, job>>

(* A request fails, or its process ends, after any of its transactions.    *)
Abort(w) ==
    /\ pc[w] # "idle"
    /\ Finish(w)
    /\ UNCHANGED tables

-----------------------------------------------------------------------------

Init ==
    /\ users = [u \in Ids |-> None]
    /\ tokens = [t \in Tokens |-> None]
    /\ dead = {}
    /\ issuers = [i \in Issuers |-> None]
    /\ grants = [p \in Principals |-> {}]
    /\ pc = [w \in Workers |-> "idle"]
    /\ job = [w \in Workers |-> NoJob]
    /\ past = [w \in Workers |-> NoPast]

Accept(w) ==
    \/ \E p \in Principals, step \in {"resolve", "revoke"} : Authenticate(w, p, step)
    \/ \E p \in Principals, posted \in SUBSET Issuers : update_issuers_route(w, p, posted)
    \/ \E u \in Ids, i \in Issuers : create_intermediate(w, u, i)
    \/ \E t \in Tokens, role \in Roles, posted \in SUBSET Issuers : create_token(w, t, role, posted)

Continue(w) ==
    \/ \E named \in Issuers \cup {None} : resolve_issuer(w, named)
    \/ resolve_granted_issuer(w) \/ _store(w)
    \/ \E i \in Issuers : revoke_certificate(w, i)
    \/ Mark(w)
    \/ set_issuers(w) \/ grant(w)
    \/ Abort(w)

Rows ==
    \/ \E role \in Roles : create_user(role)
    \/ \E u \in Ids, role \in Roles : update_role(u, role)
    \/ \E u \in Ids : delete_user(u)
    \/ \E t \in Tokens : revoke_token(t)
    \/ \E i \in Issuers : retire(i)

(* What has been true so far of each request, until it has decided, and of *)
(* the issuers that it has left to choose from.                            *)
Observe ==
    LET Undecided(w) == pc'[w] \in {"resolve", "narrow", "revoke"}
        Left(w)      == IF pc'[w] \in {"resolve", "revoke"} THEN Issuers ELSE job'[w].choice
        Since(w, before, now) == (before \cup (IF Undecided(w) THEN now ELSE {})) \cap Left(w)
    IN  past' = [w \in Workers |->
            IF Undecided(w) \/ pc'[w] \in {"sign", "mark"}
            THEN [fit  |-> past[w].fit \/ (Undecided(w) /\ Fit(job[w].who)'),
                  held |-> Since(w, past[w].held, Allowed(job[w].who)'),
                  open |-> Since(w, past[w].open, active_issuers')]
            ELSE NoPast]

Next == (Rows \/ \E w \in Workers : Accept(w) \/ Continue(w)) /\ Observe

Spec == Init /\ [][Next]_vars

-----------------------------------------------------------------------------
(* Properties                                                              *)

(* Every column and every session variable holds what it can hold.         *)
TypeOK ==
    /\ users \in [Ids -> Roles \cup {None}]
    /\ tokens \in [Tokens -> Roles \cup {None}]
    /\ dead \subseteq {t \in Tokens : tokens[t] # None}
    /\ issuers \in [Issuers -> {"active", "retired", None}]
    /\ grants \in [Principals -> SUBSET Created]
    /\ pc \in [Workers -> Steps]
    /\ job \in [Workers -> Jobs]
    /\ past \in [Workers -> Pasts]

(* resolve_granted_issuer and may_use_issuer: whatever is granted,         *)
(* withdrawn, demoted, deleted, revoked or retired meanwhile, a            *)
(* certificate is signed through an issuer that was active while the       *)
(* request was being decided, for a principal that could issue and was     *)
(* allowed the issuer while it was; and one is revoked for a principal     *)
(* that could and was, whether or not the issuer was active.  The times    *)
(* need not be the same.                                                   *)
UsedWithGrant ==
    [][\A w \in Workers :
        /\ _store(w) => past[w].fit /\ job[w].choice \subseteq past[w].held \cap past[w].open
        /\ Mark(w) => past[w].fit /\ job[w].choice \subseteq past[w].held]_vars

(* delete_user and the foreign keys: no grant is left behind by, or lands  *)
(* after, the deletion of a user, so that nobody who is given the id again *)
(* starts with the rights of someone else.                                 *)
NoOrphanGrants == \A u \in Ids : users[u] = None => grants[u] = {}

=============================================================================
