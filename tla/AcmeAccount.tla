---------------------------- MODULE AcmeAccount ----------------------------
(***************************************************************************)
(* ACME accounts and external account binding: acme/api_account.py,        *)
(* acme/eab.py and the account half of acme/service.py.                    *)
(*                                                                         *)
(* A registration reads and commits several times before it answers; each  *)
(* action below is the stretch between two database statements that others *)
(* can see or get in between.  A worker's job holds what it loaded, which  *)
(* may be stale by the time it is used.                                    *)
(***************************************************************************)
EXTENDS Naturals, FiniteSets

CONSTANTS
    Keys,          \* account keys (thumbprints)
    Issuers,       \* the directories /acme/ca/{id}
    EabKeys,       \* operator-issued binding credentials
    EabIssuer,     \* ca_certificate_id of each
    Workers,
    MaxAccounts,   \* bound on account rows
    MaxFaults,     \* bound on crashes
    None           \* SQL NULL, no key, no binding presented

ASSUME AccountAssumption ==
    /\ EabIssuer \in [EabKeys -> Issuers]
    /\ MaxAccounts \in Nat \ {0} /\ MaxFaults \in Nat
    /\ None \notin Keys \cup Issuers \cup EabKeys \cup Nat

VARIABLES
    account,   \* acme_accounts
    eab,       \* acme_eab_keys: life and bound_account_id
    ordered,   \* accounts that an acme_orders row references
    retired,   \* issuers that are no longer active
    audited,   \* accounts with an acme_account_created event
    requireEab, \* the setting acme_require_eab, the operator's choice throughout
    pc, job, reply,
    faults

vars == <<account, eab, ordered, retired, audited, requireEab, pc, job, reply, faults>>

-----------------------------------------------------------------------------

AccountIds == 1 .. MaxAccounts

NoAccount == [status |-> "absent", key |-> None, issuer |-> None]

AccountRows ==
    {NoAccount} \cup
    [status : {"valid", "deactivated", "deleted"}, key : Keys, issuer : Issuers]

EabRows == [life : {"unminted", "live", "revoked"}, bound : AccountIds \cup {None}]

Steps == {"idle", "find", "verify", "create", "insert", "reread", "spend", "bind", "delete",
          "audit", "deactivate", "conflict", "rotate", "order"}

(* active is the status of the issuer row as loaded; fresh says that a     *)
(* rollback expired the loaded binding, so that its next use reads it anew.*)
Jobs == [key : Keys \cup {None}, newKey : Keys \cup {None}, issuer : Issuers \cup {None},
         eab : EabKeys \cup {None}, active : BOOLEAN, account : AccountIds \cup {None},
         created : BOOLEAN, fresh : BOOLEAN]

NoJob == [key |-> None, newKey |-> None, issuer |-> None, eab |-> None, active |-> FALSE,
          account |-> None, created |-> FALSE, fresh |-> FALSE]

(* What the client was told: 201, 200, a refusal (unbound is the one of    *)
(* _spend_binding), or a bare 500 (the last three).                        *)
Codes == {"none", "created", "found", "refused", "unbound", "attached", "corrupt", "stale"}

Replies == [code : Codes, account : AccountIds \cup {None}, issuer : Issuers \cup {None},
            eab : EabKeys \cup {None}]

NoReply == [code |-> "none", account |-> None, issuer |-> None, eab |-> None]

Exists(a) == account[a].status \in {"valid", "deactivated"}

find_account_by_key(k) == {a \in AccountIds : Exists(a) /\ account[a].key = k}

BoundTo(a) == {e \in EabKeys : eab[e].bound = a}

FreshIds == {a \in AccountIds : account[a].status = "absent"}

Goto(w, step, j) ==
    /\ pc' = [pc EXCEPT ![w] = step]
    /\ job' = [job EXCEPT ![w] = j]
    /\ UNCHANGED reply

AnswerWith(w, code, a) ==
    /\ pc' = [pc EXCEPT ![w] = "idle"]
    /\ job' = [job EXCEPT ![w] = NoJob]
    /\ reply' = [reply EXCEPT ![w] = [code |-> code, account |-> a,
                                      issuer |-> job[w].issuer, eab |-> job[w].eab]]

Answer(w, code) == AnswerWith(w, code, job[w].account)

rows == <<account, eab, ordered, retired, audited, requireEab>>

-----------------------------------------------------------------------------
(* new-account                                                             *)

(* The issuer row is loaded first; its status is looked at much later.     *)
new_account(w, k, i, e) ==
    /\ pc[w] = "idle"
    /\ pc' = [pc EXCEPT ![w] = "find"]
    /\ job' = [job EXCEPT ![w] = [NoJob EXCEPT !.key = k, !.issuer = i, !.eab = e,
                                               !.active = (i \notin retired)]]
    /\ reply' = [reply EXCEPT ![w] = NoReply]
    /\ UNCHANGED <<rows, faults>>

(* _reject_unusable and _reject_other_issuer, then 200.                    *)
FoundExisting(w) ==
    \E a \in find_account_by_key(job[w].key) :
        AnswerWith(w, IF account[a].status = "valid" /\ account[a].issuer = job[w].issuer
                      THEN "found" ELSE "refused", a)

(* onlyReturnExisting, a retired issuer and a missing binding are refused; *)
(* a binding that is presented is always verified.                         *)
NothingFound(w) ==
    /\ find_account_by_key(job[w].key) = {}
    /\ \/ Answer(w, "refused")
       \/ /\ job[w].active
          /\ job[w].eab = None => ~ requireEab
          /\ Goto(w, IF job[w].eab = None THEN "create" ELSE "verify", job[w])

FindExisting(w) ==
    /\ pc[w] = "find"
    /\ FoundExisting(w) \/ NothingFound(w)
    /\ UNCHANGED <<rows, faults>>

is_usable(e) == eab[e].life = "live" /\ eab[e].bound = None

(* eab.verify.                                                             *)
verify(w) ==
    /\ pc[w] = "verify"
    /\ IF is_usable(job[w].eab) /\ EabIssuer[job[w].eab] = job[w].issuer
       THEN Goto(w, "create", job[w])
       ELSE Answer(w, "refused")
    /\ UNCHANGED <<rows, faults>>

(* The account a registration goes on with: its binding is spent on it, or *)
(* it is logged if it is new, or it is simply returned.                    *)
Proceed(w, a, created, fresh) ==
    LET j == [job[w] EXCEPT !.account = a, !.created = created, !.fresh = fresh]
    IN  IF job[w].eab # None THEN Goto(w, "spend", j)
        ELSE IF created THEN Goto(w, "audit", j)
        ELSE AnswerWith(w, "found", a)

(* get_or_create_account looks again before it inserts.                    *)
get_or_create_account(w) ==
    /\ pc[w] = "create"
    /\ \/ \E a \in find_account_by_key(job[w].key) : Proceed(w, a, FALSE, FALSE)
       \/ find_account_by_key(job[w].key) = {} /\ Goto(w, "insert", job[w])
    /\ UNCHANGED <<rows, faults>>

NewRow(w) == [status |-> "valid", key |-> job[w].key, issuer |-> job[w].issuer]

(* The unique index on the thumbprint decides; the loser rolls back.       *)
InsertAccount(w) ==
    /\ pc[w] = "insert"
    /\ \/ /\ find_account_by_key(job[w].key) = {}
          /\ FreshIds # {}
          /\ LET a == CHOOSE a \in FreshIds : \A b \in FreshIds : a <= b
             IN  /\ account' = [account EXCEPT ![a] = NewRow(w)]
                 /\ Proceed(w, a, TRUE, FALSE)
       \/ /\ find_account_by_key(job[w].key) # {}
          /\ Goto(w, "reread", job[w])
          /\ UNCHANGED account
    /\ UNCHANGED <<eab, ordered, retired, audited, requireEab, faults>>

(* The loser reads the winner's row back, or finds it gone and raises.     *)
RereadAccount(w) ==
    /\ pc[w] = "reread"
    /\ \/ \E a \in find_account_by_key(job[w].key) : Proceed(w, a, FALSE, TRUE)
       \/ find_account_by_key(job[w].key) = {} /\ Answer(w, "corrupt")
    /\ UNCHANGED <<rows, faults>>

(* The end of a registration: audit.record, if this request created it.    *)
Registered(w) ==
    IF job[w].created THEN Goto(w, "audit", job[w]) ELSE Answer(w, "found")

(* _spend_binding: already ours, as far as the loaded row says?            *)
_spend_binding(w) ==
    LET bound == IF job[w].fresh THEN eab[job[w].eab].bound ELSE None
    IN  /\ pc[w] = "spend"
        /\ IF bound = job[w].account THEN Registered(w) ELSE Goto(w, "bind", job[w])
        /\ UNCHANGED <<rows, faults>>

(* Mutant: the UPDATE loses its conditions.                                *)
Claimable_always(e) == TRUE

(* The WHERE clause of the conditional UPDATE.                             *)
Claimable(e) == eab[e].bound = None /\ eab[e].life = "live"

(* Mutant: the account is left behind when the binding is lost.            *)
LoseBinding_keeping(w) == Answer(w, "unbound")

(* Mutant: whoever loses the binding removes the account.                  *)
LoseBinding_removing(w) == Goto(w, "delete", job[w])

(* Only the request that created the account takes it back.                *)
LoseBinding(w) == IF job[w].created THEN Goto(w, "delete", job[w]) ELSE Answer(w, "unbound")

(* One conditional UPDATE.  It fails on the unique index if the account    *)
(* carries another binding, and on the foreign key if the account is gone. *)
bind(w) ==
    LET e == job[w].eab
        a == job[w].account
    IN  /\ pc[w] = "bind"
        /\ \/ /\ Claimable(e) /\ Exists(a) /\ BoundTo(a) = {}
              /\ eab' = [eab EXCEPT ![e].bound = a]
              /\ Registered(w)
           \/ /\ Claimable(e) /\ (Exists(a) => BoundTo(a) # {})
              /\ Answer(w, "unbound")
              /\ UNCHANGED eab
           \/ /\ ~ Claimable(e)
              /\ LoseBinding(w)
              /\ UNCHANGED eab
        /\ UNCHANGED <<account, ordered, retired, audited, requireEab, faults>>

(* A lost claim takes the new account back, unless a row references it.    *)
DeleteAccount(w) ==
    LET a == job[w].account
    IN  /\ pc[w] = "delete"
        /\ IF a \in ordered \/ BoundTo(a) # {}
           THEN Answer(w, "attached") /\ UNCHANGED account
           ELSE account' = [account EXCEPT ![a].status = "deleted"] /\ Answer(w, "unbound")
        /\ UNCHANGED <<eab, ordered, retired, audited, requireEab, faults>>

record(w) ==
    /\ pc[w] = "audit"
    /\ audited' = audited \cup {job[w].account}
    /\ Answer(w, "created")
    /\ UNCHANGED <<account, eab, ordered, retired, requireEab, faults>>

-----------------------------------------------------------------------------
(* Requests signed by an account                                           *)

(* jws.verified in kid mode: the account is loaded, valid, and its stored  *)
(* key verifies the signature.  newKey has signed the inner JWS.           *)
verified(w, step, a, newKey) ==
    /\ pc[w] = "idle"
    /\ account[a].status = "valid"
    /\ pc' = [pc EXCEPT ![w] = step]
    /\ job' = [job EXCEPT ![w] = [NoJob EXCEPT !.account = a, !.key = account[a].key,
                                               !.newKey = newKey]]
    /\ reply' = [reply EXCEPT ![w] = NoReply]
    /\ UNCHANGED <<rows, faults>>

(* An UPDATE that finds its row deleted is an error.                       *)
deactivate_account(w) ==
    LET a == job[w].account
    IN  /\ pc[w] = "deactivate"
        /\ IF Exists(a)
           THEN account' = [account EXCEPT ![a].status = "deactivated"] /\ Answer(w, "found")
           ELSE Answer(w, "stale") /\ UNCHANGED account
        /\ UNCHANGED <<eab, ordered, retired, audited, requireEab, faults>>

key_change(w) ==
    /\ pc[w] = "conflict"
    /\ IF find_account_by_key(job[w].newKey) = {}
       THEN Goto(w, "rotate", job[w])
       ELSE Answer(w, "refused")
    /\ UNCHANGED <<rows, faults>>

(* Mutant: the whole loaded row is written back.                           *)
RotatedRow_whole(w) == [account[job[w].account] EXCEPT !.key = job[w].newKey, !.status = "valid"]

RotatedRow(w) == [account[job[w].account] EXCEPT !.key = job[w].newKey]

(* UPDATE of the key columns alone; a key that was taken meanwhile is a    *)
(* violation of the unique index that nobody catches.                      *)
rotate_account_key(w) ==
    LET a == job[w].account
    IN  /\ pc[w] = "rotate"
        /\ IF Exists(a) /\ find_account_by_key(job[w].newKey) = {}
           THEN account' = [account EXCEPT ![a] = RotatedRow(w)] /\ Answer(w, "found")
           ELSE Answer(w, "stale") /\ UNCHANGED account
        /\ UNCHANGED <<eab, ordered, retired, audited, requireEab, faults>>

(* new-order as far as accounts are concerned: a row that references one.  *)
PlaceOrder(w) ==
    LET a == job[w].account
    IN  /\ pc[w] = "order"
        /\ IF Exists(a)
           THEN ordered' = ordered \cup {a} /\ Answer(w, "found")
           ELSE Answer(w, "stale") /\ UNCHANGED ordered
        /\ UNCHANGED <<account, eab, retired, audited, requireEab, faults>>

-----------------------------------------------------------------------------
(* The operator, and crashes                                               *)

create_key(e) ==
    /\ eab[e].life = "unminted"
    /\ eab' = [eab EXCEPT ![e].life = "live"]
    /\ UNCHANGED <<account, ordered, retired, audited, requireEab, pc, job, reply, faults>>

revoke_key(e) ==
    /\ eab[e].life = "live"
    /\ eab' = [eab EXCEPT ![e].life = "revoked"]
    /\ UNCHANGED <<account, ordered, retired, audited, requireEab, pc, job, reply, faults>>

RetireIssuer(i) ==
    /\ retired' = retired \cup {i}
    /\ UNCHANGED <<account, eab, ordered, audited, requireEab, pc, job, reply, faults>>

(* What is committed stays, the request is not answered.                   *)
Crash(w) ==
    /\ pc[w] # "idle"
    /\ faults < MaxFaults
    /\ faults' = faults + 1
    /\ pc' = [pc EXCEPT ![w] = "idle"]
    /\ job' = [job EXCEPT ![w] = NoJob]
    /\ UNCHANGED <<rows, reply>>

-----------------------------------------------------------------------------

Init ==
    /\ account = [a \in AccountIds |-> NoAccount]
    /\ eab = [e \in EabKeys |-> [life |-> "unminted", bound |-> None]]
    /\ ordered = {} /\ retired = {} /\ audited = {}
    /\ requireEab \in BOOLEAN
    /\ pc = [w \in Workers |-> "idle"]
    /\ job = [w \in Workers |-> NoJob]
    /\ reply = [w \in Workers |-> NoReply]
    /\ faults = 0

Register(w) ==
    \/ FindExisting(w) \/ verify(w)
    \/ get_or_create_account(w) \/ InsertAccount(w) \/ RereadAccount(w)
    \/ _spend_binding(w) \/ bind(w) \/ DeleteAccount(w) \/ record(w)

Manage(w) ==
    deactivate_account(w) \/ key_change(w) \/ rotate_account_key(w) \/ PlaceOrder(w)

Request(w) ==
    \/ \E k \in Keys, i \in Issuers, e \in EabKeys \cup {None} : new_account(w, k, i, e)
    \/ \E a \in AccountIds, step \in {"deactivate", "order"} : verified(w, step, a, None)
    \/ \E a \in AccountIds, k \in Keys : verified(w, "conflict", a, k)

Next ==
    \/ \E w \in Workers : Request(w) \/ Register(w) \/ Manage(w) \/ Crash(w)
    \/ \E e \in EabKeys : create_key(e) \/ revoke_key(e)
    \/ \E i \in Issuers : RetireIssuer(i)

Spec == Init /\ [][Next]_vars

-----------------------------------------------------------------------------
(* Properties                                                              *)

(* Every row, session variable and answer holds what it can hold.          *)
TypeOK ==
    /\ account \in [AccountIds -> AccountRows]
    /\ eab \in [EabKeys -> EabRows]
    /\ ordered \subseteq AccountIds /\ retired \subseteq Issuers /\ audited \subseteq AccountIds
    /\ pc \in [Workers -> Steps]
    /\ job \in [Workers -> Jobs]
    /\ reply \in [Workers -> Replies]
    /\ requireEab \in BOOLEAN
    /\ faults \in 0 .. MaxFaults

(* new_account and _spend_binding with the setting on: as long as nothing  *)
(* crashed, an account without a binding is still being registered, or it  *)
(* could not be taken back because an order references it.                 *)
UnboundIsInFlight ==
    requireEab /\ faults = 0 =>
        \A a \in AccountIds : Exists(a) /\ BoundTo(a) = {} =>
            \/ a \in ordered
            \/ \E w \in Workers : /\ job[w].account = a /\ job[w].created
                                  /\ pc[w] \in {"spend", "bind", "delete"}

(* _spend_binding takes back only accounts nobody was told about: an       *)
(* account whose creation was logged, or that carries a binding, is never  *)
(* deleted, whoever raced for its key or its binding.                      *)
LoggedIsKept ==
    \A a \in AccountIds : account[a].status = "deleted" => a \notin audited /\ BoundTo(a) = {}

(* eab.bind: a binding, once made, is never moved or undone, and a revoked *)
(* key is never spent.                                                     *)
BindingFinal ==
    [][\A e \in EabKeys :
        eab[e].bound # None \/ eab[e].life = "revoked" => eab'[e].bound = eab[e].bound]_vars

(* deactivate_account is a one-way door, whatever other requests of the    *)
(* same account are on their way.                                          *)
DeactivationFinal ==
    [][\A a \in AccountIds :
        account[a].status = "deactivated" => account'[a].status # "valid"]_vars

(* get_or_create_account's docstring: a found account of another issuer    *)
(* has been refused before it could reach here.                            *)
OwnDirectory ==
    \A w \in Workers : reply[w].code = "found" /\ reply[w].issuer # None =>
        account[reply[w].account].issuer = reply[w].issuer

(* _spend_binding's docstring: a registration that raced with another of   *)
(* the same account key is not refused for a binding that is already that  *)
(* account's.                                                              *)
RetryAccepted ==
    \A w \in Workers :
        reply[w].code = "unbound" => eab[reply[w].eab].bound # reply[w].account

=============================================================================
