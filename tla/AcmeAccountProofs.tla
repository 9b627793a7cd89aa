------------------------- MODULE AcmeAccountProofs -------------------------
(***************************************************************************)
(* Proofs about AcmeAccount, for any account keys, issuers, bindings and   *)
(* number of concurrent requests.                                          *)
(*                                                                         *)
(* What a registration does at its end depends on what it found at its     *)
(* beginning: the account it created is its own, unlogged and undeleted,   *)
(* as long as it is under way (OwnAccount), and with the setting on it has *)
(* carried a binding since it was let through (Carries).                   *)
(***************************************************************************)
EXTENDS AcmeAccount, WellFoundedInduction, TLAPS

Flight == {"spend", "bind", "delete"}

(* The account that a request has created and that is still its own.       *)
OwnAccount(w) ==
    job[w].created =>
        /\ pc[w] \in Flight \cup {"audit"}
        /\ account[job[w].account].status # "deleted"
        /\ job[w].account \notin audited
        /\ ~ job[w].fresh

(* What a request carries from step to step.                               *)
Carries(w) ==
    LET j == job[w]
    IN  /\ pc[w] \in {"find", "verify", "create", "insert", "reread"} =>
               j.key \in Keys /\ j.issuer \in Issuers
        /\ pc[w] \in {"verify", "spend", "bind", "delete"} => j.eab \in EabKeys
        /\ pc[w] \in {"conflict", "rotate"} => j.newKey \in Keys
        /\ pc[w] \in Flight \cup {"audit", "deactivate", "conflict", "rotate", "order"} =>
               j.account \in AccountIds /\ account[j.account].status # "absent"
        /\ pc[w] \in {"delete", "audit"} => j.created
        /\ requireEab /\ pc[w] \in {"create", "insert", "reread", "audit"} => j.eab # None

(* No two requests have created the same account.                          *)
CreatedApart ==
    \A v, w \in Workers :
        v # w /\ job[v].created /\ job[w].created => job[v].account # job[w].account

AuditedExist == \A a \in audited : account[a].status # "absent"

IInv ==
    /\ TypeOK
    /\ \A w \in Workers : Carries(w) /\ OwnAccount(w)
    /\ CreatedApart /\ AuditedExist
    /\ UnboundIsInFlight /\ LoggedIsKept

-----------------------------------------------------------------------------
(* Rows                                                                    *)

(* A set of naturals that is not empty has a least member.                 *)
LEMMA MinExists ==
    ASSUME NEW S \in SUBSET Nat, S # {}
    PROVE  \E x \in S : \A y \in S : x <= y
<1> DEFINE R == OpToRel(<, Nat)
<1>1. IsWellFoundedOn(R, Nat)
    BY NatLessThanWellFounded
<1>2. PICK x \in S : \A y \in S : ~(<<y, x>> \in R)
    <2> HIDE DEF R
    <2> QED
        BY <1>1, WFMin
<1>3. ASSUME NEW y \in S PROVE x <= y
    <2>1. ~(y < x)
        BY <1>2 DEF OpToRel
    <2> QED
        BY <2>1
<1> QED
    BY <1>3

(* The types of the tables.                                                *)
RowsOK ==
    /\ account \in [AccountIds -> AccountRows]
    /\ eab \in [EabKeys -> EabRows]
    /\ ordered \subseteq AccountIds /\ retired \subseteq Issuers /\ audited \subseteq AccountIds
    /\ requireEab \in BOOLEAN
    /\ faults \in 0 .. MaxFaults

(* A row that is not absent has a key and an issuer, and keeps them or     *)
(* gets others.                                                            *)
LEMMA RowFields ==
    ASSUME NEW r \in AccountRows, r.status # "absent"
    PROVE  /\ r.status \in {"valid", "deactivated", "deleted"}
           /\ r.key \in Keys /\ r.issuer \in Issuers
           /\ \A st \in {"valid", "deactivated", "deleted"} :
                  [r EXCEPT !.status = st] \in AccountRows /\ [r EXCEPT !.status = st].status = st
           /\ \A k \in Keys :
                  [r EXCEPT !.key = k] \in AccountRows /\ [r EXCEPT !.key = k].status = r.status
BY DEF AccountRows, NoAccount

(* What one request does to what all of them carry.                        *)
Moves(w, step, j) ==
    /\ pc' = [pc EXCEPT ![w] = step]
    /\ job' = [job EXCEPT ![w] = j]
    /\ reply' \in [Workers -> Replies]

(* No row is forgotten.                                                    *)
KeepRows == \A a \in AccountIds : account[a].status # "absent" => account'[a].status # "absent"

(* The accounts of other requests are neither deleted nor logged.          *)
KeepsOthers(w) ==
    \A v \in Workers \ {w} : job[v].created =>
        account'[job[v].account].status # "deleted" /\ job[v].account \notin audited'

-----------------------------------------------------------------------------
(* Steps of requests                                                       *)

(* An account without a binding stays in flight with its request, or is    *)
(* bound, deleted or referenced.                                           *)
LEMMA StillInFlight ==
    ASSUME IInv, NEW w \in Workers, NEW step \in Steps, NEW j \in Jobs, Moves(w, step, j),
           UNCHANGED <<requireEab, faults>>, ordered \subseteq ordered',
           \A a \in AccountIds : BoundTo(a) \subseteq BoundTo(a)',
           \A a \in AccountIds : requireEab /\ Exists(a)' /\ ~Exists(a) =>
               j.created /\ j.account = a /\ step \in Flight,
           \A a \in AccountIds : requireEab /\ job[w].created /\ job[w].account = a /\ pc[w] \in Flight =>
               \/ j.created /\ j.account = a /\ step \in Flight
               \/ ~Exists(a)' \/ BoundTo(a)' # {} \/ a \in ordered'
    PROVE  UnboundIsInFlight'
<1> SUFFICES ASSUME requireEab, faults = 0, NEW a \in AccountIds, Exists(a)', BoundTo(a)' = {},
                    a \notin ordered'
             PROVE  \E v \in Workers : /\ job'[v].account = a /\ job'[v].created
                                       /\ pc'[v] \in Flight
    BY DEF UnboundIsInFlight, Flight
<1>1. /\ pc'[w] = step /\ job'[w] = j
      /\ \A v \in Workers \ {w} : pc'[v] = pc[v] /\ job'[v] = job[v]
    BY DEF Moves, IInv, TypeOK
<1>2. CASE ~Exists(a)
    BY <1>1, <1>2
<1>3. CASE Exists(a)
    <2>1. BoundTo(a) = {} /\ a \notin ordered
        OBVIOUS
    <2>2. PICK v \in Workers : job[v].account = a /\ job[v].created /\ pc[v] \in Flight
        BY <1>3, <2>1 DEF IInv, UnboundIsInFlight, Flight
    <2>3. CASE v # w
        BY <1>1, <2>2, <2>3
    <2>4. CASE v = w
        BY <1>1, <2>2, <2>4
    <2> QED
        BY <2>3, <2>4
<1> QED
    BY <1>2, <1>3

(* A step of one request keeps the invariant when what it goes on with and *)
(* what it has written are in order.                                       *)
LEMMA StepKeepsIInv ==
    ASSUME IInv, NEW w \in Workers, NEW step \in Steps, NEW j \in Jobs, Moves(w, step, j),
           RowsOK', UNCHANGED requireEab, KeepRows, KeepsOthers(w),
           Carries(w)', OwnAccount(w)',
           j.created => \A v \in Workers \ {w} : job[v].created => job[v].account # j.account,
           AuditedExist', UnboundIsInFlight', LoggedIsKept'
    PROVE  IInv'
<1>1. /\ pc'[w] = step /\ job'[w] = j
      /\ \A v \in Workers \ {w} : pc'[v] = pc[v] /\ job'[v] = job[v]
    BY DEF Moves, IInv, TypeOK
<1>2. TypeOK'
    BY DEF Moves, RowsOK, IInv, TypeOK
<1>3. ASSUME NEW v \in Workers PROVE Carries(v)' /\ OwnAccount(v)'
    <2>1. CASE v = w
        BY <2>1
    <2>2. CASE v # w
        <3>1. pc'[v] = pc[v] /\ job'[v] = job[v] /\ Carries(v) /\ OwnAccount(v)
            BY <1>1, <2>2 DEF IInv
        <3>2. Carries(v)'
            BY <3>1 DEF Carries, KeepRows
        <3>3. OwnAccount(v)'
            BY <2>2, <3>1 DEF OwnAccount, KeepsOthers
        <3> QED
            BY <3>2, <3>3
    <2> QED
        BY <2>1, <2>2
<1>4. CreatedApart'
    BY <1>1 DEF IInv, CreatedApart
<1> QED
    BY <1>2, <1>3, <1>4 DEF IInv

(* A request that has nothing more to do with what it created, or has      *)
(* created nothing.                                                        *)
LEMMA OthersKept ==
    ASSUME IInv, NEW w \in Workers, UNCHANGED <<account, audited>>
    PROVE  KeepRows /\ KeepsOthers(w) /\ AuditedExist'
BY DEF KeepRows, KeepsOthers, AuditedExist, IInv, OwnAccount

(* A step that leaves the tables alone.                                    *)
LEMMA ControlKeepsIInv ==
    ASSUME IInv, NEW w \in Workers, NEW step \in Steps, NEW j \in Jobs, Moves(w, step, j),
           UNCHANGED <<rows, faults>>,
           Carries(w)', OwnAccount(w)',
           j.created => job[w].created /\ j.account = job[w].account,
           \A a \in AccountIds : requireEab /\ job[w].created /\ job[w].account = a /\ pc[w] \in Flight =>
               \/ j.created /\ j.account = a /\ step \in Flight
               \/ ~Exists(a) \/ BoundTo(a) # {} \/ a \in ordered
    PROVE  IInv'
<1>1. RowsOK' /\ UNCHANGED <<account, eab, ordered, retired, audited, requireEab, faults>>
    BY DEF rows, RowsOK, IInv, TypeOK
<1>2. KeepRows /\ KeepsOthers(w) /\ AuditedExist'
    BY <1>1, OthersKept
<1>3. \A a \in AccountIds : Exists(a)' = Exists(a) /\ BoundTo(a)' = BoundTo(a)
    BY <1>1 DEF Exists, BoundTo
<1>5. UnboundIsInFlight'
    BY <1>1, <1>3, StillInFlight
<1>6. LoggedIsKept'
    BY <1>1, <1>3 DEF IInv, LoggedIsKept
<1>7. j.created => \A v \in Workers \ {w} : job[v].created => job[v].account # j.account
    BY DEF IInv, CreatedApart
<1> QED
    BY <1>1, <1>2, <1>5, <1>6, <1>7, StepKeepsIInv

(* The job of a request that has been answered.                            *)
LEMMA NoJobType == NoJob \in Jobs /\ ~NoJob.created
<1>1. NoJob \in Jobs
    BY DEF NoJob, Jobs
<1>2. NoJob.created = FALSE
    BY DEF NoJob
<1> QED
    BY <1>1, <1>2

(* An answer ends a request.                                               *)
LEMMA AnswerMoves ==
    ASSUME IInv, NEW w \in Workers, NEW code \in Codes, NEW a \in AccountIds \cup {None},
           AnswerWith(w, code, a)
    PROVE  /\ Moves(w, "idle", NoJob)
           /\ Carries(w)' /\ OwnAccount(w)'
<1>1. job[w] \in Jobs
    BY DEF IInv, TypeOK
<1>2. job[w].issuer \in Issuers \cup {None} /\ job[w].eab \in EabKeys \cup {None}
    BY <1>1 DEF Jobs
<1>3. [code |-> code, account |-> a, issuer |-> job[w].issuer, eab |-> job[w].eab] \in Replies
    BY <1>2 DEF Replies
<1>4. Moves(w, "idle", NoJob)
    BY <1>3 DEF AnswerWith, Moves, IInv, TypeOK
<1>5. pc'[w] = "idle" /\ job'[w] = NoJob
    BY <1>4 DEF Moves, IInv, TypeOK
<1>6. Carries(w)'
    BY <1>5 DEF Carries, Flight
<1>7. OwnAccount(w)'
    BY <1>5, NoJobType DEF OwnAccount
<1> QED
    BY <1>4, <1>6, <1>7

(* A step that is not an answer.                                           *)
LEMMA GotoMoves ==
    ASSUME IInv, NEW w \in Workers, NEW step, NEW j, Goto(w, step, j)
    PROVE  Moves(w, step, j) /\ pc'[w] = step /\ job'[w] = j
BY DEF Goto, Moves, IInv, TypeOK

(* An answer that writes nothing, of a request that has created nothing,   *)
(* or whose account is bound, gone or referenced.                          *)
LEMMA AnswerKeepsIInv ==
    ASSUME IInv, NEW w \in Workers, NEW code \in Codes, NEW a \in AccountIds \cup {None},
           AnswerWith(w, code, a), UNCHANGED <<rows, faults>>,
           \A b \in AccountIds : requireEab /\ job[w].created /\ job[w].account = b /\ pc[w] \in Flight =>
               ~Exists(b) \/ BoundTo(b) # {} \/ b \in ordered
    PROVE  IInv'
BY AnswerMoves, NoJobType, ControlKeepsIInv DEF Steps

(* A request that goes on as it is.                                        *)
LEMMA OnKeepsIInv ==
    ASSUME IInv, NEW w \in Workers, NEW step \in Steps, Goto(w, step, job[w]),
           UNCHANGED <<rows, faults>>, Carries(w)', OwnAccount(w)',
           job[w].created /\ pc[w] \in Flight => step \in Flight \/ ~requireEab
    PROVE  IInv'
<1>1. job[w] \in Jobs
    BY DEF IInv, TypeOK
<1> QED
    BY <1>1, GotoMoves, ControlKeepsIInv

(* A request is let in.                                                    *)
LEMMA AcceptKeepsIInv ==
    ASSUME IInv, NEW w \in Workers, Request(w)
    PROVE  IInv'
<1>0. pc \in [Workers -> Steps] /\ job \in [Workers -> Jobs] /\ reply \in [Workers -> Replies]
    BY DEF IInv, TypeOK
<1>1. NoReply \in Replies
    BY DEF NoReply, Replies, Codes
<1>2. ASSUME NEW k \in Keys, NEW i \in Issuers, NEW e \in EabKeys \cup {None},
             new_account(w, k, i, e)
      PROVE  IInv'
    <2> DEFINE active == i \notin retired
               j == [NoJob EXCEPT !.key = k, !.issuer = i, !.eab = e, !.active = active]
    <2>1. active \in BOOLEAN
        BY Zenon
    <2>2. /\ pc[w] = "idle" /\ UNCHANGED <<rows, faults>>
          /\ pc' = [pc EXCEPT ![w] = "find"] /\ job' = [job EXCEPT ![w] = j]
          /\ reply' = [reply EXCEPT ![w] = NoReply]
        BY <1>2 DEF new_account
    <2> HIDE DEF active
    <2>3. j \in Jobs /\ j.key = k /\ j.issuer = i /\ j.created = FALSE
        BY <2>1 DEF Jobs, NoJob
    <2> HIDE DEF j
    <2>4. Moves(w, "find", j) /\ pc'[w] = "find" /\ job'[w] = j
        BY <1>0, <1>1, <2>2 DEF Moves
    <2>5. Carries(w)' /\ OwnAccount(w)'
        BY <2>3, <2>4 DEF Carries, OwnAccount, Flight
    <2> QED
        BY <2>2, <2>3, <2>4, <2>5, ControlKeepsIInv DEF Steps, Flight
<1>3. ASSUME NEW a \in AccountIds, NEW step \in {"deactivate", "order", "conflict"},
             NEW k \in Keys \cup {None}, step = "conflict" => k \in Keys,
             verified(w, step, a, k)
      PROVE  IInv'
    <2> DEFINE j == [NoJob EXCEPT !.account = a, !.key = account[a].key, !.newKey = k]
    <2>1. /\ pc[w] = "idle" /\ UNCHANGED <<rows, faults>> /\ account[a].status = "valid"
          /\ pc' = [pc EXCEPT ![w] = step] /\ job' = [job EXCEPT ![w] = j]
          /\ reply' = [reply EXCEPT ![w] = NoReply]
        BY <1>3 DEF verified
    <2>2. account[a].key \in Keys
        <3>1. account[a] \in AccountRows
            BY DEF IInv, TypeOK
        <3> QED
            BY <2>1, <3>1 DEF AccountRows, NoAccount
    <2>3. j \in Jobs /\ j.account = a /\ j.newKey = k /\ j.created = FALSE
        BY <2>2 DEF Jobs, NoJob
    <2> HIDE DEF j
    <2>4. Moves(w, step, j) /\ pc'[w] = step /\ job'[w] = j /\ account' = account
        BY <1>0, <1>1, <2>1 DEF Moves, rows
    <2>5. Carries(w)' /\ OwnAccount(w)'
        BY <1>3, <2>1, <2>3, <2>4 DEF Carries, OwnAccount, Flight
    <2> QED
        BY <2>1, <2>3, <2>4, <2>5, ControlKeepsIInv DEF Steps, Flight
<1> QED
    BY <1>2, <1>3 DEF Request

(* A registration goes on with an account that somebody else created.      *)
LEMMA FoundKeepsIInv ==
    ASSUME IInv, NEW w \in Workers, pc[w] \in {"create", "reread"}, NEW fresh \in BOOLEAN,
           NEW a \in find_account_by_key(job[w].key), Proceed(w, a, FALSE, fresh),
           UNCHANGED <<rows, faults>>
    PROVE  IInv'
<1> DEFINE j == [job[w] EXCEPT !.account = a, !.created = FALSE, !.fresh = fresh]
<1>1. a \in AccountIds /\ account[a].status # "absent"
    BY DEF find_account_by_key, Exists
<1>2. job[w] \in Jobs /\ ~job[w].created
    BY DEF IInv, TypeOK, OwnAccount, Flight
<1>3. CASE AnswerWith(w, "found", a)
    BY <1>1, <1>2, <1>3, AnswerKeepsIInv DEF Codes
<1>4. CASE job[w].eab # None /\ Goto(w, "spend", j)
    <2>1. j \in Jobs /\ j.account = a /\ j.created = FALSE /\ j.eab = job[w].eab
        BY <1>1, <1>2 DEF Jobs
    <2>2. job[w].eab \in EabKeys
        BY <1>2, <1>4 DEF Jobs
    <2> HIDE DEF j
    <2>3. Moves(w, "spend", j) /\ pc'[w] = "spend" /\ job'[w] = j /\ account' = account
        BY <1>4, GotoMoves DEF rows
    <2>4. Carries(w)' /\ OwnAccount(w)'
        BY <1>1, <2>1, <2>2, <2>3 DEF Carries, OwnAccount, Flight
    <2> QED
        BY <1>2, <2>1, <2>3, <2>4, ControlKeepsIInv DEF Steps
<1> QED
    BY <1>3, <1>4 DEF Proceed

(* The look-ups of a registration and the check of its binding.            *)
LEMMA LookupKeepsIInv ==
    ASSUME IInv, NEW w \in Workers,
           FindExisting(w) \/ verify(w) \/ get_or_create_account(w) \/ RereadAccount(w)
    PROVE  IInv'
<1>1. /\ job[w] \in Jobs /\ job[w].account \in AccountIds \cup {None}
      /\ Carries(w) /\ OwnAccount(w)
    BY DEF IInv, TypeOK, Jobs
<1>2. /\ pc[w] \in {"find", "verify", "create", "reread"} /\ ~job[w].created
      /\ UNCHANGED <<rows, faults>> /\ requireEab' = requireEab
    BY <1>1 DEF FindExisting, verify, get_or_create_account, RereadAccount, OwnAccount, Flight, rows
<1>3. ASSUME NEW code \in Codes, NEW a \in AccountIds \cup {None}, AnswerWith(w, code, a)
      PROVE  IInv'
    BY <1>2, <1>3, AnswerKeepsIInv
<1>4. ASSUME NEW step \in {"create", "verify", "insert"}, Goto(w, step, job[w]),
             step = "verify" => job[w].eab \in EabKeys,
             step = "create" /\ requireEab => job[w].eab # None,
             step = "insert" => pc[w] = "create"
      PROVE  IInv'
    <2>1. pc'[w] = step /\ job'[w] = job[w]
        BY <1>4, GotoMoves
    <2>2. Carries(w)' /\ OwnAccount(w)'
        BY <1>1, <1>2, <1>4, <2>1 DEF Carries, OwnAccount, Flight
    <2> QED
        BY <1>2, <1>4, <2>2, OnKeepsIInv DEF Steps
<1>5. CASE FindExisting(w)
    <2>1. CASE FoundExisting(w)
        <3>1. PICK a \in find_account_by_key(job[w].key) :
                  AnswerWith(w, "found", a) \/ AnswerWith(w, "refused", a)
            BY <2>1 DEF FoundExisting
        <3> QED
            BY <1>3, <3>1 DEF find_account_by_key, Codes
    <2>2. CASE NothingFound(w)
        <3>1. CASE Answer(w, "refused")
            BY <1>1, <1>3, <3>1 DEF Answer, Codes
        <3>2. CASE Goto(w, "create", job[w]) /\ job[w].eab = None /\ ~requireEab
            BY <1>4, <3>2
        <3>3. CASE Goto(w, "verify", job[w]) /\ job[w].eab # None
            <4>1. job[w].eab \in EabKeys
                BY <1>1, <3>3 DEF Jobs
            <4> QED
                BY <1>4, <3>3, <4>1
        <3> QED
            BY <2>2, <3>1, <3>2, <3>3 DEF NothingFound
    <2> QED
        BY <1>5, <2>1, <2>2 DEF FindExisting
<1>6. CASE verify(w)
    <2>1. job[w].eab # None
        BY <1>1, <1>6, AccountAssumption DEF verify, Carries
    <2> QED
        BY <1>1, <1>3, <1>4, <1>6, <2>1 DEF verify, Answer, Codes
<1>7. CASE get_or_create_account(w)
    <2>1. ASSUME NEW a \in find_account_by_key(job[w].key), Proceed(w, a, FALSE, FALSE)
          PROVE  IInv'
        BY <1>2, <1>7, <2>1, FoundKeepsIInv DEF get_or_create_account
    <2>2. CASE Goto(w, "insert", job[w])
        BY <1>4, <1>7, <2>2 DEF get_or_create_account
    <2> QED
        BY <1>7, <2>1, <2>2 DEF get_or_create_account
<1>8. CASE RereadAccount(w)
    <2>1. ASSUME NEW a \in find_account_by_key(job[w].key), Proceed(w, a, FALSE, TRUE)
          PROVE  IInv'
        BY <1>2, <1>8, <2>1, FoundKeepsIInv DEF RereadAccount
    <2>2. CASE Answer(w, "corrupt")
        BY <1>1, <1>3, <2>2 DEF Answer, Codes
    <2> QED
        BY <1>8, <2>1, <2>2 DEF RereadAccount
<1> QED
    BY <1>5, <1>6, <1>7, <1>8

(* The row of a new account is the lowest one that was never used.         *)
LEMMA InsertKeepsIInv ==
    ASSUME IInv, NEW w \in Workers, InsertAccount(w)
    PROVE  IInv'
<1>1. /\ job[w] \in Jobs /\ Carries(w) /\ OwnAccount(w) /\ pc[w] = "insert"
      /\ UNCHANGED <<eab, ordered, retired, audited, requireEab, faults>>
    BY DEF InsertAccount, IInv, TypeOK
<1>2. ~job[w].created /\ job[w].key \in Keys /\ job[w].issuer \in Issuers
    BY <1>1 DEF Carries, OwnAccount, Flight
<1>3. CASE Goto(w, "reread", job[w]) /\ UNCHANGED account
    <2>1. pc'[w] = "reread" /\ job'[w] = job[w]
        BY <1>3, GotoMoves
    <2>2. Carries(w)' /\ OwnAccount(w)'
        BY <1>1, <1>2, <2>1 DEF Carries, OwnAccount, Flight
    <2> QED
        BY <1>1, <1>2, <1>3, <2>2, OnKeepsIInv DEF Steps, rows
<1>4. ASSUME NEW a \in FreshIds, account' = [account EXCEPT ![a] = NewRow(w)],
             Proceed(w, a, TRUE, FALSE)
      PROVE  IInv'
    <2> DEFINE step == IF job[w].eab # None THEN "spend" ELSE "audit"
               j == [job[w] EXCEPT !.account = a, !.created = TRUE, !.fresh = FALSE]
    <2>1. a \in AccountIds /\ account[a].status = "absent"
        BY DEF FreshIds
    <2>2. /\ j \in Jobs /\ j.account = a /\ j.created = TRUE /\ j.fresh = FALSE
          /\ j.eab = job[w].eab
        BY <1>1, <2>1 DEF Jobs
    <2>3. job[w].eab # None => job[w].eab \in EabKeys
        BY <1>1 DEF Jobs
    <2>4. Goto(w, step, j)
        BY <1>4 DEF Proceed
    <2> HIDE DEF j
    <2>5. Moves(w, step, j) /\ pc'[w] = step /\ job'[w] = j
        BY <2>4, GotoMoves
    <2>6. NewRow(w) \in AccountRows /\ NewRow(w).status = "valid"
        BY <1>2 DEF NewRow, AccountRows
    <2>7. /\ account \in [AccountIds -> AccountRows]
          /\ account' \in [AccountIds -> AccountRows] /\ account'[a].status = "valid"
          /\ \A b \in AccountIds \ {a} : account'[b] = account[b]
        BY <1>4, <2>1, <2>6 DEF IInv, TypeOK
    <2>8. RowsOK'
        BY <1>1, <2>7 DEF RowsOK, IInv, TypeOK
    <2>9. KeepRows
        BY <2>7 DEF KeepRows
    <2>10. ASSUME NEW v \in Workers \ {w}, job[v].created
           PROVE  job[v].account \in AccountIds \ {a}
        BY <2>1, <2>10 DEF IInv, Carries, OwnAccount, Flight
    <2>11. KeepsOthers(w)
        BY <1>1, <2>7, <2>10 DEF KeepsOthers, IInv, OwnAccount
    <2>12. a \notin audited
        BY <2>1 DEF IInv, AuditedExist
    <2>13. Carries(w)'
        BY <1>1, <2>1, <2>2, <2>3, <2>5, <2>7 DEF Carries, Flight
    <2>14. OwnAccount(w)'
        BY <1>1, <2>2, <2>5, <2>7, <2>12 DEF OwnAccount, Flight
    <2>15. AuditedExist'
        BY <1>1, <2>9 DEF AuditedExist, KeepRows, IInv, TypeOK
    <2>16. \A b \in AccountIds : /\ BoundTo(b)' = BoundTo(b)
                                 /\ b # a => Exists(b)' = Exists(b)
        BY <1>1, <2>7 DEF BoundTo, Exists
    <2>17. UnboundIsInFlight'
        <3>1. requireEab => step \in Flight
            BY <1>1 DEF Carries, Flight
        <3> QED
            BY <1>1, <1>2, <2>2, <2>5, <2>16, <3>1, StillInFlight DEF Steps
    <2>18. LoggedIsKept'
        BY <1>1, <2>7, <2>16 DEF LoggedIsKept, IInv
    <2> QED
        BY <1>1, <2>2, <2>5, <2>8, <2>9, <2>10, <2>11, <2>13, <2>14, <2>15, <2>17, <2>18, StepKeepsIInv
        DEF Steps
<1>5. CASE find_account_by_key(job[w].key) = {} /\ FreshIds # {}
    <2> DEFINE a == CHOOSE a \in FreshIds : \A b \in FreshIds : a <= b
    <2>1. FreshIds \in SUBSET Nat
        BY DEF FreshIds, AccountIds
    <2>2. a \in FreshIds
        BY <1>5, <2>1, MinExists
    <2> QED
        BY <1>3, <1>4, <1>5, <2>2 DEF InsertAccount
<1> QED
    BY <1>3, <1>5 DEF InsertAccount

(* What is looked at before a binding is spent: a request that created its *)
(* account has loaded the binding before anybody could have spent it.      *)
LEMMA SpendKeepsIInv ==
    ASSUME IInv, NEW w \in Workers, _spend_binding(w)
    PROVE  IInv'
<1>1. /\ job[w] \in Jobs /\ Carries(w) /\ OwnAccount(w) /\ pc[w] = "spend"
      /\ UNCHANGED <<rows, faults>> /\ UNCHANGED <<account, audited, requireEab>>
    BY DEF _spend_binding, IInv, TypeOK, rows
<1>2. job[w].account \in AccountIds /\ job[w].eab \in EabKeys
    BY <1>1 DEF Carries, Flight
<1>3. CASE Goto(w, "bind", job[w])
    <2>1. pc'[w] = "bind" /\ job'[w] = job[w]
        BY <1>3, GotoMoves
    <2>2. Carries(w)' /\ OwnAccount(w)'
        BY <1>1, <2>1 DEF Carries, OwnAccount, Flight
    <2> QED
        BY <1>1, <1>3, <2>2, OnKeepsIInv DEF Steps, Flight
<1>4. CASE job[w].fresh /\ Registered(w)
    <2>1. ~job[w].created
        BY <1>1, <1>4 DEF OwnAccount
    <2> QED
        BY <1>1, <1>2, <1>4, <2>1, AnswerKeepsIInv DEF Registered, Answer, Codes
<1>5. None # job[w].account
    BY <1>2, AccountAssumption DEF AccountIds
<1> QED
    BY <1>3, <1>4, <1>5 DEF _spend_binding

(* A binding is made.                                                      *)
LEMMA BoundKeepsIInv ==
    ASSUME IInv, NEW w \in Workers, pc[w] = "bind", Claimable(job[w].eab), Exists(job[w].account),
           eab' = [eab EXCEPT ![job[w].eab].bound = job[w].account], Registered(w),
           UNCHANGED <<account, ordered, retired, audited, requireEab, faults>>
    PROVE  IInv'
<1> DEFINE e == job[w].eab
           a == job[w].account
           r == [eab[e] EXCEPT !.bound = a]
<1>1. job[w] \in Jobs /\ Carries(w) /\ OwnAccount(w) /\ a \in AccountIds /\ e \in EabKeys
    BY DEF IInv, TypeOK, Carries, Flight
<1>2. r \in EabRows /\ r.bound = a
    BY <1>1 DEF IInv, TypeOK, EabRows
<1> HIDE DEF r
<1>3. /\ eab \in [EabKeys -> EabRows] /\ eab' \in [EabKeys -> EabRows] /\ eab'[e].bound = a
      /\ \A d \in EabKeys \ {e} : eab'[d] = eab[d]
    BY <1>1, <1>2 DEF IInv, TypeOK, r
<1>4. eab[e].bound = None /\ None \notin AccountIds
    BY AccountAssumption DEF Claimable, AccountIds
<1>5. RowsOK'
    BY <1>3 DEF RowsOK, IInv, TypeOK
<1>6. KeepRows /\ KeepsOthers(w) /\ AuditedExist'
    BY OthersKept
<1>7. \A b \in AccountIds :
          /\ BoundTo(b) \subseteq BoundTo(b)' /\ Exists(b)' = Exists(b)
          /\ b # a => BoundTo(b)' = BoundTo(b)
    BY <1>1, <1>3, <1>4 DEF BoundTo, Exists
<1>8. BoundTo(job[w].account) \in SUBSET EabKeys /\ \A b \in AccountIds : b = a => BoundTo(b)' # {}
    BY <1>1, <1>3 DEF BoundTo
<1>9. LoggedIsKept'
    BY <1>7 DEF IInv, LoggedIsKept, Exists
<1>10. CASE job[w].created /\ Goto(w, "audit", job[w])
    <2>1. Moves(w, "audit", job[w]) /\ pc'[w] = "audit" /\ job'[w] = job[w]
        BY <1>10, GotoMoves
    <2>2. e # None
        BY <1>1, AccountAssumption
    <2>3. Carries(w)' /\ OwnAccount(w)'
        BY <1>1, <1>10, <2>1, <2>2 DEF Carries, OwnAccount, Flight
    <2>4. UnboundIsInFlight'
        BY <1>1, <1>7, <1>8, <2>1, StillInFlight DEF Steps
    <2>5. \A v \in Workers \ {w} : job[v].created => job[v].account # job[w].account
        BY <1>10 DEF IInv, CreatedApart
    <2> QED
        BY <1>1, <1>5, <1>6, <1>9, <2>1, <2>3, <2>4, <2>5, StepKeepsIInv DEF Steps
<1>11. CASE ~job[w].created /\ AnswerWith(w, "found", a)
    <2>1. Moves(w, "idle", NoJob) /\ Carries(w)' /\ OwnAccount(w)'
        BY <1>1, <1>11, AnswerMoves DEF Codes
    <2>2. UnboundIsInFlight'
        BY <1>7, <1>11, <2>1, NoJobType, StillInFlight DEF Steps
    <2> QED
        BY <1>5, <1>6, <1>9, <2>1, <2>2, NoJobType, StepKeepsIInv DEF Steps
<1> QED
    BY <1>10, <1>11 DEF Registered, Answer

(* The conditional UPDATE, won or lost.                                    *)
LEMMA BindKeepsIInv ==
    ASSUME IInv, NEW w \in Workers, bind(w)
    PROVE  IInv'
<1> DEFINE e == job[w].eab
           a == job[w].account
<1>1. /\ pc[w] = "bind" /\ UNCHANGED <<account, ordered, retired, audited, requireEab, faults>>
      /\ job[w] \in Jobs /\ Carries(w) /\ OwnAccount(w)
    BY DEF bind, IInv, TypeOK
<1>2. a \in AccountIds
    BY <1>1 DEF Carries, Flight
<1>3. CASE Claimable(e) /\ Exists(a) /\ eab' = [eab EXCEPT ![e].bound = a] /\ Registered(w)
    BY <1>1, <1>3, BoundKeepsIInv
<1>4. CASE (Exists(a) => BoundTo(a) # {}) /\ Answer(w, "unbound") /\ UNCHANGED eab
    BY <1>1, <1>2, <1>4, AnswerKeepsIInv DEF Answer, Codes, rows
<1>5. CASE LoseBinding(w) /\ UNCHANGED eab
    <2>1. CASE job[w].created /\ Goto(w, "delete", job[w])
        <3>1. pc'[w] = "delete" /\ job'[w] = job[w]
            BY <2>1, GotoMoves
        <3>2. Carries(w)' /\ OwnAccount(w)'
            BY <1>1, <2>1, <3>1 DEF Carries, OwnAccount, Flight
        <3> QED
            BY <1>1, <1>5, <2>1, <3>2, OnKeepsIInv DEF Steps, Flight, rows
    <2>2. CASE ~job[w].created /\ Answer(w, "unbound")
        BY <1>1, <1>2, <1>5, <2>2, AnswerKeepsIInv DEF Answer, Codes, rows
    <2> QED
        BY <1>5, <2>1, <2>2 DEF LoseBinding
<1> QED
    BY <1>3, <1>4, <1>5 DEF bind

(* A new account is taken back by the request that created it, before it   *)
(* was logged.                                                             *)
LEMMA DeleteKeepsIInv ==
    ASSUME IInv, NEW w \in Workers, DeleteAccount(w)
    PROVE  IInv'
<1> DEFINE a == job[w].account
           r == [account[a] EXCEPT !.status = "deleted"]
<1>1. /\ pc[w] = "delete" /\ UNCHANGED <<eab, ordered, retired, audited, requireEab, faults>>
      /\ job[w] \in Jobs /\ Carries(w) /\ OwnAccount(w)
    BY DEF DeleteAccount, IInv, TypeOK
<1>2. a \in AccountIds /\ account[a].status # "absent" /\ job[w].created /\ a \notin audited
    BY <1>1 DEF Carries, OwnAccount, Flight
<1>3. CASE (a \in ordered \/ BoundTo(a) # {}) /\ Answer(w, "attached") /\ UNCHANGED account
    BY <1>1, <1>2, <1>3, AnswerKeepsIInv DEF Answer, Codes, rows
<1>4. CASE BoundTo(a) = {} /\ account' = [account EXCEPT ![a] = r] /\ Answer(w, "unbound")
    <2>1. /\ Moves(w, "idle", NoJob) /\ Carries(w)' /\ OwnAccount(w)'
        BY <1>2, <1>4, AnswerMoves DEF Answer, Codes
    <2>2. account[a] \in AccountRows
        BY <1>2 DEF IInv, TypeOK
    <2>3. r \in AccountRows /\ r.status = "deleted"
        BY <1>2, <2>2, RowFields
    <2> HIDE DEF r
    <2>4. /\ account \in [AccountIds -> AccountRows] /\ account' \in [AccountIds -> AccountRows]
          /\ account'[a].status = "deleted"
          /\ \A b \in AccountIds \ {a} : account'[b] = account[b]
        BY <1>2, <1>4, <2>3 DEF IInv, TypeOK
    <2>5. RowsOK'
        BY <1>1, <2>4 DEF RowsOK, IInv, TypeOK
    <2>6. KeepRows
        BY <2>4 DEF KeepRows
    <2>7. ASSUME NEW v \in Workers \ {w}, job[v].created
          PROVE  job[v].account \in AccountIds \ {a}
        BY <1>2, <2>7 DEF IInv, CreatedApart, Carries, OwnAccount, Flight
    <2>8. KeepsOthers(w)
        BY <1>1, <2>4, <2>7 DEF KeepsOthers, IInv, OwnAccount
    <2>9. AuditedExist'
        BY <1>1, <2>6 DEF AuditedExist, KeepRows, IInv, TypeOK
    <2>10. \A b \in AccountIds : /\ BoundTo(b)' = BoundTo(b)
                                 /\ b # a => Exists(b)' = Exists(b)
                                 /\ b = a => ~Exists(b)'
        BY <1>1, <2>4 DEF BoundTo, Exists
    <2>11. UnboundIsInFlight'
        BY <1>1, <1>2, <2>1, <2>10, NoJobType, StillInFlight DEF Steps
    <2>12. LoggedIsKept'
        BY <1>1, <1>2, <1>4, <2>4, <2>10 DEF LoggedIsKept, IInv
    <2> QED
        BY <1>1, <2>1, <2>5, <2>6, <2>8, <2>9, <2>11, <2>12, NoJobType, StepKeepsIInv DEF Steps
<1> QED
    BY <1>3, <1>4 DEF DeleteAccount

(* The creation is logged, of an account that its request has not deleted. *)
LEMMA RecordKeepsIInv ==
    ASSUME IInv, NEW w \in Workers, record(w)
    PROVE  IInv'
<1> DEFINE a == job[w].account
<1>1. /\ pc[w] = "audit" /\ audited' = audited \cup {a} /\ Answer(w, "created")
      /\ UNCHANGED <<account, eab, ordered, retired, requireEab, faults>>
      /\ Carries(w) /\ OwnAccount(w)
    BY DEF record, IInv
<1>2. /\ a \in AccountIds /\ account[a].status # "absent" /\ job[w].created
      /\ account[a].status # "deleted"
    BY <1>1 DEF Carries, OwnAccount, Flight
<1>3. Moves(w, "idle", NoJob) /\ Carries(w)' /\ OwnAccount(w)'
    BY <1>1, <1>2, AnswerMoves DEF Answer, Codes
<1>4. RowsOK' /\ KeepRows
    BY <1>1, <1>2 DEF RowsOK, KeepRows, IInv, TypeOK
<1>5. KeepsOthers(w)
    BY <1>1, <1>2 DEF KeepsOthers, IInv, OwnAccount, CreatedApart
<1>6. AuditedExist'
    BY <1>1, <1>2 DEF AuditedExist, IInv
<1>7. \A b \in AccountIds : BoundTo(b)' = BoundTo(b) /\ Exists(b)' = Exists(b)
    BY <1>1 DEF BoundTo, Exists
<1>8. UnboundIsInFlight'
    BY <1>1, <1>3, <1>7, NoJobType, StillInFlight DEF Steps, Flight
<1>9. LoggedIsKept'
    BY <1>1, <1>2, <1>7 DEF LoggedIsKept, IInv
<1> QED
    BY <1>1, <1>3, <1>4, <1>5, <1>6, <1>8, <1>9, NoJobType, StepKeepsIInv DEF Steps

(* The status or the key of an account that is there is changed.           *)
LEMMA ChangedKeepsIInv ==
    ASSUME IInv, NEW w \in Workers, ~job[w].created, NEW a \in AccountIds, Exists(a),
           NEW r \in AccountRows, r.status \in {"valid", "deactivated"},
           account' = [account EXCEPT ![a] = r], AnswerWith(w, "found", a),
           UNCHANGED <<eab, ordered, retired, audited, requireEab, faults>>
    PROVE  IInv'
<1>1. Moves(w, "idle", NoJob) /\ Carries(w)' /\ OwnAccount(w)'
    BY AnswerMoves DEF Codes
<1>2. /\ account \in [AccountIds -> AccountRows] /\ account' \in [AccountIds -> AccountRows]
      /\ account'[a] = r
      /\ \A b \in AccountIds \ {a} : account'[b] = account[b]
    BY DEF IInv, TypeOK
<1>3. RowsOK' /\ KeepRows
    BY <1>2 DEF RowsOK, KeepRows, IInv, TypeOK
<1>4. ASSUME NEW v \in Workers, job[v].created PROVE job[v].account \in AccountIds
    BY <1>4 DEF IInv, Carries, OwnAccount, Flight
<1>5. KeepsOthers(w)
    BY <1>2, <1>4 DEF KeepsOthers, IInv, OwnAccount
<1>6. AuditedExist'
    BY <1>3 DEF AuditedExist, KeepRows, IInv, TypeOK
<1>7. \A b \in AccountIds : /\ BoundTo(b)' = BoundTo(b) /\ (Exists(b)' => Exists(b))
                            /\ account'[b].status = "deleted" => account[b].status = "deleted"
    BY <1>2 DEF BoundTo, Exists
<1>8. UnboundIsInFlight'
    BY <1>1, <1>7, NoJobType, StillInFlight DEF Steps
<1>9. LoggedIsKept'
    BY <1>7 DEF LoggedIsKept, IInv
<1> QED
    BY <1>1, <1>3, <1>5, <1>6, <1>8, <1>9, NoJobType, StepKeepsIInv DEF Steps

(* Requests signed by an account.                                          *)
LEMMA ManageKeepsIInv ==
    ASSUME IInv, NEW w \in Workers, Manage(w)
    PROVE  IInv'
<1> DEFINE a == job[w].account
<1>1. job[w] \in Jobs /\ Carries(w) /\ OwnAccount(w)
    BY DEF IInv, TypeOK
<1>2. pc[w] \in {"deactivate", "conflict", "rotate", "order"}
    BY DEF Manage, deactivate_account, key_change, rotate_account_key, PlaceOrder
<1>3. a \in AccountIds /\ account[a].status # "absent" /\ ~job[w].created
    BY <1>1, <1>2 DEF Carries, OwnAccount, Flight
<1>4. account[a] \in AccountRows
    BY <1>3 DEF IInv, TypeOK
<1>5. ASSUME NEW code \in Codes, Answer(w, code), UNCHANGED <<rows, faults>> PROVE IInv'
    BY <1>3, <1>5, AnswerKeepsIInv DEF Answer
<1>6. CASE deactivate_account(w)
    <2>1. CASE Exists(a)
        <3>1. /\ [account[a] EXCEPT !.status = "deactivated"] \in AccountRows
              /\ [account[a] EXCEPT !.status = "deactivated"].status = "deactivated"
            BY <1>3, <1>4, RowFields
        <3> QED
            BY <1>3, <1>6, <2>1, <3>1, ChangedKeepsIInv DEF deactivate_account, Answer
    <2>2. CASE ~Exists(a)
        BY <1>5, <1>6, <2>2 DEF deactivate_account, Codes, rows
    <2> QED
        BY <2>1, <2>2
<1>7. CASE key_change(w)
    <2>1. CASE Goto(w, "rotate", job[w])
        <3>1. pc'[w] = "rotate" /\ job'[w] = job[w] /\ UNCHANGED <<rows, faults>>
            BY <1>7, <2>1, GotoMoves DEF key_change
        <3>2. Carries(w)' /\ OwnAccount(w)'
            BY <1>1, <1>2, <1>3, <1>7, <3>1 DEF Carries, OwnAccount, Flight, rows, key_change
        <3> QED
            BY <1>3, <2>1, <3>1, <3>2, OnKeepsIInv DEF Steps
    <2>2. CASE Answer(w, "refused")
        BY <1>5, <1>7, <2>2 DEF key_change, Codes
    <2> QED
        BY <1>7, <2>1, <2>2 DEF key_change
<1>8. CASE rotate_account_key(w)
    <2>1. job[w].newKey \in Keys
        BY <1>1, <1>8 DEF Carries, rotate_account_key
    <2>2. RotatedRow(w) \in AccountRows /\ RotatedRow(w).status = account[a].status
        BY <1>3, <1>4, <2>1, RowFields DEF RotatedRow
    <2>3. CASE Exists(a) /\ account' = [account EXCEPT ![a] = RotatedRow(w)] /\ Answer(w, "found")
        <3>1. RotatedRow(w).status \in {"valid", "deactivated"}
            BY <2>2, <2>3 DEF Exists
        <3> QED
            BY <1>3, <1>8, <2>2, <2>3, <3>1, ChangedKeepsIInv DEF rotate_account_key, Answer
    <2>4. CASE Answer(w, "stale") /\ UNCHANGED account
        BY <1>5, <1>8, <2>4 DEF rotate_account_key, Codes, rows
    <2> QED
        BY <1>8, <2>3, <2>4 DEF rotate_account_key
<1>9. CASE PlaceOrder(w)
    <2>1. CASE ordered' = ordered \cup {a} /\ Answer(w, "found")
        <3>1. UNCHANGED <<account, eab, retired, audited, requireEab, faults>>
            BY <1>9 DEF PlaceOrder
        <3>2. Moves(w, "idle", NoJob) /\ Carries(w)' /\ OwnAccount(w)'
            BY <1>3, <2>1, AnswerMoves DEF Answer, Codes
        <3>3. RowsOK'
            BY <1>3, <2>1, <3>1 DEF RowsOK, IInv, TypeOK
        <3>4. KeepRows /\ KeepsOthers(w) /\ AuditedExist'
            BY <3>1, OthersKept
        <3>5. \A b \in AccountIds : BoundTo(b)' = BoundTo(b) /\ Exists(b)' = Exists(b)
            BY <3>1 DEF BoundTo, Exists
        <3>6. UnboundIsInFlight'
            BY <1>3, <2>1, <3>1, <3>2, <3>5, NoJobType, StillInFlight DEF Steps
        <3>7. LoggedIsKept'
            BY <3>1, <3>5 DEF LoggedIsKept, IInv
        <3> QED
            BY <3>1, <3>2, <3>3, <3>4, <3>6, <3>7, NoJobType, StepKeepsIInv DEF Steps
    <2>2. CASE Answer(w, "stale") /\ UNCHANGED ordered
        BY <1>5, <1>9, <2>2 DEF PlaceOrder, Codes, rows
    <2> QED
        BY <1>9, <2>1, <2>2 DEF PlaceOrder
<1> QED
    BY <1>6, <1>7, <1>8, <1>9 DEF Manage

(* A crash: what the request had created may stay unbound.                 *)
LEMMA CrashKeepsIInv ==
    ASSUME IInv, NEW w \in Workers, Crash(w)
    PROVE  IInv'
<1>1. /\ faults' = faults + 1 /\ faults < MaxFaults
      /\ UNCHANGED <<account, eab, ordered, retired, audited, requireEab, reply>>
      /\ pc' = [pc EXCEPT ![w] = "idle"] /\ job' = [job EXCEPT ![w] = NoJob]
    BY DEF Crash, rows
<1>2. faults' \in 0 .. MaxFaults /\ faults' # 0
    BY <1>1, AccountAssumption DEF IInv, TypeOK
<1>3. Moves(w, "idle", NoJob) /\ pc'[w] = "idle" /\ job'[w] = NoJob
    BY <1>1 DEF Moves, IInv, TypeOK
<1>4. Carries(w)' /\ OwnAccount(w)'
    BY <1>3, NoJobType DEF Carries, OwnAccount, Flight
<1>5. RowsOK'
    BY <1>1, <1>2 DEF RowsOK, IInv, TypeOK
<1>6. KeepRows /\ KeepsOthers(w) /\ AuditedExist'
    BY <1>1, OthersKept
<1>7. UnboundIsInFlight'
    BY <1>2 DEF UnboundIsInFlight
<1>8. LoggedIsKept'
    BY <1>1 DEF LoggedIsKept, IInv, BoundTo
<1> QED
    BY <1>1, <1>3, <1>4, <1>5, <1>6, <1>7, <1>8, NoJobType, StepKeepsIInv DEF Steps

(* The operator mints and revokes bindings and retires issuers.            *)
LEMMA OperatorKeepsIInv ==
    ASSUME IInv,
           \/ \E e \in EabKeys : create_key(e) \/ revoke_key(e)
           \/ \E i \in Issuers : RetireIssuer(i)
    PROVE  IInv'
<1>1. /\ UNCHANGED <<account, ordered, audited, requireEab, pc, job, reply, faults>>
      /\ retired' \subseteq Issuers
      /\ eab' \in [EabKeys -> EabRows] /\ \A e \in EabKeys : eab'[e].bound = eab[e].bound
    <2>1. ASSUME NEW e \in EabKeys, NEW life \in {"live", "revoked"},
                 eab' = [eab EXCEPT ![e].life = life]
          PROVE  eab' \in [EabKeys -> EabRows] /\ \A d \in EabKeys : eab'[d].bound = eab[d].bound
        BY <2>1 DEF IInv, TypeOK, EabRows
    <2> QED
        BY <2>1 DEF create_key, revoke_key, RetireIssuer, IInv, TypeOK
<1>2. TypeOK'
    BY <1>1 DEF IInv, TypeOK
<1>3. \A a \in AccountIds : BoundTo(a)' = BoundTo(a) /\ Exists(a)' = Exists(a)
    BY <1>1 DEF BoundTo, Exists
<1>4. \A w \in Workers : Carries(w)' /\ OwnAccount(w)'
    BY <1>1 DEF IInv, Carries, OwnAccount
<1>5. CreatedApart' /\ AuditedExist'
    BY <1>1 DEF IInv, CreatedApart, AuditedExist
<1>6. UnboundIsInFlight' /\ LoggedIsKept'
    BY <1>1, <1>3 DEF IInv, UnboundIsInFlight, LoggedIsKept
<1> QED
    BY <1>2, <1>4, <1>5, <1>6 DEF IInv

-----------------------------------------------------------------------------
(* Theorems                                                                *)

(* No accounts and no bindings.                                            *)
LEMMA InitIInv == Init => IInv
<1> SUFFICES ASSUME Init PROVE IInv
    OBVIOUS
<1>1. TypeOK
    <2>1. account \in [AccountIds -> AccountRows] /\ eab \in [EabKeys -> EabRows]
        BY DEF Init, AccountRows, EabRows
    <2>2. NoReply \in Replies
        BY DEF NoReply, Replies, Codes
    <2>3. pc \in [Workers -> Steps] /\ job \in [Workers -> Jobs] /\ reply \in [Workers -> Replies]
        BY <2>2, NoJobType DEF Init, Steps
    <2>4. faults \in 0 .. MaxFaults
        BY AccountAssumption DEF Init
    <2> QED
        BY <2>1, <2>3, <2>4 DEF Init, TypeOK
<1>2. ASSUME NEW w \in Workers PROVE Carries(w) /\ OwnAccount(w)
    BY NoJobType DEF Init, Carries, OwnAccount, Flight
<1>3. CreatedApart /\ AuditedExist
    BY NoJobType DEF Init, CreatedApart, AuditedExist
<1>4. UnboundIsInFlight /\ LoggedIsKept
    BY DEF Init, UnboundIsInFlight, LoggedIsKept, Exists, NoAccount
<1> QED
    BY <1>1, <1>2, <1>3, <1>4 DEF IInv

(* The invariant is inductive.                                             *)
LEMMA NextIInv == IInv /\ [Next]_vars => IInv'
<1> SUFFICES ASSUME IInv, [Next]_vars PROVE IInv'
    OBVIOUS
<1>1. ASSUME NEW w \in Workers, Request(w) \/ Register(w) \/ Manage(w) \/ Crash(w) PROVE IInv'
    BY <1>1, AcceptKeepsIInv, LookupKeepsIInv, InsertKeepsIInv, SpendKeepsIInv, BindKeepsIInv,
       DeleteKeepsIInv, RecordKeepsIInv, ManageKeepsIInv, CrashKeepsIInv DEF Register
<1>2. CASE \/ \E e \in EabKeys : create_key(e) \/ revoke_key(e)
           \/ \E i \in Issuers : RetireIssuer(i)
    BY <1>2, OperatorKeepsIInv
<1>3. CASE UNCHANGED vars
    BY <1>3 DEF vars, IInv, TypeOK, Carries, OwnAccount, CreatedApart, AuditedExist,
                UnboundIsInFlight, LoggedIsKept, Exists, BoundTo
<1> QED
    BY <1>1, <1>2, <1>3 DEF Next

(* Every reachable state satisfies the inductive invariant.                *)
LEMMA SpecIInv == Spec => []IInv
<1> QED
    BY InitIInv, NextIInv, PTL DEF Spec

(* The rows of accounts and bindings, and what requests carry and answer,  *)
(* keep their types.                                                       *)
THEOREM TypeCorrect == Spec => []TypeOK
<1>1. IInv => TypeOK
    BY DEF IInv
<1> QED
    BY <1>1, SpecIInv, PTL

(* new_account and _spend_binding with acme_require_eab on: no account is  *)
(* left without a binding but by a crash, or by an order that was quicker. *)
THEOREM AccountsAreBound == Spec => []UnboundIsInFlight
<1>1. IInv => UnboundIsInFlight
    BY DEF IInv
<1> QED
    BY <1>1, SpecIInv, PTL

(* _spend_binding's clean-up never reaches an account that was announced   *)
(* or bound.                                                               *)
THEOREM LoggedAccountsAreKept == Spec => []LoggedIsKept
<1>1. IInv => LoggedIsKept
    BY DEF IInv
<1> QED
    BY <1>1, SpecIInv, PTL

(* Only the conditional UPDATE writes a binding's account.                 *)
LEMMA NextBinds ==
    ASSUME IInv, [Next]_vars, NEW e \in EabKeys, eab[e].bound # None \/ eab[e].life = "revoked"
    PROVE  eab'[e].bound = eab[e].bound
<1>1. CASE eab' = eab
    BY <1>1
<1>2. ASSUME NEW w \in Workers, eab' = [eab EXCEPT ![job[w].eab].bound = job[w].account],
             Claimable(job[w].eab)
      PROVE  eab'[e].bound = eab[e].bound
    BY <1>2 DEF Claimable, IInv, TypeOK
<1>3. ASSUME NEW d \in EabKeys, NEW life, eab' = [eab EXCEPT ![d].life = life]
      PROVE  eab'[e].bound = eab[e].bound
    BY <1>3 DEF IInv, TypeOK, EabRows
<1>4. ASSUME NEW w \in Workers, Request(w) \/ Crash(w) PROVE eab' = eab
    BY <1>4 DEF Request, new_account, verified, Crash, rows
<1>5. ASSUME NEW w \in Workers, Manage(w) PROVE eab' = eab
    BY <1>5 DEF Manage, deactivate_account, key_change, rotate_account_key, PlaceOrder, rows
<1>6. ASSUME NEW w \in Workers, Register(w), ~bind(w) PROVE eab' = eab
    BY <1>6 DEF Register, FindExisting, verify, get_or_create_account, InsertAccount,
                RereadAccount, _spend_binding, DeleteAccount, record, rows
<1>7. ASSUME NEW w \in Workers, bind(w) PROVE eab'[e].bound = eab[e].bound
    BY <1>1, <1>2, <1>7 DEF bind
<1>8. ASSUME NEW d \in EabKeys, create_key(d) \/ revoke_key(d) PROVE eab'[e].bound = eab[e].bound
    BY <1>3, <1>8 DEF create_key, revoke_key
<1>9. ASSUME NEW i \in Issuers, RetireIssuer(i) PROVE eab' = eab
    BY <1>9 DEF RetireIssuer
<1> QED
    BY <1>1, <1>4, <1>5, <1>6, <1>7, <1>8, <1>9 DEF Next, vars

(* eab.bind: whoever has a binding keeps it, and a revoked key is worth    *)
(* nothing, whatever was read of it before.                                *)
THEOREM BindingsAreFinal == Spec => BindingFinal
<1>1. IInv /\ [Next]_vars =>
          \A e \in EabKeys :
              eab[e].bound # None \/ eab[e].life = "revoked" => eab'[e].bound = eab[e].bound
    BY NextBinds
<1> QED
    BY <1>1, SpecIInv, PTL DEF Spec, BindingFinal

(* Every write of a row leaves a deactivated account not valid.            *)
LEMMA NextDeactivates ==
    ASSUME IInv, [Next]_vars, NEW a \in AccountIds, account[a].status = "deactivated"
    PROVE  account'[a].status # "valid"
<1>0. account \in [AccountIds -> AccountRows]
    BY DEF IInv, TypeOK
<1>1. CASE account' = account
    BY <1>1
<1>2. ASSUME NEW b, NEW r, account' = [account EXCEPT ![b] = r],
             b = a => r.status # "valid"
      PROVE  account'[a].status # "valid"
    BY <1>0, <1>2
<1>3. ASSUME NEW b, NEW st \in {"deactivated", "deleted"},
             account' = [account EXCEPT ![b].status = st]
      PROVE  account'[a].status # "valid"
    BY <1>0, <1>3 DEF AccountRows, NoAccount
<1>4. ASSUME NEW w \in Workers, Request(w) \/ Crash(w) PROVE account' = account
    BY <1>4 DEF Request, new_account, verified, Crash, rows
<1>5. ASSUME NEW w \in Workers, Manage(w) PROVE account'[a].status # "valid"
    <2>1. CASE rotate_account_key(w)
        <3>1. job[w].account = a => RotatedRow(w).status = "deactivated"
            BY <1>0 DEF RotatedRow, AccountRows, NoAccount
        <3>2. account' = account \/ account' = [account EXCEPT ![job[w].account] = RotatedRow(w)]
            BY <2>1 DEF rotate_account_key
        <3> QED
            BY <1>1, <1>2, <3>1, <3>2
    <2>2. CASE deactivate_account(w)
        BY <1>1, <1>3, <2>2 DEF deactivate_account
    <2>3. CASE key_change(w) \/ PlaceOrder(w)
        BY <1>1, <2>3 DEF key_change, PlaceOrder, rows
    <2> QED
        BY <1>5, <2>1, <2>2, <2>3 DEF Manage
<1>6. ASSUME NEW w \in Workers, Register(w) PROVE account'[a].status # "valid"
    <2>1. CASE InsertAccount(w)
        <3> DEFINE c == CHOOSE c \in FreshIds : \A b \in FreshIds : c <= b
        <3>1. FreshIds \in SUBSET Nat
            BY DEF FreshIds, AccountIds
        <3>2. FreshIds # {} => c \in FreshIds
            BY <3>1, MinExists
        <3>3. a \notin FreshIds
            BY DEF FreshIds
        <3>4. account' = account \/ (FreshIds # {} /\ account' = [account EXCEPT ![c] = NewRow(w)])
            BY <2>1 DEF InsertAccount
        <3> QED
            BY <1>1, <1>2, <3>2, <3>3, <3>4
    <2>2. CASE DeleteAccount(w)
        BY <1>1, <1>3, <2>2 DEF DeleteAccount
    <2>3. CASE ~InsertAccount(w) /\ ~DeleteAccount(w)
        BY <1>1, <1>6, <2>3 DEF Register, FindExisting, verify, get_or_create_account,
                                RereadAccount, _spend_binding, bind, record, rows
    <2> QED
        BY <2>1, <2>2, <2>3
<1>7. ASSUME NEW e \in EabKeys, create_key(e) \/ revoke_key(e) PROVE account' = account
    BY <1>7 DEF create_key, revoke_key
<1>8. ASSUME NEW i \in Issuers, RetireIssuer(i) PROVE account' = account
    BY <1>8 DEF RetireIssuer
<1> QED
    BY <1>1, <1>4, <1>5, <1>6, <1>7, <1>8 DEF Next, vars

(* deactivate_account: no request that was let in before, a key change     *)
(* among them, makes the account valid again.                              *)
THEOREM DeactivationIsFinal == Spec => DeactivationFinal
<1>1. IInv /\ [Next]_vars =>
          \A a \in AccountIds :
              account[a].status = "deactivated" => account'[a].status # "valid"
    BY NextDeactivates
<1> QED
    BY <1>1, SpecIInv, PTL DEF Spec, DeactivationFinal

=============================================================================
