---------------------------- MODULE CaHierarchy ----------------------------
(***************************************************************************)
(* CA hierarchies: ca/service.py on the certificates of ca/x509.py.        *)
(*                                                                         *)
(* Each operation is a request of its own session: what it reads first is  *)
(* kept in its job, and its writes take effect at its one commit.  A       *)
(* certificate is whose it is (subject name and public key together), who  *)
(* signed it, when it ends and how deep a path it allows; not_valid_before *)
(* always lies in the past and is left out.                                *)
(***************************************************************************)
EXTENDS Integers, FiniteSets, Sequences, FiniteSetsExt, SequencesExt

CONSTANTS
    Foreign,     \* CAs that were created elsewhere
    Years,       \* the numbers of years a form may ask for
    YearTicks,   \* clock ticks in _DAYS_PER_YEAR
    Lengths,     \* path lengths of roots, 2 for everything above and for none
    ForeignEnds, \* ends of certificates that come from elsewhere
    Workers,
    MaxRows,     \* bound on ca_certificates rows
    Moments,     \* the readings of the clock, from 0 on
    None         \* SQL NULL

ASSUME HierarchyAssumption ==
    /\ Years \subseteq Nat \ {0} /\ YearTicks \in Nat \ {0}
    /\ Lengths \subseteq 0 .. 2 /\ ForeignEnds \subseteq Nat
    /\ MaxRows \in Nat /\ Moments \subseteq Nat /\ 0 \in Moments
    /\ Foreign \cap Nat = {} /\ None \notin Nat \cup Foreign

VARIABLES
    used,    \* how many rows there are; rows are never deleted
    rows,    \* ca_certificates
    pc, job, \* what each request does next, and what it has read
    now,
    overlap  \* history: a retirement committed while another was past its check

vars == <<used, rows, pc, job, now, overlap>>

-----------------------------------------------------------------------------

Ids == 1 .. MaxRows

Stored == 1 .. used

(* A CA that cabin creates is named by the row that it is created in, also *)
(* in the further rows that an import of its certificate leads to.         *)
Cas == Ids \cup Foreign

CACertificates ==
    [kind : {"root", "intermediate", "cross"}, status : {"active", "retired"},
     parent : Ids \cup {None}, crossOf : Ids \cup {None}, hasKey : BOOLEAN,
     subject : Cas, signer : Cas, pathLength : 0 .. 2, notAfter : Int]

Steps == {"idle", "intermediate", "cross", "importCross", "issuers", "retire", "renew"}

(* ca is the row the request is about, above the one that signs, seen the  *)
(* set of rows it read, years what the form asked for, notAfter the end of *)
(* a certificate as loaded, cert the certificate that was uploaded.        *)
Jobs ==
    [ca : Ids \cup {None}, above : Ids \cup {None}, seen : SUBSET Ids, years : Years \cup {0},
     notAfter : Int, subject : Cas \cup {None}, signer : Cas \cup {None}, pathLength : 0 .. 2]

NoJob == [ca |-> None, above |-> None, seen |-> {}, years |-> 0, notAfter |-> 0,
          subject |-> None, signer |-> None, pathLength |-> 0]

Goto(w, step, j) == pc' = [pc EXCEPT ![w] = step] /\ job' = [job EXCEPT ![w] = j]

Finish(w) == Goto(w, "idle", NoJob)

Insert(newRows) ==
    /\ used + Len(newRows) <= MaxRows
    /\ used' = used + Len(newRows)
    /\ rows' = [r \in Ids |-> IF r > used /\ r <= used + Len(newRows)
                              THEN newRows[r - used] ELSE rows[r]]

(* A certificate that would end before it starts cannot be built; the      *)
(* request is refused with nothing written.                                *)
InsertSigned(row) ==
    IF row.notAfter < now THEN UNCHANGED <<used, rows>> ELSE Insert(<<row>>)

Lower(a, b) == IF a <= b THEN a ELSE b

IsRoot(r) == rows[r].kind = "root"

active_issuers == {r \in Stored : rows[r].kind = "intermediate" /\ rows[r].status = "active"}

-----------------------------------------------------------------------------
(* Chains                                                                  *)

(* A row and its ancestors, nearest first.                                 *)
_parent_walk(r) ==
    LET walk[x \in Stored] ==
            IF rows[x].parent = None THEN <<x>> ELSE <<x>> \o walk[rows[x].parent]
    IN  walk[r]

_cert_valid_at(r) == now <= rows[r].notAfter

(* The top of the base path is replaced by a cross row and the walk above  *)
(* it.                                                                     *)
CrossPath(r, x) == Front(_parent_walk(r)) \o <<x>> \o _parent_walk(rows[x].parent)

(* The active cross rows of the topmost row whose whole path is in date.   *)
Surviving(r) ==
    {x \in Stored :
        /\ rows[x].crossOf = Last(_parent_walk(r))
        /\ rows[x].status = "active"
        /\ \A y \in {x} \cup Range(_parent_walk(rows[x].parent)) : _cert_valid_at(y)}

chains_for(r) ==
    [default |-> IF Surviving(r) = {} THEN _parent_walk(r) ELSE CrossPath(r, Min(Surviving(r))),
     all     |-> {_parent_walk(r)} \cup {CrossPath(r, x) : x \in Surviving(r)}]

-----------------------------------------------------------------------------
(* Creation and import                                                     *)

RootRow(ca, hasKey, len, end) ==
    [kind |-> "root", status |-> "active", parent |-> None, crossOf |-> None,
     hasKey |-> hasKey, subject |-> ca, signer |-> ca, pathLength |-> len, notAfter |-> end]

IntermediateRow(ca, parent, signer, len, end) ==
    [kind |-> "intermediate", status |-> "active", parent |-> parent, crossOf |-> None,
     hasKey |-> TRUE, subject |-> ca, signer |-> signer, pathLength |-> len, notAfter |-> end]

CrossRow(ca, of, parent, signer, len, end) ==
    [kind |-> "cross", status |-> "active", parent |-> parent, crossOf |-> of,
     hasKey |-> FALSE, subject |-> ca, signer |-> signer, pathLength |-> len, notAfter |-> end]

create_root(years, len) ==
    /\ Insert(<<RootRow(used + 1, TRUE, len, now + YearTicks * years)>>)
    /\ UNCHANGED <<pc, job, now, overlap>>

(* load_import: the signing CA comes with its key, is in date and was      *)
(* signed by the given parent, another CA.  Either may be one of cabin's   *)
(* own, whose certificates and keys can be exported.  The parent is stored *)
(* as a root without a key, however old it is; who signed it, and whether  *)
(* it is stored already, is not looked at.                                 *)
import_hierarchy(ca, parent, len, end, parentEnd) ==
    /\ ca # parent /\ now <= end
    /\ Insert(<<RootRow(parent, FALSE, len, parentEnd),
                IntermediateRow(ca, used + 1, parent, 0, end)>>)
    /\ UNCHANGED <<pc, job, now, overlap>>

(* Mutant: the root's key is not looked for.                               *)
create_intermediate_under_keyless(w, root, years) ==
    /\ pc[w] = "idle"
    /\ IsRoot(root)
    /\ Goto(w, "intermediate", [NoJob EXCEPT !.ca = root, !.years = years,
                                             !.notAfter = rows[root].notAfter])
    /\ UNCHANGED <<used, rows, now, overlap>>

(* The root is loaded; it must be a root with a key.  Its status is not    *)
(* looked at.                                                              *)
create_intermediate_under(w, root, years) ==
    /\ pc[w] = "idle"
    /\ IsRoot(root) /\ rows[root].hasKey
    /\ Goto(w, "intermediate", [NoJob EXCEPT !.ca = root, !.years = years,
                                             !.notAfter = rows[root].notAfter])
    /\ UNCHANGED <<used, rows, now, overlap>>

(* The end is clamped to the root's, as it was loaded.                     *)
InsertIntermediate(w) ==
    LET root == job[w].ca
    IN  /\ pc[w] = "intermediate"
        /\ InsertSigned(IntermediateRow(used + 1, root, rows[root].subject, 0,
                                        Lower(now + YearTicks * job[w].years, job[w].notAfter)))
        /\ Finish(w)
        /\ UNCHANGED <<now, overlap>>

-----------------------------------------------------------------------------
(* Cross certificates                                                      *)

(* The signing root needs room for two CA certificates below it, the       *)
(* subject root for one.                                                   *)
cross_path_length_ok(subjectLength, issuerLength) == issuerLength >= 2 /\ subjectLength >= 1

(* The rows are loaded and the pair is looked up; nothing that the later   *)
(* steps use of a loaded row can change but its end.                       *)
cross_sign_root(w, ca, signing, years) ==
    /\ pc[w] = "idle"
    /\ IsRoot(ca) /\ IsRoot(signing) /\ ca # signing
    /\ rows[signing].hasKey
    /\ cross_path_length_ok(rows[ca].pathLength, rows[signing].pathLength)
    /\ ~ \E x \in Stored : /\ rows[x].crossOf = ca /\ rows[x].parent = signing
                           /\ rows[x].status = "active"
    /\ Goto(w, "cross", [NoJob EXCEPT !.ca = ca, !.above = signing, !.years = years,
                                      !.notAfter = rows[signing].notAfter])
    /\ UNCHANGED <<used, rows, now, overlap>>

InsertCross(w) ==
    LET ca      == job[w].ca
        signing == job[w].above
    IN  /\ pc[w] = "cross"
        /\ InsertSigned(CrossRow(rows[ca].subject, ca, signing, rows[signing].subject,
                                 rows[ca].pathLength,
                                 Lower(now + YearTicks * job[w].years, job[w].notAfter)))
        /\ Finish(w)
        /\ UNCHANGED <<now, overlap>>

(* Mutant: the names alone are compared, and two CAs may share one.        *)
_same_ca_name(r, ca) == TRUE

(* Subject and public key of a stored root are those of a certificate.     *)
_same_ca(r, ca) == rows[r].subject = ca

(* Mutant: the row of the subject itself is not passed over.               *)
signing_rows_own(row, ca) == {r \in Stored : IsRoot(r) /\ _same_ca(r, ca)}

(* The stored roots of a CA, but for one row.                              *)
signing_rows(row, ca) == {r \in Stored \ {row} : IsRoot(r) /\ _same_ca(r, ca)}

(* The uploaded certificate says that signer vouches for subject, which    *)
(* may be the same CA: a root's own certificate is accepted.  load_cross   *)
(* checks its signature, its date and the path lengths; exactly one stored *)
(* root must be its subject.                                               *)
import_cross(w, subject, signer, signerLength, end) ==
    LET mine == {r \in Stored : IsRoot(r) /\ _same_ca(r, subject)}
        row  == CHOOSE r \in mine : TRUE
    IN  /\ pc[w] = "idle"
        /\ now <= end
        /\ Cardinality(mine) = 1
        /\ cross_path_length_ok(rows[row].pathLength, signerLength)
        /\ Goto(w, "importCross",
                [NoJob EXCEPT !.ca = row, !.seen = signing_rows(row, signer),
                              !.subject = subject, !.signer = signer,
                              !.pathLength = signerLength, !.notAfter = end])
        /\ UNCHANGED <<used, rows, now, overlap>>

(* A stored signing root is reused, a new one is inserted without a key.   *)
InsertImportedCross(w, signerEnd) ==
    LET j == job[w]
        Cross(above) ==
            CrossRow(j.subject, j.ca, above, j.signer, rows[j.ca].pathLength, j.notAfter)
    IN  /\ pc[w] = "importCross"
        /\ Insert(IF j.seen # {} THEN <<Cross(Min(j.seen))>>
                  ELSE <<RootRow(j.signer, FALSE, j.pathLength, signerEnd),
                         Cross(used + 1)>>)
        /\ Finish(w)
        /\ UNCHANGED <<now, overlap>>

-----------------------------------------------------------------------------
(* Retirement and renewal                                                  *)

(* Mutant: the cascade runs upwards.                                       *)
retire_targets_upward(r) == {r, rows[r].parent}

(* The row, and everything it signed when it is a root.                    *)
retire_targets(r) == {r} \cup (IF IsRoot(r) THEN {x \in Stored : rows[x].parent = r} ELSE {})

retire(w, r) ==
    /\ pc[w] = "idle"
    /\ rows[r].status = "active"
    /\ Goto(w, "issuers", [NoJob EXCEPT !.ca = r, !.seen = retire_targets(r)])
    /\ UNCHANGED <<used, rows, now, overlap>>

(* Mutant: the row that is about to go is counted as well.                 *)
CheckRemaining_itself(w) ==
    /\ pc[w] = "issuers"
    /\ IF active_issuers = {} THEN Finish(w) ELSE Goto(w, "retire", job[w])
    /\ UNCHANGED <<used, rows, now, overlap>>

(* Refused when no other issuer is active.                                 *)
CheckRemaining(w) ==
    /\ pc[w] = "issuers"
    /\ IF active_issuers \ job[w].seen = {} THEN Finish(w) ELSE Goto(w, "retire", job[w])
    /\ UNCHANGED <<used, rows, now, overlap>>

CommitRetire(w) ==
    /\ pc[w] = "retire"
    /\ rows' = [r \in Ids |-> IF r \in job[w].seen THEN [rows[r] EXCEPT !.status = "retired"]
                              ELSE rows[r]]
    /\ overlap' = (overlap \/ \E v \in Workers \ {w} : pc[v] = "retire")
    /\ Finish(w)
    /\ UNCHANGED <<used, now>>

(* As many whole years as fit before the deadline.                         *)
_years_until(deadline, years) == Lower(years, (deadline - now) \div YearTicks)

(* An active row whose signing key is stored: its own for a root, its      *)
(* parent's for every other row.                                           *)
renew_in_place(w, r, years) ==
    LET signing == IF IsRoot(r) THEN r ELSE rows[r].parent
    IN  /\ pc[w] = "idle"
        /\ rows[r].status = "active"
        /\ rows[signing].hasKey
        /\ Goto(w, "renew", [NoJob EXCEPT !.ca = r, !.above = signing, !.years = years,
                                          !.notAfter = rows[signing].notAfter])
        /\ UNCHANGED <<used, rows, now, overlap>>

(* Mutant: the row is written back as it was loaded, status included.      *)
Renewed_whole(w) ==
    LET j == job[w]
        years == IF j.ca = j.above THEN j.years ELSE _years_until(j.notAfter, j.years)
    IN  [rows[j.ca] EXCEPT !.notAfter = now + YearTicks * years, !.status = "active"]

(* Only the certificate is new; everything in it but its end is kept.      *)
Renewed(w) ==
    LET j == job[w]
        years == IF j.ca = j.above THEN j.years ELSE _years_until(j.notAfter, j.years)
    IN  [rows[j.ca] EXCEPT !.notAfter = now + YearTicks * years]

CommitRenewal(w) ==
    /\ pc[w] = "renew"
    /\ rows' = IF Renewed(w).notAfter < now THEN rows
               ELSE [rows EXCEPT ![job[w].ca] = Renewed(w)]
    /\ Finish(w)
    /\ UNCHANGED <<used, now, overlap>>

Tick ==
    /\ \E moment \in Moments : moment > now /\ now' = moment
    /\ UNCHANGED <<used, rows, pc, job, overlap>>

-----------------------------------------------------------------------------

Absent == RootRow(1, FALSE, 0, 0)

Init ==
    /\ used = 0
    /\ rows = [r \in Ids |-> Absent]
    /\ pc = [w \in Workers |-> "idle"]
    /\ job = [w \in Workers |-> NoJob]
    /\ now = 0
    /\ overlap = FALSE

(* The CAs that an upload can be about.                                    *)
Known == Foreign \cup {rows[r].subject : r \in Stored}

Import ==
    \E ca, parent \in Known, len \in Lengths, end, parentEnd \in ForeignEnds :
        import_hierarchy(ca, parent, len, end, parentEnd)

(* What can only insert is not begun when MaxRows leaves no room for it.   *)
Request(w) ==
    \/ /\ used < MaxRows
       /\ \/ \E r \in Stored, years \in Years : create_intermediate_under(w, r, years)
          \/ \E r, s \in Stored, years \in Years : cross_sign_root(w, r, s, years)
          \/ \E subject, signer \in Known, len \in Lengths, end \in ForeignEnds :
                import_cross(w, subject, signer, len, end)
    \/ \E r \in Stored : retire(w, r)
    \/ \E r \in Stored, years \in Years : renew_in_place(w, r, years)

Commit(w) ==
    \/ InsertIntermediate(w) \/ InsertCross(w)
    \/ \E end \in ForeignEnds : InsertImportedCross(w, end)
    \/ CheckRemaining(w) \/ CommitRetire(w) \/ CommitRenewal(w)

Next ==
    \/ \E years \in Years, len \in Lengths \ {0} : create_root(years, len)
    \/ Import
    \/ \E w \in Workers : Request(w) \/ Commit(w)
    \/ Tick

Spec == Init /\ [][Next]_vars

-----------------------------------------------------------------------------
(* Properties                                                              *)

(* Every column and every session variable holds what it can hold.         *)
TypeOK ==
    /\ used \in 0 .. MaxRows
    /\ rows \in [Ids -> CACertificates]
    /\ pc \in [Workers -> Steps]
    /\ job \in [Workers -> Jobs]
    /\ now \in Moments
    /\ overlap \in BOOLEAN

(* What _parent_walk, chains_for and _page_of take for granted of the two  *)
(* self references: whatever was created, imported and cross signed in     *)
(* whatever order, a root has neither, an intermediate hangs under a root, *)
(* a cross row connects two different root rows, also when both are of one *)
(* CA, and has no key of its own; and the row that an intermediate was     *)
(* created in hangs under a root whose key cabin has, whatever rows an     *)
(* import of its certificate added since.                                  *)
HierarchyShape ==
    \A r \in Stored :
        LET row == rows[r]
            RootRef(x) == x \in 1 .. used /\ IsRoot(x)
        IN  /\ row.kind = "root" => row.parent = None /\ row.crossOf = None
            /\ row.kind = "intermediate" => RootRef(row.parent) /\ row.crossOf = None
            /\ row.kind = "cross" => /\ RootRef(row.parent) /\ RootRef(row.crossOf)
                                     /\ row.parent # row.crossOf /\ ~ row.hasKey
            /\ row.kind = "intermediate" /\ row.subject = r => rows[row.parent].hasKey

(* chains_for: in every path that is served, each certificate was signed   *)
(* by the CA of the next one, so that a relying party can verify it; the   *)
(* path ends in a root and takes one cross certificate at most.            *)
PathsVerify ==
    \A r \in Stored : rows[r].kind = "intermediate" =>
        \A path \in chains_for(r).all :
            /\ \A k \in 1 .. Len(path) - 1 : rows[path[k]].signer = rows[path[k + 1]].subject
            /\ IsRoot(Last(path))
            /\ Cardinality({k \in DOMAIN path : rows[path[k]].kind = "cross"}) <= 1

(* retire: a row that was stood down stays down, whatever renewals and     *)
(* retirements are on their way.                                           *)
RetiredStays ==
    [][\A r \in Stored : rows[r].status = "retired" => rows'[r].status = "retired"]_vars

(* RetireError: no retirement leaves the instance without an issuer,       *)
(* unless it was past its check while another one committed.               *)
IssuerRemains == [][active_issuers # {} => active_issuers' # {} \/ overlap]_vars

(* retire's docstring: "a root that must not be used is not one whose      *)
(* intermediates may keep issuing under it".                               *)
NoIssuerUnderRetired == \A r \in active_issuers : rows[rows[r].parent].status = "active"

(* _years_until's docstring: a renewal comes to nothing only after the     *)
(* parent has expired.  Refuted when years are more than one tick long.    *)
RenewalLasts ==
    [][\A w \in Workers :
        pc[w] = "renew" /\ pc'[w] = "idle" /\ job[w].ca # job[w].above /\ now < job[w].notAfter
        => rows'[job[w].ca].notAfter > now]_vars

=============================================================================
