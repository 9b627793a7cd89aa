------------------------- MODULE CaHierarchyProofs -------------------------
(***************************************************************************)
(* Proofs about CaHierarchy, for any number of rows and of requests under  *)
(* way, and whatever CAs come from elsewhere.                              *)
(*                                                                         *)
(* That every served path verifies is a fact about single rows: who signed *)
(* a certificate is whom its parent names, and the subject of a cross      *)
(* certificate is that of the root it stands in for (RowOK).  It is kept   *)
(* because the rows that a request has loaded are still what they were     *)
(* when it inserts its own (Carries): nothing but status and end of a row  *)
(* ever changes.                                                           *)
(***************************************************************************)
EXTENDS CaHierarchy, SequenceTheorems, FiniteSetTheorems, WellFoundedInduction, TLAPS

RootRef(x) == x \in Stored /\ IsRoot(x)

(* A stored certificate, those it refers to, and whose it can be: not that *)
(* of a row which is yet to come.                                          *)
RowOK(r) ==
    LET row == rows[r]
    IN  /\ row.kind = "root" => row.parent = None /\ row.crossOf = None
        /\ row.kind = "intermediate" => RootRef(row.parent) /\ row.crossOf = None
        /\ row.kind = "cross" => /\ RootRef(row.parent) /\ RootRef(row.crossOf)
                                 /\ row.parent # row.crossOf /\ ~ row.hasKey
                                 /\ row.subject = rows[row.crossOf].subject
        /\ row.kind = "intermediate" /\ row.subject = r => rows[row.parent].hasKey
        /\ row.subject \in Foreign \cup Stored
        /\ row.kind # "root" => row.signer = rows[row.parent].subject

(* What a request has loaded.                                              *)
Carries(w) ==
    LET j == job[w]
    IN  /\ pc[w] = "intermediate" => RootRef(j.ca) /\ rows[j.ca].hasKey
        /\ pc[w] = "cross" => RootRef(j.ca) /\ RootRef(j.above) /\ j.ca # j.above
        /\ pc[w] = "importCross" =>
               /\ RootRef(j.ca) /\ rows[j.ca].subject = j.subject /\ j.ca \notin j.seen
               /\ j.subject \in Foreign \cup Stored /\ j.signer \in Foreign \cup Stored
               /\ \A r \in j.seen : RootRef(r) /\ rows[r].subject = j.signer
        /\ pc[w] = "renew" => j.ca \in Stored /\ j.above \in Stored
        /\ pc[w] = "retire" /\ ~overlap => active_issuers \ j.seen # {}

IInv ==
    /\ TypeOK
    /\ \A r \in Stored : RowOK(r)
    /\ \A w \in Workers : Carries(w)

-----------------------------------------------------------------------------
(* Sequences and sets                                                      *)

(* Two sequences of one member.                                            *)
LEMMA TwoLong ==
    ASSUME NEW x, NEW y
    PROVE  <<x>> \o <<y>> = <<x, y>>
<1> DEFINE S == {x, y}
<1>1. /\ <<x>> \in Seq(S) /\ <<y>> \in Seq(S) /\ <<x, y>> \in Seq(S)
      /\ Len(<<x>>) = 1 /\ Len(<<y>>) = 1 /\ Len(<<x, y>>) = 2
    OBVIOUS
<1> HIDE DEF S
<1>2. /\ <<x>> \o <<y>> \in Seq(S) /\ Len(<<x>> \o <<y>>) = 2
      /\ \A i \in 1 .. 2 : (<<x>> \o <<y>>)[i] = IF i <= 1 THEN <<x>>[i] ELSE <<y>>[i - 1]
    BY <1>1, ConcatProperties
<1>3. \A i \in 1 .. 2 : (<<x>> \o <<y>>)[i] = <<x, y>>[i]
    BY <1>2
<1> QED
    BY <1>1, <1>2, <1>3, SeqEqual

(* A pair and one more.                                                    *)
LEMMA ThreeLong ==
    ASSUME NEW x, NEW y, NEW z
    PROVE  <<x, y>> \o <<z>> = <<x, y, z>>
<1> DEFINE S == {x, y, z}
<1>1. /\ <<x, y>> \in Seq(S) /\ <<z>> \in Seq(S) /\ <<x, y, z>> \in Seq(S)
      /\ Len(<<x, y>>) = 2 /\ Len(<<z>>) = 1 /\ Len(<<x, y, z>>) = 3
    OBVIOUS
<1> HIDE DEF S
<1>2. /\ <<x, y>> \o <<z>> \in Seq(S) /\ Len(<<x, y>> \o <<z>>) = 3
      /\ \A i \in 1 .. 3 : (<<x, y>> \o <<z>>)[i] = IF i <= 2 THEN <<x, y>>[i] ELSE <<z>>[i - 2]
    BY <1>1, ConcatProperties
<1>3. \A i \in 1 .. 3 : (<<x, y>> \o <<z>>)[i] = <<x, y, z>>[i]
    BY <1>2
<1> QED
    BY <1>1, <1>2, <1>3, SeqEqual

(* The two ends of a pair.                                                 *)
LEMMA FrontOfTwo ==
    ASSUME NEW x, NEW y
    PROVE  Front(<<x, y>>) = <<x>> /\ Last(<<x, y>>) = y
<1> DEFINE s == <<x, y>>
           t == <<x>>
<1>1. /\ Len(s) = 2 /\ s[1] = x /\ s[2] = y /\ \A i \in 1 .. 1 : s[i] \in {x, y}
      /\ t \in Seq({x, y}) /\ Len(t) = 1 /\ t[1] = x
    OBVIOUS
<1> HIDE DEF s, t
<1>2. SubSeq(s, 1, 1) \in Seq({x, y}) /\ Len(SubSeq(s, 1, 1)) = 1 /\ SubSeq(s, 1, 1)[1] = x
    BY <1>1, SubSeqProperties
<1>3. \A i \in 1 .. 1 : SubSeq(s, 1, 1)[i] = t[i]
    BY <1>1, <1>2
<1>4. SubSeq(s, 1, 1) = t
    BY <1>1, <1>2, <1>3, SeqEqual
<1> QED
    BY <1>1, <1>4 DEF Front, Last, s, t

(* A set of naturals that is not empty has a least member, which Min is.   *)
LEMMA MinIsMember ==
    ASSUME NEW S \in SUBSET Nat, S # {}
    PROVE  Min(S) \in S
<1> DEFINE R == OpToRel(<, Nat)
<1>1. IsWellFoundedOn(R, Nat)
    BY NatLessThanWellFounded
<1>2. PICK x \in S : \A y \in S : ~(<<y, x>> \in R)
    <2> HIDE DEF R
    <2> QED
        BY <1>1, WFMin
<1>3. ASSUME NEW y \in S PROVE x <= y
    <2>1. ~(y < x)
        BY <1>2 DEF OpToRel
    <2> QED
        BY <2>1
<1> QED
    BY <1>3 DEF Min

-----------------------------------------------------------------------------
(* Chains                                                                  *)

(* The types of a stored row.                                              *)
LEMMA RowType ==
    ASSUME IInv, NEW r \in Stored
    PROVE  /\ r \in Ids /\ rows[r] \in CACertificates
           /\ rows[r].kind \in {"root", "intermediate", "cross"}
<1>1. r \in Ids
    BY HierarchyAssumption DEF IInv, TypeOK, Stored, Ids
<1> QED
    BY <1>1 DEF IInv, TypeOK, CACertificates

(* The recursion of _parent_walk ends with the parent of the row.          *)
LEMMA WalkIsShort ==
    ASSUME IInv, NEW r \in Stored
    PROVE  /\ rows[r].parent = None => _parent_walk(r) = <<r>>
           /\ rows[r].parent # None => _parent_walk(r) = <<r, rows[r].parent>>
<1> DEFINE Unfolds(f) ==
               f = [x \in Stored |-> IF rows[x].parent = None THEN <<x>>
                                     ELSE <<x>> \o f[rows[x].parent]]
           short == [x \in Stored |-> IF rows[x].parent = None THEN <<x>>
                                      ELSE <<x, rows[x].parent>>]
           walk == CHOOSE f : Unfolds(f)
<1>1. ASSUME NEW x \in Stored, rows[x].parent # None
      PROVE  rows[x].parent \in Stored /\ rows[rows[x].parent].parent = None
    BY <1>1, RowType DEF IInv, RowOK, RootRef, IsRoot
<1>2. Unfolds(short)
    <2>1. ASSUME NEW x \in Stored, rows[x].parent # None
          PROVE  <<x>> \o short[rows[x].parent] = <<x, rows[x].parent>>
        <3>1. short[rows[x].parent] = <<rows[x].parent>>
            BY <1>1, <2>1
        <3> HIDE DEF short
        <3> QED
            BY <3>1, TwoLong
    <2> QED
        BY <2>1
<1>3. Unfolds(walk)
    <2> HIDE DEF Unfolds
    <2> QED
        BY <1>2
<1>4. _parent_walk(r) = walk[r]
    BY DEF _parent_walk
<1> HIDE DEF walk
<1>5. CASE rows[r].parent = None
    BY <1>3, <1>4, <1>5
<1>6. CASE rows[r].parent # None
    <2>1. walk[rows[r].parent] = <<rows[r].parent>>
        BY <1>1, <1>3, <1>6
    <2>2. walk[r] = <<r>> \o walk[rows[r].parent]
        BY <1>3, <1>6
    <2> QED
        BY <1>4, <1>6, <2>1, <2>2, TwoLong
<1> QED
    BY <1>5, <1>6

(* A path from an intermediate to a root, directly or across.              *)
LEMMA PathsAreShort ==
    ASSUME IInv, NEW r \in Stored, rows[r].kind = "intermediate", NEW path \in chains_for(r).all
    PROVE  \/ path = <<r, rows[r].parent>>
           \/ \E x \in Stored : /\ rows[x].kind = "cross" /\ rows[x].crossOf = rows[r].parent
                                /\ path = <<r, x, rows[x].parent>>
<1> DEFINE p == rows[r].parent
<1>1. RowOK(r) /\ RootRef(p) /\ p # None
    BY RowType, HierarchyAssumption DEF IInv, RowOK, RootRef, Stored, Ids
<1>2. _parent_walk(r) = <<r, p>>
    BY <1>1, WalkIsShort
<1>3. path = <<r, p>> \/ \E x \in Surviving(r) : path = CrossPath(r, x)
    BY <1>2 DEF chains_for
<1>4. ASSUME NEW x \in Surviving(r), path = CrossPath(r, x)
      PROVE  x \in Stored /\ rows[x].kind = "cross" /\ rows[x].crossOf = p
             /\ path = <<r, x, rows[x].parent>>
    <2>1. x \in Stored /\ rows[x].crossOf = p
        BY <1>2, <1>4, FrontOfTwo DEF Surviving
    <2>2. rows[x].kind = "cross" /\ RootRef(rows[x].parent)
        BY <1>1, <2>1, RowType DEF IInv, RowOK
    <2>3. _parent_walk(rows[x].parent) = <<rows[x].parent>>
        BY <2>2, WalkIsShort DEF IInv, RowOK, RootRef, IsRoot
    <2>4. path = <<r>> \o <<x>> \o <<rows[x].parent>>
        BY <1>2, <1>4, <2>3, FrontOfTwo DEF CrossPath
    <2>5. <<r>> \o <<x>> = <<r, x>>
        BY TwoLong
    <2>6. <<r, x>> \o <<rows[x].parent>> = <<r, x, rows[x].parent>>
        BY ThreeLong
    <2> QED
        BY <2>1, <2>2, <2>4, <2>5, <2>6
<1> QED
    BY <1>3, <1>4

(* Each certificate of a path is signed by the next, which is what the     *)
(* rows say of one another.                                                *)
LEMMA RowsVerify == IInv => PathsVerify
<1> SUFFICES ASSUME IInv, NEW r \in Stored, rows[r].kind = "intermediate",
                    NEW path \in chains_for(r).all
             PROVE  /\ \A k \in 1 .. Len(path) - 1 :
                           rows[path[k]].signer = rows[path[k + 1]].subject
                    /\ IsRoot(Last(path))
                    /\ Cardinality({k \in DOMAIN path : rows[path[k]].kind = "cross"}) <= 1
    BY DEF PathsVerify
<1> DEFINE p == rows[r].parent
           crosses == {k \in DOMAIN path : rows[path[k]].kind = "cross"}
<1>1. RowOK(r) /\ RootRef(p) /\ rows[r].signer = rows[p].subject
    BY DEF IInv, RowOK
<1>2. CASE path = <<r, p>>
    <2>1. Len(path) = 2 /\ path[1] = r /\ path[2] = p /\ DOMAIN path = 1 .. 2
        BY <1>2
    <2>2. crosses = {}
        BY <1>1, <2>1 DEF RootRef, IsRoot
    <2> HIDE DEF crosses
    <2>3. Cardinality(crosses) = 0
        BY <2>2, FS_EmptySet
    <2> QED
        BY <1>1, <2>1, <2>3 DEF Last, RootRef, crosses
<1>3. ASSUME NEW x \in Stored, rows[x].kind = "cross", rows[x].crossOf = p,
             path = <<r, x, rows[x].parent>>
      PROVE  /\ \A k \in 1 .. Len(path) - 1 :
                    rows[path[k]].signer = rows[path[k + 1]].subject
             /\ IsRoot(Last(path))
             /\ Cardinality(crosses) <= 1
    <2> DEFINE q == rows[x].parent
    <2>1. /\ Len(path) = 3 /\ path[1] = r /\ path[2] = x /\ path[3] = q /\ DOMAIN path = 1 .. 3
        BY <1>3
    <2>2. /\ RowOK(x) /\ RootRef(q) /\ rows[x].signer = rows[q].subject
          /\ rows[x].subject = rows[p].subject
        BY <1>3 DEF IInv, RowOK
    <2>3. crosses = {2}
        BY <1>3, <2>1, <2>2 DEF RootRef, IsRoot
    <2> HIDE DEF crosses
    <2>4. Cardinality(crosses) = 1
        BY <2>3, FS_Singleton
    <2>5. \A k \in 1 .. 2 : rows[path[k]].signer = rows[path[k + 1]].subject
        BY <1>1, <2>1, <2>2
    <2> QED
        BY <2>1, <2>2, <2>4, <2>5 DEF Last, RootRef
<1> QED
    BY <1>2, <1>3, PathsAreShort

-----------------------------------------------------------------------------
(* Rows that stay                                                          *)

(* Nothing but the status and the end of a row ever changes.               *)
SameRow(r) ==
    /\ rows'[r].kind = rows[r].kind /\ rows'[r].parent = rows[r].parent
    /\ rows'[r].crossOf = rows[r].crossOf /\ rows'[r].hasKey = rows[r].hasKey
    /\ rows'[r].subject = rows[r].subject /\ rows'[r].signer = rows[r].signer

Grows == Stored \subseteq Stored' /\ \A r \in Stored : SameRow(r)

(* Roots stay roots, of the same CA.                                       *)
LEMMA StillRoot ==
    ASSUME Grows, NEW x, RootRef(x)
    PROVE  /\ RootRef(x)'
           /\ rows'[x].subject = rows[x].subject /\ rows'[x].hasKey = rows[x].hasKey
BY DEF Grows, SameRow, RootRef, IsRoot

(* So that what a row refers to is still there.                            *)
LEMMA StillRows ==
    ASSUME IInv, Grows, \A r \in Stored' \ Stored : RowOK(r)'
    PROVE  \A r \in Stored' : RowOK(r)'
<1> SUFFICES ASSUME NEW r \in Stored PROVE RowOK(r)'
    OBVIOUS
<1>1. /\ RowOK(r) /\ SameRow(r) /\ rows[r].kind \in {"root", "intermediate", "cross"}
      /\ rows'[r].subject \in Foreign \cup Stored'
    BY RowType DEF IInv, Grows, RowOK, SameRow
<1>2. CASE rows[r].kind = "root"
    BY <1>1, <1>2 DEF RowOK, SameRow
<1>3. CASE rows[r].kind = "intermediate"
    <2>1. /\ RootRef(rows[r].parent) /\ rows[r].crossOf = None
          /\ rows[r].signer = rows[rows[r].parent].subject
          /\ rows[r].subject = r => rows[rows[r].parent].hasKey
        BY <1>1, <1>3 DEF RowOK
    <2>2. ASSUME NEW p, p = rows[r].parent
          PROVE  /\ RootRef(p)'
                 /\ rows'[p].subject = rows[p].subject /\ rows'[p].hasKey = rows[p].hasKey
        BY <2>1, <2>2, StillRoot
    <2> QED
        BY <1>1, <1>3, <2>1, <2>2 DEF RowOK, SameRow
<1>4. CASE rows[r].kind = "cross"
    <2>1. /\ RootRef(rows[r].parent) /\ RootRef(rows[r].crossOf)
          /\ rows[r].parent # rows[r].crossOf /\ ~rows[r].hasKey
          /\ rows[r].signer = rows[rows[r].parent].subject
          /\ rows[r].subject = rows[rows[r].crossOf].subject
        BY <1>1, <1>4 DEF RowOK
    <2>2. ASSUME NEW p, RootRef(p)
          PROVE  RootRef(p)' /\ rows'[p].subject = rows[p].subject
        BY <2>2, StillRoot
    <2> QED
        BY <1>1, <1>4, <2>1, <2>2 DEF RowOK, SameRow
<1> QED
    BY <1>1, <1>2, <1>3, <1>4

(* What a request has loaded of them stays true, and so does what it       *)
(* counted, unless the overlap was noted.                                  *)
LEMMA StillCarries ==
    ASSUME IInv, Grows, NEW w \in Workers, pc'[w] = pc[w], job'[w] = job[w],
           pc[w] = "retire" /\ ~overlap' => ~overlap /\ active_issuers \subseteq active_issuers'
    PROVE  Carries(w)'
<1>1. Carries(w)
    BY DEF IInv
<1>2. ASSUME NEW x, RootRef(x)
      PROVE  /\ RootRef(x)'
             /\ rows'[x].subject = rows[x].subject /\ rows'[x].hasKey = rows[x].hasKey
    BY <1>2, StillRoot
<1>3. CASE pc[w] = "intermediate"
    BY <1>1, <1>2, <1>3 DEF Carries
<1>4. CASE pc[w] = "cross"
    BY <1>1, <1>2, <1>4 DEF Carries
<1>5. CASE pc[w] = "importCross"
    BY <1>1, <1>2, <1>5 DEF Carries, Grows
<1>6. CASE pc[w] = "renew"
    BY <1>1, <1>6 DEF Carries, Grows
<1>7. CASE pc[w] = "retire"
    BY <1>1, <1>7 DEF Carries
<1>8. CASE pc[w] \notin {"intermediate", "cross", "importCross", "renew", "retire"}
    BY <1>8 DEF Carries
<1> QED
    BY <1>3, <1>4, <1>5, <1>6, <1>7, <1>8

(* A step of one request keeps the invariant when what it writes and what  *)
(* it goes on with are in order.                                           *)
LEMMA StepKeepsIInv ==
    ASSUME IInv, NEW w \in Workers, NEW step \in Steps, NEW j \in Jobs, Goto(w, step, j),
           used' \in 0 .. MaxRows, rows' \in [Ids -> CACertificates],
           overlap' \in BOOLEAN, UNCHANGED now,
           Grows, \A r \in Stored' \ Stored : RowOK(r)',
           \A v \in Workers \ {w} : pc[v] = "retire" /\ ~overlap' =>
               ~overlap /\ active_issuers \subseteq active_issuers',
           Carries(w)'
    PROVE  IInv'
<1>1. pc' = [pc EXCEPT ![w] = step] /\ job' = [job EXCEPT ![w] = j]
    BY DEF Goto
<1>2. TypeOK'
    BY <1>1 DEF IInv, TypeOK
<1>3. \A v \in Workers \ {w} : pc'[v] = pc[v] /\ job'[v] = job[v]
    BY <1>1 DEF IInv, TypeOK
<1>4. \A r \in Stored' : RowOK(r)'
    BY StillRows
<1>5. ASSUME NEW v \in Workers PROVE Carries(v)'
    <2>1. CASE v = w
        BY <2>1
    <2>2. CASE v # w
        BY <1>3, <2>2, StillCarries
    <2> QED
        BY <2>1, <2>2
<1> QED
    BY <1>2, <1>4, <1>5 DEF IInv

(* A step that only reads.                                                 *)
LEMMA ControlKeepsIInv ==
    ASSUME IInv, NEW w \in Workers, NEW step \in Steps, NEW j \in Jobs, Goto(w, step, j),
           UNCHANGED <<used, rows, now, overlap>>, Carries(w)'
    PROVE  IInv'
<1>1. Stored' = Stored /\ active_issuers' = active_issuers /\ Grows
    BY DEF Stored, active_issuers, Grows, SameRow
<1> QED
    BY <1>1, StepKeepsIInv DEF IInv, TypeOK

(* The job of a request that has ended.                                    *)
LEMMA NoJobType == NoJob \in Jobs
BY DEF NoJob, Jobs

(* What is idle carries nothing.                                           *)
LEMMA IdleCarries ==
    ASSUME IInv, NEW w \in Workers, Finish(w)
    PROVE  Goto(w, "idle", NoJob) /\ Carries(w)'
<1>1. pc'[w] = "idle"
    BY DEF Finish, Goto, IInv, TypeOK
<1> QED
    BY <1>1 DEF Finish, Carries

(* New rows, by a request that ends or by one that had nothing to read.    *)
LEMMA InsertKeepsIInv ==
    ASSUME IInv, used' \in 0 .. MaxRows, rows' \in [Ids -> CACertificates],
           Stored \subseteq Stored', \A r \in Stored : rows'[r] = rows[r],
           \A r \in Stored' \ Stored : RowOK(r)', UNCHANGED <<now, overlap>>,
           (\E w \in Workers : Finish(w)) \/ UNCHANGED <<pc, job>>
    PROVE  IInv'
<1>1. Grows /\ active_issuers \subseteq active_issuers'
    BY DEF Grows, SameRow, active_issuers
<1>2. ASSUME NEW w \in Workers, Finish(w) PROVE IInv'
    BY <1>1, <1>2, IdleCarries, NoJobType, StepKeepsIInv DEF IInv, TypeOK, Steps
<1>3. CASE UNCHANGED <<pc, job>>
    <2>1. TypeOK'
        BY <1>3 DEF IInv, TypeOK
    <2>2. \A r \in Stored' : RowOK(r)'
        BY <1>1, StillRows
    <2>3. \A w \in Workers : Carries(w)'
        BY <1>1, <1>3, StillCarries
    <2> QED
        BY <2>1, <2>2, <2>3 DEF IInv
<1> QED
    BY <1>2, <1>3

-----------------------------------------------------------------------------
(* Rows that are new                                                       *)

(* One row, after all others.                                              *)
LEMMA InsertOne ==
    ASSUME IInv, NEW row \in CACertificates, Insert(<<row>>)
    PROVE  \E n \in Ids :
               /\ n = used + 1 /\ n \notin Stored /\ Stored' = Stored \cup {n}
               /\ used' \in 0 .. MaxRows /\ rows' \in [Ids -> CACertificates]
               /\ rows'[n] = row /\ \A r \in Stored : rows'[r] = rows[r]
<1> DEFINE n == used + 1
           new == <<row>>
<1>1. Len(new) = 1 /\ new[1] = row
    OBVIOUS
<1>2. /\ used + Len(new) <= MaxRows /\ used' = used + Len(new)
      /\ rows' = [r \in Ids |-> IF r > used /\ r <= used + Len(new) THEN new[r - used] ELSE rows[r]]
    BY DEF Insert
<1> HIDE DEF new
<1>3. used \in Nat /\ MaxRows \in Nat /\ rows \in [Ids -> CACertificates]
    BY HierarchyAssumption DEF IInv, TypeOK
<1>4. n \in Ids /\ n \notin Stored /\ used' = n /\ n <= MaxRows
    BY <1>1, <1>2, <1>3 DEF Ids, Stored
<1>5. Stored' = Stored \cup {n}
    BY <1>3, <1>4 DEF Stored
<1>6. rows' = [r \in Ids |-> IF r = n THEN row ELSE rows[r]]
    <2>1. ASSUME NEW r \in Ids
          PROVE  (IF r > used /\ r <= used + Len(new) THEN new[r - used] ELSE rows[r])
                 = (IF r = n THEN row ELSE rows[r])
        BY <1>1, <1>3 DEF Ids
    <2> QED
        BY <1>2, <2>1
<1>7. rows' \in [Ids -> CACertificates] /\ rows'[n] = row
    BY <1>3, <1>4, <1>6
<1>8. \A r \in Stored : rows'[r] = rows[r]
    BY <1>3, <1>4, <1>6 DEF Stored, Ids
<1>9. used' \in 0 .. MaxRows
    BY <1>3, <1>4
<1> QED
    BY <1>4, <1>5, <1>7, <1>8, <1>9

(* A root and what hangs under it.                                         *)
LEMMA InsertTwo ==
    ASSUME IInv, NEW row \in CACertificates, NEW next \in CACertificates, Insert(<<row, next>>)
    PROVE  \E n, m \in Ids :
               /\ n = used + 1 /\ m # n /\ n \notin Stored /\ m \notin Stored
               /\ Stored' = Stored \cup {n, m}
               /\ used' \in 0 .. MaxRows /\ rows' \in [Ids -> CACertificates]
               /\ rows'[n] = row /\ rows'[m] = next /\ \A r \in Stored : rows'[r] = rows[r]
<1> DEFINE n == used + 1
           m == used + 2
           new == <<row, next>>
<1>1. Len(new) = 2 /\ new[1] = row /\ new[2] = next
    OBVIOUS
<1>2. /\ used + Len(new) <= MaxRows /\ used' = used + Len(new)
      /\ rows' = [r \in Ids |-> IF r > used /\ r <= used + Len(new) THEN new[r - used] ELSE rows[r]]
    BY DEF Insert
<1> HIDE DEF new
<1>3. used \in Nat /\ MaxRows \in Nat /\ rows \in [Ids -> CACertificates]
    BY HierarchyAssumption DEF IInv, TypeOK
<1>4. /\ n \in Ids /\ m \in Ids /\ n \notin Stored /\ m \notin Stored /\ m # n
      /\ used' = m /\ m <= MaxRows
    BY <1>1, <1>2, <1>3 DEF Ids, Stored
<1>5. Stored' = Stored \cup {n, m}
    BY <1>3, <1>4 DEF Stored
<1>6. rows' = [r \in Ids |-> IF r = n THEN row ELSE IF r = m THEN next ELSE rows[r]]
    <2>1. ASSUME NEW r \in Ids
          PROVE  (IF r > used /\ r <= used + Len(new) THEN new[r - used] ELSE rows[r])
                 = (IF r = n THEN row ELSE IF r = m THEN next ELSE rows[r])
        <3>1. CASE r <= used
            BY <1>1, <1>3, <3>1 DEF Ids
        <3>2. CASE r = n \/ r = m
            BY <1>1, <1>3, <3>2 DEF Ids
        <3>3. CASE r > m
            BY <1>1, <1>3, <3>3 DEF Ids
        <3> QED
            BY <1>3, <3>1, <3>2, <3>3 DEF Ids
    <2> QED
        BY <1>2, <2>1
<1>7. rows' \in [Ids -> CACertificates] /\ rows'[n] = row /\ rows'[m] = next
    BY <1>3, <1>4, <1>6
<1>8. \A r \in Stored : rows'[r] = rows[r]
    BY <1>3, <1>4, <1>6 DEF Stored, Ids
<1>9. used' \in 0 .. MaxRows
    BY <1>3, <1>4
<1> QED
    BY <1>4, <1>5, <1>7, <1>8, <1>9

(* A new root.                                                             *)
LEMMA RootRowType ==
    ASSUME NEW ca \in Cas, NEW hasKey \in BOOLEAN, NEW len \in 0 .. 2, NEW end \in Int
    PROVE  RootRow(ca, hasKey, len, end) \in CACertificates
BY DEF RootRow, CACertificates

(* A new intermediate.                                                     *)
LEMMA IntermediateRowType ==
    ASSUME NEW ca \in Cas, NEW parent \in Ids, NEW signer \in Cas, NEW end \in Int
    PROVE  IntermediateRow(ca, parent, signer, 0, end) \in CACertificates
BY DEF IntermediateRow, CACertificates

(* A new cross certificate.                                                *)
LEMMA CrossRowType ==
    ASSUME NEW ca \in Cas, NEW of \in Ids, NEW parent \in Ids, NEW signer \in Cas,
           NEW len \in 0 .. 2, NEW end \in Int
    PROVE  CrossRow(ca, of, parent, signer, len, end) \in CACertificates
BY DEF CrossRow, CACertificates

(* The ends that are computed are numbers.                                 *)
LEMMA Ends ==
    ASSUME IInv, NEW years \in Int, NEW limit \in Int
    PROVE  /\ now \in Int /\ now + YearTicks * years \in Int
           /\ Lower(now + YearTicks * years, limit) \in Int
<1>1. now \in Int /\ YearTicks \in Int
    BY HierarchyAssumption DEF IInv, TypeOK
<1>2. YearTicks * years \in Int
    BY <1>1
<1> QED
    BY <1>1, <1>2 DEF Lower

(* There is room for what is inserted.                                     *)
LEMMA Room ==
    ASSUME IInv, NEW row, NEW next, Insert(<<row>>) \/ Insert(<<row, next>>)
    PROVE  used + 1 \in Ids
<1>1. Len(<<row>>) = 1 /\ Len(<<row, next>>) = 2
    OBVIOUS
<1>2. used + 1 <= MaxRows \/ used + 2 <= MaxRows
    BY <1>1 DEF Insert
<1> QED
    BY <1>2, HierarchyAssumption DEF IInv, TypeOK, Ids

(* What is uploaded is about a CA that came from elsewhere or has a row.   *)
LEMMA KnownCas ==
    ASSUME IInv, NEW ca \in Known
    PROVE  ca \in Foreign \cup Stored /\ ca \in Cas
<1>1. ca \in Foreign \cup Stored
    BY DEF Known, IInv, RowOK
<1>2. Stored \subseteq Ids
    BY RowType
<1> QED
    BY <1>1, <1>2 DEF Cas

(* It is not named by a row that is not stored yet.                        *)
LEMMA NotYetNamed ==
    ASSUME NEW n \in Ids, n \notin Stored
    PROVE  n \notin Foreign \cup Stored
BY HierarchyAssumption DEF Ids

-----------------------------------------------------------------------------
(* Creation and import                                                     *)

(* create_root: the new row refers to none.                                *)
LEMMA CreateRootKeepsIInv ==
    ASSUME IInv, NEW years \in Years, NEW len \in Lengths, create_root(years, len)
    PROVE  IInv'
<1> DEFINE row == RootRow(used + 1, TRUE, len, now + YearTicks * years)
<1>1. Insert(<<row>>) /\ UNCHANGED <<pc, job, now, overlap>>
    BY DEF create_root
<1>2. used + 1 \in Cas
    <2> HIDE DEF row
    <2> QED
        BY <1>1, Room DEF Cas
<1>3. row \in CACertificates
    <2>1. len \in 0 .. 2 /\ years \in Int
        BY HierarchyAssumption
    <2>2. now + YearTicks * years \in Int
        BY <2>1, Ends
    <2> QED
        BY <1>2, <2>1, <2>2, RootRowType
<1>4. row.kind = "root" /\ row.parent = None /\ row.crossOf = None /\ row.subject = used + 1
    BY DEF RootRow
<1> HIDE DEF row
<1>5. PICK n \in Ids :
               /\ n = used + 1 /\ n \notin Stored /\ Stored' = Stored \cup {n}
               /\ used' \in 0 .. MaxRows /\ rows' \in [Ids -> CACertificates]
               /\ rows'[n] = row /\ \A r \in Stored : rows'[r] = rows[r]
    BY <1>1, <1>3, InsertOne
<1>6. RowOK(n)'
    BY <1>4, <1>5 DEF RowOK
<1> QED
    BY <1>1, <1>5, <1>6, InsertKeepsIInv

(* import_hierarchy: the parent is the root that goes in with it, and      *)
(* neither row is the one that its CA was created in.                      *)
LEMMA ImportKeepsIInv ==
    ASSUME IInv, NEW ca \in Known, NEW parent \in Known, NEW len \in Lengths,
           NEW end \in ForeignEnds, NEW parentEnd \in ForeignEnds,
           import_hierarchy(ca, parent, len, end, parentEnd)
    PROVE  IInv'
<1> DEFINE row  == RootRow(parent, FALSE, len, parentEnd)
           next == IntermediateRow(ca, used + 1, parent, 0, end)
<1>1. Insert(<<row, next>>) /\ UNCHANGED <<pc, job, now, overlap>>
    BY DEF import_hierarchy
<1>2. used + 1 \in Ids
    <2> HIDE DEF row, next
    <2> QED
        BY <1>1, Room
<1>3. row \in CACertificates /\ next \in CACertificates
    <2>1. len \in 0 .. 2 /\ end \in Int /\ parentEnd \in Int
        BY HierarchyAssumption
    <2>2. ca \in Cas /\ parent \in Cas
        BY KnownCas
    <2> QED
        BY <1>2, <2>1, <2>2, RootRowType, IntermediateRowType
<1>4. /\ row.kind = "root" /\ row.parent = None /\ row.crossOf = None /\ row.subject = parent
      /\ next.kind = "intermediate" /\ next.parent = used + 1 /\ next.crossOf = None
      /\ next.subject = ca /\ next.signer = parent
    BY DEF RootRow, IntermediateRow
<1> HIDE DEF row, next
<1>5. PICK n, m \in Ids :
               /\ n = used + 1 /\ m # n /\ n \notin Stored /\ m \notin Stored
               /\ Stored' = Stored \cup {n, m}
               /\ used' \in 0 .. MaxRows /\ rows' \in [Ids -> CACertificates]
               /\ rows'[n] = row /\ rows'[m] = next /\ \A r \in Stored : rows'[r] = rows[r]
    BY <1>1, <1>3, InsertTwo
<1>51. ca \in Foreign \cup Stored /\ parent \in Foreign \cup Stored /\ ca # m
    BY <1>5, KnownCas, NotYetNamed
<1>6. RowOK(n)' /\ RootRef(n)'
    BY <1>4, <1>5, <1>51 DEF RowOK, RootRef, IsRoot
<1>7. RowOK(m)'
    BY <1>4, <1>5, <1>51, <1>6 DEF RowOK
<1>8. \A r \in Stored' \ Stored : RowOK(r)'
    BY <1>5, <1>6, <1>7
<1> QED
    BY <1>1, <1>5, <1>8, InsertKeepsIInv

(* A signed row goes in at the end of its request, or nothing does.        *)
LEMMA SignedKeepsIInv ==
    ASSUME IInv, NEW w \in Workers, NEW row \in CACertificates, InsertSigned(row), Finish(w),
           UNCHANGED <<now, overlap>>,
           \A n \in Ids : /\ n = used + 1 /\ Stored' = Stored \cup {n}
                          /\ rows'[n] = row /\ Grows
                          => RowOK(n)'
    PROVE  IInv'
<1>1. CASE UNCHANGED <<used, rows>>
    BY <1>1, IdleCarries, NoJobType, ControlKeepsIInv DEF Steps
<1>2. CASE Insert(<<row>>)
    <2>1. PICK n \in Ids :
               /\ n = used + 1 /\ n \notin Stored /\ Stored' = Stored \cup {n}
               /\ used' \in 0 .. MaxRows /\ rows' \in [Ids -> CACertificates]
               /\ rows'[n] = row /\ \A r \in Stored : rows'[r] = rows[r]
        BY <1>2, InsertOne
    <2>2. RowOK(n)'
        BY <2>1 DEF Grows, SameRow
    <2> QED
        BY <2>1, <2>2, InsertKeepsIInv
<1> QED
    BY <1>1, <1>2 DEF InsertSigned

(* The rows a job names, and the numbers in it.                            *)
LEMMA JobType ==
    ASSUME IInv, NEW w \in Workers
    PROVE  /\ job[w].years \in Int /\ job[w].notAfter \in Int /\ job[w].seen \in SUBSET Ids
           /\ job[w].pathLength \in 0 .. 2 /\ job[w].ca \in Ids \cup {None}
           /\ job[w].above \in Ids \cup {None}
<1>1. job[w] \in Jobs
    BY DEF IInv, TypeOK
<1>2. Years \cup {0} \subseteq Int
    BY HierarchyAssumption
<1>3. job[w].years \in Years \cup {0}
    BY <1>1 DEF Jobs
<1> QED
    BY <1>1, <1>2, <1>3 DEF Jobs

(* The subject and the depth of a stored root.                             *)
LEMMA RootType ==
    ASSUME IInv, NEW r, RootRef(r)
    PROVE  r \in Ids /\ rows[r].subject \in Cas /\ rows[r].pathLength \in 0 .. 2
<1>1. r \in Ids /\ rows[r] \in CACertificates
    BY RowType DEF RootRef
<1> QED
    BY <1>1 DEF CACertificates

(* InsertIntermediate: the root that was loaded is there, with its key.    *)
LEMMA InsertIntermediateKeepsIInv ==
    ASSUME IInv, NEW w \in Workers, InsertIntermediate(w)
    PROVE  IInv'
<1> DEFINE end == Lower(now + YearTicks * job[w].years, job[w].notAfter)
<1>1. PICK root : root = job[w].ca
    OBVIOUS
<1> DEFINE row == IntermediateRow(used + 1, root, rows[root].subject, 0, end)
<1>2. InsertSigned(row) /\ Finish(w) /\ UNCHANGED <<now, overlap>> /\ pc[w] = "intermediate"
    BY <1>1 DEF InsertIntermediate
<1>3. RootRef(root) /\ rows[root].hasKey
    BY <1>1, <1>2 DEF IInv, Carries
<1>4. end \in Int
    BY JobType, Ends
<1> HIDE DEF end
<1>5. /\ row.kind = "intermediate" /\ row.parent = root /\ row.crossOf = None
      /\ row.subject = used + 1 /\ row.signer = rows[root].subject
    BY DEF IntermediateRow
<1>6. ASSUME used + 1 \in Ids PROVE row \in CACertificates
    BY <1>3, <1>4, <1>6, RootType, IntermediateRowType DEF Cas
<1> HIDE DEF row
<1>7. CASE UNCHANGED <<used, rows>>
    BY <1>2, <1>7, IdleCarries, NoJobType, ControlKeepsIInv DEF Steps
<1>8. CASE Insert(<<row>>)
    <2>1. row \in CACertificates
        BY <1>6, <1>8, Room
    <2>2. ASSUME NEW n \in Ids, n = used + 1, Stored' = Stored \cup {n}, rows'[n] = row, Grows
          PROVE  RowOK(n)'
        <3>1. RootRef(root)' /\ rows'[root].subject = rows[root].subject /\ rows'[root].hasKey
            BY <1>3, <2>2, StillRoot
        <3> QED
            BY <1>5, <2>2, <3>1 DEF RowOK
    <2> QED
        BY <1>2, <2>1, <2>2, SignedKeepsIInv
<1> QED
    BY <1>2, <1>7, <1>8 DEF InsertSigned

(* InsertCross: the two roots that were loaded are still two.              *)
LEMMA InsertCrossKeepsIInv ==
    ASSUME IInv, NEW w \in Workers, InsertCross(w)
    PROVE  IInv'
<1> DEFINE end == Lower(now + YearTicks * job[w].years, job[w].notAfter)
<1>1. PICK ca, signing : ca = job[w].ca /\ signing = job[w].above
    OBVIOUS
<1> DEFINE row == CrossRow(rows[ca].subject, ca, signing, rows[signing].subject,
                           rows[ca].pathLength, end)
<1>2. InsertSigned(row) /\ Finish(w) /\ UNCHANGED <<now, overlap>> /\ pc[w] = "cross"
    BY <1>1 DEF InsertCross
<1>3. RootRef(ca) /\ RootRef(signing) /\ ca # signing
    BY <1>1, <1>2 DEF IInv, Carries
<1>4. end \in Int
    BY JobType, Ends
<1> HIDE DEF end
<1>5. /\ row.kind = "cross" /\ row.parent = signing /\ row.crossOf = ca /\ ~row.hasKey
      /\ row.subject = rows[ca].subject /\ row.signer = rows[signing].subject
      /\ rows[ca].subject \in Foreign \cup Stored
    BY <1>3 DEF CrossRow, IInv, RowOK, RootRef
<1>6. row \in CACertificates
    BY <1>3, <1>4, RootType, CrossRowType
<1> HIDE DEF row
<1>7. ASSUME NEW n \in Ids, n = used + 1, Stored' = Stored \cup {n}, rows'[n] = row, Grows
      PROVE  RowOK(n)'
    <2>1. /\ RootRef(ca)' /\ rows'[ca].subject = rows[ca].subject
          /\ RootRef(signing)' /\ rows'[signing].subject = rows[signing].subject
        BY <1>3, <1>7, StillRoot
    <2> QED
        BY <1>3, <1>5, <1>7, <2>1 DEF RowOK
<1> QED
    BY <1>2, <1>6, <1>7, SignedKeepsIInv

(* InsertImportedCross: the signing root is the first of those that were   *)
(* found, or one that goes in with the cross row.                          *)
LEMMA InsertImportedCrossKeepsIInv ==
    ASSUME IInv, NEW w \in Workers, NEW signerEnd \in ForeignEnds, InsertImportedCross(w, signerEnd)
    PROVE  IInv'
<1>1. PICK j : j = job[w]
    OBVIOUS
<1> DEFINE Cross(above) ==
               CrossRow(j.subject, j.ca, above, j.signer, rows[j.ca].pathLength, j.notAfter)
<1>2. /\ pc[w] = "importCross" /\ Finish(w) /\ UNCHANGED <<now, overlap>>
      /\ j.seen # {} => Insert(<<Cross(Min(j.seen))>>)
      /\ j.seen = {} => Insert(<<RootRow(j.signer, FALSE, j.pathLength, signerEnd),
                                 Cross(used + 1)>>)
    BY <1>1 DEF InsertImportedCross
<1>3. /\ RootRef(j.ca) /\ rows[j.ca].subject = j.subject /\ j.ca \notin j.seen
      /\ j.subject \in Foreign \cup Stored /\ j.signer \in Foreign \cup Stored
      /\ \A r \in j.seen : RootRef(r) /\ rows[r].subject = j.signer
    BY <1>1, <1>2 DEF IInv, Carries
<1>31. j.subject \in Cas /\ j.signer \in Cas
    BY <1>3, RowType DEF Cas
<1>4. /\ j.notAfter \in Int /\ j.seen \in SUBSET Ids /\ j.pathLength \in 0 .. 2
      /\ j.ca \in Ids /\ rows[j.ca].pathLength \in 0 .. 2 /\ signerEnd \in Int
    BY <1>1, <1>3, JobType, RootType, HierarchyAssumption
<1>5. ASSUME NEW above \in Ids
      PROVE  /\ Cross(above) \in CACertificates
             /\ Cross(above).kind = "cross" /\ Cross(above).parent = above
             /\ Cross(above).crossOf = j.ca /\ ~Cross(above).hasKey
             /\ Cross(above).subject = j.subject /\ Cross(above).signer = j.signer
    <2>1. Cross(above) \in CACertificates
        BY <1>31, <1>4, CrossRowType
    <2> QED
        BY <2>1 DEF CrossRow
<1> HIDE DEF Cross
<1>6. CASE j.seen # {}
    <2>1. PICK above : above = Min(j.seen)
        OBVIOUS
    <2>2. above \in j.seen
        <3>1. j.seen \in SUBSET Nat
            BY <1>4 DEF Ids
        <3> QED
            BY <1>6, <2>1, <3>1, MinIsMember
    <2>3. above \in Ids /\ RootRef(above) /\ rows[above].subject = j.signer /\ above # j.ca
        BY <1>3, <1>4, <2>2
    <2>4. PICK row : row = Cross(above)
        OBVIOUS
    <2>5. Insert(<<row>>)
        BY <1>2, <1>6, <2>1, <2>4
    <2>6. PICK n \in Ids :
               /\ n = used + 1 /\ n \notin Stored /\ Stored' = Stored \cup {n}
               /\ used' \in 0 .. MaxRows /\ rows' \in [Ids -> CACertificates]
               /\ rows'[n] = row /\ \A r \in Stored : rows'[r] = rows[r]
        BY <1>5, <2>3, <2>4, <2>5, InsertOne
    <2>7. Grows
        BY <2>6 DEF Grows, SameRow
    <2>8. /\ RootRef(above)' /\ rows'[above].subject = j.signer
          /\ RootRef(j.ca)' /\ rows'[j.ca].subject = j.subject
        BY <1>3, <2>3, <2>7, StillRoot
    <2>9. RowOK(n)'
        BY <1>3, <1>5, <2>3, <2>4, <2>6, <2>8 DEF RowOK
    <2> QED
        BY <1>2, <2>6, <2>9, InsertKeepsIInv
<1>7. CASE j.seen = {}
    <2>1. PICK root, row : /\ root = RootRow(j.signer, FALSE, j.pathLength, signerEnd)
                           /\ row = Cross(used + 1)
        OBVIOUS
    <2>2. Insert(<<root, row>>)
        BY <1>2, <1>7, <2>1
    <2>3. used + 1 \in Ids
        BY <2>2, Room
    <2>4. /\ root \in CACertificates /\ root.kind = "root" /\ root.parent = None
          /\ root.crossOf = None /\ root.subject = j.signer
        <3>1. root \in CACertificates
            BY <1>31, <1>4, <2>1, RootRowType
        <3> QED
            BY <2>1, <3>1 DEF RootRow
    <2>41. row \in CACertificates
        BY <1>5, <2>1, <2>3
    <2>5. PICK n, m \in Ids :
               /\ n = used + 1 /\ m # n /\ n \notin Stored /\ m \notin Stored
               /\ Stored' = Stored \cup {n, m}
               /\ used' \in 0 .. MaxRows /\ rows' \in [Ids -> CACertificates]
               /\ rows'[n] = root /\ rows'[m] = row /\ \A r \in Stored : rows'[r] = rows[r]
        BY <2>2, <2>4, <2>41, InsertTwo
    <2>6. Grows
        BY <2>5 DEF Grows, SameRow
    <2>7. RowOK(n)' /\ RootRef(n)'
        BY <1>3, <2>4, <2>5 DEF RowOK, RootRef, IsRoot
    <2>8. RootRef(j.ca)' /\ rows'[j.ca].subject = j.subject /\ j.ca # n
        BY <1>3, <2>5, <2>6, StillRoot DEF RootRef
    <2>81. /\ row.kind = "cross" /\ row.parent = n /\ row.crossOf = j.ca /\ ~row.hasKey
          /\ row.subject = j.subject /\ row.signer = j.signer
        BY <1>5, <2>1, <2>3, <2>5
    <2>9. RowOK(m)'
        BY <1>3, <2>4, <2>5, <2>7, <2>8, <2>81 DEF RowOK
    <2>10. \A r \in Stored' \ Stored : RowOK(r)'
        BY <2>5, <2>7, <2>9
    <2> QED
        BY <1>2, <2>5, <2>10, InsertKeepsIInv
<1> QED
    BY <1>6, <1>7

-----------------------------------------------------------------------------
(* Requests that read                                                      *)

(* create_intermediate_under: what it has loaded is a root with a key.     *)
LEMMA CreateIntermediateKeepsIInv ==
    ASSUME IInv, NEW w \in Workers, NEW root \in Stored, NEW years \in Years,
           create_intermediate_under(w, root, years)
    PROVE  IInv'
<1>1. root \in Ids /\ rows[root] \in CACertificates
    BY RowType
<1>2. PICK end \in Int : end = rows[root].notAfter
    BY <1>1 DEF CACertificates
<1>3. PICK j : j = [NoJob EXCEPT !.ca = root, !.years = years, !.notAfter = end]
    OBVIOUS
<1>4. /\ Goto(w, "intermediate", j) /\ UNCHANGED <<used, rows, now, overlap>>
      /\ RootRef(root) /\ rows[root].hasKey
    BY <1>2, <1>3 DEF create_intermediate_under, RootRef
<1>5. j \in Jobs /\ j.ca = root
    <2>1. j = [ca |-> root, above |-> None, seen |-> {}, years |-> years, notAfter |-> end,
               subject |-> None, signer |-> None, pathLength |-> 0]
        BY <1>1, <1>3 DEF NoJob
    <2> QED
        BY <1>1, <2>1 DEF Jobs
<1>6. pc'[w] = "intermediate" /\ job'[w] = j
    BY <1>4 DEF Goto, IInv, TypeOK
<1>7. Carries(w)'
    BY <1>4, <1>5, <1>6 DEF Carries, RootRef, IsRoot, Stored
<1> QED
    BY <1>4, <1>5, <1>7, ControlKeepsIInv DEF Steps

(* cross_sign_root: two roots.                                             *)
LEMMA CrossSignKeepsIInv ==
    ASSUME IInv, NEW w \in Workers, NEW ca \in Stored, NEW signing \in Stored, NEW years \in Years,
           cross_sign_root(w, ca, signing, years)
    PROVE  IInv'
<1>1. ca \in Ids /\ signing \in Ids /\ rows[signing] \in CACertificates
    BY RowType
<1>2. PICK end \in Int : end = rows[signing].notAfter
    BY <1>1 DEF CACertificates
<1>3. PICK j : j = [NoJob EXCEPT !.ca = ca, !.above = signing, !.years = years, !.notAfter = end]
    OBVIOUS
<1>4. /\ Goto(w, "cross", j) /\ UNCHANGED <<used, rows, now, overlap>>
      /\ RootRef(ca) /\ RootRef(signing) /\ ca # signing
    BY <1>2, <1>3 DEF cross_sign_root, RootRef
<1>5. j \in Jobs /\ j.ca = ca /\ j.above = signing
    <2>1. j = [ca |-> ca, above |-> signing, seen |-> {}, years |-> years, notAfter |-> end,
               subject |-> None, signer |-> None, pathLength |-> 0]
        BY <1>1, <1>3 DEF NoJob
    <2> QED
        BY <1>1, <2>1 DEF Jobs
<1>6. pc'[w] = "cross" /\ job'[w] = j
    BY <1>4 DEF Goto, IInv, TypeOK
<1>7. Carries(w)'
    BY <1>4, <1>5, <1>6 DEF Carries, RootRef, IsRoot, Stored
<1> QED
    BY <1>4, <1>5, <1>7, ControlKeepsIInv DEF Steps

(* import_cross: one stored root is the subject, and every one it          *)
(* remembers is another row, of the signer.                                *)
LEMMA ImportCrossKeepsIInv ==
    ASSUME IInv, NEW w \in Workers, NEW subject \in Known, NEW signer \in Known,
           NEW len \in Lengths, NEW end \in ForeignEnds, import_cross(w, subject, signer, len, end)
    PROVE  IInv'
<1> DEFINE mine == {r \in Stored : IsRoot(r) /\ _same_ca(r, subject)}
<1>1. PICK ca : ca = CHOOSE r \in mine : TRUE
    OBVIOUS
<1> DEFINE seen == signing_rows(ca, signer)
<1>2. PICK j : j = [NoJob EXCEPT !.ca = ca, !.seen = seen, !.subject = subject, !.signer = signer,
                                 !.pathLength = len, !.notAfter = end]
    OBVIOUS
<1>3. /\ Goto(w, "importCross", j) /\ UNCHANGED <<used, rows, now, overlap>>
      /\ Cardinality(mine) = 1
    BY <1>1, <1>2 DEF import_cross
<1>4. ca \in mine
    <2>1. mine # {}
        <3> HIDE DEF mine
        <3> QED
            BY <1>3, FS_EmptySet
    <2> HIDE DEF mine
    <2> QED
        BY <1>1, <2>1
<1>5. ca \in Ids /\ RootRef(ca) /\ rows[ca].subject = subject
    BY <1>4, RowType DEF RootRef, _same_ca
<1>6. /\ seen \in SUBSET Ids /\ ca \notin seen
      /\ \A r \in seen : RootRef(r) /\ rows[r].subject = signer
    BY RowType DEF RootRef, signing_rows, _same_ca
<1>7. /\ subject \in Cas /\ subject \in Foreign \cup Stored
      /\ signer \in Cas /\ signer \in Foreign \cup Stored
    BY KnownCas
<1>8. len \in 0 .. 2 /\ end \in Int
    BY HierarchyAssumption
<1> HIDE DEF seen, mine
<1>9. /\ j \in Jobs /\ j.ca = ca /\ j.seen = seen /\ j.subject = subject /\ j.signer = signer
    BY <1>2, <1>5, <1>6, <1>7, <1>8 DEF NoJob, Jobs
<1>10. pc'[w] = "importCross" /\ job'[w] = j
    BY <1>3 DEF Goto, IInv, TypeOK
<1>11. Carries(w)'
    <2>1. /\ RootRef(ca)' /\ Stored' = Stored
          /\ \A r \in seen : RootRef(r)' /\ rows'[r].subject = signer
        BY <1>3, <1>5, <1>6 DEF RootRef, IsRoot, Stored
    <2> QED
        BY <1>3, <1>5, <1>6, <1>7, <1>9, <1>10, <2>1 DEF Carries
<1> QED
    BY <1>3, <1>9, <1>11, ControlKeepsIInv DEF Steps

(* retire: it remembers the rows of the cascade.                           *)
LEMMA RetireKeepsIInv ==
    ASSUME IInv, NEW w \in Workers, NEW r \in Stored, retire(w, r)
    PROVE  IInv'
<1>1. r \in Ids /\ \E seen \in SUBSET Ids : seen = retire_targets(r)
    BY RowType DEF retire_targets
<1>2. PICK seen \in SUBSET Ids : seen = retire_targets(r)
    BY <1>1
<1>2a. PICK j : j = [NoJob EXCEPT !.ca = r, !.seen = seen]
    OBVIOUS
<1>3. Goto(w, "issuers", j) /\ UNCHANGED <<used, rows, now, overlap>>
    BY <1>2, <1>2a DEF retire
<1>4. j \in Jobs
    <2>1. j = [ca |-> r, above |-> None, seen |-> seen, years |-> 0, notAfter |-> 0,
               subject |-> None, signer |-> None, pathLength |-> 0]
        BY <1>1, <1>2, <1>2a DEF NoJob
    <2> QED
        BY <1>1, <2>1 DEF Jobs
<1>5. pc'[w] = "issuers"
    BY <1>3 DEF Goto, IInv, TypeOK
<1>6. Carries(w)'
    BY <1>5 DEF Carries
<1> QED
    BY <1>3, <1>4, <1>6, ControlKeepsIInv DEF Steps

(* renew_in_place: the row that signs is stored.                           *)
LEMMA RenewKeepsIInv ==
    ASSUME IInv, NEW w \in Workers, NEW r \in Stored, NEW years \in Years,
           renew_in_place(w, r, years)
    PROVE  IInv'
<1>1. PICK signing : signing = IF IsRoot(r) THEN r ELSE rows[r].parent
    OBVIOUS
<1>2. PICK end, j : /\ end = rows[signing].notAfter
                    /\ j = [NoJob EXCEPT !.ca = r, !.above = signing, !.years = years,
                                         !.notAfter = end]
    OBVIOUS
<1>3. Goto(w, "renew", j) /\ UNCHANGED <<used, rows, now, overlap>>
    BY <1>1, <1>2 DEF renew_in_place
<1>4. signing \in Stored
    <2>1. RowOK(r) /\ rows[r].kind \in {"root", "intermediate", "cross"}
        BY RowType DEF IInv
    <2> QED
        BY <1>1, <2>1 DEF RowOK, RootRef, IsRoot
<1>5. r \in Ids /\ signing \in Ids /\ rows[signing] \in CACertificates
    BY <1>4, RowType
<1>6. end \in Int
    BY <1>2, <1>5 DEF CACertificates
<1>7. j \in Jobs /\ j.ca = r /\ j.above = signing
    <2>1. j = [ca |-> r, above |-> signing, seen |-> {}, years |-> years, notAfter |-> end,
               subject |-> None, signer |-> None, pathLength |-> 0]
        BY <1>2, <1>5, <1>6 DEF NoJob
    <2> QED
        BY <1>5, <1>6, <2>1 DEF Jobs
<1>8. pc'[w] = "renew" /\ job'[w] = j
    BY <1>3 DEF Goto, IInv, TypeOK
<1>9. Carries(w)'
    BY <1>3, <1>4, <1>7, <1>8 DEF Carries, Stored
<1> QED
    BY <1>3, <1>7, <1>9, ControlKeepsIInv DEF Steps

-----------------------------------------------------------------------------
(* Retirement, renewal and the clock                                       *)

(* CheckRemaining: the retirement goes on when another issuer is active.   *)
LEMMA CheckRemainingKeepsIInv ==
    ASSUME IInv, NEW w \in Workers, CheckRemaining(w)
    PROVE  IInv'
<1>1. UNCHANGED <<used, rows, now, overlap>>
    BY DEF CheckRemaining
<1>2. CASE active_issuers \ job[w].seen = {}
    <2>1. Finish(w)
        BY <1>2 DEF CheckRemaining
    <2> QED
        BY <1>1, <2>1, IdleCarries, NoJobType, ControlKeepsIInv DEF Steps
<1>3. CASE active_issuers \ job[w].seen # {}
    <2>1. Goto(w, "retire", job[w]) /\ job[w] \in Jobs
        BY <1>3 DEF CheckRemaining, IInv, TypeOK
    <2>2. pc'[w] = "retire" /\ job'[w] = job[w] /\ active_issuers' = active_issuers
        BY <1>1, <2>1 DEF Goto, IInv, TypeOK, active_issuers, Stored
    <2>3. Carries(w)'
        BY <1>3, <2>2 DEF Carries
    <2> QED
        BY <1>1, <2>1, <2>3, ControlKeepsIInv DEF Steps
<1> QED
    BY <1>2, <1>3

(* A retirement writes the status of its rows, and nothing else.           *)
LEMMA OnlyStatus ==
    ASSUME IInv, NEW w \in Workers, CommitRetire(w)
    PROVE  /\ rows' \in [Ids -> CACertificates] /\ Stored' = Stored /\ Grows
           /\ \A r \in Stored : /\ r \in job[w].seen => rows'[r].status = "retired"
                                /\ r \notin job[w].seen => rows'[r] = rows[r]
<1> DEFINE Down(r) == [rows[r] EXCEPT !.status = "retired"]
<1>1. /\ rows' = [r \in Ids |-> IF r \in job[w].seen THEN Down(r) ELSE rows[r]]
      /\ UNCHANGED used
    BY DEF CommitRetire
<1>2. ASSUME NEW r \in Ids
      PROVE  /\ Down(r) \in CACertificates /\ Down(r).status = "retired"
             /\ Down(r).kind = rows[r].kind /\ Down(r).parent = rows[r].parent
             /\ Down(r).crossOf = rows[r].crossOf /\ Down(r).hasKey = rows[r].hasKey
             /\ Down(r).subject = rows[r].subject /\ Down(r).signer = rows[r].signer
             /\ rows[r] \in CACertificates
    BY DEF IInv, TypeOK, CACertificates
<1> HIDE DEF Down
<1>3. rows' \in [Ids -> CACertificates]
    BY <1>1, <1>2
<1>4. Stored' = Stored /\ Stored \subseteq Ids
    BY <1>1, RowType DEF Stored
<1>5. Grows
    BY <1>1, <1>2, <1>4 DEF Grows, SameRow
<1> QED
    BY <1>1, <1>2, <1>3, <1>4, <1>5

(* CommitRetire: whoever else was past its check has been overtaken, which *)
(* is noted.                                                               *)
LEMMA CommitRetireKeepsIInv ==
    ASSUME IInv, NEW w \in Workers, CommitRetire(w)
    PROVE  IInv'
<1> DEFINE others == \E v \in Workers \ {w} : pc[v] = "retire"
<1>1. Finish(w) /\ UNCHANGED <<used, now>> /\ overlap' = (overlap \/ others)
    BY DEF CommitRetire
<1>2. overlap' \in BOOLEAN
    <2> HIDE DEF others
    <2> QED
        BY <1>1, Zenon
<1>3. ~overlap' => \A v \in Workers \ {w} : pc[v] # "retire"
    BY <1>1
<1>4. used' \in 0 .. MaxRows
    BY <1>1 DEF IInv, TypeOK
<1> QED
    BY <1>1, <1>2, <1>3, <1>4, OnlyStatus, IdleCarries, NoJobType, StepKeepsIInv DEF Steps

(* A renewal writes the end of its row, and nothing else.                  *)
LEMMA OnlyEnd ==
    ASSUME IInv, NEW w \in Workers, CommitRenewal(w)
    PROVE  /\ rows' \in [Ids -> CACertificates] /\ Stored' = Stored /\ Grows
           /\ \A r \in Stored : rows'[r].status = rows[r].status
<1>1. PICK j \in Jobs : j = job[w]
    BY DEF IInv, TypeOK
<1> DEFINE years == IF j.ca = j.above THEN j.years ELSE _years_until(j.notAfter, j.years)
<1>2. PICK end : end = now + YearTicks * years
    OBVIOUS
<1>3. PICK n : n = j.ca
    OBVIOUS
<1>4. PICK row : row = [rows[n] EXCEPT !.notAfter = end]
    OBVIOUS
<1>5. /\ rows' = rows \/ rows' = [rows EXCEPT ![n] = row]
      /\ UNCHANGED used /\ pc[w] = "renew"
    BY <1>1, <1>2, <1>3, <1>4 DEF CommitRenewal, Renewed
<1>6. n \in Stored /\ n \in Ids /\ rows[n] \in CACertificates
    BY <1>1, <1>3, <1>5, RowType DEF IInv, Carries
<1>7. end \in Int
    <2>1. now \in Int /\ YearTicks \in Int /\ YearTicks > 0
        BY HierarchyAssumption DEF IInv, TypeOK
    <2>2. j.years \in Int /\ j.notAfter \in Int
        BY <1>1, JobType
    <2>3. (j.notAfter - now) \div YearTicks \in Int
        BY <2>1, <2>2
    <2>4. years \in Int
        BY <2>2, <2>3 DEF _years_until, Lower
    <2> QED
        BY <1>2, <2>4, Ends
<1>8. /\ row \in CACertificates /\ row.status = rows[n].status
      /\ row.kind = rows[n].kind /\ row.parent = rows[n].parent
      /\ row.crossOf = rows[n].crossOf /\ row.hasKey = rows[n].hasKey
      /\ row.subject = rows[n].subject /\ row.signer = rows[n].signer
    BY <1>4, <1>6, <1>7 DEF CACertificates
<1>9. rows \in [Ids -> CACertificates]
    BY DEF IInv, TypeOK
<1>10. rows' \in [Ids -> CACertificates]
    BY <1>5, <1>6, <1>8, <1>9
<1>11. Stored' = Stored /\ Stored \subseteq Ids
    BY <1>5, RowType DEF Stored
<1>12. \A r \in Stored : SameRow(r) /\ rows'[r].status = rows[r].status
    BY <1>5, <1>8, <1>9, <1>11 DEF SameRow
<1> QED
    BY <1>10, <1>11, <1>12 DEF Grows

(* CommitRenewal: the issuers stay what they are.                          *)
LEMMA CommitRenewalKeepsIInv ==
    ASSUME IInv, NEW w \in Workers, CommitRenewal(w)
    PROVE  IInv'
<1>1. Finish(w) /\ UNCHANGED <<used, now, overlap>>
    BY DEF CommitRenewal
<1>2. active_issuers \subseteq active_issuers'
    BY OnlyEnd DEF active_issuers, Grows, SameRow
<1>3. used' \in 0 .. MaxRows /\ overlap' \in BOOLEAN
    BY <1>1 DEF IInv, TypeOK
<1> QED
    BY <1>1, <1>2, <1>3, OnlyEnd, IdleCarries, NoJobType, StepKeepsIInv DEF Steps

(* Nothing that is stored is about the clock.                              *)
LEMMA TickKeepsIInv ==
    ASSUME IInv, UNCHANGED <<used, rows, pc, job, overlap>>, now' \in Moments
    PROVE  IInv'
<1>1. TypeOK'
    BY DEF IInv, TypeOK
<1>2. Stored' = Stored /\ active_issuers' = active_issuers /\ Grows
    BY DEF Stored, active_issuers, Grows, SameRow
<1>3. \A r \in Stored' : RowOK(r)'
    BY <1>2, StillRows
<1>4. \A w \in Workers : Carries(w)'
    BY <1>2, StillCarries
<1> QED
    BY <1>1, <1>3, <1>4 DEF IInv

-----------------------------------------------------------------------------
(* The invariant                                                           *)

(* Nothing is stored, and nobody is at work.                               *)
LEMMA InitIInv == Init => IInv
<1> SUFFICES ASSUME Init PROVE IInv
    OBVIOUS
<1>1. TypeOK
    <2>1. ASSUME NEW r \in Ids PROVE Absent \in CACertificates
        <3>1. 1 \in Cas
            BY HierarchyAssumption DEF Cas, Ids
        <3> QED
            BY <3>1 DEF Absent, RootRow, CACertificates
    <2>2. rows \in [Ids -> CACertificates]
        <3> HIDE DEF Absent
        <3> QED
            BY <2>1 DEF Init
    <2>3. used \in 0 .. MaxRows /\ now \in Moments
        BY HierarchyAssumption DEF Init
    <2>4. overlap \in BOOLEAN
        BY DEF Init
    <2>5. pc \in [Workers -> Steps] /\ job \in [Workers -> Jobs]
        BY NoJobType DEF Init, Steps
    <2> QED
        BY <2>2, <2>3, <2>4, <2>5 DEF TypeOK
<1>2. Stored = {}
    BY DEF Init, Stored
<1>3. \A w \in Workers : Carries(w)
    BY DEF Init, Carries
<1> QED
    BY <1>1, <1>2, <1>3 DEF IInv

(* Every request, every commit and the clock keep it.                      *)
LEMMA NextIInv == IInv /\ [Next]_vars => IInv'
<1> SUFFICES ASSUME IInv, [Next]_vars PROVE IInv'
    OBVIOUS
<1>1. ASSUME NEW years \in Years, NEW len \in Lengths, create_root(years, len) PROVE IInv'
    BY <1>1, CreateRootKeepsIInv
<1>2. CASE Import
    BY <1>2, ImportKeepsIInv DEF Import
<1>3. ASSUME NEW w \in Workers, Request(w) PROVE IInv'
    BY <1>3, CreateIntermediateKeepsIInv, CrossSignKeepsIInv, ImportCrossKeepsIInv,
       RetireKeepsIInv, RenewKeepsIInv DEF Request
<1>4. ASSUME NEW w \in Workers, Commit(w) PROVE IInv'
    BY <1>4, InsertIntermediateKeepsIInv, InsertCrossKeepsIInv, InsertImportedCrossKeepsIInv,
       CheckRemainingKeepsIInv, CommitRetireKeepsIInv, CommitRenewalKeepsIInv DEF Commit
<1>5. CASE Tick
    BY <1>5, TickKeepsIInv DEF Tick
<1>6. CASE UNCHANGED vars
    BY <1>6, TickKeepsIInv DEF vars, IInv, TypeOK
<1> QED
    BY <1>1, <1>2, <1>3, <1>4, <1>5, <1>6 DEF Next

(* In every state that the hierarchies can get into.                       *)
LEMMA SpecIInv == Spec => []IInv
BY InitIInv, NextIInv, PTL DEF Spec

-----------------------------------------------------------------------------
(* What the hierarchies promise                                            *)

(* Every column and every session variable keeps its type, whatever is     *)
(* uploaded and in whatever order requests commit.                         *)
THEOREM TypeCorrect == Spec => []TypeOK
<1>1. IInv => TypeOK
    BY DEF IInv
<1> QED
    BY <1>1, SpecIInv, PTL

(* HierarchyShape: the two self references of ca_certificates lead where   *)
(* _parent_walk and chains_for expect them, whatever was uploaded, cabin's *)
(* own CAs included; and the row that an intermediate was created in hangs *)
(* under a root whose key cabin has.                                       *)
THEOREM HierarchyIsShaped == Spec => []HierarchyShape
<1>1. IInv => HierarchyShape
    <2> SUFFICES ASSUME IInv PROVE HierarchyShape
        OBVIOUS
    <2>1. \A r \in Stored : RowOK(r)
        BY DEF IInv
    <2> QED
        BY <2>1 DEF HierarchyShape, RowOK, RootRef, Stored
<1> QED
    BY <1>1, SpecIInv, PTL

(* chains_for: every path that is served verifies link by link, ends in a  *)
(* root and takes one cross certificate at most, for hierarchies of any    *)
(* size and whatever was imported.                                         *)
THEOREM PathsDoVerify == Spec => []PathsVerify
BY SpecIInv, RowsVerify, PTL

(* A step that neither retires nor stands still keeps the status of what   *)
(* was stored.                                                             *)
LEMMA StatusStays ==
    ASSUME IInv, [Next]_vars, \A w \in Workers : ~CommitRetire(w)
    PROVE  Grows /\ \A r \in Stored : rows'[r].status = rows[r].status
<1>1. CASE UNCHANGED <<used, rows>>
    BY <1>1 DEF Grows, SameRow, Stored
<1>2. ASSUME NEW new, Insert(new), Len(new) \in Nat
      PROVE  Grows /\ \A r \in Stored : rows'[r].status = rows[r].status
    <2>1. used \in Nat /\ MaxRows \in Nat /\ \A r \in Stored : r \in Ids /\ r <= used
        BY RowType, HierarchyAssumption DEF IInv, TypeOK, Stored
    <2>2. used' = used + Len(new)
        BY <1>2 DEF Insert
    <2>3. \A r \in Stored : rows'[r] = rows[r]
        <3> SUFFICES ASSUME NEW r \in Stored PROVE rows'[r] = rows[r]
            OBVIOUS
        <3>1. r \in Ids /\ ~(r > used)
            BY <2>1 DEF Ids
        <3> QED
            BY <1>2, <3>1 DEF Insert
    <2>4. Stored \subseteq Stored'
        BY <1>2, <2>1, <2>2 DEF Stored
    <2> QED
        BY <2>3, <2>4 DEF Grows, SameRow
<1>3. \A x, y : Len(<<x>>) \in Nat /\ Len(<<x, y>>) \in Nat
    OBVIOUS
<1>4. ASSUME NEW years, NEW len, create_root(years, len)
      PROVE  Grows /\ \A r \in Stored : rows'[r].status = rows[r].status
    BY <1>2, <1>3, <1>4 DEF create_root
<1>5. CASE Import
    BY <1>2, <1>3, <1>5 DEF Import, import_hierarchy
<1>6. ASSUME NEW w \in Workers, Request(w)
      PROVE  Grows /\ \A r \in Stored : rows'[r].status = rows[r].status
    BY <1>1, <1>6 DEF Request, create_intermediate_under, cross_sign_root, import_cross, retire,
       renew_in_place
<1>7. ASSUME NEW w \in Workers, Commit(w)
      PROVE  Grows /\ \A r \in Stored : rows'[r].status = rows[r].status
    <2>1. CASE InsertIntermediate(w)
        BY <1>1, <1>2, <1>3, <2>1 DEF InsertIntermediate, InsertSigned
    <2>2. CASE InsertCross(w)
        BY <1>1, <1>2, <1>3, <2>2 DEF InsertCross, InsertSigned
    <2>3. ASSUME NEW end, InsertImportedCross(w, end)
          PROVE  Grows /\ \A r \in Stored : rows'[r].status = rows[r].status
        <3>1. PICK x, y, z : Insert(<<x>>) \/ Insert(<<y, z>>)
            BY <2>3 DEF InsertImportedCross
        <3> QED
            BY <1>2, <1>3, <3>1
    <2>4. CASE CheckRemaining(w)
        BY <1>1, <2>4 DEF CheckRemaining
    <2>5. CASE CommitRenewal(w)
        BY <2>5, OnlyEnd
    <2> QED
        BY <1>7, <2>1, <2>2, <2>3, <2>4, <2>5 DEF Commit
<1>8. CASE Tick \/ UNCHANGED vars
    BY <1>1, <1>8 DEF Tick, vars
<1> QED
    BY <1>4, <1>5, <1>6, <1>7, <1>8 DEF Next

(* RetiredStays: no renewal that was under way, and nothing else, brings a *)
(* retired row back.                                                       *)
THEOREM RetiredRowsStay == Spec => RetiredStays
<1>1. ASSUME IInv, [Next]_vars, NEW r \in Stored, rows[r].status = "retired"
      PROVE  rows'[r].status = "retired"
    <2>1. CASE \A w \in Workers : ~CommitRetire(w)
        BY <1>1, <2>1, StatusStays
    <2>2. ASSUME NEW w \in Workers, CommitRetire(w) PROVE rows'[r].status = "retired"
        BY <1>1, <2>2, OnlyStatus
    <2> QED
        BY <2>1, <2>2
<1>2. IInv /\ [Next]_vars =>
          [\A r \in Stored : rows[r].status = "retired" => rows'[r].status = "retired"]_vars
    BY <1>1
<1> QED
    BY <1>2, SpecIInv, PTL DEF Spec, RetiredStays

(* IssuerRemains: the check of one retirement is enough as long as no      *)
(* other one is past its own when it commits.                              *)
THEOREM IssuersRemain == Spec => IssuerRemains
<1>1. ASSUME IInv, [Next]_vars, active_issuers # {}
      PROVE  active_issuers' # {} \/ overlap
    <2>1. CASE \A w \in Workers : ~CommitRetire(w)
        <3>1. active_issuers \subseteq active_issuers'
            BY <1>1, <2>1, StatusStays DEF active_issuers, Grows, SameRow
        <3> QED
            BY <1>1, <3>1
    <2>2. ASSUME NEW w \in Workers, CommitRetire(w) PROVE active_issuers' # {} \/ overlap
        <3>1. pc[w] = "retire" /\ Carries(w)
            BY <1>1, <2>2 DEF CommitRetire, IInv
        <3>2. active_issuers \ job[w].seen \subseteq active_issuers'
            BY <1>1, <2>2, OnlyStatus DEF active_issuers
        <3> QED
            BY <3>1, <3>2 DEF Carries
    <2> QED
        BY <2>1, <2>2
<1>2. IInv /\ [Next]_vars => [active_issuers # {} => active_issuers' # {} \/ overlap]_vars
    BY <1>1
<1> QED
    BY <1>2, SpecIInv, PTL DEF Spec, IssuerRemains

=============================================================================
