----------------------------- MODULE LeafPolicy -----------------------------
(***************************************************************************)
(* Which names a leaf gets and whether its issuer may sign them: the SAN   *)
(* ladder and the name constraints of ca/leaf.py, as the preview panel of  *)
(* web/certs_ui.py and the signer use them, against what a relying party   *)
(* makes of the finished certificate.                                      *)
(*                                                                         *)
(* A host name is a sequence of characters, because the code matches it as *)
(* a string and a relying party label by label.  An address is its family  *)
(* and a number, a network its first address and its size.  The clock is   *)
(* left out: the clamp of validities is in TlsManager and CaHierarchy.     *)
(* Who may have the issuer sign is in IssuerGrants; the specifications are *)
(* named apart, so that a module can be about both.                        *)
(***************************************************************************)
EXTENDS Integers, Sequences, FiniteSets, SequencesExt

CONSTANTS
    Hosts,      \* host names, wildcards included
    Domains,    \* host names that a constraint may give
    Addresses,  \* [family, number]
    Networks,   \* [family, base, size], base a multiple of size
    Absent      \* no subject, no certificate yet

Forms == {"DNS", "IP", "EMAIL"}

(* A subject alternative name; e-mail addresses are all alike.             *)
SANs == [form : {"DNS"}, value : Hosts] \cup [form : {"IP"}, value : Addresses]
        \cup [form : {"EMAIL"}, value : {Absent}]

(* A subtree of an issuer's extension; an imported issuer may bring one    *)
(* for e-mail addresses.                                                   *)
Subtrees == [form : {"DNS"}, value : Domains] \cup [form : {"IP"}, value : Networks]
            \cup [form : {"EMAIL"}, value : {Absent}]

(* A common name that _validate_cn accepts: a host name, an address, other *)
(* text; or no subject.                                                    *)
CNs == {[form |-> "text", value |-> Absent], Absent}
       \cup {san \in SANs : san.form \in {"DNS", "IP"}}

(* Host names are strings, and a network starts at a multiple of its size. *)
ASSUME NamesAssumption ==
    /\ Hosts \subseteq Seq(STRING) /\ Domains \subseteq Hosts
    /\ \A address \in Addresses : address.number \in Nat
    /\ \A net \in Networks : /\ net.size \in Nat \ {0} /\ net.base \in Nat
                            /\ net.base % net.size = 0
    /\ Absent \notin SANs

VARIABLES
    permitted, excluded, \* the issuer's name constraints
    request,             \* the door, names asked for, those of the CSR, the common name
    preview,             \* what the panel said
    leaf                 \* the names in the certificate, or the refusal

leafVars == <<permitted, excluded, request, preview, leaf>>

-----------------------------------------------------------------------------
(* The SAN ladder                                                          *)

(* An address comes before a host name, whose pattern it may match too.    *)
_san_from_cn(cn) == IF cn = Absent \/ cn.form = "text" THEN {} ELSE {cn}

(* Explicit names win, then those of the CSR, then the common name; no     *)
(* name is in the list twice.                                              *)
resolve_sans(explicit, csr, cn) ==
    IF explicit # {} THEN explicit
    ELSE IF csr # {} THEN csr
    ELSE _san_from_cn(cn)

-----------------------------------------------------------------------------
(* Name constraints                                                        *)

lower(name) == [k \in DOMAIN name |-> IF name[k] = "A" THEN "a" ELSE name[k]]

endswith(name, tail) ==
    Len(tail) <= Len(name) /\ SubSeq(name, Len(name) - Len(tail) + 1, Len(name)) = tail

(* Mutant: the label boundary is forgotten.                                *)
_dns_within_anywhere(name, constraint) == endswith(name, constraint)

_dns_within(name, constraint) == name = constraint \/ endswith(name, <<".">> \o constraint)

(* Python's "address in network": what is left under the mask.             *)
_ip_within(address, net) ==
    address.family = net.family /\ address.number - (address.number % net.size) = net.base

(* Excluded subtrees first, then the permitted ones, if there are any of   *)
(* the form.                                                               *)
_check_dns(name) ==
    LET Within(side) == \E c \in side : c.form = "DNS" /\ _dns_within(lower(name), lower(c.value))
    IN  /\ ~Within(excluded)
        /\ (\E c \in permitted : c.form = "DNS") => Within(permitted)

_check_ip(address) ==
    LET Within(side) == \E c \in side : c.form = "IP" /\ _ip_within(address, c.value)
    IN  /\ ~Within(excluded)
        /\ (\E c \in permitted : c.form = "IP") => Within(permitted)

(* A form that cabin cannot evaluate is refused.                           *)
_check_unevaluable == \A c \in permitted \cup excluded : c.form # "EMAIL"

(* The pattern of a host name also matches a dotted quad, which is within  *)
(* no subtree of names.                                                    *)
Quad == <<"1", ".", "1">>

HostOf(cn) == IF cn.form = "DNS" THEN cn.value ELSE Quad

_is_hostname(cn) == cn.form = "DNS" \/ (cn.form = "IP" /\ cn.value.family = 4)

(* The common name counts as a host name when no SAN is one.               *)
check_name_constraints(cn, sans) ==
    /\ \A san \in sans :
        /\ san.form = "DNS" => _check_dns(san.value)
        /\ san.form = "IP" => _check_ip(san.value)
        /\ san.form = "EMAIL" => _check_unevaluable
    /\ (\A san \in sans : san.form # "DNS") /\ cn # Absent /\ _is_hostname(cn)
       => _check_dns(HostOf(cn))

-----------------------------------------------------------------------------
(* The panel and the signer                                                *)

(* The verdict of the panel beside the form of issue_certificate.          *)
_issue_preview ==
    LET resolved == resolve_sans(request.explicit, {}, request.cn) IN
    /\ preview = "none" /\ request.door = "issue_certificate"
    /\ preview' = IF resolved # {} /\ check_name_constraints(request.cn, resolved)
                  THEN "permitted" ELSE "refused"
    /\ UNCHANGED <<permitted, excluded, request, leaf>>

(* No certificate was made.                                                *)
Refused == [cn |-> Absent, sans |-> {}]

_build_leaf(cn, sans) ==
    leaf' = IF sans # {} /\ check_name_constraints(cn, sans) THEN [cn |-> cn, sans |-> sans]
            ELSE Refused

(* The key is generated here, and a subject is required.                   *)
issue_certificate ==
    /\ leaf = Absent /\ request.door = "issue_certificate"
    /\ IF request.cn = Absent THEN leaf' = Refused
       ELSE _build_leaf(request.cn, resolve_sans(request.explicit, {}, request.cn))
    /\ UNCHANGED <<permitted, excluded, request, preview>>

(* Only ACME's finalize, which gives the names itself, allows no subject.  *)
sign_csr ==
    /\ leaf = Absent /\ request.door \in {"sign_csr", "finalize"}
    /\ IF request.cn = Absent /\ request.door # "finalize" THEN leaf' = Refused
       ELSE _build_leaf(request.cn, resolve_sans(request.explicit, request.csr, request.cn))
    /\ UNCHANGED <<permitted, excluded, request, preview>>

(* At most one member of a set, and at most two.                           *)
One(S) == {{}} \cup {{x} : x \in S}

Two(S) == {{}} \cup {{x, y} : x, y \in S}

Requests ==
    {r \in [door : {"issue_certificate", "sign_csr", "finalize"},
            explicit : Two(SANs), csr : One(SANs), cn : CNs] :
        /\ r.door = "issue_certificate" => r.csr = {}
        /\ r.door = "finalize" => r.explicit # {}
        /\ Cardinality(r.explicit) = 2 => r.csr = {}}

LeafInit ==
    /\ permitted \in Two(Subtrees) /\ excluded \in One(Subtrees)
    /\ request \in Requests
    /\ preview = "none" /\ leaf = Absent

LeafNext == _issue_preview \/ issue_certificate \/ sign_csr

LeafSpec == LeafInit /\ [][LeafNext]_leafVars

-----------------------------------------------------------------------------
(* What a relying party makes of the certificate                           *)

(* The k-th smallest of a set of numbers.                                  *)
Nth(S, k) == CHOOSE x \in S : Cardinality({y \in S : y < x}) = k - 1

(* A host name is cut before its first character, at each dot and after    *)
(* its last character; its labels are what lies between two cuts.          *)
Cuts(name) == {0, Len(name) + 1} \cup {k \in DOMAIN name : name[k] = "."}

Labels(name) ==
    [k \in 1 .. Cardinality(Cuts(name)) - 1 |->
        SubSeq(name, Nth(Cuts(name), k) + 1, Nth(Cuts(name), k + 1) - 1)]

(* A subtree holds a name that has its labels at the end, or an address of *)
(* its range.                                                              *)
Holds(c, san) ==
    /\ c.form = san.form
    /\ CASE c.form = "DNS" -> IsSuffix(Labels(lower(c.value)), Labels(lower(san.value)))
         [] c.form = "IP" -> /\ san.value.family = c.value.family
                             /\ san.value.number \in c.value.base .. c.value.base + c.value.size - 1
         [] OTHER -> FALSE

Acceptable(san) ==
    /\ \A c \in excluded : ~Holds(c, san)
    /\ (\A c \in permitted : c.form # san.form) \/ (\E c \in permitted : Holds(c, san))

(* The names that a certificate speaks for.                                *)
NamesOf(cert) ==
    cert.sans \cup
        (IF cert.cn = Absent \/ ~_is_hostname(cert.cn) \/ (\E san \in cert.sans : san.form = "DNS")
         THEN {} ELSE {[form |-> "DNS", value |-> HostOf(cert.cn)]})

RelyingPartyAccepts(cert) == \A san \in NamesOf(cert) : Acceptable(san)

(* FR-7 of spec 0020 and FR-4 of spec 0029: a certificate is signed        *)
(* exactly when a relying party that reads the issuer's extension accepts  *)
(* all of its names, but for e-mail names under an e-mail constraint and   *)
(* for a missing subject, which are refused; it carries the names of the   *)
(* first source that has any; and, once there is a subject, the panel said *)
(* beforehand what the signer did.                                         *)
SignedExactly ==
    LET given == IF request.explicit # {} THEN request.explicit
                 ELSE IF request.csr # {} THEN request.csr
                 ELSE {request.cn} \cap SANs
        wanted == [cn |-> request.cn, sans |-> given]
        named == request.cn # Absent \/ request.door = "finalize"
        email == /\ \E san \in given : san.form = "EMAIL"
                 /\ \E c \in permitted \cup excluded : c.form = "EMAIL"
    IN
    /\ leaf # Absent =>
           leaf = IF named /\ given # {} /\ RelyingPartyAccepts(wanted) /\ ~email
                  THEN wanted ELSE Refused
    /\ preview # "none" /\ leaf # Absent /\ request.cn # Absent =>
           (preview = "permitted" <=> leaf # Refused)

=============================================================================
