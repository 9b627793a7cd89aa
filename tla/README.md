# A TLA+ verification of cabin

cabin is an internal certificate authority in one process: a FastAPI
application over SQLAlchemy (SQLite by default, PostgreSQL if configured) that
keeps CA hierarchies, issues and revokes certificates, serves CRLs, speaks ACME
(RFC 8555), and offers the same operations through a web UI, a REST API and an
MCP server. This directory models its core as TLA+ state machines, checks them
with TLC on small instances and proves the most important properties with
TLAPS for every instance.

All paths below are relative to `src/src/cabin/`.

## How the program runs, and what that means for the models

* Every route is a synchronous function that FastAPI runs on a thread pool, with
  a database session of its own. Nothing is locked in the process (first-run
  setup and the TLS manager excepted), so two requests interleave at any database statement.
* Sessions commit explicitly, several times per request in places, and with
  `expire_on_commit=False`: what a request loaded stays in its hands, however
  stale. SQLite is used with deferred transactions: reads take no lock, the
  first write of a session takes the database.
* A challenge validation is a background task that starts after the response
  was sent. Nothing resumes one after a restart.
* There is no scheduler: CRLs are refreshed when they are asked for, nonces
  purged when one is issued, order expiry is computed when it is read.

So in every module a *worker* is one request (and the task it starts): `pc` says
which statement comes next, `job` holds what it loaded. Each action is the
stretch from one statement whose result others can influence to the next.
SELECTs see the committed state, writes appear at their commit.

## Inventory

| Part | State | Operations | What is hard | What makes it correct |
|---|---|---|---|---|
| ACME orders (`acme/service.py`, `api_order.py`, `api_finalize.py`, `csr.py`, `validation/`) | orders, authorizations, challenges, the certificate of an order | place, trigger, validate, finalize, claim, sign, release, attach | double finalize, double trigger, stale readiness, expiry, crash between commits, retired issuer | one certificate per order, all names proven in time, nothing stuck but by a fault, RFC 8555's transitions |
| Revocation (`ca/crl.py`, `revocation.py`) | revocation marks, one CRL per issuer with its number | revoke, serve, regenerate | overlapping regenerations, row lock and loaded row, SQLite without either | the CRL is the set of revocations; its number climbs |
| ACME accounts (`acme/api_account.py`, `eab.py`) | accounts, EAB keys and their binding | register, bind, undo, deactivate, roll over, mint, revoke | same key twice, same EAB key twice, retry, crash between create and bind | one key one account, no undoing of a binding or a deactivation |
| CA hierarchy (`ca/service.py`, `x509.py`) | CA rows: kind, parent, cross reference, status, key, certificate | create, import, cross sign, retire, renew, build chains | check then write in retire, stale row in renew, whole years | paths verify, some issuer stays active, retired stays retired |
| Nonces and JWS (`acme/nonces.py`, `jws.py`, `http.py`) | unused nonces with their age | issue, consume, purge, verify | replay, two consumers, the second of expiry | a nonce is accepted once |
| Users, sessions (`users.py`, `sessions.py`, `web/deps.py`) | users with roles, sessions, flash message | create, demote, delete, log in, touch, purge | last superadmin counted then written; ids that come back; reset and logins on their way | a superadmin remains; a session is its own user's and of the current password |
| Tokens, grants (`api_tokens.py`, `issuer_grants.py`) | tokens, who may use which issuer | mint, revoke, grant, replace, resolve | delete and re-insert of grants, retired issuers | nobody issues through an issuer not granted |
| TLS (`tls.py`, `server.py`) | certificate and sealed key on disk, the live context, the bound issuer | load, issue, renew, swap | crash between two files, adoption at restart, renewal that gains nothing | the live pair always matches; renewal happens before expiry |
| Leaf profiles (`ca/leaf.py`, `ca/certs.py`) | the certificate inventory | issue, sign a CSR, list | name constraints, validity clamping | names inside the constraints, leaf inside its issuer's life |
| Audit (`audit.py`) | append-only events | record, list | its own commit after the work | no event without the work, no work without an event but by a fault |
| Settings, secrets (`settings.py`, `secrets.py`, `config.py`) | key/value settings, the sealing key | get, set, seal | - | what another part reads of them is what was saved |
| UI, REST, MCP (`web/`, `api/`, `mcp/`) | none | adapters | - | they call the parts above |

They interact through the database: finalize (orders) signs through the
account's issuer (hierarchy) and records an event (audit); revocation through
ACME or the UI republishes a CRL; retiring an issuer closes its directory to
registrations and finalizations that are already on their way, and is refused
for the issuer of cabin's own certificate; creating one grants it to its creator
and may bind it to that certificate. Hazards, each at its line and with the
properties that cover it, are in `PROJECT.json`.

## Modules

| Module | What it is |
|---|---|
| `AcmeOrder` | orders from placement to certificate |
| `OrderLifecycle` | what a client is promised about an order's status and its certificate |
| `AcmeOrderProofs` | theorems about `AcmeOrder` |
| `Crl` | revocation marks and CRLs, with or without row locks |
| `RevocationRegister` | what a relying party is promised about revocations and lists |
| `CrlProofs` | theorems about `Crl` |
| `AcmeAccount` | registration, binding, deactivation, rollover |
| `AcmeAccountProofs` | theorems about `AcmeAccount` |
| `AcmeNonce` | nonces and the order of the checks on a signed request |
| `AcmeNonceProofs` | theorems about `AcmeNonce` |
| `CaHierarchy` | CA rows and the chains served from them |
| `CaHierarchyProofs` | theorems about `CaHierarchy` |
| `LeafPolicy` | which names a leaf gets and whether its issuer may sign them |
| `Identity` | users, roles, passwords and sessions |
| `IdentityProofs` | theorems about `Identity` |
| `IssuerGrants` | principals, issuer grants and their use |
| `IssuanceProofs` | theorems about what an issuer signs: for whom (`IssuerGrants`), which names (`LeafPolicy`) |
| `TlsManager` | cabin's own certificate: files, live context, renewal, bound issuer |
| `TlsManagerProofs` | theorems about `TlsManager` |
| `MC*` | instances for TLC: symmetry sets and constant functions |

### AcmeOrder

Rows: `owner`, `created`, `names`, `order`, `authz`, `chal`, `certId`, `certs`
are the columns of `acme_orders`, `acme_authorizations`, `acme_challenges` and
`certificates`; the stored status keeps only what the code stores, and
`order_status` and `authorization_status` compute expiry and readiness like the
code. `Accept` starts a request (`new_order`, `challenge_resource`,
`finalize_order`); `Continue` is every later step. `finalize_order` reads the
order, `ReadAuthzs` the authorizations and the CSR, `claim_for_issuance` is the
conditional UPDATE, `ResolveIssuer` and `SignAndStore` are
`sign_csr_and_store`, `IssueFails` every exception that `_issue` catches,
`release_claim` and `attach_certificate` the two ways on. `record` is
`audit.record` at the end of a handler. `Abort` is an exception nobody catches,
`Crash` the end of the process. What a validator finds out on the network is a
free choice between success and failure.

`OrderLifecycle` has the computed status and the set of signed certificate ids
of each order as its state. `Lifecycle` in `AcmeOrder` maps one to the other;
the property `ImplementsLifecycle` is the abstract specification.

### Crl

`revoke_certificate` loads the row; `FlushMark` is the UPDATE that the next
SELECT flushes and that waits for the row (or the database); `LockState` is
`SELECT ... FOR UPDATE`, `ReadEntries` the revoked rows, `Publish` the commit of
mark and CRL together, `Rollback` a failure before it. `RowLocks` chooses the
database. A row that the session has already loaded keeps its attributes when it
is selected again: `job.loaded` and `job.number` carry that.

`RevocationRegister` has the marks and the list of each issuer as its state, and
two operations: a revocation, which changes both at once, and a refresh. The
instance `Register` in `Crl` maps the rows to it; `ImplementsRegister` is the
abstract specification.

### AcmeAccount

One action per statement of `new_account`: `FindExisting`, `verify` (of the EAB
JWS), `get_or_create_account`, `InsertAccount`, `RereadAccount`,
`_spend_binding`, `bind`, `DeleteAccount`, `record`. `verified` starts the
requests of a registered account (deactivation, rollover, an order). Answers are
kept in `reply`, since several properties are about what a client is told.
`requireEab` is the operator's setting, fixed at the start of a behaviour.

### CaHierarchy

A row is what the code reads of it: kind, status, the two references, whether
its key is stored, and of its certificate whose it is, who signed it, the path
length and the end. Creation and import read nothing and are one step;
everything else reads, and commits later what it decided. `chains_for` is the
code's function over rows; the parent walk is a recursive function.
`not_valid_before` (always minutes in the past for what cabin signs) and names
are left out. An upload may be about any CA that comes from elsewhere or has a
row (`Known`): cabin exports its CAs with their keys, and neither
`import_hierarchy` nor `import_cross` looks whether what it gets is its own. So
an intermediate of cabin's can come back under a second row of its root that has
no key, and a root's own certificate is accepted as a cross certificate of that
root: `signing_rows` passes over the row of the subject, and what goes in is a
second row of the same CA and a cross row between the two. A CA that cabin
created is named by the row it was created in, which tells that row from those
an import added. `overlap` is history: a retirement committed while another one
was past its check.

### AcmeNonce

`acme_nonces` is the table, `issued_at` in whole seconds. `Receive` lets any
request arrive at any time with any nonce, which is all that loss, repetition,
reordering and forgery amount to. `require_acme_enabled` is the router's gate,
`verify_request` every check up to the signature, `Cutoff` and `consume` the
DELETE whose row count decides, with the clock read before it, `RouteAnswers`
and `RouteRaises` the two ways out of the route. `acme_response_headers`,
`purge` and `issue` are the middleware that puts a fresh nonce on the answer. An
exception that is no `AcmeError` passes the middleware by: that answer is a 500
without a nonce.

### LeafPolicy

The one module without concurrency: `resolve_sans`, `_dns_within`,
`_ip_within`, `check_name_constraints` and the two signers as operators, with
host names as sequences of characters because the code matches them as strings.
The reference definition, `RelyingPartyAccepts`, cuts names into labels (what
lies between two neighbouring `Cuts`, the dots and the two ends) and compares
those, and takes a network as its range of addresses. `_issue_preview` is the panel beside the form,
`issue_certificate` and `sign_csr` are the signers behind three doors (the form
and the API, a CSR, ACME's finalize). Key usages, profiles and the limit on the
number of SANs are left out; so are imported constraints with a leading dot or
an empty name, which the code refuses more often than it has to. The panel
answers "permitted" for an empty common name that `issue_certificate` then
refuses, so the agreement is stated for requests with a subject.

### Identity

`users` and `sessions` are the tables; a password is the number of times it was
reset, and an account carries the person it was made for, so that an id that
SQLite gives out again can be told from its former owner. Login is
`verify_credentials`, `ReplaceSession`, `create_session`; a change of role is
`update_role_route` (the row is loaded), `CheckSuperadmins` (the others are
counted) and `update_role`; a deletion and a reset end with
`delete_sessions_for_user`, a commit of its own. Creation is
`create_user_route` (who asks is established) and, after the password has been
hashed, `InsertUser`. `_setup_lock` is the only lock of this part; `setup_submit`
takes it, `create_user_route` does not. `Touched` is the sliding expiry that every authenticated request
brings about.

### IssuerGrants

`Authenticate` loads a principal with its role, which the request keeps to the
end; `resolve_issuer` reads the active issuers, `resolve_granted_issuer` the
grants, `_store` signs; `revoke_certificate` and `Mark` are a revocation.
`update_issuers_route` and `set_issuers` replace a grant set, `create_token` and
`create_intermediate` end with a grant in a second transaction; `grant` adds
one. Everything else that changes a row a decision depends on (roles, users,
tokens, issuers) may happen between any two of these. `past` is history: what
has been true of a request up to its decision. On PostgreSQL two overlapping
`set_issuers` for one principal could merge their sets; the module has SQLite's
exclusive writer.

### TlsManager

`crt` and `key` are the two files (a key fits the certificate or not), `live`
the loaded context, `binding` the setting `TLS_ISSUER_ID`. `ensure_current` is
cut at every point where others can interfere: lock, adoption and reads
(`ensure_current`), the sole-issuer default (`SoleIssuer`, `BindSole`), the
decision (`Decide`, all early returns of `_ensure_current_locked` and `_issue`),
the two files and the context (`WriteCrt`, `WriteKey`, `Load`). The settings
form, creation, renewal and retirement of issuers are the requests that change
its inputs; a settings request holds the issuer row that its form check loaded
and does not read it again. `Crash` empties the context and frees the lock,
`Raise` is an exception out of any step of `ensure_current`, the load into the
context included. One unit of the clock is
long against the hourly `CHECK_INTERVAL`: `Advance` waits for a check that
nothing disturbed. `check`, `overlap` and `unloaded` are history. Which audit
event a failure leaves and how it is de-duplicated is not modelled. Intermediates
are retired one at a time: that retiring a root takes its intermediates along,
and is refused if the bound one is among them, is left out
(`_refuse_retire_of_tls_issuer` compares with one issuer where the code asks for
membership in `retire_targets`), so nothing is shown about the binding when a
root is retired.

## Runs

| Run | Instance | Shows |
|---|---|---|
| `AcmeOrder` | one order for an address and a wildcard (so every rule on challenge types applies), two workers, three clock readings with lifetime 2, one fault | `TypeOK`; `OneCertificatePerOrder`; `CertificateProven`: every name of a certificate was proven by a method it allows; `ProofStands`: an authorization is valid exactly while one of its challenges is; `CertifiedInTime`; `NothingStranded`: without a fault, whatever is processing has a worker; `AuditMatches`: events and work agree unless a fault or a worker stands in between |
| `AcmeOrderLifecycle` | one order of one name, two fair workers, expiry, one fault | `ImplementsLifecycle`, the refinement of `OrderLifecycle`; `ChallengeFinal`; `ChallengeSettles` and `ClaimEnds`: what is processing is decided, the order unless a fault struck |
| `Crl` | two certificates of one issuer, two reasons, two sessions, row locks | `CrlExact`: the list is the committed revocations; `ImplementsRegister`, the refinement of `RevocationRegister`; `RevocationClimbs`: the list with a new revocation has a higher number than the list it replaces; `NeverAllBlocked`: of the sessions that have started one can go on; `SessionsEnd`: nobody waits for ever |
| `CrlSqliteLost` | the same without row locks | finding: `CrlComplete` fails |
| `AcmeAccount` | two account keys, one EAB key, two workers, two account rows, one crash, both settings | `UnboundIsInFlight`, `LoggedIsKept`, `BindingFinal`, `DeactivationFinal` |
| `AcmeNonce` | two nonces, two requests, a lifetime of one second of four | `TypeOK`; `AcceptedOnce`; `HandedOutStaysUsable`: nobody else spends a client's nonce and no purge takes it early |
| `CaHierarchy` | four rows (two roots, an intermediate and a cross row fit), two foreign CAs, uploads of these and of cabin's own, two requests, a clock that jumps past every first end | `TypeOK`; `HierarchyShape`: the references lead where the walks expect them, also after an upload of cabin's own CAs; `PathsVerify`; `RetiredStays`; `IssuerRemains` unless retirements overlap |
| `CaRetiredRoot` | the same with one request at a time | finding: `NoIssuerUnderRetired` fails |
| `Identity` | two ids, three people (so an id comes back), two cookies, two requests, one reset, one crash | `OwnSession`; `CurrentPassword`; `SuperadminRemains`; `SetupOnlyFirst` unless changes overlap |
| `IssuerGrants` | one user id, one token, two issuers, two requests | `TypeOK`; `UsedWithGrant`: nobody issues or revokes without having been allowed to while the request was decided; `NoOrphanGrants` |
| `TlsManager` | two issuers of different lives, one of which refuses a name, the loop and one request, two clock readings (the lives are short enough that certificates fall due, are clamped and issuers expire in between), one crash or exception | `TypeOK` with the lock; `UpToDate`: after an undisturbed check the right certificate is on disk, and served unless the context did not take it, or a reason is on record; `BoundIssuerActive`; `NotDowngraded` |
| `LeafPolicy` | seven host names (sub- and neighbouring domains, a wildcard, upper case), three addresses, two networks, e-mail; up to two names, two permitted and one excluded subtree | `SignedExactly`: signer, panel and relying party agree |

Two workers are what it takes for every race described in the code's comments,
and every race found here needs two. One fault is enough for each property that
mentions faults, because each speaks of behaviours without one, or (in
`TlsManager`) of the state after the next check, which does not depend on how
many faults came before. Deadlock is not checked: the clock, the rows and the
faults are bounded, and a system in which nobody asks for anything may stop.
In `CaHierarchy` every root allows a path of two CAs, so the path length rule
never refuses there, and a request that can only insert is not begun when the
bound on rows leaves it no room, in which case it could never commit.

Symmetry is used in workers, account keys, cookies, nonces, granted issuers and
foreign CAs,
which no definition tells apart (`AnyOf` and `CHOOSE` pick defaults only), and
only in runs without liveness. `TypeOK` of `Crl`, `AcmeAccount` and `Identity` is
proved and not checked again.

### Findings

Each is a statement of the code's own comments that the code does not keep; the
quotations are in `PROJECT.json`. Two have a run of their own:

1. On SQLite a CRL refresh may publish a list without a revocation that
   committed while it ran: the reads of `regenerate_crl` are not part of a write
   transaction (`CrlSqliteLost`).
2. A retired root signs a new intermediate, which is active and issues, with
   requests that never overlap (`CaRetiredRoot`).

Four more are stated as properties of their modules, without a run; asked for
them, TLC refutes each:

3. `Crl!NumberNeverFalls`: a CRL number can repeat or fall. `current_crl` loads
   `crl_state`, and `SELECT ... FOR UPDATE` in the same session does not refresh
   it. This concerns lazy refreshes alone: a session that revokes has not loaded
   the row before it locks it, so its list is above the one it replaces
   (`RevocationClimbs`), though not above the lists before that one if a refresh
   has put the number back: after 5, 6, 7, 8 a refresh that had loaded 5 publishes
   6, and the next revocation 7.
4. `AcmeAccount!OwnDirectory`: two registrations of one key in two directories;
   the loser gets the winner's account of the other issuer.
5. `AcmeAccount!RetryAccepted`: two registrations of one key with one EAB key;
   the loser is refused although the key is bound to its own account.
6. `CaHierarchy!RenewalLasts`: renewing a CA certificate whose parent has less
   than a year left makes it end at once.

The conditions in some passing properties stand for behaviours that the models
do have. Two overlapping retirements can leave no active issuer (`overlap` in
`IssuerRemains`); two overlapping changes of users or roles can leave no
superadmin, or no user at all, which opens `/setup` again (`overlap` in
`SuperadminRemains` and `SetupOnlyFirst`). In that case a creation that was
authenticated before may even insert between the count of `setup_submit` and its
own insert; this takes three requests, one more than the run has, and the theorem
is for any number. A login that had checked its password before a reset or a
deletion keeps its session, even under an id that was given to somebody else
(`late`). A retirement that overlaps a new binding leaves cabin's own
certificate with a retired issuer (`overlap` in `BoundIssuerActive`). If the
load into the context raises after both files were written, `mode` is still set,
the next check finds the new pair good and does not load it: the old certificate
(or none) is served until the next renewal or restart (`unloaded` in `UpToDate`).
In
`IssuerGrants` role, grant and status of the issuer are read one after the
other, so that there need be no moment at which the request as a whole was
allowed.

Smaller observations from the models: overlapping revocations move the date of
the first; an account whose binding was lost may already have an order when it
is deleted, and a retry that was told of it finds it gone; the row that made an
INSERT fail may be gone when it is read back; of two overlapping key rollovers
the second replaces a key that it did not quote. When the pair on disk is torn
or missing and the bound, active issuer has expired or refuses the name, nothing
is loaded and only `last_error` tells; a self-signed certificate is not renewed
while the bound issuer refuses; a torn pair without a usable issuer falls back
to a self-signed certificate although a CA-issued one is still being served.

### Fairness

`AcmeOrder!FairSpec` assumes weak fairness of `Continue(w)`: a thread that has
started its handler or its background task is run on by the interpreter, and
none of its steps waits for another thread. Clients, operators and faults owe
nothing. Validators have timeouts, so an attempt ends. `Crl!FairSpec` assumes
strong fairness, because a session may wait for a lock that others take and
give back in between; PostgreSQL queues the waiters of a row.

## Proofs

TLAPS proves every safety property that the passing runs check: for any number
of rows, names, accounts, users, tokens, issuers and concurrent requests, any
lifetimes, and any number of faults. Each module `XProofs` proves `TypeCorrect`
(`TypeOK`) and the results below. Every argument
has the same shape: an inductive invariant that says what a request has read and
may still rely on, one lemma for each action (or group of actions with the same
effect), and the properties as its consequences.

* `AcmeOrderProofs`. One invariant per concern, each inductive with `TypeOK` and
  the ones its item names.
  * `OneCertificate` from `ClaimInv`: a worker between claim and answer holds an
    order in `processing` that no other worker holds, and no certificate exists
    before the holder has signed. Without the claim the property is not
    inductive: two workers in `sign` for one order would break it.
  * `ProofsStand` and `DecidedChallengesStay` from `ChalInv`: an attempt under
    way belongs to one worker and finds its challenge in `processing`.
  * `CertificatesProven` and `CertificatesInTime` from `ProvenInv`: what
    `ReadAuthzs` saw (every authorization valid, nothing expired at `asked`) is
    carried by the job until the certificate is signed, and no step takes it
    back, since authorizations never leave `valid`.
  * `NothingIsStranded`: inductive with `ChalInv`, because an attempt never finds
    its challenge decided and so never drops it.
  * `AuditLogMatches` from `AuditInv`, with `ClaimInv` and `ChalInv`: what a worker is about to log has
    happened, and (`HappenedStays`) stays so: orders are not deleted,
    certificates not detached, challenges not decided twice.
  * `RefinesLifecycle`: `AcmeOrder` implements `OrderLifecycle`. `StatusShape`
    says what `order_status` comes to for rows that `create_order` can have
    written (`RowsInv`): an order's authorizations lapse together and never after
    the order. Then placement maps to `Place`, a successful validation to `Prove`
    or nothing, the claim to `Claim` (by `ProvenInv` the client saw `ready` or
    `invalid`), signing to `Sign` (ids are below `nextCert`), release to
    `GiveBack`, attachment to `Complete`, the clock to `Lapse`, and everything
    else to stuttering.
* `CrlProofs`
  * `RevocationsListed`: with row locks `CrlExact` holds. The strengthening says
    who holds which lock and that a session that read the entries under the lock
    of `crl_state` has read exactly the committed marks and its own.
  * `RefinesRegister`: with row locks `Crl` implements `RevocationRegister`.
    `Publish` is the one step that changes what a relying party sees. It writes
    the list that `ReadEntries` read, so that the step is `Revoke` or `Refresh`
    exactly if that list is still the issuer's part of the committed marks
    (`ExactLists`), which is the strengthening above; an INSERT that fails is a
    stutter.
  * `RevocationsClimb`: with row locks a session that revokes holds, from the
    lock on, the number of the row as it is (`NumberReadStep`). The
    same is not true of a refresh, which is finding 3.
  * `NoCircularWait`: on either database some session can go on. A holder of
    `crl_state` waits for nothing; a holder of a certificate row waits for
    `crl_state` at most; so the last one in that order is free
    (`HoldersStep` says where a holder can be).
  * `OnlyRevokedListed` and `MarksArePublished`: on either database a CRL lists
    only revoked certificates of its own issuer, a mark is committed together
    with a list that shows it, and it is never taken back. What SQLite can lose
    is the entry in a later list, which is finding 1.
* `AcmeNonceProofs`: `NonceAcceptedOnce` and `NonceStaysUsable` from `IInv`,
  which adds to the two properties that only a request that verifies gets as far
  as `consume` (`VerifiedFirst`: this is the order of the checks in
  `verify_request`) and that a row in the table is a nonce that was handed out at
  the time it says and let nobody through (`RowsUnspent`). That a purge takes
  nothing early follows because the clock it read is not ahead of the present.
* `AcmeAccountProofs`: `AccountsAreBound`, `LoggedAccountsAreKept`,
  `BindingsAreFinal` and `DeactivationIsFinal`. `OwnAccount` says that the account
  a registration has created is its own, unlogged and undeleted, as long as it is
  under way; `Carries` that with the setting on it has carried a binding since it
  was let through; `CreatedApart` that no two registrations have created the same
  account. Only with these does the undo of `_spend_binding` delete nothing that
  anybody was told of.
* `CaHierarchyProofs`: `HierarchyIsShaped`, `PathsDoVerify`, `RetiredRowsStay` and
  `IssuersRemain`. The invariant says of each stored row that its references lead
  to rows that exist, that its signer is the subject of its parent and that its
  own subject is not named by a row still to come (`RowOK`), and of each request
  that the roots it has loaded are still roots, that the row an uploaded cross
  certificate is for is none of those it may hang under, and that a
  retirement past its check has counted an issuer that is still active, unless
  `overlap` was noted (`Carries`). That every served path verifies is then a fact
  about rows alone, for hierarchies of any size.
* `IdentityProofs`: `SessionsAreOwn`, `PasswordsAreCurrent`, `ASuperadminRemains`
  and `SetupIsFirst`. `Request` says what a request relies on: while no two
  changes overlapped, the role it loaded is still that of the row and the other
  superadmin it counted is still there, and whoever is past the count of
  `setup_submit` found that nobody ever had an account; a creation under way was
  asked for by somebody who had one (`SomebodyHad`). `SetupAlone` is the lock of
  `setup_submit`. That nobody inherits a session rests on a new id being unused.
* `IssuanceProofs`, about two modules, since both say what an issuer signs.
  * `GrantsGoWithUser` and `GrantsAreKept`. `ObservedSoFar` carries what was seen
    of a request: until it has decided, whatever it holds at this moment; from
    then on, what it chose is among what it was seen with.
  * `LeavesExact`: `SignedExactly`, for any names, addresses and networks that
    satisfy `NamesAssumption` of `LeafPolicy`. `LeafInv` says that signer and panel have
    answered by one verdict; the work is in showing that this verdict is the
    relying party's. `WithinLabels` compares the suffix of a string with the
    last labels, for any strings: cuts are counted by rank (`Rank`, `Nth`), so
    that no induction over characters is needed. If the labels agree, the
    distances between cuts agree and the shift is constant (`Constant`); if the
    strings agree, a shifted cut has a shifted rank (`ShiftedRanks`).
    `MaskIsRange` does the same for a masked address and a range.
    `CheckIsAccepted` puts the forms, both sides of the constraints and the
    common name together.
* `TlsManagerProofs`: `CheckBringsUpToDate`, `BoundIssuerStaysActive` and
  `NeverDowngraded`. `Holds` says that a row that a request's session still has is
  at most older, with an earlier end; `OlderIsNoBetter`, that one who believes so
  neither replaces a certificate that the loop would keep nor gets one that the
  loop is refused. `ServedOK` says when the pair on disk is the one served. `RunningOK` follows an undisturbed check of the loop from step
  to step, `DoneOK` the checks of requests after it, `Writes` the two files,
  `BindingOK` the binding and those about to change it.

Assumptions are those of the modules, which TLC evaluates in the runs of those
modules. They say that lifetimes and bounds are numbers, that the functions
among the constants have their domains, that an authorization does not outlive
its order, that a CRL is renewed before it ends and cabin's certificate before
its own end, that rows of different tables have different locks
(`LockAssumption`), that no name is both a wildcard and an address, that host
names are strings and a network starts at a multiple of its size
(`NamesAssumption`), and that `None`,
the null of a column, is none of the values (`NoneAssumption`, `RowsAssumption`,
`NullAssumption` and parts of the others).

Model-checked only: the liveness properties `ChallengeSettles`, `ClaimEnds` and
`SessionsEnd`, since fairness and `ENABLED` are out of the prover's reach. Of the
last, `NoCircularWait` is the part that is a safety property. The two findings
with a run are counterexamples.

## Not modelled

* Cryptography (JOSE, X.509 encoding, sealing) is a Boolean or an identity of a
  CA.
* Network validators are their outcome.
* The REST API and the MCP server call the services modelled here; what they
  decide themselves, who the principal is, is `Authenticate` in `IssuerGrants`.
  Pages, downloads and forms without a decision of their own are left out.
* The inventory's filters, the status words of a certificate and the dashboard
  are computed from rows when they are shown.
* Flash messages: one session's own notice, which no other step reads.
* Schema migrations run before anything is served; logging, the plaintext
  listener and application assembly keep no state.

## Plan

In this order:

1. `IssuerGrants` with PostgreSQL's row locks beside SQLite's exclusive writer.
2. The inventory: `certificate_status` against the filters that list by it, over
   the second of expiry.
3. Proofs: how long a lifetime cabin may sign below a CA that is renewed
   meanwhile (`CaHierarchy` carries the end that was loaded); the lemmas on ranks
   of `IssuanceProofs` for the least row that `CaHierarchy` picks.

A new passing run takes the place of the finding that matters least, or is
merged with a run of the same module.
