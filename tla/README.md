# A TLA+ model of step-ca

TLA+ specifications of the certificate authority in `src/`, the TLC
configurations that check them on small instances, and TLAPS proofs of the
safety properties that matter most. `PROJECT.json` maps every definition to
the lines it models and lists the runs, the hazards and the theorems.

## The system and its modules

`step-ca` is one process. Its HTTPS server (and an HTTP server for SCEP) calls
handlers; the handlers call an `Authority`, which asks a provisioner whether a
token or a certificate authorizes the request, signs through a certificate
authority service, and records certificates, used tokens and revocations in a
database. ACME keeps orders, accounts and nonces in tables of the same database.
An admin API changes provisioners, administrators and the policy. Clients
renew their certificates with a timer and retry calls once.

Every HTTP request is a goroutine of its own, the database offers
compare-and-swap on single rows and no transactions, and most code reads a
row, decides, and writes. Wherever requests overlap a module therefore has one
step per access to the database (or per critical section, where the code holds
a lock), so that requests interleave between the read and the write resting on
it, and a failure or the end of the process can come between any two writes.

| Part | Modules | State | Steps |
| --- | --- | --- | --- |
| ACME orders, authorizations, challenges | `AcmeOrder`, `AcmeStatus` | the tables `acme_orders`, `acme_authzs`, `acme_challenges`, `acme_certs` and the copies a request holds | `GetOrder`, `GetAuthorization`, `GetChallenge`, `FinalizeOrder`: every read, `UpdateStatus`, `Validate`, `Finalize`, and the two halves of every `UpdateXxx` |
| ACME accounts, nonces, external account binding | `AcmeAccount` | nonces, key index, accounts, external keys | the JWS middleware, `NewAccount`, `GetOrUpdateAccount`, deletion of a key |
| Store of external account keys | `AcmeEABKeys` | keys, references, list per provisioner | create, bind, delete, each write a step |
| Creation of orders, list of an account's orders | `AcmeNewOrder` | orders, authorizations, challenges, lists, `ordersByAccountMux` | `NewOrder`, `CreateOrder`, `GetOrdersByAccountID`, `updateAddOrderIDs` |
| Validators of challenges | `AcmeChallenge` | one challenge, what its answers have shown | http-01, dns-01, tls-alpn-01, device-attest-01 |
| Signing, renewal, revocation, one-time tokens | `Authority` | certificates, used tokens, revocations, clock | `Sign`, `Renew`, `Rekey`, `Revoke`, X.509 and SSH, by token, mTLS and ACME; reload and restart |
| Provisioner tokens | `ProvisionerTokens` | used tokens, requests, clock | lookup of the provisioner and recording of the token; validation |
| Contents of certificates | `ProvisionerSign` | the request and its certificate | `AuthorizeSign`, `AuthorizeSSHSign` of each type, modifiers, validators |
| Validity periods | `CertValidity` | clock, request, certificate | each reading of the clock, signing, renewals |
| Keys of identity providers | `KeyStore` | cached keys, expiry, timer, goroutines | `Get`, the timer, the two halves of `reload` |
| Name policies, name constraints | `NamePolicy`, `NameConstraints`, `Names` | none: operators, compared with reference definitions | one evaluation per behaviour |
| Authority policy | `AuthorityPolicy` | the row, the engine, the locks, the requests | the four handlers, their two critical sections, faults, restart |
| Provisioners and administrators | `AdminStore` | two tables, two collections with their counters | every changing request of the admin API, failed writes, reload, crash, first start |
| Listing in pages | `Listing` | a sorted list, the client's cursor | one page, one change |
| The process and its servers | `CaServer` | generations, servers, listeners, channels, the signal handler | `Run`, `Stop`, `Reload`, `Serve`, `Shutdown`, requests |
| Renewal of certificates in use | `TlsRenewer` | certificate, timer, goroutines, trusted roots, clock | timer, handshake, calls, retries, rotation, sleep |
| Clients | `CaClient`, `ClientIdentity` | options and transport, calls and the CA's record of them; three files | building a client, sending, answering, retrying; each write of a file |
| SCEP | `ScepExchange` | requests, the library's algorithm | decoding, checking, signing, the three steps around `Encrypt` |

How the parts meet: `AcmeOrder` takes the verdict of a validator as an input,
and `AcmeChallenge` models how the verdict comes about. `AcmeNewOrder` relies
on an order never becoming pending again, which is proved of `AcmeOrder`
(`NeverPendingAgain`). `Authority` takes the decision of a provisioner as an
input; `ProvisionerTokens` and `ProvisionerSign` model it, with the period of
the certificate in `CertValidity`, its names in `NamePolicy` and
`NameConstraints`, and the keys of the token in `KeyStore`. `CaClient` sees of
the CA what `Authority` shows of it: a token that its provisioner identifies is
recorded before anything else. `MC...` modules without a specification of their own put several
components side by side (`AcmeTables`, `CaPackage` and `ProvisionerPackage`
are the compositions that also the proofs use); in a behaviour of such a run one
component moves, the one chosen in the initial state, and the others rest.

## The runs

Nine runs pass and three show where the code does not do what it says. Each
property has a mutant in `PROJECT.json`: a plausible bug in the mapped code
that makes TLC find the property violated.

The runs leave out the type invariants (`TypeOK`, `TokensTypeOK`, `SignTypeOK`),
which say little of the code. Each was checked once with TLC, as an added
invariant of the passing run of its module, and holds on that instance; those of
`AcmeOrder`, `AcmeAccount` and `Authority` are also proved (`TypeCorrect`).

**acme_order** (`MCAcmeOrder`). One order, two authorizations with a challenge
each, two requests at a time, two certificates, expiry at any time, a failure
at every call. `IssuedOnlyIfAuthorized`: a certificate is signed only for an
order each of whose authorizations had a challenge validated.
`ValidOrderHasCertificate`: an order is valid exactly when it names a stored
certificate of its own. `OrderNotAheadOfAuthzs`: no authorization of a ready or
valid order is pending. `NeverPendingAgain`: no stale copy is ever written back
as pending. They hold although the compare-and-swap does not protect the
decisions: every write only moves a status forward along what is already
established, and that is the inductive invariant proved below. Two requests
are enough for a stale copy against any sequence of complete requests, and two
authorizations for a status to be decided from reads made at different times.

**acme_order_serial**. One request at a time, three challenges. The handlers
implement `AcmeStatus`, the state machine that the switch statements of the
code state, through the mapping of rows to statuses (`StatusMachine`). With two requests at a time they do not: see
`SettledChallengeKept` below.

**acme_account** (`MCAcmeAccount`). Two requests, two keys, two accounts, four
nonces (enough for two requests and their replays), one external account key,
two provisioners one of which requires a binding; a request can end at any
step. `NonceAdmitsOnce`; `KeyIndexAgrees`: a stored account is the one the
index gives for its key, so that no key has two; `BoundKeyHasAccount`.

**acme_tables** (`MCAcmeTables`). Concurrent creation of orders by two
requests: a stored order names stored authorizations and challenges that no
other object has (`StoredOrderComplete`), an account's list names stored orders
of the account, every placed pending order among them (`OrderListAgrees`), and
every request is answered (`RequestAnswered`, liveness). The key store with a
failure after any write: `ReferenceLeadsToKey`, `CreatedKeyListed`. Every
answer to every type of challenge through repeated attempts:
`ChallengeFollowsProof`.

**authority** (`MCAuthority`). Two requests, four serial numbers, five tokens
two of which share an identifier, reload, restart, failures at every call, in
four scopes: X.509, tokens, SSH, and the SSH requests that also issue an
identity certificate. `TokenUsedOnce`; `DeliveredStored`;
`RevocationReportedOnce`: one request at most is told that it revoked a
certificate, and the revocation is then recorded; `NoRenewalAfterRevocation`:
a request that arrives after the report renews nothing.

**admin** (`MCAdmin`). Two requests on the policy with four policies and read
and write faults: the engine is that of the stored policy (`EngineCurrent`) and
no write of a policy locks out an administrator (`NobodyLockedOut`). Requests
on provisioners and administrators in three workloads: `Alone`, every request
that changes neither a role nor a name, one at a time with failed writes, failed
reloads and crashes; `Removal`, removals of a provisioner with up to three
administrators that can end at any row; `Concurrent`, two requests at a time,
without removals of a provisioner. In each, as far as its statement
reaches, the caches agree with the tables (`CacheMatchesDatabase`), a super
administrator remains (`SuperAdminRemains`) and the next start can load the
tables (`DatabaseLoadable`). What a start loads is stated index by index
(`LoadProvisioners`, `LoadAdmins`); the assumption `LoadIsLoop` of `MCAdmin` compares it with
the loops of `ReloadAdminResources` for every table of two rows. A listing of
five administrators two to a page with three changes in between: whoever is
there throughout is listed exactly once (`ListingComplete`).

**server** (`MCServer`). Two reloads among four configurations and a stop, with
requests in progress and faults in loading, initialising, listening, accepting
and shutting down: `ServedOnLiveResources`, `ReloadAllOrNothing`, and
`TermEnds` (liveness). A behaviour has all of these faults, or only those before
a server is touched (`faults`), and `ReloadAllOrNothing` says of the latter that
a failed reload leaves everything as it was. The renewal of the CA's own certificate on a machine
that sleeps (`ServedValid`), of a client's with failures (`RenewedInTime`) and
through a rotation of the root (`TrustKept`). The files of an identity with a
stop between any two writes (`IdentityPairAgrees`). The calls of a client with
lost answers and one retry: the CA carries a call out at most once if it records
the token of the call or if the body can be sent only once, and otherwise once
per attempt, so at most twice (`RetryBounded`). Deadlock is not checked here: the
process ends.

**sign** (`MCSign`). Periods under many claims and requests, with a moving clock
and up to two renewals, in arithmetic of 8 bits: `PeriodBounded`,
`RenewalKeepsLength`. Every configuration of up to two policy rules against
every certificate of up to two names: `PolicyFollowsRules`, which leaves out
literal wildcards and the mailboxes that a rule with capitals in its local part
is written for. Every chain of two CAs with up to two constraints each, against
every name, alone and beside a DNS name or a mailbox:
`EngineAgreesWithVerifier`, whose half "what is issued verifies" is about
certificates whose DNS names parse and chains in which one CA at most permits
names of a type. What happens in the cases left out is below. Two rules are
enough for an allow and a deny rule, of one type or of two, to meet.

**provisioners** (`MCProvisioners`). Two requests with the tokens of nineteen
provisioners in nine families, chosen so that in each family two provisioners
share what could confuse them, with delays and restarts: a token is good for
what it was issued for, and once where its type records it (`GrantedAsMeant`),
and whoever is entitled is granted (`EntitledGranted`). Kubernetes, ACME and
SCEP record no token, renewals of their certificates included, and ACME and
SCEP look at none: they grant a signature, and ACME a revocation, to whatever is
addressed to them. The properties state it. Every certificate that a provisioner
of each type issues or refuses (`IssuedAsVouched`), with ACME orders for names
and for a permanent identifier, tokens addressed to ACME and SCEP at the sign
endpoint, and a default common name in the configuration of the authority.
Overlapping reloads of an identity provider's keys (`KeysFresh`). Tokens are
those the provisioners' own issuers hand out, and for ACME and SCEP, which have
none, any that are addressed to them.

**acme_account_eab**, **admin_roles** and **scep_algorithm** are violations:

* `EABKeyBindsOnce`: two `NewAccount` requests in progress bind one external
  account key to two accounts; `BindTo` "can only be used once"
  (`acme/account.go:121`).
* `LastSuperAdminKept`, with role changes: `Collection.Update` does not adjust
  the counters, so both of two super administrators can be demoted although the
  check answers "cannot change role of last super admin"
  (`authority/administrator/collection.go:190`). With promotions and removals
  `superCount` even goes below zero. The `admin` run checks
  `SuperAdminRemains`, the same without role changes.
* `EncryptedAsConfigured`: of two overlapping SCEP requests one answer is
  encrypted with the other provisioner's algorithm
  (`authority/provisioner/scep.go:153`).

## Fairness

* `RequestAnswered`: weak fairness of every request's next step (a goroutine
  that can run does run, and every database call returns) and strong fairness
  of taking `ordersByAccountMux` (`sync.Mutex` serves every waiter: after a
  millisecond in the queue it goes to the one waiting longest). Nothing is
  assumed of clients, of faults or of requests that have not arrived.
* `TermEnds`: weak fairness of the signal handler, of the return of `Run`, of
  each server's goroutine and of the end of each request in progress; the code
  itself limits the last by the 60 s of `ServerShutdownTimeout`. It is checked
  for servers that have begun to serve when a signal arrives (`Prompt`); the
  other case is `TermStops` below.

Timed properties (`RenewedInTime`, `KeysFresh`, `ServedValid`) need no
fairness: time does not pass an event that is due.

## Proofs

All theorems hold for every value of the constants: any number of requests,
goroutines, keys, provisioners, reloads or failures. What they assume of the
constants is a named `ASSUME` of the component or a hypothesis of the theorem,
and TLC evaluates both in the runs (`Environment` in `MCAcmeTables`,
`MCProvisioners` and `MCServer`), so the instances of the runs are instances of
the theorems; the one request of `MCSign` that `InRange` leaves out is named
below. Each proof has one lemma per action. Thirty-four of the forty
properties of the passing runs are proved.

A run and a theorem are about the same definition. Where a run has several
components, the properties are therefore stated in a module that both extend:
`AcmeTables`, `CaPackage` and `ProvisionerPackage`.

* `AcmeOrderProofs`: `IssuanceAuthorized`, `ValidOrderCertificate`,
  `OrderBehindAuthzs`, `PendingIsLeftForGood`, `TypeCorrect`. None of the
  properties is inductive, since a request writes what it decided on an old
  copy. `Inv` says of every copy what stays true however old it is: a valid
  authorization has a validated challenge, a settled one has left pending, an
  order past ready has all its authorizations settled. These facts only grow
  (`Grows`), so a copy never becomes wrong, merely late (`CopyGrows`).
  `HandlersImplementStatusMachine` is the refinement of `AcmeStatus`, under the
  hypothesis `Serial`, one request at a time: then no copy is late (`AllFresh`:
  at each step the copy is the row, or what the request is about to store is
  what the rows warrant now), and every write is a step of the abstract machine
  or changes no status.
* `AcmeAccountProofs`: `NonceUsedOnce`, `AccountFoundByKey`,
  `BoundAfterCreated`, `TypeCorrect`. The index is written before the account;
  `Claims` says that the request in between alone holds the entry of its key
  and that no account is stored under it.
* `AcmeTablesProofs`: `OrdersComplete`, `ListsAgree`. Of every request the
  invariant says that what it has created and not yet put into a row is stored
  and is nobody else's (`Own`, `Apart`), so that the row it writes next shares
  nothing; and of the holder of `ordersByAccountMux` that its copy is still the
  stored list and that every pending order of it is kept or still to be visited
  (`Rewriting`), so that the rewritten list drops none. `ReferenceFollowed` and
  `CreatedIsListed` come from an invariant that says how far the operation
  holding the mutex of the external account keys has come. `ChallengeFollows`
  shows of each of the four validators that it finds an answer valid only if it
  proves control and invalid only if it arrived and does not. Hypotheses: the
  value for "no row" or "no answer" is none of the others (`NoneDistinct`,
  `KeyNoneDistinct`, `AnswersDistinct`).
* `AuthorityProofs`: `OneTimeTokens` (with a database), `DeliveredIsStored`,
  `ReportedOnce`, `NotRenewed`, `RevocationIsKept` (an action property),
  `TypeCorrect`. A request remembers what was reported when it arrived, and all
  of it is recorded; requests that wrote a revocation and have not answered are
  about different serial numbers, none reported.
* `AdminStoreProofs`: `SuperAdminAlwaysRemains`, `CacheAlwaysMatches`,
  `DatabaseAlwaysLoadable`, for any number of rows, requests and crashes.
  `CanRemoveAdmin` reads a counter of a collection that can lag behind the table
  after a failed reload; `SuperInv` says that the counter counts the cached super
  administrators, that each of these still has its row, and that one is cached,
  so the table has at least as many. `CoherenceInv` says of every index of both
  collections which rows it has (`Match`), of every request that what it looked
  up is still there (`LocFound`), and of `RemoveProvisioner`, which ranges over a
  slice whose array its own deletions rearrange, that the turns that are left
  read exactly the administrators that are left (`Left`). The last is why each of
  them is deleted and none twice. Hypotheses are those of the
  properties: no renaming, no removal of a provisioner beside another request,
  no second `Init` that fails (`Orderly`), and for the collections no change of
  a role and no key shared by two provisioners; the section on the code below
  says what happens otherwise.
* `IssuanceProofs`, periods: `PeriodAlwaysBounded`, `RenewalAlwaysKeepsLength` (an
  action property), for any claims, credentials, requests, backdate, width of
  the integers and number of renewals. The invariant says at each step what is
  known of the period so far (`Stages`): after the modifiers it is within the
  credential's, and for SSH its seconds and nanoseconds do not wrap; a signed one
  has whole seconds, so that rounding the clock anew keeps its length.
  Hypothesis (`InRange`), for SSH alone: no time or duration
  reaches 2^63 ns and none lies before 1970. Beyond it the statement is false,
  since the validator multiplies seconds by 10^9 in a signed 64-bit integer.
  The run also has one request with a time before 1970.
* `IssuanceProofs`, authority policy: `EngineFollowsRow`, `AdminsKeepAccess` (an
  action property). The holder of `adminMutex` is the one request between its check and
  the end of its reload (`Holder`); until it writes, what it checked still holds
  of the admins there are (`Checked`), and until it has written, the engine is
  that of the row or the last reload has failed (`EngineOfRow`).
* `ProvisionerPackageProofs`, tokens: `TokensMeant`, `EntitledServed`. What a
  request holds was computed when it arrived, from the collection and the clock
  of then (`ArrivedAt`), and what it recorded in `used_ott` is nobody else's;
  the rest is what the eleven types compute for a token that another type could
  take for its own. `Collection.Store` and the `Init` of the provisioners
  justify `CollectionAssumption`, and what issuers put into tokens
  `TokensAssumption`. `TokensMeant` needs that no OIDC client is named like the
  audience of an Azure provisioner (`DistinctAudiences`), `EntitledServed` that
  no two tokens share a `jti` or a nonce (`DistinctClaims`).
* `ProvisionerPackageProofs`, keys: `KeyFresh`. Of every reload in progress the
  invariant says how old its keys can be at most, given that a fetch takes at
  most `FetchTime`, and that the timer is due before the keys expire.
  Hypothesis: durations are natural numbers and an hour is positive
  (`Durations`).
* `ProvisionerPackageProofs`, certificates: `SignedAsVouched`, by the ten types
  of provisioners: what each returns as sign options, which requests pass their
  validators, and what each template then makes of the request; for ACME apart
  for an order for names, an order for a permanent identifier and a token.
  Hypothesis (`WellFormed`): every name of a request is of one of the four kinds,
  and the identity of a cloud instance or a Nebula host has at least one name, as the
  code of the four types always builds one.
* `CaPackageProofs`, the process: `LiveResources`, `AllOrNothing`. `Replacing` says which
  servers the reload in progress has replaced and that these alone use the new
  generation, `Accepting` and `Requests` that whoever still accepts or runs
  requests uses the generation of its server, `Live` that these generations are
  not closed. `AllOrNothing` needs `Undisturbed`, what a server is doing when no
  fault can come after the first server was touched, with the hypotheses that
  the goroutines of the servers reach `Serve` before the next signal (`Prompt`)
  and that no server takes the address of the other one in any configuration
  (`SeparateAddresses`). `LiveResources` needs neither.
* `CaPackageProofs`, renewers and files: `ServesValid`, for any number of handshakes. A call in
  progress is no older than `MaxCall`, so the certificate it brings has not
  expired when it is set. `ClientInTime` and `ClientTrusts`: at each step of an
  attempt the time left is enough for the failures that are left (`Left`), and
  at each step of a rotation the pool has the root in use, and the next one as
  soon as the CA may use it (`Trusted`). Hypotheses: durations are natural
  numbers and a call takes no longer than a certificate lives (`Durations`); for
  a client, the failures and their delays fit into the third of the period that
  the timer leaves, and a step of a rotation waits for a certificate's life
  (`EnoughTime`). `PairAgrees`: from what each command has written so far.
  Hypothesis: the states of a file are different values (`FilesDistinct`).

What the attempts to prove changed in the model. The first statement of
`EntitledGranted` held of the provisioners of the run only: an OIDC token can
fall to any provisioner registered under its tenant, not only to an Azure one
(`Shadowed`), and tokens that name no instance share the empty one for Azure
(`SameUse`). Order finalisation counts the common name of the request among its
names, which `ProvisionerSign` and `AskedIsIssued` left out (`canonicalize`).
The clouds and Nebula do not hand the policy for users to the validator, so
`SSHPolicyHolds` had to leave it out for them also with a custom template.
`PlainIssued` is false for a token whose SSH options the provisioner refuses
and for an identity without a subject. `match` ignores principals when the
cloud identity has no names, hence the second half of `WellFormed`. The run of
`MCProvisioners` now has credentials and requests for each of these cases.
`CacheMatchesDatabase` and `DatabaseLoadable` name the requests and faults under
which they hold (`Orderly`, `RolesKept`, `OwnKeys`): a behaviour has one
workload out of a set, and before, the choice of the constants left these cases
out without a word.

Only model-checked:

* `TermEnds` and `RequestAnswered`: liveness under fairness.
* `PolicyFollowsRules` and `EngineAgreesWithVerifier`: the operators of
  `NamePolicy`, `NameConstraints` and `Names` recurse over labels and are
  compared with reference definitions on bounded inputs; a proof would be by
  induction over the names.
* That `LoadProvisioners` and `LoadAdmins` are what the loops of
  `ReloadAdminResources` compute (`LoadIsLoop`): induction over the table.
* `PeriodBounded` and `RenewalKeepsLength` for an SSH request with a time before
  1970.
* `ListingComplete` (a sorted list of any length, cut in pages) and
  `RetryBounded`.

## Where the code does something else

Besides the three runs above, the model met the following. The definitions
named here are kept in the modules, each with the comment that it does not
hold (or holds under a condition); no run checks them. TLC refutes each of them
in place of a run's properties, under the constants of that run or, for the
cases marked (+), which those constants leave out, under wider ones.

ACME:

* `SettledChallengeKept` (`MCAcmeOrder`): `Validate` checks the status of the
  copy that `GetChallenge` read, and `UpdateChallenge` compares against a
  second read of its own, so of two validations in progress the later writes
  over the settled challenge (`acme/challenge.go:75`: "If already valid or
  invalid then return without performing validation."). This is why the
  refinement of `AcmeStatus` is checked with one request at a time.
* `OnlyDeactivated` (`AcmeAccount`): a contact update writes back the status
  the middleware read and undoes a deactivation in between
  (`acme/api/account.go:60`: "status to %s, only deactivated").
* `ListComparesEqual` (`AcmeEABKeys`): once the last key of a provisioner was
  deleted its list is the row `[]`, which later operations compare as no row
  and fail, with the key row already stored (`acme/db/nosql/eab.go:306`).
  `GetExternalAccountKeys` fails for good when the list names a deleted key.

Tokens and certificates:

* `TokenUsedOnce` without a database (+): the used tokens of `SimpleDB` do not
  survive a restart, and the check of `iat` is in whole seconds
  (`authority/authorize.go:72`).
* `IssuedVerifies` (`NameConstraints`): the permitted names of all CAs of the
  chain go into one list, so a name that the root permits and the intermediate
  does not is issued and does not verify (`CHANGELOG.md:21`). The engine parses a
  DNS name only to match it with a constraint (`constraints.go:84`), while a
  client refuses a leaf with one that does not parse as soon as any CA of the
  chain has any constraint (`DNSNamesParse`).
* `NoDeniedCommonName`, `CommonNameExplicit`, `WildcardNeedsOption`,
  `LocalPartExact` (`NamePolicy`): a deny rule for common names alone denies
  nothing that parses as a domain (`policy/validate.go:212`); with deny rules
  only, every other common name passes without a look at the DNS rules (`:197`)
  and a literal wildcard passes although the option is off (`:494`); a mailbox
  constraint is changed to lower case, its local part included, and then
  compared exactly (`policy/options.go:303`), so that it denies or allows another
  mailbox than it names.
* `IssuedLive`, `MinWithoutBackdate`, `BackdateApplied` (`CertValidity`): a
  certificate shorter than the backdate is renewed into one that has expired
  (`authority/tls.go:279`) (+: a backdate above the minimum); the backdate counts towards the minimum of an SSH
  certificate, and is applied only if no start was asked for
  (`sign_ssh_options.go:367`, `:228`). In 64 bits a period of centuries can wrap
  and pass the maximum (`sign_ssh_options.go:369`), and `Claimer.Validate`
  checks the TLS durations only, so that a provisioner whose SSH minimum lies
  above its default refuses every plain request (`claims.go:220`); both are left
  out of the claims and requests that the run enumerates (+).
* A token is recorded as used before it is validated. An OIDC token with
  neither email nor azp falls to the Azure provisioner of its tenant, the
  exception in `EntitledGranted`. The tokens of Kubernetes, ACME and SCEP are
  never recorded (`acme.go:125`, `scep.go:70`). `AuthorizeSign` of the last two
  "does not do any validation" of a token that is addressed to them
  (`acme.go:241`, `scep.go:117`), and `AuthorizeRevoke` of ACME "currently is a
  no-op" (`acme.go:262`). `docs/provisioners.md:57` describes a
  claim `disableIssuedAtCheck` that `Claims` does not have.
* An ACME order for a permanent identifier is not compared with the request, so
  the certificate has the common name that the request asks for
  (`acme/order.go:169`), and a request of an authority with a default common
  name gets that one when it has none (`authority/tls.go:67`): the two exceptions
  in `NamesVouched`.
* The challenge password is matched for `PKCSReq` and `RenewalReq`; an
  `UpdateReq` is decrypted and signed without (`scep/api/api.go:314`,
  `scep/authority.go:207`).
* `LibraryUninfluenced` (`ScepExchange`): a failed `Encrypt` leaves the library's
  algorithm changed (`scep/authority.go:308`).
* The comment at `keystore.go:84` speaks of a rotation within 12 hours; the
  jitter is one hour, and `KeyStore` has one hour.

Administration:

* `DatabaseLoadable` (`AdminStore`) fails when a provisioner is removed or
  renamed between the lookup of `CreateAdmin` and its write, when a provisioner
  is renamed before a second administrator with the same subject is added, and
  when `Init` fails after the row was written (`authority/admins.go:48`,
  `authority/provisioners.go:195`, `:232`) (+). An authority that ends between
  its first provisioner and its first administrator has none
  (`authority/authority.go:600`) (+).
* `KeysFound`: `Collection.Store` lets two provisioners share a key and
  `Collection.Remove` deletes the index entry for either (+: two provisioners
  with one key).
* `ReadErrorReported`, `DeleteAnswered` (`AuthorityPolicy`): a failed read is
  answered as "not found"; of two overlapping deletes one dereferences a nil
  policy (`authority/admin/db/nosql/policy.go:164`). A policy with no part at
  all is stored as a row that every handler takes for no policy and that
  prevents creating one (`:237`); the run has no such policy (+).
* `ProvisionersListed` (`Listing`): `GetProvisioners` "returns all" provisioners,
  but its cursor is derived from a hash and entries that change between pages
  can be missed or repeated.

Servers and clients:

* `FailedReloadContinues`: a reload whose shutdown timed out has already closed
  the listener, where the log says "Continuing to run with the original
  configuration." (`ca/ca.go:409`). It holds for failures before a server is
  touched, and that is what `ReloadAllOrNothing` states.
* `ReloadNeverPanics`: a configuration without the insecure address or without
  SCEP makes `Server.Reload` read a nil server (`ca/ca.go:435`). The
  configurations of the run keep both servers (+).
* `TermStops`: a reload before `Serve` has begun leaves the signal handler
  blocked on `reloadCh` (`ca/signal.go:48`). It holds with `Prompt`.
* `StopHolds` (`TlsRenewer`): a renewal in progress sets the timer again after
  `Stop` (`ca/renew.go:101`).
* `CertificateAsConfigured` (`CaClient`): the certificate of `WithCertificate` is
  not presented when a default identity is loaded. A repeated POST, PUT or PATCH
  of the admin client has a drained body and a recorded token, so its retry
  never succeeds. A call with a client certificate, or with a token that its
  provisioner does not record, can be carried out twice when the first answer is
  an error or is lost: the second case of `RetryBounded`.
* `Identity.Renew` writes `identity.crt` in the default directory whatever the
  descriptor says. Two commands at once can leave a mismatched pair; the model
  has one command at a time (+).

## What is not modelled, and why

* Cryptography, encodings, HTTP routing, rendering, logging, error texts: no
  state, and no property here is about them. A signature is a key that matches
  or does not.
* The linked CA and the certificate authority services (`cas/`): one call per
  request to a key or a service outside the repository. `Authority` has that
  call as a step that may fail.
* Configuration files, the creation of a PKI, export, templates for SSH clients,
  commands that prepare hardware keys, examples: sequential programs that run
  once, or translations of a document.
* The conversions between `linkedca` messages and provisioners
  (`authority/provisioners.go:341` onwards): field by field, without control
  beyond nil checks. They were read, and some fields do not survive
  (SSH durations when `EnableSSHCA` is false, ACME `RequireEAB`); a model of them
  would repeat them line by line.
* The SSH front end of `api/ssh.go` beyond the order of its calls, which is in
  `Authority`: reading and rendering of requests.
* The handlers of provisioner and ACME account policies: the router disables
  them in standalone deployments and they refuse linked ones.
* Custom templates other than one that copies the request; SSH extensions;
  internationalised names; identity documents of clouds beyond the claims that
  are compared; `ClientCAs` pools, which follow the code of the root pools.
* External libraries are modelled from their use: `net/http` and the Go runtime
  in `CaServer`, the global variable of `pkcs7` in `ScepExchange`, the database
  as rows with compare-and-swap, and the mutexes of `sync`.

Bounds: constants bound what can be created (IDs, serial numbers, tokens,
nonces), the clock (`MaxTime`, `MaxClock`), and the number of reloads, failures,
renewals and changes; each is named where it is declared. Symmetry is used for
requests and for identifiers that no definition tells apart, in runs without
liveness properties only.
