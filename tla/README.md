# MoradaApp API: verification

TLA+ models of the MoradaApp API (a NestJS server for condominiums), the TLC
runs that check them, and TLAPS proofs about them. Paths below are relative to
the repository. Every definition that stands for code names its lines in
`PROJECT.json` under `map`.

    cd tla
    tlc -workers 2 -config registry_safety.cfg MCGuardedRequests
    tlapm CondominiumRegistryProofs.tla

## 1. The system

One Node process (`app.yaml`: one instance at least and at most) serves HTTP
requests. It keeps its data in PostgreSQL through TypeORM, its signing keys in
Firestore (or, without Firestore, in memory), a cache of the keys in memory,
and sends e-mails over SMTP. Requests interleave at every `await`; database
transactions run at PostgreSQL's default, READ COMMITTED.

| Component | State | Operations |
|---|---|---|
| Membership registry (`infra/storages/db/typeorm/repositories`, `app/services/{condominium,members,invites,user}`) | tables `unique_registries`, `users`, `condominiums`, `condominium_members`, `community_infos`, `invites` | create / delete condominium; upload community members; create / remove employee; sign up by invitation; delete user; remove community member; update single columns |
| Schema (`entities`, `migrations`, `migrations.prod`) | UNIQUE columns, foreign keys, ON DELETE CASCADE; which migrations have been executed | enforced by the database at every statement; the commands `migrate:run` and `migrate:revert` |
| Authorization guards (`app/auth/guards`) | none; they read the tables and put what they read on the request | owner, owner or employee, invitation, code, refresh token |
| Invitation delivery (`uploadCollectionOfUsers`, `genInvite`, `infra/events/emails`, `nodemailerAdapter`) | the loop of an upload, e-mails emitted and not sent | build, store, emit, deliver |
| Sessions (`app/services/login`, `app/auth/guards`) | what clients hold: access and refresh tokens, two-factor codes; what a guard has read for the request under way | log in, send and check a code, refresh; sign, validate |
| PATCH requests (`update.service`, `updateMember.service`, `update.flow`) | columns of users, condominiums and community infos | read in the guard, UPDATE the columns that were sent, answer |
| Key synchronisation (`infra/storages/db/firestore`) | key cache, listeners, the state of the fatal exit | fetch all keys at start-up, listen, report and exit |
| Isolated keys (`db/isolateds`) | random keys in memory | made at start-up |
| Value objects and mappers (`app/entities/VO`, `typeorm/mapper`) | none; columns hold numbers | check a text, write it, read it |

### How they interact, and what is hard about it

* A **registry** is a person: an e-mail, perhaps a CPF. An account (`users`)
  belongs to one registry; a membership belongs to a registry and a
  condominium, and may be linked to an account. An upload finds registries *by
  e-mail*; the sign-up looks them up again *by e-mail and CPF*; the guard
  compares the code of the invitation with the CPF that the request carries.
  Three pieces of code have to agree about who a person is.
* Deletions start in four tables and **cascade** over five levels.
* The **guard reads before the transaction** begins and the removal asks for an
  account in one statement and deletes in a later one: other requests commit in
  between. No handler looks again at what its guard approved of. A sign-up locks the invitation and then the registry, a removal the
  other way round.
* The **code of an invitation** exists in clear only in the e-mail. Invitations
  are committed first and e-mails are emitted afterwards to a listener nobody
  awaits; a refused e-mail is an unhandled rejection, which ends the process.
* **Keys rotate** outside the program. Key times are in milliseconds, token
  times in seconds; the validator chooses between the actual and the previous
  key by comparing the two. Requests read the key, wait, and sign.
* **Requests go on with what the guard read**: the account may be deleted, its
  address registered again under another uuid, or its columns written by
  another request. Codes and refresh tokens find accounts by the address,
  access tokens by the uuid.
* **Start-up** goes through the keys one by one while documents are written,
  and an error is reported asynchronously before the process ends itself.
* Identity numbers are **stored as numbers** and padded when they are read.
* The schema has **two histories of migrations**, one for PostgreSQL and one for
  CockroachDB (production), written by hand, upgrades and their reversals; they
  are run by a command, also while the program writes rows.

### What makes each component correct

* Registry: no dangling reference; one registry per e-mail, one account per
  registry; a linked account is the member's own; a resident waits on exactly
  one invitation *or* is linked; invitations are addressed to their member, are
  consumed once, and no request about others spoils one; deleting an account
  leaves nothing of the person, and nobody else's membership disappears.
* The same under every order of statements and crashes, and however long a
  request waits between guard and handler; no set of requests waits for itself,
  every request ends, and what it commits is what the whole request would have
  done at that moment.
* Schema: both histories end in the schema of the entities; whatever was run,
  reverted or stopped, the schema is that of the executed migrations; an upgrade
  loses no value.
* Delivery: no e-mail about an invitation that was not stored; a code is lost
  only with the process; otherwise it arrives.
* Sessions: a rotation logs nobody out whose token is younger than two keys;
  what was rejected stays rejected; the cache catches up with Firestore.
* Logins: a code logs in the account whose password led to it; a deleted account
  is not served again, whatever is left of it in clients' hands.
* PATCH: an update is atomic, on exactly the columns that were sent with a value;
  the tokens answered with it show what is stored.
* Lists, guards and invitations agree about who is a member of what.
* Key synchronisation: no request is served without keys unless the server is
  already on its way out; no write of a document is missed; the cache never
  goes back; a broken document ends the server, and repaired documents bring it
  back for good.
* Numbers: check digits are the official ones; what is read of a CNPJ or CEP of
  digits, of a CPF and of a phone number of up to 15 digits is the number that was
  written.

## 2. Modules

Each component module has its constants, `Init`, one action per operation,
`Next`, `Spec` and its properties; an `MC` module adds what TLC needs and a
`Proofs` module the theorems. An operator that ends in `_Mut` is a slip a
programmer could make in the operator after it; it is not part of the
specification and serves to show that a property notices.

| Module | Models |
|---|---|
| `Tables` | a table as a function from keys to rows: insert, delete |
| `CondominiumRegistry` | the six tables and every request that inserts or deletes rows, each request one step |
| `GuardedRequests` | the same requests in two steps: what guards approve of, and the handlers that run later |
| `CondominiumReads` | the queries of the read requests and of the guards, as functions of the tables |
| `SignUpRaces` | sign-up, removal and upload about one person, statement by statement, with row locks |
| `SchemaMigrations` | both histories of migrations, statement by statement, run and undone while rows come and go |
| `SigningKeys` | one key, its rotations, the cache, and what is signed and validated with it |
| `LoginSessions` | the login flow over accounts that are deleted and registered again |
| `AtomicUpdates`, `PartialUpdates` | what a PATCH promises, and how the four PATCH requests do it |
| `KeySync` | start-up and listeners over all the keys |
| `InviteDelivery` | from the upload to the inbox |
| `NumberColumns` | CPF, phone, CNPJ and CEP: text, column, text |
| `CondominiumRegistryProofs` | theorems about the registry, its reads and `GuardedRequests` |
| `SignUpRacesProofs`, `SigningKeysProofs`, `LoginSessionsProofs`, `PartialUpdatesProofs`, `KeySyncProofs`, `InviteDeliveryProofs`, `NumberColumnsProofs` | theorems about the module each is named after |

### CondominiumRegistry

The variables are the tables. A request is its guard, service and transaction in
one step: `CreateCondominium`, `UploadMembers` (`createMany`), `CreateEmployee`,
`SignUp` (`InviteGuard` and `transferToUserResources`), `DeleteUser`,
`RemoveEmployee`, `RemoveMember`, `DeleteCondominium`. Only requests that
succeed are steps; a refused one changes nothing, since all of these write in one
transaction or one statement. `GoneUsers` to `GoneInvites` are the foreign
keys' cascades, from the state of the schema after the last migration.
`CONSTANT`s are the sets of keys, e-mails and CPFs; columns that no request
decides on are left out. `Cnpj` stands for the three UNIQUE columns of
condominiums. The stored invitation code is a hash of CPF and random digits:
the model keeps the CPF, and which member it was drawn for.

### GuardedRequests

`GuardedRequests` EXTENDS `CondominiumRegistry` with `approvals`: what guards have
read and put on requests whose handlers have not run. `SuperAdminJwt`,
`AdminJwt`, `JwtGuard` and `InviteGuard` add one, the `Late...` actions are the
handlers behind them, `Forget` is a request that was refused. An approval
carries what the handler goes by: the condominium of the path for the owner's
requests, nothing for the removal of a member (the handler uses the id of the
membership alone), the uuid for `DELETE /user`, the invitation for the sign-up.
Approvals are not requests: one approval stands for any number of requests with
it (`Uses` may keep it). Keys are random, so a new row never gets a key that a
waiting request still names (`FreshKeys`).

### CondominiumReads

State functions over the tables of `CondominiumRegistry`: a query is the set of
rows it returns, its joins and its WHERE clause in one comprehension. The
services and the guard on top of them are the conditions under which they
answer or refuse. `pruneSensitiveData` of `getById.service` deletes from an object
that is not the one returned; it has no effect on what is modelled.

### SignUpRaces

The same three requests with their statements as actions. The tables hold what
is committed, `work` what a transaction has written and not committed, `locks`
its row locks; `Needs` gives each statement the locks PostgreSQL takes for it
(shared on a referenced row, exclusive on rows written and on entries of UNIQUE
indexes). `BreakDeadlock` fails one request of a cycle and `Crash` rolls
everything open back. This part models PostgreSQL, as an external component,
to the extent the statements rely on it. `Registry` is `CondominiumRegistry` over
these tables: `CommitsAreRequests` says that each commit is a step of it.

### SchemaMigrations

A migration is the sequence of its statements (`FirstUp`, `AddUniqueRegistriesUp`,
`FirstProdUp`, `AddCascadeDeletionUp` and their `Down`s), built with the helpers
`CreateTable`, `AddColumn`, ...; `Apply` is what a statement does to a schema
(columns, keys, foreign keys) and `Allowed` what stops it. `MigrateRun` and
`MigrateRevert` begin the one transaction of a command, `RunStatement`, `Commit`
and `Rollback` carry it on; `Traffic` is the program, which writes rows wherever
no statement has locked the table. Of the rows the model keeps which tables have
any. Columns that no key and no later migration names are left out, and so
are indexes that are not UNIQUE. A statement with several clauses is several
statements here, which is the same inside a transaction. The databases are
external: DDL is taken to be transactional in CockroachDB as in PostgreSQL.

### SigningKeys

`SigningKeys` follows one key of a running server: `Rotate` (outside the
program), `CacheSnapshot` (the listener), `ReadKey` and `Sign` (two steps:
the code awaits in between), `Restart`. `Accepted` is `ValidateTokenService`
or `ValidateTFAService`. `Millis` milliseconds make a second, and `Second`
is the rounding. `kind` is tokens or codes, `source` Firestore or the
isolated repository: one module, and one run, for the four combinations.

### LoginSessions

A request is its guard, which reads an account and starts it (`CheckPassword`,
`CheckTFACode`, `RefreshTokens`, `JwtGuard`), and its handler (`GenTFA`,
`UpdateUser`, `DeleteUser`, `CreateToken`); `CreateUser` is the sign-up, whose
answer are tokens too. `Handle` takes the steps of the handlers, for any number
of requests at once. `SwitchTwoFactor` is an operator's: no request writes
`users.tfa`. Which signatures and times are good is left to `SigningKeys`.
Refresh goes by the address in the token, not by its `sub`: a session continues
with the account that has the address, also if that is a later account of
somebody else. No document says otherwise, and no property rules it out:
`DeletedStaysOut` is about the account that is gone.

### PartialUpdates

`PatchUser` to `PatchCondominium` are the guards, `UpdateUser` to
`UpdateCondominium` service and statement, `Refused` the refusal by UNIQUE of a
name or CEP that another condominium has, `CreateToken` the answer. A PATCH that
asks for nothing succeeds: the statement for a condominium sets `updated_at`
alone, which is left out, and the other three run none. `Modifications` drops falsy values, as the
services and repositories do. `AtomicUpdates` is the promise: a request writes
all it asks for at one instant, or nothing. The mapping shows each request as
what it has still to write.

### KeySync

`KeySync` is what `SigningKeys` takes for granted: `Fetch` and `CacheFetched`
(the get, and what is done with it), the listener's `Snapshot`, and
`execAsFatalError` as `ExecAsFatalError`, `Report`, `Resume`, `Restart`. A
document is a number: 0 missing, negative malformed. `getSignature` has a
fatal branch of its own, for a key that is not cached: `KeysBeforeRequests`
shows that it is reached only when the fatal exit has already begun, so it is
not an action. A crash of the process at any other moment leads to what
`Init` and `Restart` already describe.

### InviteDelivery

`BuildInvites`, `CreateMany`, `SendInvite` are the upload; `Deliver` and
`Refuse` the listener and the SMTP server; `Crash` any other end of the process;
`SignUp` and `RemoveMember` what other requests do with an invitation.
`reloadInvite` has a controller, but no Nest module registers it: nothing sends
an invitation a second time.

### NumberColumns

The constructors test a length and `Number()`, so they let more pass than
digits: blanks and tabs, a sign, a point, an exponent, `0x`, `0b`, `Infinity`. A
text is therefore its digits, its length, and its form, which tells what each
reader makes of it: `Accepts` (with `CheckDigit` and `IsCpf`) is the
constructors, `ParseInt` what a mapper makes of a CEP, `Cast` what the database
makes of a text it is given for a column of numbers, `Fits` the range of a
`bigint`. A column keeps the number, that is, its digits without leading zeros.
`Insert` and `Update` are the two ways in, which differ for a CEP; `Reject` is a
text that the constructor accepts and ViaCEP or the column does not; `Load` is
`toClass`. `parseInt` of a column makes a double of it: `AsDouble`, exact for 15
digits, and given by the constant `Rounded` for more (the MC module has the values
that node prints). Digits alone are always read, so what the model leaves open
about casts (prefixes, which versions of PostgreSQL treat differently) only adds
`Reject`.

## 3. Runs

| Run | Distinct states | Question |
|---|---|---|
| `registry_safety` | 16,332 | do the tables stay consistent, and do requests reach what they must and nothing else, however late their handlers run? |
| `races` | 27,066 | the same for one person, statement by statement, with crashes; does every request end, and is what it commits one step of the registry? |
| `schema` | 865 | do both histories of migrations build the schema of the entities, undo what they do and keep the values? |
| `keys` | 376,764 | which tokens and codes survive rotations, cache lag and restarts, with Firestore and without? |
| `logins` | 493,609 | whom do codes and tokens let in, while accounts go and addresses come back? |
| `updates` | 89,965 | are the PATCH requests atomic updates of what was sent, and do their answers show it? |
| `key_sync` | 4,058 | start-up and listeners against documents that come and go |
| `invite_delivery` | 66,029 | when does a code arrive, and what is left when it cannot? |
| `number_columns` | 12,554 | which texts are accepted, which do the columns take, and what is read of them? |
| `*_doc_*` | | what the documents or tests say and the code does not do (section 6) |

**Bounds, and why they are enough.**

* `registry_safety`: three registries and accounts, two memberships and
  condominiums, three e-mails, two CPFs, uploads of up to two rows, two
  approvals that wait. A person in two condominiums, two persons with one CPF, an
  e-mail invited with two CPFs, an owner who is deleted together with a resident
  or an employee of the condominium, and an upload of a known and an unknown
  person all occur. Two memberships are enough: each property speaks of one
  membership, and a request touches those of one person or one condominium, of
  which there can be two, or two others. Two approvals let one request undo
  what the other's guard has read, at any distance. Keys, e-mails and numbers
  are symmetric.
* `schema`: no bound but that there are two histories of two migrations: all
  statements, any number of commands, stopped anywhere, any set of tables with
  rows.
* `races`: two sign-ups, one removal, one upload, two memberships of one person.
  Two sign-ups are what it takes to collide on one invitation, or on two
  invitations of one person; the removal and the upload each meet either. The
  run that checks liveness has no symmetry.
* `keys`: two milliseconds per second, so that a key can be rotated in the
  middle of one and at its start; three keys, so that a token can be younger
  than one rotation and older than two, or a server restarted twice; tokens
  that live three seconds of a run of four, long enough to outlive a rotation
  and short enough to expire; two requests, two tokens.
* `logins`: three accounts and two addresses, so that an address changes hands
  twice while another account exists; two requests at once, one with an old copy
  and one that changes what it was copied from. Uuids are handed out in order
  (`UuidsInOrder`), since new ones are interchangeable.
* `updates`: two requests about one user, one member or two condominiums (the
  UNIQUE columns need two), one table at a time, since no request touches two.
  A falsy value where there can be one, two other values for names and CEPs: a
  lost update of a name shows only with two.
* `key_sync`: two keys, one with another still to be fetched and one without;
  three documents written, enough to break a document and repair it, or to
  overtake the start-up on one key while the other is broken.
* `invite_delivery`: two uploads of at most two persons, overlapping or not,
  the same person twice included; one end of the process, anywhere.
* `number_columns`: all CPFs over two digits with right and wrong check digits,
  texts of one character less and more than each length, with any number of
  leading zeros, in each of the six forms; phone numbers of up to 20 digits,
  among them ones that a double rounds, the largest `bigint` and the next number.

The theorems of section 5 remove these bounds for every safety property of the
runs but those of `schema`, which has none; they are what liveness rests on.

`CHECK_DEADLOCK FALSE` appears where the system rests: all requests of a run
made, all documents written, one text loaded.

**Fairness, and why the code justifies it.**

* `SigningKeys`: weak fairness of `CacheSnapshot`. Firestore delivers the last
  state of a document to a listener eventually. Nothing else has to happen.
* `KeySync`: gets and error reports are answered, every listener with a snapshot
  runs, the SIGTERM the process sends itself is handled, and App Engine starts
  the instance again. Documents need not be written.
* `InviteDelivery`: the event loop goes on with every upload in progress, and an
  e-mail handed to the SMTP server is delivered *or* refused. That it is
  delivered is not assumed; clients need not do anything.
* `GuardedRequests`, `SchemaMigrations`, `LoginSessions` and `PartialUpdates` say
  what may not happen, and assume no fairness.
* `SignUpRaces`: a request in progress takes a step whenever the database lets
  it. The deadlock detector of PostgreSQL is such a step.

## 4. What the runs show

* Registry: the invariants of the run hold in every reachable state. An invitation
  that its addressee could use stays usable until it is consumed, withdrawn or
  the addressee registers elsewhere (`UsableUntilRegistered`). Memberships
  are linked only by the sign-up that consumes their invitation
  (`LinkingConsumesTheInvite`), the deletion of an account reaches everything
  of the person (`DeletedAccountLeavesNothing`), and a registered person
  loses memberships in three ways only (`RegisteredMembershipLoss`).
* Guards: a request that waits between guard and handler does to the tables what
  somebody entitled to it could have asked for at the moment it does it
  (`LateRequestsActLikePromptOnes`): foreign keys refuse what no longer has a
  condominium, and the keys of a request never name rows of others. Entitled
  means entitled by the guards: an employee of any condominium may remove any
  membership, and an employee is deleted by uuid, whoever's employee it is,
  which is what `DELETE /user` does. The exception is named in the property: a
  sign-up whose invitation is gone makes its account all the same.
* Races: the UNIQUE columns and the foreign keys keep `OnePersonOneAccount` and
  `InvitationXorAccount` true at every commit. Whichever requests wait for each
  other, one of them can go on or is in a cycle (`WaitsEnd`), so deadlocks between
  a sign-up and a removal are broken (`RequestsEnd`). What a request commits is what
  `CondominiumRegistry` does in one step (`CommitsAreRequests`), but in two
  cases: a sign-up succeeds after its membership is gone (section 6), on a new
  registry or on one that an upload has made since; and a removal that found no
  account deletes the account that was made meanwhile. Both occur.
* Schema: each `down` undoes exactly what its `up` does, although the columns it
  brings back are written anew (`SchemaIsThatOfItsMigrations`), and both
  histories lead to the keys and cascades of the entities
  (`MigratedSchemaFitsTheEntities`; the first of them also leaves the table
  `enterprise_members`, which no entity uses). `AddUniqueRegistries` drops
  columns with data, and yet an upgrade loses nothing
  (`OnlyUndoingLosesValues`): a NOT NULL column without a default refuses every
  table with rows. The other side of it is that a used PostgreSQL database
  cannot be upgraded.
* Keys: the comparison of rounded times never rejects a token signed with the
  cached key or, in an earlier second than the rotation, with the one before
  (`OneRotationLogsNobodyOut`). The exception is in the property: a token
  signed in the very second of the rotation, with the old key, is checked
  against the new key and rejected. It stays so (`RejectedStaysRejected`).
* Reads: the lists of residents and employees, the answers about an account and
  the guard of members give the same picture (`ListsAgree`), although they
  join different tables; and an account owns, works in or lives in one
  condominium at most (`OneAccountOnePlace`). The schema does not say so, and
  the removal of an employee, which deletes the account, is harmless only
  because of it.
* Logins: the signature of a code names the uuid, so that a code never logs in
  another account than the one it was made for (`TwoStepsOneAccount`), although it
  is looked up by address. A request that is past its guard goes on for an account
  that is gone, and answers tokens that do not let it in (`DeletedStaysOut`); a
  refresh token among them finds whoever registers the address again.
* PATCH: with the guard's old copy in hand, the code neither writes it back
  (`UpdatesAreAtomic`) nor shows it where it knows better
  (`TokensShowTheAccount`). Dropping falsy values means that no column is ever
  emptied, nor a number set to 0 (`NothingIsErased`, which is proved only).
  `UpdatesAreAtomic` takes what a request asks for after that: it does not tell
  whether dropping them was meant.
* Delivery: an invitation whose code was cut off by the end of the process
  blocks a new invitation until the membership is removed
  (`StrandedUntilRemoved`): the program has no other way out.
* Start-up: the malformed document that goes on with the promise of its error
  callback caches a key without content, and listens on; the fatal exit has
  begun by then (`KeysBeforeRequests`), and it ends the server
  (`BrokenDocumentEndsServer`). Between the get of a key and its listener, or
  between two snapshots, no write gets lost: a listener that has nothing left to
  report has cached the document as it is (`NoWriteIsMissed`).
* Numbers: a CNPJ or CEP of digits comes back; one with a blank or a sign in it,
  which the constructors accept, comes back as the same number with zeros in
  front, and is the same as that to UNIQUE (`CondominiumNumbersComeBack`). Nothing
  is said of a point, an exponent or a prefix in one, which are accepted as well:
  of a new CEP `parseInt` may read a part, so that another text comes back. A phone
  number may lose leading zeros beyond ten digits, and up to 15 significant digits
  nothing else (`OnlyLeadingZerosAreLost`); a longer one may come back as another
  number, and beyond the `bigint` is refused by the statement. CPFs come
  back unless they start with a zero, and then cannot be read at all
  (`CpfIsReadUnlessItStartsWithZero`, which is proved only; section 6).

## 5. Proofs

Everything here is checked by TLAPS, down to the last leaf, for every value of
the constants that the named assumptions allow. The assumptions say no more than
what the constants stand for: the NULLs are not values, keys of different
kinds are different, bounds are numbers, time is counted in positive units.
Every invariant below was checked by TLC on the instances of section 3 before it
was proved.

**Registry, reads and guards** (`CondominiumRegistryProofs`, from
`NullsAreNoValues`). The inductive invariant `IInv` is the conjunction of seven
invariants: `TypeOK`, `ReferentialIntegrity`, `UniqueColumns`,
`LinkedAccountIsThePerson`, `ResidentHasInviteXorAccount`,
`InviteAddressesItsMember` and `ResidentsHaveInfos`. They are inductive together
and none by itself: the cascades preserve a conjunct only if the others hold (an
invitation goes with its member because it belongs to that member's
condominium), and the sign-up consumes the right invitation only because an
invitation is addressed to its own member. One lemma per kind of request;
`DeleteRows` is treated once for the four requests that delete. `ListsAgree`
follows from `IInv`, `OneAccountOnePlace` needs `LinkedOnceOrOwner` besides: no
account is linked twice, and none that owns is linked. For the action properties
a step is one of three things (`Steps`): it adds rows and changes none, it links
one membership, or it is a cascade; each property is proved of each of the three.

The second half is about `GuardedSpec`, the specification the run
`registry_safety` checks. `LateRequestsActLikePromptOnesHolds`: a handler,
however late, takes a step of `Next`, or makes an account without a membership,
which preserves `IInv` too. The only thing to know of the requests that wait is
`ApprovedInvitesMatch`, that an approved invitation still says what it said: the
addressee of a membership never changes, and no new row gets a key that a
request still names. All eleven properties of the run are then theorems of
`GuardedSpec` (`Guarded...`). One more theorem joins two modules:
`GuardedAccounts` says that accounts come and go one at a time, keep their address
and share none, which is what `InsertUser` and `DeleteAccount` of `LoginSessions` take
for granted. A deletion takes one account because an account goes only with its
registry (`OneAccountGoes`), an insertion brings one (`OneAccountComes`), and
`UniqueColumns` makes addresses name accounts.

**Races** (`SignUpRacesProofs`, from `RequestsAreApart`). `OnePersonOneAccount`
and `InvitationXorAccount`, for any number of sign-ups, removals and uploads, with
deadlocks and the end of the process. The argument is that of two-phase locking:
what a transaction has read and relies on until it commits is locked, so whoever
could change it would hold a lock that conflicts (`Conflict`). `IInv` says for
each request and each of its statements what its uncommitted writes are and which
locks protect them (`SignUpInv`, `UploadInv`, `RemovalInv`, `InsertsRegistry`,
`InsertsAccount`, `InsertsMember`); `CommitOf` is what the other requests can
see of a commit, and `OthersRely` that none of them relied on anything else.
The same invariant gives the refinement, `CommitsAreRequestsHolds`: each
statement leaves the tables alone, and each commit is one step of
`CondominiumRegistry` with the mapping of `Registry`. For the removals one more
invariant is needed (`RefinementInv`): the registry a removal goes by is still that of
its membership, and a removal that passed the registry by did so because there
is an account or no registry any more. It is this that shows the two exceptions
of the property to be the only ones.

The last part proves what liveness rests on. `RequestsGoForwardHolds`: each step of
a request, a rollback included, brings it nearer to its end (`StepsLeft`, seven
at most), and no step of others sets it back; every action is shown to be of this
kind (`Advances`). `WaitsEndHolds`: among requests that wait for nobody outside,
one is blocked by nobody or is in a cycle of `BreakDeadlock`. Two more facts are
needed (`WaitInv`): locks belong to requests in progress, so a rollback or commit
leaves none behind, and only finitely many requests are in progress at any moment,
although there may be infinitely many in all. The cycle is then the smallest set in
which everybody is blocked by somebody of the set (`SomeCycle`, by the well-founded
order of the subsets of a finite set). What is missing to `RequestsEnd` is that
fairness turns "can go on" into "goes on".

**Numbers** (`NumberColumnsProofs`, from `TextsAreTexts` and `RoundedAreNumbers`).
All three invariants, for any texts of any form and length, and exactly which CPFs
are lost
(`CpfIsReadUnlessItStartsWithZeroHolds`): the model's side of the finding of
section 6. Two things are found by induction: that the sum under a
check digit is a number (`SumIsNatural`), and that a text that is not all zeros
has a first digit that is not (`FirstPosition`). The induction is by hand, on the
set of counterexamples and its least element (`WFMin`), for a fold is a recursive
function on sets whose existence has to be shown as well. The rest is
arithmetic: the remainders 0 and 1 give the digit 0 both ways (`Remainders`), and
padding undoes what `parseInt` takes away (`PaddedNumber`, `NumberOfPadded`).

**Keys** (`SigningKeysProofs`, from `ClockIsSane`). All safety properties of the
run: `OneRotationLogsNobodyOut`, `RejectedStaysRejected`,
`SignedWithCurrentKeyOrDead`, `RestartEndsSessions`. The keys that are cached or
on their way are successive rotations of one key (`KeyChain`), numbered from the
cached one on: numbering each from the one before would need an induction on the
length of the feed. A request signs with one of them that is not newer than the
cached one (`SignersAreCachedOrOld`), and a token is not older, in seconds, than
the key it is signed with (`TokensFollowTheirKeys`). Rounding enters only by
`SecondsAreOrdered`.

**Start-up and listeners** (`KeySyncProofs`, from `SignaturesAreApart`: no key is
listed twice). `KeysBeforeRequests`, `NoWriteIsMissed` and `CacheNeverGoesBack` for
any number of keys and writes. The invariant adds to `TypeOK` that ages are bounded by the
number of documents written, that the store is at least as new as what is
cached or fetched (`StoreIsAhead`: the reason why a late get cannot bring an old
key back), and that every key with a listener has been cached
(`ListenersHaveKeys`), which start-up turns into `KeysBeforeRequests` when it
passes the last key.

**Delivery** (`InviteDeliveryProofs`, from `BoundsAreCounts`).
`NoMailWithoutInvite`, `CodesAreLostOnlyWithTheProcess` and
`StrandedUntilRemoved`, for any persons, uploads and ends of the process. An
invitation is of an upload that has been stored (`InvitesAreStored`), and an
upload e-mails nothing before (`MailsFromTheFirst`): the position of its next
e-mail then tells which codes can still leave.

**Logins** (`LoginSessionsProofs`, from `NoUserIsNoAccount`). `TwoStepsOneAccount`
and `DeletedStaysOut`, for any number of accounts, addresses and requests. The
invariant adds that a code was made of the account whose password was checked
and with the address that account was registered with (`CodesAreOfTheAsked`): the
check of the signature then makes the account that is found by the address the
one that was asked.

**PATCH requests** (`PartialUpdatesProofs`, from `KeysAreDisjoint`). The
properties of the run and `NothingIsErased` for any tables, values and requests,
among them the refinement (`UpdatesImplementAtomic`): each step is a step of
`AtomicUpdates` or leaves its variables alone. `TokensShowTheAccount` speaks of
the end of a request and holds because the same is true before the update
already (`CopiesAreRight`).

Proved only, without a run of their own: `UniqueColumns`, `ResidentsHaveInfos`,
`NothingIsErased`, `RequestsGoForward`, `AccountsKeepTheirAddress`,
`CpfIsReadUnlessItStartsWithZero`, and the `TypeOK` of each module with a theorem but
`NumberColumns`, whose `IInv` says it (`TypeCorrect`).

Only model-checked:

* liveness (`RequestsEnd`, `CacheCatchesUp`, `EveryCodeArrives`,
  `RepairedDocumentsServe`, `BrokenDocumentEndsServer`): these need fairness
  and `ENABLED`, which the provers do not handle (for `RequestsEnd`, the rest is
  proved);
* the properties of `SchemaMigrations`: it has no constants but the two
  histories and visits all their states, so a proof would show no more than the
  run.


## 6. Where documents and code disagree

| Run | Property | Disagreement |
|---|---|---|
| `registry_doc_invited` | `InvitedPersonCanRegister` | the API document lets every invited person register; an invitation made with another CPF than the registry of that e-mail has can never be used |
| `races_doc_account` | `NewAccountIsLinked` | the repository's test double refuses a sign-up whose membership is gone; the database does not notice, and an account without a membership is left |
| `number_columns_doc_cpf` | `CpfComesBack` | the mapper's test expects the registry back it wrote; with a CPF that starts with 0 the mapper throws, and every read of that person fails |

Six more, without a run of their own: `docs/openapi/openapi.json:227` has the
deletion of a condominium delete the accounts of its employees, and the code
leaves them without a membership; `docs/openapi/openapi.json:144` and the DTOs
accept a number of 0, which the updates drop, answering 200 (`NothingIsErased`
is the other side of it); `docs/dbdocs/database.dbml` declares
`unique_registries.cpf` unique, and no constraint exists; and a removal of a
membership whose person has no account also removes that person's memberships
in other condominiums; and `docs/openapi/openapi.json:417` says of that request
that it "unlinks" ("Desvincula") a member, where one that found no account deletes an account
that has been committed meanwhile (`RemovalAfterSignUp` in
`CommitsAreRequests`); and `_rules/user.ts:16` and the DTOs take phone numbers of up
to 20 digits, where the column holds 19 and the mapper reads 15 exactly, so that a
longer one may fail in the statement or be answered as another number
(`AsDouble`, `Fits`; the run has such numbers).

## 7. Not modelled, and why

* **DTOs, interceptors, throttling, health, logging, tracing, configuration,
  deployment**: they change no state, or only format it. Requests start from
  DTOs that are valid.
* **HTTP filters**: stateless maps from errors to answers, one branch per error; a
  property of them would repeat the branch. (Worth knowing beside the models:
  the guards turn every error of a read, also an outage, into a 401.)
* **Other value objects and entities**: checks of length and range, one field at
  a time.
* **Passwords and the signed cookie**: adapters over libraries; what they
  answer decides whether a login starts, not what it leads to.
* **`secrets` cache repository**: nothing calls it (its `delete` would miss what
  its `add` wrote: the key lacks the prefix).
* **Code lengths, hash collisions**: codes are distinct values.

## 8. Plan

Written, in this order, the most important behaviour first:
`CondominiumRegistry` and its proofs, `SignUpRaces`, `SigningKeys`, `KeySync`
and its proofs, `InviteDelivery`, `NumberColumns`, `CondominiumReads`,
`LoginSessions` and `PartialUpdates`, each of these with its proofs;
`SchemaMigrations`; `GuardedRequests`; the composition of `SignUpRaces` with
`CondominiumRegistry`. An abstract specification of one person was planned
besides; `CondominiumRegistry` itself is that specification for `SignUpRaces` and
for `GuardedRequests`.

Every safety property of the runs is proved (section 5) except the three of
`SchemaMigrations`, and of the liveness of `SignUpRaces` all but the use of
fairness. Left:

1. The statements of `SchemaMigrations`, one `down` against its `up` at a time.
2. A model of how accounts change their e-mail address, should the program ever
   let them: `AccountsKeepTheirAddress` and `LoginSessions` would both have to
   change with it.
