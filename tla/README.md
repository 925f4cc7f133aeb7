# Punku: a verification project

Punku (`src/`) is an authentication and authorisation server: a NestJS
application with a GraphQL interface over TypeORM and PostgreSQL. This directory
holds TLA+ modules that model how it starts, opens and verifies accounts and grants
permissions, TLC configurations that check them on small instances, and proofs that
TLAPS checks for all sizes.

Paths below are relative to the root of the repository, `src/…` being its
source directory.

## 1. Inventory

| Component | State it keeps | Operations | Modelled by |
|---|---|---|---|
| Unit of work and connection pool (`src/database/database.service.ts`) | a query runner and its transaction; the promise of `complete`; the pool's connections | `makeUnitOfWork`, `start`, `complete`, `getRepository` | `UnitOfWork` |
| Sign-up validation (`auth.service.ts:136-184`, `UserCreateInput.ts`) | none | a chain of checks, decorators | `SignupValidation` |
| Registration (`auth.service.ts:119-232`, `users.service.ts:28-43`, `users.resolver.ts:46-65`) | rows of `user`, their roles and permissions, the caller's answer | the mutations `signUp` and `create` | `Registration`, `AtomicSignup` |
| Verification mail (`auth_email.service.ts`) | the mail under way | `sendVerificationEmail` | part of `Registration` |
| Email verification and sign-in (`auth.service.ts:67-99, 240-309`) | `verified_email`, tokens that live 60 s | `verify`, `authenticate`, `createConfirmationUrl`; `isAuthorized` | `Verification`; `isAuthorized` in `Grants` |
| Roles and permissions (`auth_roles.service.ts`, `auth_permissions.service.ts`) | the grants of a user | `addRole`, `removeRole`, `addPermission`, `removePermission`; `create`, `update` | `Grants`; `create` and `update` in `Seeding` |
| Start-up seeding (`auth.module.ts:55-87`, `loadRoles`, `loadPermissions`) | rows of the role and permission tables | `onModuleInit`, `loadRoles`, `loadPermissions` | `Seeding`, `AuthSystem` |
| Users service (`users.service.ts`) | rows of `user` | `create`, `save`, `update`, `isAuthorized`, finds | `create` in `Registration`, `update` in `Verification`, `save` and `isAuthorized` in `Grants` |
| Users queries, passport strategies, error formatting, logging, application shell, configuration, Redis | none of their own | reads, wiring, wording | not modelled (section 9) |

**How they interact.** A GraphQL resolver calls a service and awaits it.
`register()` checks its input synchronously, then makes a unit of work, starts
it, and hands `complete()` a closure. The closure passes the unit on to
`UsersService.create`, `addRole` and `addPermission`, so that their queries all
run in one transaction on one connection. When `complete()` resolves,
`register()` sends a mail. The `create` mutation calls the same
`UsersService.create` without a unit: each query then takes a connection of its
own, and `save` opens a transaction of its own. All calls share one pool and one
database; there is no other shared state and no lock in the code. The process is
single-threaded, so the interleavings are exactly those of the awaits, plus the
server's COMMIT, which takes effect before its answer arrives.

**What makes it hard.**

* *Look-up, then insert.* The two look-ups of `UsersService.create` hold no lock.
  The unique indexes of `user.entity.ts:37-42` decide, by an error the code does
  not recognise, after waiting for a rival that may still roll back.
* *COMMIT and its answer.* A connection lost around COMMIT leads the code into
  its `catch` whether or not the server committed.
* *The catch block that throws.* `rollbackTransaction()` fails when the
  connection is gone, and `reject(error)` behind it does not run.
* *The pool.* A unit holds a connection while it waits for rivals' rows. A query
  outside the unit would need a second one.
* *Four saves are one account.* The row, its role and two permissions.
* *The mail comes after the commit*, and in production nobody waits for it.
* *Rows judged after an await.* `verify` and `authenticate` decide on the row they
  read before the update and before `bcrypt.compare`; the link lives 60 seconds.
* *Whole entities written back.* `save(user)` writes every column and grant of an
  entity its caller read some time ago. A failed save leaves the entity changed.
* *Identity.* `includes(role)` compares objects, and a role that was just loaded is a
  new one.
* *Several processes over one pair of tables.* Starts race each other and the editors;
  a start may find what a crashed one left. `loadRoles` returns before its saves end.

The list with lines is `hazards` in `PROJECT.json`.

**What makes each component correct.** Unit of work: a settled promise says what
the server decided; every connection comes back; every caller is answered.
Validation: exactly the valid forms pass, and what an error says is true of the
form it is told to. Registration: an account appears whole, once, under names nobody else has;
every answer agrees with the database for good; nobody waits for ever. Mail: only
for committed accounts. Verification: an account becomes verified once, by a token
made for it, and no unverified user signs in. Grants: no grant is lost or revived.
Seeding: every code exists once, and before it is needed.

## 2. Plan

The order puts what every account goes through first.

1. `UnitOfWork` with `UnitOfWorkProofs`: done.
2. `SignupValidation` with `SignupValidationProofs`: done.
3. `Registration`, composed of the two, with the abstract `AtomicSignup`, and
   `RegistrationProofs`; that it implements `AtomicSignup`, in `OpeningProofs`: done.
4. `Verification`: `verify`, `authenticate`, the token and its lifetime, over accounts
   that open as `AtomicSignup` says; `VerificationProofs`: done.
5. `Seeding`: `onModuleInit` of two processes over one database with crashes and
   restarts, `loadRoles` and `loadPermissions`, `create` and `update`; `SeedingProofs`:
   done.
6. `AuthSystem`: servers that start and open accounts on what `Seeding` left, against
   `AtomicSignup`; `AuthSystemProofs`: done.
7. `Grants`: adding and removing grants of one user on entities read earlier,
   `isAuthorized`; `GrantsProofs`: done.
8. Left to prove: what `AtomicSignup` promises (one owner for each username and email,
   answers that agree with the accounts for good) as theorems of its own, carried over to
   `Registration`, `AuthSystem` and `Verification` by their refinements.

## 3. Modules and the code

| Module | Role |
|---|---|
| `UnitOfWork` | `start()` and `complete()`, one action per way an await can end; pool; faults |
| `MCUnitOfWork` | its instance |
| `UnitOfWorkProofs` | its theorems |
| `SignupValidation` | the checks as operators on forms |
| `MCSignupValidation` | every boundary form, resubmitted |
| `SignupValidationProofs` | its theorems, for forms with fields of any length |
| `AtomicSignup` | what opening an account promises, without transactions |
| `Registration` | concurrent `signUp` and `create`; `INSTANCE`s `UnitOfWork`, extends `SignupValidation`, implements `AtomicSignup` |
| `MCRegistration` | its instances, and two statements of the tests that the code does not live up to |
| `RegistrationProofs` | its theorems: it implements `UnitOfWork`; types, whole accounts, honest answers, mails, waiting |
| `OpeningProofs` | extends it: rivals and their errors, and that `Registration` implements `AtomicSignup` |
| `Verification` | the mailed link, `verify`, `authenticate`; `INSTANCE`s `AtomicSignup` |
| `MCVerification` | its instances, and a statement the code does not live up to |
| `VerificationProofs` | its theorems |
| `Seeding` | the tables of roles and permissions: starting processes, scripts that load them, editors |
| `AuthSystem` | extends `Seeding` with the accounts opened on it; implements `AtomicSignup` |
| `MCAuthSystem` | its instance |
| `SeedingProofs`, `AuthSystemProofs` | their theorems; the second extends the first |
| `Grants` | the grants of one user, changed through entities read earlier; `isAuthorized` |
| `MCGrants` | its instances, and a statement the code does not live up to |
| `GrantsProofs` | its theorems |

### `UnitOfWork`

One unit per `register()` call. `phase` is where `start()` and `complete()` stand:

| phase | the unit is awaiting |
|---|---|
| `new` | nothing yet |
| `connecting`, `beginning` | `startTransaction()` (line 31): the pool's connection, then the statement |
| `working` | `work()` (48) |
| `committing` | `commitTransaction()` (50) |
| `rolling` | `rollbackTransaction()` (54) |
| `closed`, `failed` | nothing: `release()` ran (58), or `start()` rejected |
| `killed` | nothing: the process died |

`tx` is the server's side of the transaction, `promise` the promise of line 44,
`held` who has a connection, `broken` the units whose connection was lost.
`release()` puts the connection back at once, so it is part of the action that
ends the unit (`Close`), as the `finally` block is. `RollbackFails` is the path
where line 54 throws: it closes and leaves `promise` pending. `CommitExecutes` is
the server's step and `CommitReturns` its answer; `Break` may fall between them.
`BeginFails` keeps or drops the connection, since drivers differ in whether a
client that reported an error leaves the pool; the code itself never releases it
on this path.

### `SignupValidation`

A form keeps of each field what the checks look at: length and kind of characters
of the username, well-formedness of the email, length of the password, whether
the name is empty, spaces, text or a text of over 255 characters (which only
`create` refuses), whether a token is there and valid. `Verdict` is the chain of
`register()`, in its order; `CreateAccepts` the decorators of `UserCreateInput`. What
`validator.isEmail` decides is the field `wellFormed`. `Wrong` in
`MCSignupValidation` says for each error, in its own words, what a form must look like
that is told it, and `GoodBefore` which fields must then be in order.

### `Registration`

`pc` follows a call through its awaits; while it is in its unit, `phase` of
`UnitOfWork` moves with it: the variables of `UnitOfWork` are variables of this
module, and each step of a call that concerns its unit *is* an action of
`U == INSTANCE UnitOfWork`. `row[c]` is the user row that call `c` inserted:
`none`, `pending` (undecided) or `committed`; `grants[c]` the role and permissions
joined to it; `err[r]` what the work threw; `mail` the verification mail;
`outcome` the answer.

`LookUp` sees committed rows of others (PostgreSQL's READ COMMITTED); `Insert`
waits while a rival's row with the same username or email is undecided, as the
unique index makes it, and `InsertViolates` is the refusal once a rival committed.
`CommitFails` and `QueryFails` put into `err` what `Translated` turns into
`UserWasNotCreated`. `AddRole` and `AddPermission` are the find by code, the push
and the save: a code that is not in the table pushes `undefined`, which `save`
passes over. In production `SendMail` answers the caller at once; otherwise the
call waits in `mailing`. `MailThrows` is the `catch` behind the mail: signing the link,
reading the templates and setting the client's key may throw before anything is sent,
in production too; the sending itself only where it is awaited.

A `create` call looks up twice with one-query connections (they need a free slot
and are not seen to hold it), then borrows a connection for `save`, inserts,
commits and gives it back. `CreateFails` keeps a row whose commit had taken effect:
its caller is told `QueryFailed`, which promises nothing.

`Crash` ends every running call, empties the pool and aborts what was undecided;
calls not made yet are made to the restarted process.

### `AtomicSignup`

Accounts appear whole and at once, under a username and an email of their own; a
call is answered once, `opened` or `refused` according to whether its account
exists, and opens nothing afterwards. `create` calls may also be told `unsure`.
`Registration` maps onto it with `accounts` the committed rows and `reply` the
class of `outcome` (`Reply`, `Accounts`, `Abstract` at the end of the module).

### `Verification`

Accounts keep opening while this module's calls run: `OpenAccounts` is any step of
`AtomicSignup`, which `Registration` implements, so nothing of the database's
transactions is repeated here. `SendMail` signs the link when the account is open and
`register()` has not answered (`MailFollowsCommit` of `Registration`); its token has
the username, the time it expires and, for the properties only, the email it went to.
A mail that is lost is a token nobody presents.

`verified` holds the calls whose account has `verified_email` set, `banned` those
whose `active` is clear. `verify`: `VerifyCalled` checks signature and expiry at once,
`VerifyFinds` is the look-up with the three checks after it, `VerifyUpdates` the
`UPDATE`, `VerifyReturns` the second read. `authenticate`: `SignInReads` takes the row,
`SignInCompares` judges that row after `bcrypt.compare`, in the order of `Judged`.
`input` keeps what a call was called with and, for the properties only, what was true
then: the time (`at`), whether someone had been told that the user is verified
(`told`), whether he was banned (`barred`). `Foreign` are tokens no mail carried: an
invitation, signed with the same secret but without `verification`, and a forgery.

### `Seeding`

`rows` are the rows of both tables (the code, who inserted it, whose update it last
got). `boot[i]` is where a process stands, `task[i][c]` the async function it runs for a
code: the body that `onModuleInit` maps over, and that `loadRoles` and
`loadPermissions` repeat.

| boot | the process |
|---|---|
| `down` | does not run |
| `roles`, `permissions` | awaits one of the two `Promise.all` of `onModuleInit` |
| `serving` | listens (`main.ts:11`) |
| `failed` | `bootstrap()` rejected: it runs, but does not listen, until somebody stops it |
| `script` | made the services without starting the application, as the tests do |

`TaskFinds` is the look-up and `TaskInserts` the insert, which another process may
come before (`TaskViolates`). `BootFails` leaves the functions that did not fail running, as `Promise.all`
does. `hurt` remembers, for the properties, whose start met a fault. `Load` is a call of
`loadRoles()` or `loadPermissions()` in a script, which returns at once; both may run
together, and each again when its functions have ended. A script may end (`Exit`) with
the functions it began still pending, since nobody waits for them.

An editor makes an entity and calls `create()` or `update()` with it as often as it
likes. `create()` looks the code up as it is written, and `SetCode`, the hook of the
insert, changes it to upper case. `update()` changes the row and then always fails:
`findOne(authRole.code)` takes a code for an id (`UpdateRereads`).

### `AuthSystem`

`SignUp` is served by an instance that listens; `OpenAccount` is what `Registration`
shows a sign-up to be from outside, with the codes that `There` finds at some moment
since the call. A call whose process dies is not answered.

### `Grants`

`row` is the user in the database: the codes granted, and the columns that others have
`updated` (`verified_email` set, `active` cleared). `user[h]` is the entity a caller holds: of each
code it counts the objects in `auth_roles` or `auth_permissions`, since `includes` and
`indexOf` compare objects. A call with a definition (`CallByDefinition`) loads the code,
which gives a new object: `FoundToAdd` pushes it, `FoundToRemove` never finds it in the
entity. A call with an object of the entity itself (`AddOwn`, `RemoveOwn`) skips the
look-up. `SaveLoads` and `SaveWrites` are TypeORM's `save`: read, compare with the
entity, write the difference (`Missing`, `Dropped`, `Saved`). `base[h]`, for the
properties only, is the row with which the entity was up to date as the last call
began, or `NoRow` once somebody else wrote the row or a save of `h` failed: then the
entity is not `Fresh`. `op[h].last`, for the properties, says that the call takes the
entity's only object of its code, which a definition never does. `seen[a]`, for the properties too, holds the answers that were
true at some moment since question `a` was asked (`Truth`). Nothing in `src/` but `register()` and the tests calls these
operations yet; `register()` does so on a row that nobody else can see.

## 4. Runs

| Run | Instance | Shows |
|---|---|---|
| `unit_of_work` | 3 units, 1 borrower, 2 connections, 2 faults, fair | no promise contradicts the server; connections are accounted for, and that of every unit that began comes back; only a lost connection makes a caller wait for ever; without faults every unit is served and settled |
| `validation` | every form at the boundaries | `register()` accepts exactly the forms its tests call valid; each error is told only to forms that have the fault its words speak of |
| `registration` | 2 sign-ups, 1 create, 2 connections, 2 lost connections or crashes, statements that fail by themselves, one permission not seeded | whole accounts, honest answers, true "already exists" errors, mails after commits, an owner with a connection for every undecided row, and `AtomicSignup`, whatever fails at any await |
| `registration_live` | 2 sign-ups, 1 create, 2 connections, 1 fault, fair | a unit may wait for a rival's row while it holds the connection a third call waits for: yet no undecided row makes its rivals wait for ever, without a fault everybody is answered, and who is refused without a reason has a rival that got the name |
| `verification_owner` | 2 sign-ups and a create for one username, 2 verifications, 1 fault | an account is verified only by a link mailed to its own email, in time |
| `verification_signin` | 1 sign-up, 2 verifications, a sign-in, a ban, 1 fault, fair | only verified users with the right password, not banned before, sign in; nobody told "verified" is turned away as unverified; a link presented in time verifies its account, also when presented twice at once |
| `auth_system` | 2 processes, an editor, 1 sign-up, a role and a permission, 1 fault, fair | every code exists once, in any spelling; who listens has them all, and who fails to start had a rival or a fault; starts and scripts overwrite nothing; `create()` tells the truth; accounts open whole, and are told so; a start over complete tables ends listening, and what a script began to load is there in the end |
| `grants` | 2 entities of one user, a role and a permission, an update, a question, 3 calls, 1 fault | a call on an up-to-date entity touches the grant it is about and nothing else, and is never refused by the primary key; only outdated entities lose others' grants and updates; `isAuthorized` says what was true while it ran |
| `registration_hang`, `registration_mail`, `verification_link`, `grants_removal` | 1 or 2 sign-ups; 1 or 2 entities | four statements of tests and comments that the code violates (section 6) |

Deadlock is checked in `validation`, `auth_system` and the two runs of `Grants`, where
somebody can always act. The other configurations turn it off because a behaviour is
finite: each call is made once and, when all are over or hang, nothing is
left to do. `EveryCallSettles`, `EveryUnitSettles`, `EveryRowIsDecided` and
`ConnectionReturns` say what deadlock checking would.

Every property has a mutant: an operator beside the definition it replaces,
commented *Mistake*, that changes the code as a slip would: `reject` before the
rollback, a missing `resolve`, `release` outside `finally`, a missing `await`, a
query that does not take the unit along, a mail sent inside the work, a commit
error that is only logged, an error translated by a copied line, no unique
constraint, a look-up with its condition reversed, a removal without its guard. TLC
finds the property violated with each.

## 5. Bounds, and why they are enough

* *Calls.* A race for a name needs two; the third caller (a `create`, which takes
  connections in another way) makes the case where one waits for a rival while
  another waits for a connection. Longer queues repeat these.
* *`Forms`.* Both fields equal, either equal, and a form that is refused: every way
  two accounts can clash.
* *`PoolSize`.* Always less than the callers: 2 with three calls lets one hold a
  connection while it waits for another's row, and a third wait for a connection. The real default is 10; connections are
  alike, so only the shortage matters.
* *`MaxFaults`.* 2 covers a second loss while the first is dealt with, and a crash
  after a lost connection. It caps the only counter, `faults`.
* *`FlakyQueries`, `Production`.* Statements fail by themselves in `registration`,
  and do not in `registration_live`: a call that waits for ever must not get away
  because its statement fails. `Production` is TRUE in `registration_mail` only, since
  it changes nothing before the mail; the theorems hold for both values of both.
* *`MaxFaults` in the runs with liveness* only bounds the faults: the properties that
  a fault excuses say so themselves (`faults > 0`).
* *`Lifetime`, `MaxClock`.* One tick and two: a link is presented before, at and after
  its expiry, and two links of different age exist. The code's 60 s is one tick.
* *Codes.* One role and one permission: roles are loaded before permissions, and what
  counts is whether a code is missing. That a second function of one table goes on
  after `Promise.all` rejected needs two codes in a table; the theorems on `Seeding`
  (section 7) are for any number of codes, no run has two. `normal` is a spelling that
  is not upper case. Calls of `create()` and `update()`, starts and stops are not bounded.
* *`Instances`.* Two race each other for a row; a third start is a restart of one.
* *`Editors`.* One, the rival of both processes.
* *`MaxCalls` of `Grants`.* Three: two calls that leave two objects of a code in an
  entity, and one of the other caller in between.
* *`Columns`.* One: `save` treats every column alike.
* *Symmetry* only among sign-ups, verifications and holders, which no constant tells
  apart, and in no run with a liveness property.

Every safety property that a passing run checks on a small instance is proved for all
of them (section 7).

## 6. What the code does not live up to

* **A lost connection leaves the caller waiting for ever**
  (`ProblemsAreReported`, run `registration_hang`).
  `complete()` awaits the rollback before it rejects; with the connection gone the
  rollback throws too, and since it does so inside an `async` promise executor
  nobody settles the promise. The tests expect `UserWasNotCreatedAuthError`
  (`auth.service.spec.ts:162`).
* **Success without a mail** (`SuccessMeansMail`, run `registration_mail`). In
  production `mail.send(msg)` is neither awaited nor returned
  (`auth_email.service.ts:87`), so the `catch` of `auth.service.ts:223` cannot see
  its failure.
* **The link does not wait for its confirmation** (`UrlAwaitsConfirmation`, run
  `verification_link`). The comment of `createConfirmationUrl` says the url "will be
  saved on redis awaiting for its confirmation" (`auth.service.ts:293-294`); it is a
  token that expires after 60 s and nothing issues another.
* **Removing a role removes nothing** (`RemovedMeansGone`, run `grants_removal`).
  `removeRole(user, AuthRoles.NORMAL)` loads the role and asks whether the user's list
  includes that object, which it never does (`auth_roles.service.ts:100`); no error is
  reported. `removePermission` is alike. "Removes a role from a user", says the comment
  (`auth_roles.service.ts:85`); the same holds after two additions, when one of two
  objects is removed.

More are behaviours a reader of the code may not expect, which the models contain
but no run singles out. Two sign-ups for one username that both pass the look-up: the
loser is told `UserWasNotCreatedAuthError`, not `UsernameAlreadyExistsAuthError`
(`RefusalHasCause` says that there is then always such a rival). And two verifications
that overlap are both told that they verified the user. Two servers that start for the
first time at once may both fail to listen, each for a row of the other; a second start
succeeds (`RestartServes`). `update()` of a role or a permission reports an error
after it took effect. An `addPermission` that failed and is repeated on the same entity
fails for good, because the entity then has two objects for one row
(`FreshSavesSucceed` is about entities that are up to date). `addRole` and
`addPermission` save the whole entity their caller read earlier: a user who verifies his
email while a role is added to him ends with the role and unverified again, and a grant
made meanwhile goes likewise (`OnlyStaleSavesRevert` bounds the harm: the save of an
entity that is up to date reverts nothing). And whoever awaits `loadRoles()` and
`loadPermissions()`, as the tests do (`users.service.spec.ts:40-41`), has waited for
nothing: `LoadedInTheEnd` says what can be relied on, that the codes come if the process
lives.

The first has a good side, which `HonestPromise` states: because `reject` comes
after the rollback, a COMMIT whose answer was lost is never reported as a failure.
A repair that rejects first would break that; it is the mutant
`CommitFails_RejectsFirst`.

## 7. What is proved

Every invariant, action property and refinement that a passing run checks is a theorem,
under the specifications without fairness and so under those with it. The theorems hold
for any number of calls, processes, forms, codes, connections, ticks and faults, under
the modules' assumptions:

* actors of two kinds are different (sign-ups and creates, processes and editors), as are
  the codes of roles and of permissions; `Upper` gives every spelling one that it leaves
  as it is, and leaves the codes as they are;
* the null values are none of the values they stand in for (`NoForm`, `NoHost`,
  `NoInput`, `NoUser`, `NoRow`, `NoCode`);
* bounds are natural numbers, the pool has at least one connection, switches are Boolean;
* a token that no mail carried is not signed or not for verification, and what sign-up
  grants is among the codes.

`UnitOfWorkProofs`:

* `TypeCorrect`, `PromisesAreHonest`, `OnlyBrokenHang`, `PoolIsAccounted`: the four
  invariants of `unit_of_work`.
* The inductive invariant of the promises is `Stage(u)`: what the phase of a unit
  says of its transaction, its connection and its promise. `HonestPromise` alone is
  not inductive: that `Rollback` aborts something, and not a transaction already
  committed, needs that a unit whose connection is well and that is `rolling` has its
  transaction open.
* For the pool, the number of leaked connections is bounded by the faults. Three
  lemmas say how the cardinality of a set changes with one element more or less;
  `PoolInvNext` goes through the actions.

`RegistrationProofs`:

* `ImplementsUnitOfWork`: every step of registration is a step of `UnitOfWork` or
  leaves its variables alone, so the component's theorems carry over
  (`CallsHaveHonestUnits`, and `UnitsAreStaged`, on which the rest is built).
* `RegistrationTypeCorrect`, with `VerdictType`: a form that fails is told an error
  of the chain.
* `AccountsAreWhole`, `RepliesAreHonest`, `MailsFollowCommits`, `WaitingIsAcyclic`:
  safety properties of `registration`. None of them is inductive: that a
  committed account is whole needs what `grants` holds at each earlier step, that an
  answer is honest needs where the unit stands when it is given. `CallInv` is the
  strengthening: `Place` (what the step of a call says of its unit), `RowFollows`
  (its row and its transaction), `GrantsFollow` (what it was granted at each step),
  `AnswerFits` (answers and mails), and `CreateInv` for the other mutation.
  `SignUpInvNext` and `CreateInvNext` go through the actions; the call the invariant
  is shown for is the one that moves or another one.

`OpeningProofs`, about the accounts as their callers see them:

* `ExistsIsTrue`, `RefusalsHaveCauses`, `AccountsOpenAtomically` (`OpensAtomically`:
  `Registration` implements `AtomicSignup`).
* The argument reduces the actions to five kinds (`Kinds`): seen from the accounts, a
  step is hidden, or is the insert, the commit, the call or the answer of one call. From
  there on little is said of units or queries. `KindsStay`: what was submitted and
  committed stays.
* `ExistsErrorsAreTrue` is not inductive: the error is thrown at a look-up and told only
  after the rollback. `CauseInv` keeps the cause from the moment `err` is set, `SaidInv`
  from the moment it is told, and both last because committed rows do. `UniqueInv`, the
  unique indexes, has to speak of undecided rows too: two of them with one username could
  both commit.
* The refinement goes by kind: a hidden step and an insert stutter; a commit is the
  opening, whole by `CallInv` (`RegistrationProofs`) and alone under its names by
  `UniqueInv`; an answer is `opened` or `refused` by `AnswerFits`.

`SignupValidationProofs`: `ChecksAreRight` is about every form, of whatever lengths, where
TLC checks the boundaries; `ValidFormsGoOn` and `ErrorsNameFaults` are the run's invariants.
The first broken check decides (`FirstDecides`), so whatever the checks before it ask for
is there. That each error's own words are true of the form (`Wrong`) then needs the order
of the chain: "length" is said only after the characters were found good.

`VerificationProofs`:

* `VerificationTypeCorrect`, `OwnersVerify`, `RightOnesSignIn`, `ToldStaysTrue`.
* `verify` and `authenticate` judge rows they read earlier, so the invariants must say
  what was found and why it is still so. `Grows`: accounts, links, verifications and bans
  are never taken back; `OwnersStay`: a username has one owner for good. `LinkInv` ties a
  token to the account and the email it was mailed to; `VerifyInv` and `SignInInv` say, for
  each await, what the call has found. `IInv` joins them with the types.

`GrantsProofs`:

* `GrantsTypeCorrect`: the number of objects of one code in an entity is at most the number
  of calls and one (`Counted`); without that the counts have no bound.
* `FreshCallsConfined`, `FreshSavesRevertNothing`, `FreshSavesDoNotClash` rest on `FreshInv(h)`:
  while nobody else wrote the row and no save of `h` failed, the row is what its last call
  began with, and the entity differs from it by what that call was asked for (`Wanted`,
  which for a removal by definition is nothing; `FreshCallsAreConfined` says less there,
  and would hold of a removal that works). The three properties are false of an entity that is out of date, so the proof for the write of
  another holder is that `h` is no longer fresh.
* `AnswersWereTrue`: the answer a question would get now is among those that were true since
  it was asked (`Witnessed`), through every write.

`SeedingProofs`:

* `SeedingTypeCorrect`, `CodesAreUnique`, `ServersAreSeeded`, `FailedStartsHaveRivals`,
  `EditorsAreToldTheTruth`, `StartsKeepRows`.
* `RowsChange` says once what any step may do to the rows: nothing, one row more with a code
  that nobody has, or another text in the row of an editor's entity. `SeedInv` is the
  strengthening: a function that ended left a row, and one that failed without a fault has
  a rival's (`TaskInv`); a process past a table has all its codes (`BootInv`); an editor's
  answer is about a row that is there (`EditorInv`).

`AuthSystemProofs`: the composed system implements `Seeding` (`SystemImplementsSeeding`), so
its theorems carry over (`SystemIsSeeded`). `SystemOpensWholeAccounts` is the refinement of
`AtomicSignup`: a call that a process serves has found every code (`Served`), because who
listens is seeded.

TLAPS checks every leaf; nothing is assumed besides the constants' assumptions and
the library's facts on finite sets and on the order of the natural numbers.

## 8. What is only model-checked

* Liveness (`ConnectionReturns`, `EveryUnitSettles`, `EveryCallSettles`,
  `EveryRowIsDecided`, `InTimeVerifies`, `RestartServes`, `LoadedInTheEnd`): leads-to under fairness and `ENABLED` are beyond the prover.
* The four statements of section 6, which are false: TLC shows a behaviour of each.
* That no property holds of whatever the code does: the mutants, each of which TLC refutes.

**Fairness.** In `UnitOfWork` every await ends (weak fairness of `Progress`,
which includes ending with an error), and `Connect` is strongly fair: the pool of
node-postgres serves its waiters first come first served, so a unit is not passed
over for ever while slots keep coming free, even if a borrower keeps asking.
Borrowers give back what they took. In `Registration` calls are finitely many and
each borrows a bounded number of times, so weak fairness of each call's steps is
enough. In `Verification` the steps of a call under way are weakly fair. In `Seeding` the
function for each code and the start of each process are weakly fair: every await ends.
No fairness is assumed of calls being made, of faults, of crashes, or of anybody
starting or stopping a process.
`EveryCallSettles`, `EveryUnitSettles` and `InTimeVerifies` excuse behaviours with a
fault, because there they are false (section 6; a verification that fails is told so).

## 9. What is abstracted or not modelled, and why

External, modelled from how the code uses it and marked so in `PROJECT.json`:
PostgreSQL (READ COMMITTED, unique indexes, abort of a session that ends), the pool,
TypeORM's `save` and `release`, the mail service. Deviations a reader should know:

* an `INSERT` and its index entries are one step. Two rows that clash crosswise
  (one on the username, one on the email) could in PostgreSQL wait for each other
  inside the insert until its deadlock detector fails one of them; here the later
  one waits;
* a query of a `create` look-up takes and returns its connection in one step, and
  look-ups of `create` do not fail by themselves (they would only reject the call
  before it has written anything);
* hashing the password, which `User`'s hooks do before the insert, is part of the
  insert;
* `Verification` leaves the pool out: its queries take and return a connection each.
  Nothing in `src/` bans a user or deletes one: `Ban` is an operator's, and accounts
  stay;
* no timeouts are modelled: the code sets none;
* in `Seeding` an insert and its commit are one step: a rival's insert waits for an
  undecided row, and fails or goes on once it is decided. An insert whose process dies
  takes effect before that process ends or not at all. A second start of a process stands
  for another process too; two calls of one loader at once are those of two scripts. The
  loaders are called in scripts only: nothing in `src/` calls them in a process that
  serves, and there every code is in its table (`ServingIsSeeded`), so that they would
  find all and write nothing;
* TypeORM's `save` in `Grants` is read, compare, write, in that order, with the writes
  in one transaction; which statements fail first inside it is not told apart. Entities
  come from a find, whose relations are eager; the entity that `create` returns, which
  has no lists yet, is used by `register()` only (`Registration`);
* a permission that is in no table makes `UsersService.isAuthorized` throw a TypeError
  when the user has any permission; `Grants` has every code in its table, which
  `ServingIsSeeded` shows for a process that serves;
* `err`, `outcome` and the errors keep which class they are, not their wording;
  the errors of `create` are called by the names of the `Auth` errors with the
  same meaning.

Not modelled: the queries `users` and `me` and the finds of the services (reads; `me`
reads a request the context never carries), the passport strategies (no guard uses
them), error formatting and logging (wording; `formatError.ts:18` deletes a field of an
object that a validation error built there does not have, which is listed as a hazard),
the application shell and configuration (wiring; the Redis client is made and never
used), the HTML template, the error classes of `users/errors` beyond the two that
`register()` recognises, test doubles and specifications.

## 10. Running

    tlc -config MCRegistration.cfg MCRegistration.tla
    tlc -config MCAuthSystem.cfg MCAuthSystem.tla
    tlapm RegistrationProofs.tla

`PROJECT.json` lists the runs with their configurations, the mutants, and for every
definition the lines it models.
