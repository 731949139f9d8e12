# TLA+ models of reearth-accounts

These modules model the parts of the accounts server whose correctness depends
on the order in which requests, processes and transactions take their steps:
the administrators of the admin console, the named lock over MongoDB and the
migration job that runs under it, the accounts of users and what they sign in
with, the members of workspaces, the Auth0 client and the batching data
loaders. TLC checks them on small instances; TLAPS proves their main properties
for every value of the constants.

    tlc -config MCAdminConcurrent.cfg MCAdminUsers.tla   # a run
    tlapm AdminUsers_proofs.tla                          # the proofs

Paths below are relative to `server/`.

## 1. The system

The accounts server (Go) offers GraphQL and REST to the re:earth products and a
separate admin console. A request passes the adapters, which build an
*operator* from its token (`internal/app/auth.go`), and reaches an
*interactor* (`internal/usecase/interactor`), which loads domain objects
(`pkg/...`), changes them in memory and saves them through repositories over
MongoDB, PostgreSQL or memory. Cerbos judges permissions from the roles that
*permittables* hold. The identity provider (Auth0, Cognito-like or mock) is
called over HTTP, and mails go out through a mailer.

| Component | State | Operations | Interacts by |
|---|---|---|---|
| Admin users (`internal/admin`, `pkg/adminuser`) | one record per administrator: status, role, approver | sign-in, approve, reject, assign role, list | whole-record saves; the guard lock; the permission checker |
| Named lock (`internal/infrastructure/mongo/lock.go`) | one document per locked name; a map per process | `Lock`, `Unlock` | used by the admin repository and the configuration |
| Workspace interactor | workspace documents: members, integrations, alias, deletion | create, update, member and integration operations, transfer, remove, deactivate, restore | one transaction per use case; writes permittables |
| Permittables and roles | global roles and workspace roles per user | workspace operations, sign-up, global role management, start-up migration | read by Cerbos checks |
| Operator and permission check | none of its own | build the operator, ask Cerbos | reads memberships and permittables |
| Transactions | MongoDB snapshot, PostgreSQL read-committed, none | begin, commit, abort, retry | wrap every use case |
| Sign-up (`user_signup.go`) | users, personal workspaces, permittables | `Signup`, `SignupOIDC`, `SyncSSOUser`, `FindOrCreate` | unique indexes, identity provider, mail |
| User profile (`user.go`) | users, password, alias, auths | `UpdateMe`, `DeleteMe`, `RemoveMyAuth`, MFA, `Deactivate`, by-subject updates | identity provider, workspaces |
| Verification and password reset | codes and tokens with an expiry | create, verify, start reset, reset | mail |
| Configuration and start-up | one configuration document, migration number, default policy | load-and-lock, save-and-unlock, migrations | the lock |
| Identity-provider clients | management token, cache of MFA statuses | `UpdateUser`, MFA status, enable, disable | HTTP calls; called by the profile |
| Data loaders (`internal/adapter/gql`) | per request: batches of ids, a cache of answers | `Load`, `LoadAll` | resolvers that run concurrently; one fetch per batch |
| Repositories, adapters, client library, tools | | conversions and queries | |

What is hard about them, and what makes them correct:

- **Admin users.** Every use case loads a record, changes its copy and saves
  the whole copy; there is no version and no transaction. The console must keep
  a system_admin, an approved account must have a role, an approver must have
  been entitled, and a revocation must last.
- **Lock.** It is made of several steps over a database and a map that is
  shared by the goroutines of a process; processes die and calls fail. One
  holder at a time, nobody frees the lock of another, and a lock that was left
  behind must not hang anybody.
- **Workspaces and permittables.** A membership is stored twice, the second
  time in a record that all workspaces of the user share. The operator's roles
  are older than the transaction. The two stores must agree, nobody may raise
  the own role, ownership moves only by a transfer, and a workspace keeps an
  owner.
- **Sign-up.** Two first requests of one subject race; the personal workspace
  must belong to the user that is kept, and a subject should get one account
  although no index makes subjects unique.
- **Profile.** Whole documents are saved by upserts, which a deletion in between
  must not undo. Two systems (identity provider, database) change in one
  operation without a common transaction.
- **Credentials.** Codes work once, for a bounded time, and only the latest.
- **Configuration.** The migration job may be started several times, stop
  anywhere and be repeated; parts of it run outside the lock, and the server
  goes on working. What is recorded must have been done, in order, and a job
  must end also when another one has died with the lock.
- **Auth0 client.** All calls of the process share a token that expires and a
  cache of MFA statuses; requests are slow, fail, or succeed unheard.
- **Data loaders.** A timer and the batch limit compete for each batch, the
  keys are read without the mutex, and answers are matched by position.

`PROJECT.json` lists the hazards at their lines, with the property that would
catch each; section 6 adds those that no property covers.

## 2. Modules

| Module | Models |
|---|---|
| `AdminUsers` | the admin-user use cases, the middleware that authorizes them, the guarded save |
| `AdminUsers_proofs` | its type invariant, the two record invariants, the last-system_admin rule for serial requests and for concurrent demotions, and revocation |
| `MCAdminUsers` | instances |
| `Mutex` | the abstract lock that `repo.Lock` promises |
| `MongoLock` | `Lock` and `Unlock` step by step, crashes, failing calls, expiry, with and without the unique index |
| `MongoLock_proofs` | its inductive invariant, who may delete which document, and, where the index exists, mutual exclusion and that it implements `Mutex` |
| `MCMongoLock` | instances |
| `Directory` | what accounts promise: one per e-mail, one per subject unless it is contested, opened once, closed for good |
| `Accounts` | sign-ups, updates and deletions of users with their personal workspaces |
| `Accounts_proofs` | its type invariant, the unity of user and home, what is left of it when conflicts go unnoticed, and that it implements `Directory` under either kind of transactions |
| `MCAccounts` | instances |
| `Memberships` | what workspaces are to their users: use cases served one at a time |
| `WorkspaceMembership` | workspace use cases in transactions, members, integrations and permittables |
| `WorkspaceMembership_proofs` | its type invariant, the agreement of the two stores, all of its action properties, and that it implements `Memberships` |
| `MCWorkspaceMembership` | instances and the calls they make |
| `Credentials` | one user's password, reset token, verification and names, here and at the identity provider |
| `Credentials_proofs` | its inductive invariant and all of its properties |
| `MCCredentials` | instances |
| `MigrationJob` | the job that `RUN_MIGRATION` starts: `runMigration`, the config lock, four migrations of roles |
| `MigrationJob_proofs` | its inductive invariants; that recorded migrations are done, in order, without duplicates and with the right roles |
| `MCMigrationJob` | instances |
| `Authenticator` | the Auth0 client: token, MFA cache, requests |
| `Authenticator_proofs` | its inductive invariant and all of its safety properties |
| `MCAuthenticator` | instances |
| `DataLoader` | a request's loaders of users and workspaces |
| `DataLoader_proofs` | the life of batches, and that values come back under their own id and are fetched once |
| `MCDataLoader` | instances |

Operators whose comment begins with "Mutant:" are altered copies of the
operator that follows them; no specification uses them. They exist to confirm
that each property fails for a plausible mistake in the code.

### AdminUsers

`admin` is the collection (by account, since e-mails are unique), `req` the
local state of each handler, `guard` the lock
`adminuser:system_admin_guard`; `trusted` (accounts that ever passed the
permission check) and `overtaken` (requests whose target has changed since they
loaded it) are history. `pc` names the
repository call a handler will make next:

| Action | Code |
|---|---|
| `Authorize` | `RequireApproved` and `RequirePermission`: they judge one copy of the operator's record, then approve and reject refuse the operator as target |
| `LoadForApprove`, `LoadForReject`, `LoadForSetRole` | the use cases up to their next repository call, on a copy of the target |
| `CountApproved` | the count that guards a revocation |
| `LockGuard`, `CheckOtherSystemAdmin`, `GuardedSave` | `SaveGuardingLastSystemAdmin` of the MongoDB repository |
| `Save` | the whole-record save |
| `SignIn`, `InsertAdmin` | `GoogleSignInUseCase`: a stored account (bootstrap accounts are reconciled), or a first sign-in that may lose against the unique e-mail index |
| `RepoError` | a failing call or a cancelled request, deferred unlock included; a failing `Lock` may leave a document behind |
| `Unlock`, `ExpireGuard` | the deferred unlock, whose error is dropped: the lock may be left behind (`Left`), and may be removed later |

The guard admits one holder, and its release may fail. That it excludes other
demotions is so for the PostgreSQL repository (one transaction under an
advisory lock) and the memory repository (a mutex), which are coarser than the
interleaving checked here; under MongoDB it is so where the collection "locks"
has the unique index (see "MongoLock"). Names, pictures, e-mail texts and
timestamps are left out; that a sign-in changed the profile, which decides
whether it saves, is a Boolean input. Listing, sessions and the check of
Google's token change nothing.

### MongoLock and Mutex

`docs` are the documents that lock the name (by their ids), `local` the map of
each process, `pc` the step of each goroutine, `calls` the number of ids it has
drawn (an id is never drawn twice), `seen` the id that `Unlock` read. Names do
not share state, so one name is enough. `GiveUp` stands for the end of the
retries; how often and how long they are tried does not matter to safety. The
lock library (`square/mongo-lock`) is outside the repository: its exclusive
lock is an upsert of a document, its unlock goes by the id.

An upsert refuses a second document for one name only if a unique index on the
resource does (`Refused`). The library creates that index when it is asked to;
`NewLock` does not ask, and nothing else in the repository creates it. Whether
it exists is up to who has set the database up, so `indexed` is chosen
initially and never changes. What the lock promises, `OwnsDocument` and
`ImplementsMutex`, is stated for `indexed`; the run `lock_as_created` shows what
the code does without (section 3). `OthersKept`, that no process deletes a
document on which a caller of another one counts, does not need the index.

`Expire`: the code asks for a TTL of an hour, and sets up nothing that removes
what has expired, so expiry is possible and not guaranteed; it is assumed to
outlive callers that still count on the document (an hour against operations of
seconds). `XLockError` lets a call fail before or after it took effect, and
`RemoteUnlock` lets the document stay.

### WorkspaceMembership

`ws` are the workspaces (members with roles, deleted or not; `None`: there is
none), `perm` the workspace roles of each user's permittable, `req` the
requests. A request takes four steps: `Arrive` builds the operator from the
memberships; the use case (one action per method) checks permissions and
computes the changed copy; `SavePermittables` reads and writes the permittables
of the users concerned; `Commit` saves the workspace and ends the transaction.
`Abort` may happen at any step and stands for every refusal, error and lost
conflict. `CheckOwnerLike` is `checkOwnerLikePermission`, `CerbosAllows` the
policy rows of `internal/rbac/definitions.go` that these use cases ask for,
evaluated over the *permittables*, as the adapter does; `Trusted` are the users
whose permittable also has maintainer or owner as a global role.

Integrations are members too, with a role but no permittable. Their use cases
(`AddIntegrationMember`, `UpdateIntegration`, `RemoveIntegrations`) need an
operator that owns the workspace, accept personal workspaces and the role
owner, and save the whole workspace as the others do; a use case on either part
must not undo what another has done to the other (`OtherPartKept`, which
`ServedOneByOne` contains).

`Memberships` knows `ws` and `perm` only. Its step is a call that is served at
once: `Serves` says which workspace the call makes of the stored one, with what
the use cases check about its members (nobody joins twice, the last owner does
not leave, nobody raises himself), and the permittables become those of the new
members (`Granted`). Who may call what depends on operators and permittables
that may be older than the workspace, and is not promised. `ServedOneByOne` says
that `WorkspaceMembership` under snapshot transactions implements it with the
same two variables.

`Transactions` chooses what `Commit` does when another transaction has changed
what this one is going to write: under `"snapshot"` (MongoDB) it cannot commit;
under `"readCommitted"` (PostgreSQL, `pgx.TxOptions{}`, loads without row
locks) it overwrites.

Abstractions and assumptions:

- every user has a permittable from the start, as the sign-up use cases save
  one. `FindOrCreate` does not; in MongoDB no index makes user ids unique among
  permittables, so two concurrent first memberships of such a user can insert
  two (section 6);
- the use cases of one request all name one role; `AddUserMember`'s map with
  several roles, the member-count policy (an `Abort`),
  names, aliases and metadata are not represented;
- a role outside the four names makes the permittable update fail (no such role
  is stored), hence only the four are passed.

### Accounts and Directory

`users` are the user documents (`None`: there is none), `homes` and `perms` the
users whose personal workspace and permittable are stored, `req` the requests.
`used` and `closed` are the ids drawn and the ids of deleted users. A use case
in a transaction takes three steps: its first look-ups (one action per use
case), the write of the user (`WriteUser`), and the end of the transaction,
which makes all of its writes visible (`CommitSignUp`, `CommitUpdate`,
`CommitDeletion`), or `Abort`, which stands for every refusal, error, failing
mail or issuer and lost conflict. `UpdateUserBySub` and `SetPlatformRolesBySub`
run without a transaction (`LoadBySub`, `SaveBySub`, `SaveRoles`).

| Action | Code |
|---|---|
| `Signup`, `SignupOIDC`, `SyncSSOUser`, `FindOrCreate` | `user_signup.go`: the look-ups by e-mail and subject that each makes, and `workspace.Init` |
| `UpdateMe`, `RemoveMyAuth`, `DeleteMe` | `user.go` |
| `SaveUser` | the use cases that save a whole user whose e-mail and subject they leave: `Deactivate`, `Restore`, `VerifyUser`, `StartPasswordReset`, `PasswordReset` |
| `WriteUser`, `EmailFree` | `Create`, `Save`, `Remove`, `FindBySubOrCreate` of the repository under the unique e-mail index |

`EmailFree` lets a write wait while another open transaction has written the
same e-mail: PostgreSQL waits for it, MongoDB fails at once (`Abort`).
`Transactions` is as in `WorkspaceMembership`; under `"snapshot"` a commit also
makes stale the transactions that write an e-mail which this one took or gave
up, since both change the same index key. The second look-up that
`FindBySubOrCreate` makes sees the transaction's snapshot, or what is committed
by now.

Left out: aliases and names with their indexes (a conflict is an `Abort`), the
content of homes and permittables, `deleted_at` (no use case here looks at it),
the identity provider, and what `DeleteMe` does to shared workspaces. An e-mail
is its case-insensitive form, which is what the index compares. A sign-up may
bring the id of the user; it is taken to be as new as one that is drawn.

`Directory` knows `users`, `closed` and `contested`: `Open`, `Change`, `Close`
and `Contest`. A sign-up takes the subject and the e-mail from its request, so
one subject may come with two e-mails, and nothing but the e-mail index stops
two sign-ups that overlap. `contested` is a history variable: the subjects with
which sign-ups overlapped that brought different e-mails. These may get several
accounts (section 3); every other subject has one.

### Credentials

`Accounts` tells documents apart by person; this module takes one user's
document apart by field. `doc` is the document, `home` the name of the personal
workspace, `idp` the name that the identity provider has, `mailed` the reset
tokens that have been mailed, `req` the requests, and `issued`, `latest`,
`spent` and `off` are history. Each use case reads the document in its
transaction and computes the whole document that it will save (`Logout`,
`RemoveMyAuth`, `VerifyUser`, `CreateVerification`, `StartPasswordReset`,
`PasswordReset`, `UpdateMe`); `Commit` stores it unless another writer has come
first (`stale`) and transactions are `"snapshot"` ones; under `"readCommitted"`
it overwrites. `Abort` is every refusal and failure. `UpdateMe` tells the
provider before it saves (`Sync`, or `SyncLost` when the answer is lost), and
`StartPasswordReset` mails after its transaction (`Send`, `SendFails`).
`UpdateUserBySub` has no transaction: `LoadBySub`, `SaveBySub`, `FindHome`,
`RenameHome`, or `StopBySub` in between.

`off` remembers why a property may have ceased to hold, and the properties name
it: `"doc"` when an `UpdateUserBySub` has overwritten a document that was saved
since it read, which may bring back a used reset token; `"idp"` when an
`UpdateMe` failed after it told the provider, or an `UpdateUserBySub` did not
tell it; `"home"` when an `UpdateUserBySub` crossed another renaming or failed
half-way.

Abstractions: a token is a model value that is drawn once; codes and tokens
live for `Lifetime`. Whether one has expired is judged when the use case reads
the document; the commit may be later. `Deactivate` and `Restore` set a time
stamp as `Logout` does and are not told from it. CIP auth records are like
none, since `gateway.Container.AuthenticatorFor` finds a client by the
provider's name only; `linked` says that there is an Auth0 record. E-mail,
alias, language and metadata are left out: their validation is an `Abort`.
`PasswordReset` and `RemoveMyAuth` tell the provider nothing. The end-to-end
test REL-04 (`e2e/gql_user_test.go:1124`) sees `MailedIsStored` from outside.

### MigrationJob

`roles` and `perms` are the collections, with ids that tell who created them;
`members` the member lists; `version` the recorded migration; `runner` the
holder of the config lock, used through `Mutex`; `pc` and the other functions
what each job has in memory.

| Action | Code |
|---|---|
| `Start`, `FindRole`, `CreateRole`, `EnsureLoad`, `EnsureSave` | `runMigration` and `ensureMaintainerRole` (`internal/app/migration.go`), outside the lock |
| `Begin`, `Refused`, `Load`, `Record`, `End` | `Config` of `mongo/migration/client.go` over `LockAndLoad`, `Save` and `Unlock` of `mongo/config.go` |
| `ReadRoles`, `AddRole` | `AddRoles` |
| `ReadFirst`, `PlanMove`, `Write` | `MoveWorkspaceMembersRoleToPermittable`: two cursors, then a save per permittable |
| `PlanFix`, `ReadFirst`, `Write` | `FixPermittableRoleIDs`, `FixPermittableWorkspaceRoles` |
| `Stop` | a failing call, or the death of the process, with or without the lock given back |
| `Serve` | the server changes a member's role meanwhile |

Of the registered migrations these four are modelled because each builds on
what the one before and `runMigration` leave. The others (aliases, indexes,
schemas, time stamps) are steps on single documents that nothing here reads.
A cursor's answer is one read; the saves are one by one. A job that stops, or
whose `Unlock` fails (`GiveBack`), may leave the lock behind; `runner` is then a
job that is over, the others are `Refused`, and `Expire` may remove the lock
some time or never. That the lock admits one job at a time is taken from `Mutex`
and rests on the index that "MongoLock" speaks of.

`runMigration` gives every member the maintainer role as a *global* role, again
at each start of a job, also after `FixPermittableRoleIDs` has taken it away.
No property here speaks of it: nothing in the code says which of the two is
meant.

### Authenticator

`token`, `expireAt`, `holder` (of `lock`) and `cache` are the fields of
`Auth0`; `confirmed`, `deleted` and `required` the state at Auth0; each call has
a `pc` that names the request it is in, the time it was sent, its token and its
answer. A request is carried out (`Issue`, `Serve`, `Delete`) some time between
being sent and its end, or never, and may fail either way. `Check`, `Lock`,
`Fetched`, `FetchFailed` and `Store` are `updateToken`; the other actions are
the requests of `GetMFAStatus`, `DisableMFA` and `EnableMFA` in turn, and
`Updated` those of the methods with a single request.

The first look at `expireAt`, and every read of `a.token`, is outside the lock.
While another call stores both, a reader may see either expiry and the new
token or something that is not one (`Torn`; an old or empty token counts as
such): a data race, whose outcome the model leaves open.

Assumptions: time passes while calls wait, and what they compute takes none;
a request ends within `Timeout`, and one that has ended is not carried out
later; `Margin`, the hour of `needsFetchToken`, is at least four timeouts. One
user's factors are enough, since users share only the token. Factors that
nobody has confirmed do not count.

### DataLoader

`cache` and `current` are `cache` and `batch` of the generated loader, `keys`,
`closing`, `data` and `failed` the fields of each batch, `timer` and `limiter`
the two goroutines that may end it. Everything between `mu.Lock` and
`mu.Unlock` is one step: `Hit`, `Join` and `AppendKey` are `LoadThunk`, `Timer`
is `startTimer`, `End` is `end`, `Thunk` and `Store` are the thunk before and
in its own critical section. A batch has the name of the load that created it.
`LoadAll` is several loads. `Prime` and `Clear` have no caller. Loaders live as
long as their GraphQL request.

**The workspace loader.** The two loaders are the same code around different
fetches. `Users` answers by position, with nil for a missing user. `Workspaces`
does not: `FilterByID` leaves missing workspaces out, and the loader's `Fetch`
leaves out those that do not convert, so the values behind them move up and a
load returns, and caches, another id's workspace, or nil although there is one.
`OwnValue` therefore speaks of workspaces only in requests where no id is
missing. The memory repository of users, whose order is that of a map, is not
modelled.

## 3. Runs

| Run | Question | Instance |
|---|---|---|
| `admin_concurrent` | Do stale copies ever make an approved account without a role, or an approver who was never entitled? Does a request that has seen a rejection ever revive the account? | 3 accounts: a stored system_admin that is also a bootstrap one, and two ordinary ones; 2 requests of all operations |
| `admin_demotions` | Does the guard keep the last system_admin, and does every request end, although the guard may be left behind for ever? | 3 system_admins, 3 concurrent demotions |
| `lock_safe` | With the index: does a caller own the document it counts on, and is the whole a `Mutex`? With or without: does a process ever free another one's lock? | 2 goroutines in one process and 1 in another, 2 calls each, every fault |
| `lock_as_created` | Does the lock exclude callers as `NewLock` leaves it? (A violation: no.) | the same, 1 call each, no fault |
| `accounts_snapshot` | Does every user have its home and every home its user, and do the accounts implement `Directory`? | 3 ids, 2 subjects, 2 e-mails, one subject coming with both, 2 requests; everything but `UpdateUserBySub` |
| `accounts_read_committed` | Is the e-mail index alone enough to implement `Directory`? | the same with 3 requests; sign-ups and whole-document saves |
| `member_snapshot` | Under snapshot transactions: do the two stores agree, who becomes owner, who raises the own role, does the last owner leave, and is every commit what the call would do if it were served alone? | 3 users, 1 integration, 2 workspaces, 2 requests |
| `member_last_writer` | Under read-committed transactions without Cerbos: do guarded operations leave an owner, whichever copy is saved last? | 3 users, a shared and a personal workspace, 2 requests |
| `credentials` | Under snapshot transactions: does each use case leave the others' changes alone, does a reset token work once, do names agree? | 3 requests, 2 names, 2 passwords, 3 tokens, clock to 2, with and without a password |
| `migrations` | Is what is recorded done, in order, without duplicates and with the right roles, and does every job end, whoever has left the lock behind? | 2 jobs; an owner and a disabled maintainer in one workspace; 3 roles, of which two do not exist yet; 1 role change by the server |
| `authenticator` | Do tokens outlive their requests, is one fetched for all, are MFA statuses fresh, does a disabled MFA leave no factors, do calls return? | 2 calls, 2 factors, no token or one with 5 units left, clock to 5 |
| `loader` | Own values, each batch ended once and left alone, nothing fetched twice, nobody waiting for ever? | 3 loads of 3 ids, batches of 2, 2 ids that may be missing, both loaders |

**Bounds.** Two requests are enough for every pair of operations to overlap at
every step, and a third adds the case in which a guard was taken and released
in between, which `admin_demotions` covers. Three accounts are an operator, a
target and a bystander (or two system_admins that meet and a third one left).
Records are finite and requests restart, so nothing else is bounded in
`AdminUsers` and `WorkspaceMembership`; their runs visit every reachable state,
and deadlock is checked. `MongoLock` bounds the calls per caller (`MaxCalls`):
two calls are needed for an old id to meet a new document. When the calls are
used up its system stops, so these runs do not check deadlock. The accounts
runs bound the sign-ups by the number of ids, since an id is drawn once: three
allow two first requests of one person to race and a third account to be opened
after a deletion. When the ids are used up and all users are deleted, this
system stops too. One subject comes with two e-mails there, and a second
subject with one of these, so two sign-ups may agree in the subject, in the
e-mail, in both or in neither. `Calls` bounds the arguments of the membership
runs: for each operation the owner, the maintainer and the reader as callers
and targets where the code distinguishes them. Symmetry: requests are
interchangeable everywhere, and so are accounts that no constant names; the
runs that check liveness use none.

`credentials`: three requests are a writer, one that overtakes it and one that
uses what is left; three tokens are the stored one, the code and a new one, and
`MaxTime` lets both expire. `migrations`: two jobs overlap, or the second
repeats what the first left; `Known`, `Recorded` and `Members` fix what is
there before, versions go to 4, and `MaxServed` bounds the server's changes.
`authenticator`: `TTL` and `Timeout` are one unit, `Margin` four of them as the
assumption asks, a new token lives six. The stored token has five left: it
expires at the end of the clock, and a check accepts it in the first instant,
or the second when its life has been reckoned a timeout late, so the chain of
requests that a `DisableMFA` makes after one check (three, each a timeout long)
comes within one unit of its expiry. `MaxTime` is five, so that this expiry is
reached, and a cached status becomes old during a call. Each of the two calls
is made once, so no third call reads the entry that two others have raced for:
this is left to the proof of `StatusIsFresh`, which is for any number of calls.
`loader`: with batches of two, a third load meets a batch that is open, full,
being fetched or answered, and can start the next one; each load is made once.
When their calls are used up these four systems stop, so deadlock is not
checked there; that somebody waits for ever is excluded by the liveness
properties instead.

The type invariant of every module is proved for all constants (section 4);
`lock_safe` repeats that of `MongoLock` on an instance. The inductive invariants
of section 4 hold in these instances too; the runs check the properties that
follow from them.

**Fairness.** `AdminUsers!FairSpec` has weak fairness of every step of an
accepted request except arrival and errors: the Go scheduler runs every
runnable goroutine, and none of these steps waits for another request
(`LockGuard` gives up). Nothing is assumed of a guard that was left behind:
`ExpireGuard` is not fair, and `RequestsEnd` must hold all the same.
`MigrationJob!FairSpec`: a job that has started goes on (its calls return, with
or without an error); nothing starts one, and nothing removes a left lock.
`Authenticator!FairSpec`: a call goes on, since every request ends, if only by
the timeout of the HTTP client; Auth0 need not answer. `DataLoader!FairSpec`:
sleeps end, fetches return and goroutines run; nothing says that a resolver
loads again. The other specifications are used without fairness.

### What the properties leave out

The run `lock_as_created` is a disagreement of the code with what is said about
it. The comment in `Unlock` (`mongo/lock.go:63`) says that "the actual
mutual-exclusion guarantee is the Mongo lock document and its TTL", and a test
(`mongo/adminuser_test.go:178`) that two demotions "must not both succeed" as
they are serialized through the collection "locks". The document gives that
guarantee only with a unique index, which nothing in the repository creates.
Without it two processes insert a document each and both go on; then
`SystemAdminRemains` under concurrent demotions, and what is said of overlapping
migration jobs (`VersionsInOrder`, `RecordedIsDone`), no longer follow for
MongoDB. Where the index has been created by hand they do.

The rest of this section shows where the code does not keep a property when one
constant or one condition of a model is changed. None of it is a run here.

- With role assignments alone (`Operations = {"setRole"}`, two system_admins,
  two requests) `SystemAdminRemains` fails: `SetRole` decides on the copy it
  loaded whether it is a demotion that must be guarded. A request that loaded
  the target while it was a viewer saves "viewer" unguarded after somebody else
  has made the target the only system_admin. The comment at `set_role.go:40`
  claims that the check and the save are one atomic operation.
- With two callers in one process a lock document can be left that nobody will
  delete, even without faults: the map has one entry per name. `Unlock` deletes
  the document first and the entry last; a caller of the same process that
  takes the lock in between stores its id and then loses it, gets
  `ErrNotLocked` from its own `Unlock`, and the document stays. The admin
  repository calls its `Lock` from concurrent requests, so this is reachable
  there: afterwards demotions fail until the document is removed. With one
  caller per process every document is deleted by its holder.
- With `updateMember` among the calls `OwnerKept` fails: `UpdateUserMember` has
  no check for the only owner, unlike `UpdateUserMemberViaService`; a maintainer
  whom Cerbos grants `edit_member` demotes the sole owner. The end-to-end tests
  (`e2e/rest_workspace_test.go:150`) state that this is blocked on every route.
- `RevocationSticks` excepts copies from before the rejection (`overtaken`),
  and fails without that: a role assignment or profile refresh that loaded an
  account before its rejection writes status `approved` back, although the
  middleware documents that a revoked admin "loses access immediately".
- Two system_admins who reject each other leave none (`reject.go:37` accepts the
  race for approved admins of any role, while `docs/usecase/admin-role.md:154`
  forbids zero system_admins).
- Under read-committed transactions `OnlyTransferGrantsOwner` fails:
  `AddUserMember` that loaded the members before a transfer committed writes the
  old list back; the former owner owns the workspace again and the new owner
  does not.
- `TransferOwnership` to the caller itself leaves no owner; a maintainer may
  remove the sole owner; `Deactivate` and `Restore`, documented as owner-only,
  ask for the edit permission, which maintainers have.
- Under read-committed transactions `UserAndHome` fails: the loser of two
  `FindOrCreate` calls returns the winner's user but still saves the home it has
  built, whose owner does not exist. Updates from old copies also bring back a
  removed subject or a deleted user there.
- With `UpdateUserBySub` next to deletions both `UserAndHome` and
  `ImplementsDirectory` fail, in either kind of transaction: the upsert brings
  the user back without its home.
- Two overlapping sign-ups that bring one subject with different e-mails may
  both commit, under either kind of transactions: two accounts with one subject
  (`contested`). `SignupOIDC` and `SyncSSOUser` take both from the request, and
  at the issuer a subject's e-mail may change between two first requests.
- The runs and theorems about accounts leave `UpdateUserBySub` out where there
  are deletions, and `accounts_read_committed` also has no `UpdateMe`,
  `RemoveMyAuth` and `DeleteMe`: with them old copies overwrite new ones.
- Under read-committed transactions (PostgreSQL) the last copy of a user wins:
  `OwnFields`, `ResetOnce` and `StaysVerified` of `Credentials` fail, and with
  them the names. A profile update that loaded the user before a password reset
  brings back the old password and the used token. `MailedIsStored` holds there.
- Migration jobs that overlap leave two maintainer roles, or two permittables of
  one user, since `runMigration` looks for both outside the lock: `NoDuplicates`
  without `interfered` fails. `RolesMigrated` without it fails too: a role
  change that the server makes while a migration is at work is overwritten, and
  an `ensureMaintainerRole` of another job saves a permittable it loaded before.
- An "off" that a `DisableMFA` has put into the cache after the user enrolled
  again is wrong for the life of the entry: `StatusFresh` without `crossed`
  fails.
- `NamesAgree`, `HomeFollows`, `ResetOnce` and `StaysVerified` without `off`
  fail (see "Credentials"): what they show is that nothing but the histories
  named there breaks them. No property bounds the time a reset token works: it
  is judged when the use case reads, and the commit may come later.
- `OwnValue` fails for workspaces of which one is missing (see "The workspace
  loader").

## 4. Proofs

All theorems hold for any sets of accounts, requests, processes, callers,
users, workspaces and calls that satisfy the named assumptions of the modules
(`AdminsAssumption`, `AdminsFinite`, `LockAssumption`, `MembershipAssumption`,
`CallsAssumption`, `AccountsAssumption`, `CredentialsAssumption`,
`JobAssumption`, `TimeAssumption`, `LoaderAssumption` and that the value `None`
is nobody's record or id).

- **AdminUsers.** `TypeCorrect`. `ApprovedHaveRoles` and `ApproversWereTrusted`
  follow from `SoundCopies`: the properties speak of stored records only, but a
  copy in flight may be stored later, so what is inductive is that *every copy*
  is sound, that a role assignment carries a role, and that an approver in
  flight has been entitled. `SerialRequestsKeepOne` assumes one request and a
  configured Cerbos; its invariant `SerialInv` says that the operator is still
  a system_admin when its write lands and that the write keeps one.
  `DemotionsKeepOne` assumes that requests only assign `viewer`; `DemotionInv`
  says that only the holder of the guard is between the check and the save,
  that an unguarded save is of an account that is no system_admin, and that the
  checked other system_admin is still there. `RevocationsStick` assumes nothing
  about how many requests overlap: its invariant says that a copy whose target
  nobody has changed since is the stored record but for what the request does
  to it, so that an approved copy of a rejected account belongs to a request
  that may approve it or has been overtaken.
- **MongoLock.** `LockInvariant`: an id that a process keeps is one of its own
  callers'; and where the index exists, a caller that counts on its document
  owns the only one, and once it has stored its id its process's map holds that
  id or nothing. The first part alone gives `OthersAreKept`, with or without
  the index; the second `OwnershipKept` and `MutuallyExclusive`. `RefinesMutex`
  maps the holder, where the index exists, to the caller that counts on the
  document: its creation is `Acquire`; its deletion, a crash and a failed
  unlock are `Release`; everything else stutters.
- **Accounts.** `TypeCorrect` holds under both kinds of transactions.
  `UsersAndHomes` assumes snapshot transactions and no `UpdateUserBySub`. Its
  invariant `HomeInv` adds `Fresh`: a sign-up works on an id that no document,
  deleted user or other request has, `FindOrCreate` has found nobody, and the
  user that a change is about to save is still there unless the change has been
  overtaken. `AccountsImplementDirectory` adds `Unclaimed`: the subject that a
  sign-up has looked up is still unused, or contested, and the e-mail that it
  has written still free, unless it has been overtaken. The step to see is a
  commit of another sign-up with the same subject: either it brought the same
  e-mail, whose index key makes this one stale, or the two are rivals and the
  subject is contested (`RivalsKnown`). Nothing is assumed about which e-mails
  a subject comes with. Commits are the steps of `Directory`; every other step
  stutters. `IndexImplementsDirectory` is about what `accounts_read_committed`
  checks: sign-ups and saves of whole documents, in either kind of
  transactions, and conflicts that nobody notices. Its invariant `SettledInv`
  does without `stale`: a stored document stays as it is, so every save writes
  what is there; a sign-up's id is nobody else's; and of all requests that are
  going to insert a user no two have one e-mail, nor an e-mail that is stored,
  which is what the index sees to. What a sign-up has looked up about the
  subject may have become wrong by then; but the account that has it now was
  opened by a rival, or has the same e-mail, which the index refuses.
  `NoUserWithoutHome` is the half of `UserAndHome` that survives lost conflicts
  and `UpdateUserBySub`, as long as nobody deletes an account: no user without
  its home. (The other half fails, see section 3.)
- **WorkspaceMembership.** `TypeCorrect` holds under both kinds of
  transactions. `PermittablesAgree` (snapshot) needs `AgreeInv`: besides the
  agreement itself, every transaction that nobody has overtaken holds a copy
  that differs from the database only at the users it is about to write, and
  the permittables it saved are the ones it would compute now (`Tracked`).
  A commit establishes the agreement for its workspace and makes stale exactly
  those whose copies it invalidates. `MembershipsAreSerial` (snapshot) is the
  refinement of `Memberships`, which speaks of the step that commits, while the
  use case has checked and changed a copy some steps before. `PermittedInv`
  bridges the two: as long as a transaction has not been overtaken, its copy
  is what its call makes *of what is stored now* (`Fits`: `Serves` of
  `Memberships`, and `Permitted`); only such transactions commit. The lemma
  `UseCaseServed` shows it of each use case on what it has loaded, and the
  agreement gives the permittables of the new members. Commits are the steps
  of `Memberships`; every other step, and a commit that changes nothing,
  stutters. From the same invariant follow the rules about roles
  (`OwnersOnlyByTransfer`, `NobodyRises`, `LeaverLeavesAnOwner`; `MayBecome` is
  what they ask of the members) and `NothingUndone`.
  `GuardedKeepOwner` holds for both kinds of transactions,
  where copies may be old; it assumes that workspaces start with an owner and
  calls that guard the last one (`Guarded`: no `UpdateUserMember`, no removal of
  others, no transfer to the caller). Its invariant `OwnedInv` says that every
  stored workspace and every copy in flight has an owner, so it does not matter
  which of them is saved last.
- **Credentials.** `TypesKept` and `MailedAfterStored` hold under either kind of
  transactions (`FormInv`, `LatestInv`). The other properties follow from
  `CredentialsInv`, which assumes snapshot transactions. Its core is
  `Base`: what a request that nobody has overtaken is about to save differs from
  the document in the use case's own fields only, so a commit is an update of
  those (`OwnFieldsOnly`). `TokenInv` says that the stored token is the latest
  and not spent, `CheckedInv` that what a request has checked still holds
  (`ResetsOnce`, `VerifiedStays`), `ProviderInv` and `HomeInv` which of the
  requests under way owes the provider or the workspace a name.
- **MigrationJob.** `JobInv`: whoever is between `Begin` and `End` holds the
  lock and has in memory the version that is recorded, hence `InOrder`; and a
  migration's promise is in its plan (`PlanInv`) before it is recorded, hence
  `DoneWhatIsRecorded`, whatever other jobs and the server do.
  `NoDuplicatesLeft` and `RolesAreMigrated` are about jobs that nothing
  interferes with, but that may stop at any step and be repeated by others.
  Neither is inductive: `QuietInv` adds that one job runs at a time (`OneJob`);
  that what it has read is still stored (`ReadInv`), up to the queue of members
  and the names without a role; that the document `runMigration` is going to
  save is its user's only one and loses nothing (`DraftInv`); and that a
  migration's plan has one permittable per user, with the roles that will be
  promised once it is recorded, while permittables outside the plan have them
  already (`TodoInv`). A job that stops half-way leaves some documents as
  planned and some as they were; the next one reads them afresh, and `TodoInv`
  holds of its own plan.
- **Authenticator.** `AuthInv`: a token lasts for the request it is in and for
  those that will follow without another check (`LastsInv`), whence the four
  timeouts; what a `DisableMFA` found is deleted or still in its hands
  (`DisableInv`); answers and cache entries were true when they were made
  (`StatusInv`).
- **DataLoader.** `BatchesInv` is the life of a batch, `ValuesInv` says that
  its answer is that of its keys (`AnswerInv`) and that loads and cache have
  their own values, both of either loader (`TypeCorrect`, `OwnValues`).
  `NotRefetched` adds that an id which a load has an answer for is in the cache
  (`KeptInv`), so no later load appends it to a batch. What the workspace loader
  answers is defined by ranks: its n-th value is that of the n-th key that has
  one. That there is an n-th (`RankTaken`) and that nothing moves when nothing
  is missing (`WorkspacesByPosition`) would need an induction over the keys; it
  is replaced by a least counterexample (`Least`, `Greatest`, from the
  well-foundedness of the natural numbers).

Only model-checked: liveness (`RequestsEnd`, `JobsEnd`, `EveryLoadReturns`,
`CallsReturn`), which is out of the prover's reach. Every other property that
some passing run checks is a theorem, under assumptions on the constants that
the instances of its runs satisfy.

## 5. Plan

1. `WorkspaceMembership` grows: permittables that do not exist yet (after
   `FindOrCreate`), `DeleteMe` on shared workspaces and `SetPlatformRolesBySub`
   as further writers, stores without transactions.
   Theorem: a member of a workspace is a user that exists, where `DeleteMe`
   conflicts with additions.
2. Aliases of users and workspaces with their indexes and the migrations that
   make them unique.
3. `MigrationJob` and the guard of `AdminUsers` over `MongoLock` without the
   index, for what two holders do to the migrations and the demotions.
4. Lemmas about the role order and the operator's inclusion of read, write,
   maintain and own; the pagination of the repositories as a pure algorithm.

## 6. Not modelled

Conversions between documents, rows and domain objects, GraphQL and REST
rendering, generated code, the client library, the proxy and the policy
generator hold no state of their own. Mail, telemetry and logging are input and
output, and so is storage but for its cache of signed URLs, whose entries
(23.5 hours) last less than the URLs (24 hours). Aliases and
metadata, and the migrations that no other one depends on are left out as
said above.

Hazards that were found while reading and that no property covers:

- `admin/usecase/authuc/signin.go:139`: the loser of two first sign-ins of one
  e-mail returns the winner's account. `InsertAdmin` models it, and the stored
  records cannot tell which answer was given.
- `infrastructure/mongo/config.go:81`: `SaveAndUnlock` keeps the lock when
  `Save` fails; it has no caller.
- `interactor/workspace.go:935`: a user without a permittable who is added to
  two workspaces at once gets two, since no index of MongoDB makes user ids
  unique there.
- `interactor/workspace.go:542`: without transactions (memory, a standalone
  MongoDB) a failing save of the workspace leaves the permittable changed.
- `interactor/workspace.go:422`: a removal of several members checks only the
  caller's own turn, so the order of the list decides whether the last owner
  may go.
- `interactor/user.go:461`: an addition that commits after `DeleteMe` has listed
  the user's workspaces leaves a deleted user as a member.
- `interactor/user.go:488`: permittables outlive their users and workspaces.
- `interactor/user.go:898`: `SetPlatformRolesBySub` saves a permittable outside
  a transaction and may overwrite a membership change.
- `interactor/user_signup.go:144`: the verification mail is sent inside the
  sign-up's transaction, which may fail to commit.
- `interactor/user_signup.go:567`: a user who has only a password can ask for a
  new verification code: it replaces the old one and is mailed to nobody.
