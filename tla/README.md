# Formal verification of secret-service

TLA+ models of the service, configurations that model-check them with TLC, and
theorems about them that TLAPS checks. The source files named below are those
of the repository (`src/...`). `PROJECT.json` maps every definition to the lines it
translates.

## 1. The system

An HTTP API in Go over one PostgreSQL database. A router
(`internal/http/router.go`) sends each request to a handler, which calls one method
of one service, which runs SQL statements through a repository. All state that
matters is in the database; a request keeps nothing but what it has read. Every
request runs in its own goroutine, and several servers may share the
database, so any two requests interleave **between any two SQL statements**. Only
`CreateSecretWithVersion` and `RotateInTx` are transactions; every other call is a
sequence of statements that commit one by one.

| Component | State | Operations | What is hard | Correct when |
|---|---|---|---|---|
| Secret versions (`internal/secret`, `storage/secret_repo.go`) | a row of `secrets`, its rows of `secret_versions` | create, rotate, rollback, revoke, read value | row locks, READ COMMITTED snapshots, deadlocks, lost COMMIT replies, failures half-way | there is always a value to read, no version is lost or renumbered, answers agree with effects, a revoked value is not served |
| Accounts (`internal/auth`, `serviceaccount`, `authz`, `token`, `middleware/auth.go`) | `users`, `service_accounts`, tokens handed out | register, two logins, block/unblock, create/revoke accounts, the check of every protected route | stale copies of a row, tokens that outlive a block, the race of the first registrations | who is barred stays out, there is an admin who can act, revocations last |
| Membership (`internal/project`, `internal/team`) | `projects`, `project_members`, `teams`, `team_members`, `project_teams` | create, add, remove, change role, assign/unassign a team | role check and write are separate statements, calls of two inserts, errors that are ignored | only those with authority change anything, projects keep an admin |
| Access (`internal/access`, checks in `internal/secret`) | `access_grants` | grant, revoke grant, the read check, the managers' check | member row and grant row are read at different moments, grants expire, secrets of other projects in a URL | no outsider reads, managers decide, the entitled are served |
| Audit log (`internal/audit`, `handler/audit.go`) | `audit_events` | `Log` after an operation, filtered lists | written outside the transaction, errors dropped, stored later than the time they carry; the reader's membership is read before the events | outsiders see nothing, whoever walks back in time misses nothing |
| Rate limiter (`middleware/ratelimit.go`) | token buckets per address in a map with a mutex | take, forget the idle | a request holds a bucket without the mutex while `cleanup` forgets it | every address has one bucket for ever |
| Migrations (`storage/migrate.go`, start of `cmd/server/main.go`) | `schema_migrations`, the schema | run pending files | servers of different releases start together, decide on a list read once, die anywhere | each file takes effect once, in order; who serves has all its files |
| Server, pool (`cmd/server/main.go`, `storage/db.go`) | 25 connections, requests in flight | serve, shut down within 10 s | requests that wait for a row lock hold connections; SIGTERM between commit, event and answer | every request ends; an orderly stop leaves nothing half done |
| Lists and pages (`dto/pagination.go`, `ListSecretsByProject`) | none | `LIMIT`/`OFFSET` pages | rows inserted and revoked between pages, times out of order | a walk meets every row there was |
| Command line client (`cmd/cli/commands`) | `session.json` | `login`, `logout`, `run`, `secrets get`, and the commands of one request | a file written without lock or rename; a list that is old when its values are read; answers that are lost | tokens go to their server, a logout is final for what was on disk, no revoked value is handed on, a repeated command does no harm |

Pure helpers (encryption, hashing), statistics, logging and metrics hold no
state that a decision depends on.

Services interact through the database only: membership rows decide what
access and secrets do, account rows what the middleware lets through, and every
service calls `audit.Log` last.

## 2. Modules

| Module | What it is |
|---|---|
| `VersionedSecret` | abstract: what the history of one secret promises (an append-only list, one current version, one status) |
| `ContendedSecret` | abstract: the same where rotations and rollbacks meet; a write looks at the current versions in one instant and replaces those it saw in another, so that several versions may be current |
| `SecretVersions` | the SQL statements behind both, on PostgreSQL at READ COMMITTED; `Abstract` and `Contended` are its refinement mappings |
| `Accounts` | users, service accounts, tokens, the check of protected routes |
| `ProjectMembers` | projects, teams and who belongs to them |
| `ProjectAccess` | extends `ProjectMembers` with grants and with the checks before a secret is served: the composition of membership and access |
| `SchemaHistory` | abstract: files take effect in order, each once |
| `Migrations` | processes that start on one database, up to `ListenAndServe`: configuration, connection, every statement of `RunMigrations`; `History` is its refinement mapping |
| `TokenBucket` | abstract: one bucket for each address |
| `RateLimiter` | the map of limiters, `get`, `Allow`, `cleanup`; `Buckets` is its refinement mapping |
| `Server` | requests that share the connection pool, and the end of the process |
| `SecretListing` | the pages of the list of secrets while secrets come and are revoked, and a caller that walks over them |
| `SecretsCommand` | extends `SecretListing`: `ss run` and `ss secrets get`, which choose from a list and then read the values |
| `SessionFile` | `session.json` as terminals share it |
| `CommandLine` | the commands of one request, lost answers, and users who repeat them |
| `AuditTrail` | events that are stored, readers that are authorized and walk back in time |
| `Surroundings` | the modules from `Migrations` to `AuditTrail` side by side, one of them active in each behaviour |
| `MC...` | small instances for TLC: sets of requests, users, kinds, seeds, symmetry |
| `...Proofs` | theorems and their proofs; those about `SecretVersions` are in two modules, those about `SecretListing` and `AuditTrail` in `PagingProofs`, those about `Server`, `RateLimiter`, the client and `Surroundings` in `SurroundingsProofs` |

**How state and actions correspond to the code.** A request is a member of `Requests`
with a program counter `pc[r]`; its values are the statements the request runs next.
One action is one SQL statement with the Go code around it up to the next one: its
early returns end the call with an answer (`result[r]`), named after the error the handler
maps to a status. `Start` chooses the method and its arguments, `Fail` ends a call at
any point (cancelled context, failed statement, killed server): an open
transaction is undone, committed statements stay. Tables are functions or records.
Variables called *history variables* only record what was true earlier, for the properties.

`SecretVersions` also models what PostgreSQL does inside an `UPDATE` of several rows:
it takes a snapshot (`BeginSet`, `BeginClear`), then visits the rows in any order,
waits for each row another transaction holds, and works on its newest committed form
(`UpdateRow`). Requests that wait for one another are resolved by aborting one
(`DeadlockVictim`). What belongs to PostgreSQL is marked external in `PROJECT.json`.

The modules around the core model what a request does in bigger steps where the
statements between them are the subject of another module: `Server` knows a rotation
as three uses of a connection, `SecretsCommand` reads a value in two statements and knows a
rotation by its snapshot and its commit,
`CommandLine` takes a call for one effect on counted rows. They share no state
and are composed by one module, `Surroundings`, whose variable `part` names the
part a behaviour is about: only this part takes steps, the others
keep their initial state, so that the states of its run are those of the parts one
after the other, and each part is explored completely. Theorem `PartsAreIndependent` says that
such a behaviour is one of each part's own specification.

`ContendedSecret` says what the service does today, finding 1 included. In its refinement mapping a
caller has *seen* the rows its `UPDATE` has still to visit or has written, and the *turn* is that of the
rotation which has taken its snapshot and not committed.

In `Migrations` a member of `Servers` is one process, which ends in `exited` or
serves; `Abort` is whatever ends it from outside (`MaxFaults` of them), while the exits that
`RunMigrations` itself causes are part of the actions. `Server` ends with `Stop`, the
return of `Shutdown`, or `Exit`, its deadline. In `RateLimiter` time passes by `Tick`, the
time in which one token returns. `SessionFile` splits `os.WriteFile` into its two system
calls and keeps a file that was unlinked for whoever still writes to it. In
`SecretListing` and `AuditTrail` a row gets its `created_at` in one step and
appears in another. In `SecretsCommand` a secret has several current versions where a rollback has met a
rotation (finding 1), and a read returns any of them.

Left out everywhere: names, descriptions, the bytes of values, and timestamps where
nothing is ordered by them (expiry is an event that may happen).

## 3. Runs

| Run | Bounds | Shows |
|---|---|---|
| `SecretVersions_mixed` | 3 requests of all kinds, 2 versions before | `AtLeastOneCurrent`, `Contiguous`, `NoDuplicateNumber`, `AnswerMatchesEffect`, `RevokedRefused`, and that the service, rollbacks included, implements `ContendedSecret` |
| `SecretVersions_rotation` | 4 requests, all kinds but rollback, no secret before | `OneCurrent`, `ReadFresh`, and that the service implements `VersionedSecret` |
| `SecretVersions_live` | 3 rotations/rollbacks, 2 versions | `EveryRequestAnswered` |
| `SecretVersions_one_current` | 3 rotations/rollbacks, 1 version | violated: `OneCurrent` (finding 1) |
| `SecretVersions_audit` | the same | violated: `EventWithOperation` (finding 2) |
| `Accounts_calls` | 3 calls of all kinds, 2 users, 1 service account, empty or seeded | `SomeAdmin`, `SoleAdminNotBlocked`, `BarredStaysOut`, `OneRegistration`, `IdentitiesKept` |
| `Accounts_one_admin` | 2 registrations | violated: `OneAdmin` (finding 3) |
| `ProjectMembers_calls` | 2 calls of all kinds, 3 users, 1 project, 1 team | `PowerlessAreHarmless`, `OrphanedForGood`, `RemoverStays` |
| `ProjectMembers_orphan` | 2 removals, 2 admins | violated: `ProjectKeepsAdmin` (finding 4) |
| `ProjectAccess_calls` | 2 calls of access, addition or removal, 2 users, 2 projects, any grant before | `OutsidersAreRefused`, `ReadersHadPermission`, `EntitledAreServed`, `ManagersDecide` |
| `ProjectAccess_documented` | reads only | violated: `MemberOrGrantSuffices` (finding 5) |
| `Surroundings`, start | 3 servers, one of an older release, 3 files of which one says `IF NOT EXISTS`, 1 fault | `LedgerMatchesSchema`, `ServesMigrated`, `AppliedInOrder` (refinement of `SchemaHistory`), `StartedServes` (liveness) |
| server | 3 requests, 2 of them rotations, 2 connections | `StopLosesNothing`, `EveryRequestEnds` (liveness) |
| limiter | 2 addresses, 2 concurrent attempts, burst 2, idle 3 ticks | `NothingGainedByEviction` (refinement of `TokenBucket`) |
| listing | 3 secrets, pages of 1 and 2, one walk | `WalkMissesNothing` |
| command | 3 secrets, two whose names differ in case only, 1 command; a rotation of one secret, which may fail and overlaps with rollbacks | `DeliveredWasLive` |
| session | 2 terminals, 2 servers with URLs of different length, 2 files, 2 logouts | `SessionsAreSound` |
| line | 2 shells, one of them with a second try | `RetriesAreHarmless` |
| audit | 1 reader, 1 project, 3 events of which one has no project, pages of 2 | `OutsidersSeeNoEvents`, `TrailMissesNothing` |

**Why the bounds are enough to be of use.** Every race named in the hazards needs two
or three requests: one that has checked, one that changes what was checked, and in
`SecretVersions` a third that reads or waits. Two versions are the least on
which two `UPDATE`s can lock rows in opposite orders. Two users tell the caller from
the target, the third of `ProjectMembers` is the bystander whose role an
assignment of the team overwrites; two projects tell the project of a URL from
the one of the secret. One secret, team and service account are enough as
rows do not interact across them. Calls are not repeated: a request that has
ended stays, so each run is finite without further bounds. No counter needs a
bound: a version number is at most the seed plus the requests.
Requests (and users, where the seeds allow) are symmetric; the run with a
liveness property uses no symmetry.

In `Surroundings`: two servers of one release collide on every file, the third shows what an
older one does beside them; one fault may hit any step, the COMMIT whose reply is lost
included. A pool of two connections is filled by the two rotations that wait for one
row, so that the third request finds none. Burst, idle time and the longest stall are the
least that satisfy the assumption `MaxStall + Burst <= Idle + 1` of the limiter and still let
`cleanup` forget a limiter beside a request for it (the code has 10 tokens at 5 a second, five minutes and,
for a request between `get` and `Allow`, next to nothing). Three rows on pages of one and
two give first, middle and last pages, and `MaxOffset` is no smaller than the longest
list, as 100000 is. The two lengths of a session decide whether a shorter one written
over a longer one leaves text behind. One shell that tries twice beside another one is the
least that lets the first, delayed request arrive after the second. `MaxFaults`,
`MaxVersion`, `MaxLogouts` and `MaxTries` are the only bounds on what may be repeated. `MaxVersion` gives one of the
three secrets a second version: a rollback that does not see it leaves two current. What a further rotation does to
several current versions is in the run `SecretVersions_mixed`; `NothingRevokedDelivered` is proved for any `MaxVersion`.

**Deadlock** is checked in all runs but `Surroundings`: the only state without a step of a request is the
one where all are answered (`AllDone`, and its like in `ProjectAccess`). In `Surroundings` servers
exit and walks and commands end, which is no deadlock.

**Fairness.** `FairSpec` of `SecretVersions` assumes weak fairness of the steps of each
request that has started: the Go scheduler runs every goroutine and PostgreSQL
executes statements, grants released row locks and detects deadlocks. Nothing is
assumed of arrivals, failures or of which waiting request goes first.
`StartFairness` of `Migrations` says that a process that was started goes on, `ServerFairness`
that the goroutine of a request does, that the pool hands its connections to those who
wait (`database/sql` queues them) and that `Shutdown` returns once nobody is in flight. No
client, signal, deadline or fault is under an obligation, so `EveryRequestEnds` holds also of a
server that never stops, and for a request whose client stays.

**What the histories mean.** `BarredStaysOut`, `PowerlessAreHarmless`, `OutsidersAreRefused`,
`ReadersHadPermission` and `ManagersDecide` do not ask that a caller be
entitled at the moment of the effect, which the code does not guarantee (it
checks, then acts). They say that a call succeeds only if its caller was entitled
at *some* moment of it, so that a block, removal or revocation that was
answered before the call began always counts. `EntitledAreServed` is the converse.
A check of the wrong row, a check that is skipped for one kind of call or a barred
principal that comes back by another path would break them.

Each property of a passing run has a mutant, a definition in the same module that
changes one action as a plausible bug would (`PROJECT.json`, "mutants"); under it the
run finds the property violated.

## 4. Findings

1. **Two current versions.** `SetCurrentVersion` (rollback) takes no lock on the row of
   the secret. Its `UPDATE` may take its snapshot before a rotation commits, wait for
   the rotation's rows, and then set the old version current without seeing the new
   row, which stays current too. `GetCurrentVersion` then returns either. Until the next
   rotation or rollback the stored secret has two values. Without rollbacks this cannot
   happen (`SecretVersions_rotation`, theorem `RotationsKeepOneCurrent`).
2. **Audit events are not part of the operation.** The case study says they are written
   in the same transaction; they are written after it, and a failure is dropped.
3. **Two global admins.** Count and insert of a registration are separate statements.
4. **Orphaned projects.** Two admins who remove each other at once leave none; nobody can
   then change the project (`OrphanedForGood`).
5. **The access chain** of README and documentation (member, or live grant) is not the code's:
   no grant helps a user who is no member, and a developer needs one.

**Smaller observations**, which no run is about:

* `ss run` and `ss secrets get --name` ask for the first page of the list only, 20 secrets
  (`dto/pagination.go:9`), where the documentation says of `ss run` "Loads all secrets"
  (`src/secret-service-DOCUMENTATION.md:292`); of two secrets whose names differ in case the older one wins.
  `--with-secrets` of `ss run` is never read.
* A `?limit=` above 500 of the audit log falls back to 100, one of the list of secrets to the maximum
  of 200. An offset above 100000 counts as 100000 (`dto/pagination.go:41`), so that a walk beyond it gets the same page
  for ever, where the security notes say that such requests "return `400 Bad Request`" (`src/secret-service-SECURITY.md:73`).
  The lists of the models are never that long.
* A login that has its token when another terminal logs out, and opens the session file afterwards, leaves a
  session that commands load; one that had the file open does not (`SessionsAreSound`).
* With `?status=active`, every revocation during a walk may make it miss one secret (`WalkMissesNothing`
  says how many at most).
* Logins to two servers at once can leave a session file that no command can read, until the next
  login: `SessionsAreSound` says that it is never one of mixed content.
* `ss projects create` and `ss secrets rotate` create again when they are repeated after a lost answer.
* Servers that start together on an empty database make all but one of them exit; nothing restarts them.
* The deadline of `Shutdown` does not reach the requests: they are cut off in the middle, without their
  event, and PostgreSQL rolls back what was open.
* The event `team_created` carries the id of the team as its project, which the foreign key refuses.

## 5. Proofs

TLAPS proves, for every value of the constants:

* `SecretVersionsProofs`: `TypeCorrect`, `SecretStaysReadable` (`AtLeastOneCurrent`), `NumbersAreExact`
  and `NumbersHaveNoGaps` (`Contiguous`, `NoDuplicateNumber`), `HistoryIsKept` (`HistoryKept`: no step loses or overwrites a version or undoes
  a revocation; no run of its own, as the refinement of `ContendedSecret` is broken by whatever breaks it),
  `RotationsKeepOneCurrent`
  (`OneCurrent`, when no request rolls back).
* `SecretAnswersProofs`: `AnswersAreTrue` (`AnswerMatchesEffect`), `RevokedStaysUnread` (`RevokedRefused`),
  `WritesRefineContended` (`ImplementsContendedSecret`, for requests of every kind);
  when no request rolls back, `ReadsAreFresh` (`ReadFresh`, for a secret that had one version at
  most), `RotationsRefineHistory` (`ImplementsVersionedSecret`, the refinement of `VersionedSecret`) and
  `RotationsNeverDeadlock` (nobody is answered with a deadlock).
* `AccountsProofs`: `AccountTypes`, `AdminRemains` and `SomeAdminRemains` (`SomeAdmin`,
  `SoleAdminNotBlocked`), `BarredPrincipalsStayOut` (`BarredStaysOut`), `RegistersOnce`
  (`OneRegistration`), `IdentitiesStay` (`IdentitiesKept`).
* `ProjectMembersProofs`: `MemberTypes`, `PowerlessNeverAct` (`PowerlessAreHarmless`),
  `OrphansStayOrphans` (`OrphanedForGood`), `RemoversStay` (`RemoverStays`).
* `ProjectAccessProofs`: `AccessTypes`, `OutsidersRefused`, `ReadersPermitted`, `EntitledServed`,
  `OnlyManagersDecide` (`ManagersDecide`): all that the run of `ProjectAccess` checks.
* `MigrationsProofs`: `StartInvariant`, `LedgerTrue` (`LedgerMatchesSchema`), `ServingIsMigrated`
  (`ServesMigrated`), `StartRefinesHistory` (`AppliedInOrder`, the refinement of `SchemaHistory`),
  `NotAllStopped` (`SomeoneGetsThrough`).
* `PagingProofs`: `ListingTypes`, `WalksComplete` (`WalkMissesNothing`), `AuditTypes`,
  `OutsidersSeeNothing` (`OutsidersSeeNoEvents`), `TrailComplete` (`TrailMissesNothing`).
* `SurroundingsProofs`: `StopsInOrder` (`StopLosesNothing`), `OnlyFullAndFreeForgotten`, `LimiterRefinesBuckets`
  (`NothingGainedByEviction`, the refinement of `TokenBucket`), `SessionsSound` (`SessionsAreSound`),
  `RetriesHarmless` (`RetriesAreHarmless`), `NothingRevokedDelivered` (`DeliveredWasLive`), and of the
  parts side by side `PartsAreIndependent` and `PartsTypes` (`PartsTypeOK`).

They rest on the named assumptions of the modules (`Assumption`: requests are no
`None`, kinds are known, targets are at least 1, and the like), which TLC evaluates in every run. Secrets, events and shells
are finitely many, limits natural numbers, and no caller asks for one event at a time: a walk back in time that
asks for the events *up to* the oldest it has would stay where it is.

*The argument for secrets.* None of the properties is inductive. `AtLeastOneCurrent` needs to
know what a transaction that is about to commit will do to the rows that are
committed *by then*. The invariant therefore has these parts:

* `KindInv`: a request is only at steps of the method it runs;
* `RowsInv`: the committed rows are numbered without gaps;
* `NumInv`: whoever adds a version holds the lock on the secret, so that the number it
  has computed is still one above the largest; the target of a rollback exists;
* `WritesInv`: what a transaction has written are rows that exist, with their
  values unchanged, and the version it makes current is among its writes or, in
  a rollback, still to be visited.

Then a commit overlays rows of which one is current.
For `OneCurrent` without rollbacks a second invariant adds that a rotation's
snapshot, taken under the lock, still holds all current rows (`ClearInv`).

`AnswerMatchesEffect` needs `StoredInv`: until its commit a request has stored nothing and has no
answer; a commit stores the value of its own request, once, and of no other. `RevokedRefused`
rests on the fact that a revocation is final, so that a read which started after one
is still before the status check or has been refused (`RevokedInv`). `ReadFresh` adds that
the current version is the newest one (`FreshInv`). The refinement puts these together: a
commit appends the value of its request and makes it the current one, `RevokeRow` is the abstract
revocation, and every other step changes nothing the abstract history sees.

`WritesRefineContended` needs `FlagInv` besides: the rows an `UPDATE` has visited are written as not
current, but for the target of a rollback. A commit then takes exactly the versions its caller has seen out of the
current ones and puts one in (`CommitReplaces`), a snapshot is the moment of looking, and a failure that of
giving up. No transaction holds a row that another one has still to insert, so that a rollback never replaces what
was added since it looked: finding 1, as a property of the abstract history. Rotations exclude one another because whoever
rotates holds the lock on the secret (`TurnIs`); for the same reason nobody is ever waiting for a
request that waits when there are no rollbacks (`NobodyDeadlocked`).

*The argument for accounts.* `AdminRemains` needs that a registration which counted no
users will insert an admin, and that whoever has passed `ReadActor` is an admin other than
the target (admin flags never change). `BarredStaysOut` needs that
a barred call has not passed the check of its token, and that every step which
makes a principal valid takes its calls out of `barred`.

*The argument for membership.* Role checks and writes are separate statements, so that
the invariant ties each step to its method (`OnItsWay`): whoever is at a write of
a project or team has been through a check of it. `PowerlessWait` adds that a call
whose caller never had authority is still before its check, or has ended; the
step that ends it fails. `References` (the rows written have their project and
team) is what `TypeOK` needs for the foreign keys. For `OrphanedForGood` a call that would
change a stuck project is either past its check, which `Stuck` excludes,
or has a check to pass that nobody passes.

For the team the same holds with its owners in place of the admins.

*The argument for access.* A call reads a role and a grant in separate statements and uses them
later, so that no property says anything about the moment of the answer. Two history variables
note which facts held at some moment of a call (`ever`) and at every one (`always`).
`OnItsRoute` ties each statement to its call, `Permitted` says that what a check let through
is in `ever`, and `NotEntitled` that what a check found missing is not in `always`: an answer is
then right for one moment of the call. `ManagersDecide` adds that whoever is past
`checkManager` has `manager` in `ever`, and that grants change nowhere else.

*The argument for migrations.* `LedgerMatchesSchema` is not inductive: a server whose list of
applied files is old may run a file that another one has committed. The invariant adds that the
ledger is a prefix of the files (`PrefixApplied`), that a server is past applied files only
(`PassedApplied`), and that of two servers inside the same file's transaction one holds the locks and
the other has found the row of the ledger (`SoleRunner`). `SomeoneLeads`, the strengthening of
`SomeoneGetsThrough`, names the server that got furthest: no file it has still to run is applied.

*The argument for the rate limiter.* A limiter may be forgotten only when it is full: `IdleFills`
relates its tokens to the time since it was last asked for, and `HeldIsCurrent` says that a request
which still holds a limiter holds the one in the map; together they give `OnlyFullAndFreeForgotten`: `cleanup` forgets
no limiter that is not full or that a request holds. Both need the assumption that no
request waits between `get` and `Allow` for as long as the idle time less the time
to fill a bucket, 298 seconds with the constants of the code: without it, an address has two buckets.

*The argument for pages.* A walk with `OFFSET` counts places, and the place of a row moves when another one is
inserted before it or leaves the filtered list. `WalkMissesNothing` is about the end of a walk only; `ListingInv` says
for each moment of it how many rows it was due are already behind its offset, unseen (`Lost`): none on the whole list, where
insertions only move rows towards the pages still to come, and at most one for each revocation since the walk began
on the list of active ones. A page brings in all rows between two offsets, and one that is not full is the last. The
lemmas on places (`Places`: newer rows have smaller ones, each its own) carry the counting, with
the library's theorems on cardinality. `TrailMissesNothing` needs no counting of offsets:
what a reader was due and has not seen is no newer than what it asks for (`BackOK`), because a page holds
the newest events asked for (`PageHolds`), and a page with nothing new holds but the event it started
from, hence is short, hence the last. A reader has been authorized for the scope it asks for, and
a page holds events of that scope only (`RightOK`).

*The arguments for the surroundings.* A server stops only when no request is in flight
(`StoppedIsIdle`), and `FarEnough` says how much a request has stored at each of its steps. For the
session file, every content, on the disk or in a terminal's memory, has the token of the server it names
(`FileOK`), and the file that `session.json` names was opened after the last logout that found one, by
whoever wrote it and whoever still has it open (`CommandOK`). A repeated command is
harmless because rows are counted against the requests that the server has dealt with (`StoreOK`), a set that
only grows (`HandledGrows`), and because an attempt with an answer that claims a row finds it there
(`ShellOK`). A value that a command has received belongs to
a secret that was not revoked when it was chosen: revocations last, so that the server's later
check is as good as one made then. The history variable `had` collects the versions of a chosen secret that were current then
or became so later; `RunOK` says that it holds all that are current while the secret is still to be fetched, so that a read
returns one of them, whichever of several current versions it is.

*The composition.* A step of `Surroundings` is a step of one part that leaves the variables of the others
unchanged (`PartsStep`), hence for each part a step of its `Next` or a stutter: every theorem about a part
holds of `PartsSpec`. `PartsTypes` follows from the invariants of the parts; a command, which reads the list of secrets
while rows come and go, is the one that needs the invariant of another (`FetchBesideWalks`).

*Only model-checked:* the liveness properties `EveryRequestAnswered`, `StartedServes` and `EveryRequestEnds`,
which are out of the prover's reach (fairness and ENABLED are). The findings are
counterexamples of TLC.

## 6. Not modelled

* Encryption and password hashing: library functions; a value and its ciphertext are one thing here.
* Statistics, logging, metrics, request ids, recovery: nothing decides by them. `ListExpiring`, the lists of
  projects, members and users, and the filters by environment, name, tags, actor and event type
  select from rows that the models have, by columns that never change.
* Of `ListGrants` the role check is modelled (as a call of managers that writes nothing); that it then looks whether the
  secret is in the project (`ensureSecretInProject`), and which of its refusals a caller gets, is not.
* `UpdateDisplayName`: no other state depends on it.
* `src/cmd/cli/client.go` and `config.go`, an older client no command uses; how commands print.
* `src/docs/docs.go`, generated.
* The time limits of the HTTP server (10 s to read, 15 s to write): `Disconnect` covers what they do to a request.

## 7. Plan

1. Action properties of the parts that the runs check as invariants only: what a step may never do to the ledger
   of migrations, to a limiter in use, to the rows of the audit log.
2. The conditions under which findings 3 and 4 cannot happen (one registration at a time, a single admin), stated as
   theorems, as `RotationsKeepOneCurrent` does for finding 1.
3. Larger instances of the parts of `Surroundings`, each in the time its run has left.
