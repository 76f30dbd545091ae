# TLA+ models of pr-service

This directory holds TLA+ models of the pull-request reviewer service in `src/`.
They are checked with TLC. The models cover the reviewer-assignment state
machine of the `PullRequest` entity, and the services that drive it
concurrently against PostgreSQL.

## 1. Inventory

### Components and their state

| Component | Source | State | Operations |
|---|---|---|---|
| PullRequest entity | `internal/domain/entities/pull_request.go` | `Status`, `reviewers` slice (≤ 2), `MergedAt` | `AddReviewers`, `ReassignReviewer`, `Merge`, `SetReviewers`; queries `IsReviewer`, `IsMerged`, `IsFullyAssigned`, `Reviewers` |
| User entity, domain errors | `entities/user.go`, `domain/errors.go` | id, username, team, `IsActive` | – |
| PullRequestService | `app/services/pull_request_service.go` | none (stateless) | `Create`, `Merge`, `ReassignReviewer` |
| UserService | `app/services/user_service.go` | none | `SetActiveStatus`, `GetUserReviews` |
| TeamService | `app/services/team_service.go` | none | `Create` (team + member upsert), `GetByName` |
| StatsService | `app/services/stats_service.go` | none | `GetStats` (3 reads, in-memory counts) |
| Transaction manager | `infrastructure/db/tx_manager.go` | a `sql.Tx` per call | `Do(op)` |
| Repositories | `infrastructure/postgres/repositories/*.go` | tables `users`, `teams`, `pull_requests`, `pull_request_reviewers` | CRUD, `SetIsActive`, `UpsertMembers`, conditional reviewer swap |
| Providers | `infrastructure/providers/*.go` | a seeded `rand.Rand` | `Shuffle`, `Intn`, `Now` |
| HTTP layer, DTOs, mappers, config | `internal/api/**`, `config/`, `db_mappers/` | none | request binding, JSON, status codes |

### How the components interact

Each HTTP request runs on its own goroutine (gin). A handler calls one service
method. The service reads and writes the tables through the repositories. The
only shared mutable state is the database.

`Create`, `ReassignReviewer` and `TeamService.Create` wrap their work in
`txManager.Do`. The spec (§5) relies on this for atomicity. However, `main.go`
builds every repository on the `*sql.DB` pool. `Do` begins a `sql.Tx`, but the
repositories never see it. So every repository statement auto-commits on its
own, and the `Rollback` at `tx_manager.go:27` undoes nothing. `Merge` is not
wrapped at all.

The practical effect is that service operations are sequences of independent
statements. Statements from different requests can interleave between them.
An error part-way through leaves the earlier writes in place.

### What is hard here

- **Interleaving.** Requests interleave at statement granularity. A check and
  the write that depends on it can be separated by other requests' writes.
  This affects the `IsMerged` check, the `IsReviewer` check, the existence
  check and the active-candidate read.
- **Partial failure.** A multi-statement write that fails part-way is not
  rolled back. This affects `Create`'s row and reviewer inserts, and the team
  row and member upserts.
- **Silent no-op writes.** `ReassignReviewer`'s conditional `UPDATE` does not
  read `RowsAffected`, so a swap that matched nothing still reports success.
- **Unconditional overwrite.** `Save` writes `status` and `merged_at` without
  checking the current status.
- **Greedy fill at a capacity boundary.** `AddReviewers` computes remaining
  capacity, breaks the loop when it is reached, and skips the author and
  duplicates.
- **A shared random generator.** `main.go` gives every request the same
  `*rand.Rand`, which is not safe for concurrent use. Two draws at once are
  a data race that can panic.

The full list, each entry at its source line, is `PROJECT.json` → `hazards`.

### Properties that make each component correct

- **Entity.** At most 2 reviewers, never the author, and no duplicates. A
  merged PR is frozen: its reviewers, status and first `MergedAt` never change.
  `AddReviewers` adds exactly the first eligible candidates, in order, up to
  the remaining capacity.
- **PullRequestService.** The stored reviewers always satisfy the entity
  invariants and are teammates of the author (while no one is
  re-parented, see `System` below). Merge is idempotent, with the
  first timestamp kept. Reviewers of a merged PR never change. A successful
  reassignment returns a PR that holds the new reviewer. A failed Create
  persists nothing.
- **TeamService.** Every user's team row exists. A failed Create persists
  nothing. Team names are unique, and a duplicate surfaces as `TEAM_EXISTS`.
- **StatsService.** The per-team counts of one answer agree with its
  per-user counts, although the three reads are separate statements.

## 2. Modules

### `PullRequest.tla` — the entity

This module models one pull request with author `Author`. Its variables are
`status`, `reviewers` (a sequence in slice order), `mergedAt`, `added` (the
slice the last `AddReviewers` returned) and `result` (the error the last
`ReassignReviewer` returned). There is one action per mutator:

- **`AddReviewers(cands)`** calls `AddReviewersOp`. That operator takes the
  early return of lines 68–70, or runs the RECURSIVE operator `Walk`, which is
  the loop of lines 75–85.
- **`ReassignReviewer(old, new)`** runs its checks in code order, then replaces
  the first occurrence of `old`.
- **`Merge(t)`** is idempotent.

Inputs are every candidate slice of length ≤ 3 over the users, including
repeats, the author and current reviewers. They also include every
`(old, new)` pair and every time.

`RefAdded` defines `AddReviewers` without the loop. It takes the eligible
candidates, orders them by first occurrence, and keeps the first
`min(capacity, |eligible|)` of them. `AddReviewersMatchesReference` checks in
every reachable state that, for every candidate slice, the walk returns that
reference.

`NewReviewers` is reused by `PRService` through `INSTANCE`.

### `Store.tla` — the shared tables and the workers

**State.** The tables are `userRow` (users: `team`, `isActive`, or `NoUserRow`
for a user with no row yet), `teams` (the team names with a row), `prRow`
(pull_requests) and `revRows` (pull_request_reviewers, one set per PR).
`clock` is `Now()`. The module also keeps per-worker `pc` and `req` (locals),
`resp` (the last reply), the ghost `rowOwner` (which request inserted each PR
row or team row), and the bound counters `requests` and `failures`.

`Receive(w, r)` starts a request; it stands for `txManager.Do` beginning its
unused Tx. `Reply` ends it. `Fail(w)` is an infrastructure error on a
statement (`StatementFails`): there are at most `MaxFailures` of them. A
write can fail. So can the read after committed writes: the re-read of
`SetIsActive`, the re-read of `ReassignReviewer`, and the members re-read of
team creation. So can `tx.Commit` at the end of `Create`. The ghost field
`req[w].wrote` records that a statement of the request has committed
(`MarkWrote`). `FailedRequestLeavesNothing` uses it. `Served` is the idle server once the
request budget is used up. `Init` is the state after the teams of
`InitTeamOf` were created, with no pull request yet. `TypeOK` is the one type
invariant of the service modules.

### `PRService.tla` — pull request and user services

Each action is one repository statement together with the service code
around it, up to the next statement:

| Action | Code |
|---|---|
| `CreateCheckExists` | `GetByID(id)` → `PR_EXISTS`; an error of this read counts as "absent" (lines 46–47) |
| `CreateReadAuthor` | user `GetByID` (`USER_NOT_FOUND`), team `GetByName` (`TEAM_NOT_FOUND`), `AUTHOR_NOT_ACTIVE`, in code order (`AuthorError`) |
| `CreateReadTeam` | `GetUsersByTeam` of the team read before, filter (`CreateCandidates`), `Shuffle` (any permutation), `AddReviewers` (the entity's `NewReviewers`); or `RandomPanics` |
| `CreateInsertRow` | `INSERT pull_requests`; a key conflict is an error |
| `CreateInsertReviewer` | one `INSERT pull_request_reviewers` per step, then `tx.Commit` (which can fail) |
| `MergeGet`, `MergeSave` | `GetByID`, entity `Merge(Now())` (`MergedSnap`), unconditional `UPDATE` |
| `ReassignGet` | `GetByID`, `PR_MERGED`, `USER_NOT_FOUND`, `NOT_ASSIGNED` |
| `ReassignPick` | author, team and members read now (`Members`), `filterActiveUsersExcludeAuthorAndReviewer`, `Intn` (any candidate), `NO_CANDIDATE`; or `RandomPanics` |
| `ReassignUpdate` | `UPDATE ... WHERE user_id = old`; zero rows is not an error; a key conflict is |
| `ReassignReread` | `GetByID` for the reply; it can fail after the swap committed |
| `SetActive` | `UPDATE users SET is_active`; zero rows is `USER_NOT_FOUND`; the statement can fail |
| `SetActiveReread` | `GetByID` of the user for the reply (`active`), a second statement that can fail |

**The random source.** `Draws(v)` holds when worker `v` is about to draw:
Create with a non-empty pool, or Reassign with candidates. `RandomPanics(w)`
is the data race on the one shared `*rand.Rand`. When `w` draws while another
worker `Draws`, one outcome is a panic. gin's `Recovery` answers it with 500,
and nothing has been written yet. Otherwise the draw is any permutation or
index, as without a race.

`PRSpec` serves only these requests; teams stay as `Init` made them.

**Abstractions.** Reading the PR row and the reviewer rows (`GetByID`'s two
SELECTs) is one step (`ReadPR`). Between the two SELECTs, only a merge's
`Save` or a reviewer write can change what is read. The model already reaches
both of those between two whole `GetByID`s (reassign_merge, reassign_race),
so splitting the read adds no new outcome to a property.
`(pull_request_id, user_id)` is taken as unique: the schema is not in the
repository. A read that fails before any write of its request only turns
into an error reply with nothing committed. Such reads are left infallible,
except the existence check, whose error changes the control flow.

### `TeamService.tla` — team creation

`TeamCheck` is `GetByName` (`TEAM_EXISTS`). `TeamInsert` is the teams
`INSERT`: a name inserted since the check is a key conflict, and its wrapped
error is returned as it is. `TeamUpsert` is one `INSERT ... ON CONFLICT (id)
DO UPDATE SET team_name, is_active` per member (`UpsertedRow`), in request order; after the
last one it replies with `GetUsersByTeam`, a read that can fail after
everything has committed. The requests are the constant
`TeamCreates`: name plus the member list as bound by the handler. The ghost
field `req[w].sent` keeps the ids sent, for `TeamReplyIsUpserted`.

### `System.tla` — everything together

`System` extends `PRService` and `TeamService` (both extend `Store`, so there
is one set of tables). `SysSpec` lets the same workers serve pull request,
activity and team requests in any interleaving. `UpsertMembers` can
re-parent a user who reviews an open pull request of the old team. Spec §9
leaves it out of scope whether that should touch the user's reviews. So no
property is stated about it, and the system run creates teams that
re-parent no teammate of the author.

### `ServiceAtomic.tla` and `SystemRefinement.tla` — what the services promise

`ServiceAtomic` states spec §4.2, §4.3 and §5 over the same tables. `CreatePR`,
`MergePR`, `ReassignPR`, `SetActivePR` and `CreateTeam` are each one atomic
step, and a failed call is no step at all. `CreateTeam` inserts the team and
upserts all its members in order (`Upserted`, a `FoldLeft` over the list). The reviewers of a new pull request are given
by their outcome: `min(2, |pool|)` active teammates of the author. They are
not computed by the code's shuffle-and-walk.

`SystemRefinement` extends `System` and instantiates `ServiceAtomic`
with a refinement mapping. The tables map to themselves, with two
exceptions. A pull request whose Create is still inserting reviewer rows
(`CreatingPR`) appears absent, with no reviewers, so the last reviewer
`INSERT` is the step that implements `CreatePR`. The users rows of a team
creation that is still upserting members (`Upserting`) are shown with the
remaining upserts already applied (`AbsUserRow`), so the teams `INSERT` is the
step that implements `CreateTeam` and each upsert is a stuttering step. `AtomicSpec` (the abstract `Spec`) is checked as a
`PROPERTY`.

### `ReadSide.tla` — the read side

`ReadSide` extends `System` with the three read handlers, so that they
interleave with every writer. `ReviewsGetUser` and `ReviewsList` are
`UserService.GetUserReviews`: user `GetByID` (`USER_NOT_FOUND`), then
`GetByReviewer`, the join of the pull requests with the user's reviewer rows.
`TeamGetTeam` and `TeamGetMembers` are `TeamService.GetByName`: team
`GetByName` (`TEAM_NOT_FOUND`), then `GetUsersByTeam`. Each is one statement
per step, with no claim across the two steps to check.
`GetStats`: `StatsReadUsers` and
`StatsReadTeams` are the users and teams `GetAll` statements; they keep
their snapshots in the worker's locals. `StatsReadPRs` is the pull request
`GetAll` followed by the in-memory computation `StatsOf`, which translates
`countOpen/MergedPullRequests`, `calculateUserStats` and `calculateTeamStats`
into set cardinalities over the snapshots. The per-PR listing only copies
fields and is left out.

### `ErrorMapper.tla` — HTTP status of a reply

`ToHTTPError` translates `error_mappers.ToHTTPError`. The six conflict and
policy errors map to 409 with their own code. The three not-found errors map
to 404 `NOT_FOUND`. Anything else, including every wrapped repository error
(`DB_ERROR` in the models), maps to 500 `INTERNAL_ERROR`. `System` applies it
to the replies in `NoInternalErrorWithoutStoreFailure`. `ToHTTPError` is
only called with an error, so a success reply is not passed to it.

### `Api.tla` — routes and handlers

`Api` extends `ReadSide` with the HTTP layer in front of every service.
`HTTPStatus` is `routes.Setup`: it sends each kind of request to its handler's
status operator. `PRHandlerStatus`, `UserHandlerStatus`, `TeamHandlerStatus`
and `StatsHandlerStatus` give 201 for the two creations and 200 for other
successes. On an error they use `ToHTTPError`, except `GetStats`, which
answers 500 for any error. The only validation the model's requests can fail
is `CreateTeam`'s: `BindFails` is the `min=1` binding on the members list,
and `HasDuplicateUserIDs` is `hasDuplicateUserIDs`. `Reject` answers such a
request with 400 at once, and the request never reaches a service.

`ApiSpec` assumes no fairness. See Fairness below for why.

### Plan for the next sittings, in order

1. Done: `Store`, `TeamService` and `System` (team creation racing with
   itself and with the pull request services).
2. Done: `ServiceAtomic` and its refinement by `System`, team creation
   included.
3. Done: `ReadSide.tla`, with `GetStats`, `GetUserReviews` and
   `TeamService.GetByName`.
4. Dropped: liveness. No step of the code waits on another request, so
   "every request is answered" holds by the shape of the model (see
   Fairness).
5. Done: `ErrorMapper.tla`.
6. Done: `Api.tla`, covering the handlers and routes.
7. Done: failures of reads and of `tx.Commit` after committed writes, the
   `wrote` ghost. `ReadPR` stays one step (see
   Abstractions above).
8. Done: the reply of team creation (`TeamReplyIsUpserted`). Together with
   `SetActiveReportsWritten` it forms `ReplyShowsOwnWrite`. Also done: the
   data race on the shared random generator.

## 3. Runs

| Run | cfg | Expect | What it shows |
|---|---|---|---|
| entity | `MC_PullRequest.cfg` | pass | Any sequence of entity calls keeps the reviewer slice within capacity, free of the author and of duplicates. It freezes a merged PR. The recursive walk equals the reference. 800 states. |
| system_serial | `MC_System_serial.cfg` | pass | With one worker, five requests and no errors, `System` implements `ServiceAtomic` (`AtomicSpec`), team creations included. About 74k states. The spec's promises hold: merge idempotence, reviewers frozen after merge, and a reassign reply that contains the new reviewer. `ReplyShowsOwnWrite` holds: a success reply shows the request's own write. Its mutant, an upsert that leaves `team_name` out of `DO UPDATE`, shows that the property sees re-parenting. So the violations below are caused by concurrency and partial failure; with two workers the refinement fails the same way (a Merge lands between Create's row and reviewer inserts, as in reassign_merge). |
| double_merge | `MC_PRService_double_merge.cfg` | violation | Two merges both read OPEN. The second `Save` overwrites `merged_at` (1 → 2). |
| reassign_merge | `MC_PRService_reassign_merge.cfg` | violation | Create inserts the PR row. A Merge lands before the reviewer rows, and the rows are then added to a MERGED PR. The reassign/merge gap gives the same effect. |
| reassign_race | `MC_PRService_reassign_race.cfg` | violation | A reassign swaps u1→u2. A second reassign swaps u2→u1 before the first one's re-read. The first returns success with `newReviewerID = u2`, which its returned PR lacks. A swap whose `WHERE user_id = old` matches no row leads to the same reply. |
| partial_failure | `MC_PRService_partial.cfg` | violation | `FailedRequestLeavesNothing` (stated in `Store` for every request, using the `wrote` ghost). The shortest trace is `SetActiveStatus`: its `UPDATE` commits, its re-read fails, and the client gets an error for a change that happened. Create fails the same way after its row insert, at a reviewer insert or at `tx.Commit`. So do team creation after its teams row and `ReassignReviewer` after its swap. TLC shows one counterexample per run. |
| stale_reply | `MC_System_reply.cfg` | violation | `ReplyShowsOwnWrite`: a success reply of `SetActiveStatus` shows the `is_active` it wrote, and one of team creation lists exactly the members it upserted (spec §4.3, §4.4). The shortest trace has two `SetActiveStatus` calls for `u1` with opposite flags. Both `UPDATE`s run before the first one's `GetByID`, so the first call answers success with the other call's flag. The cfg also lets "payments" and "platform" both take `u1`. Checked alone (`TeamReplyIsUpserted`), TLC finds "platform" moving `u1` between the upsert and the re-read of "payments", whose reply then lacks `u1`. |
| system | `MC_System.cfg` | pass | Pull request, activity and team requests on two workers, four requests, one failure of any statement. Reviewer rows stay within capacity, on an existing PR, never the author. They stay teammates of the author (`ReviewersAreTeammates`) while team creations only add a new user (`o` into "payments", or a duplicate "backend"). Every user's team exists, across concurrent and duplicate team creations and failed upserts or re-reads. Overlapping reviewer draws may panic. About 5.5M states in about 150 s. |
| api | `MC_Api.cfg` | pass | All eight routes, on two workers (symmetric) with three requests. The team requests include an empty one and one with a duplicate id, and the handler rejects both. `CreatedMeansInserted`: a 201 always names a pull request or team row that the same request inserted, even when two creations of one id or name race. `StatsTeamsAccountForUsers`: `GetStats` interleaved with team creations (a new user, a re-parented user) and a pull request creation. Team member counts always add up to the users listed, and team PR counts to the per-user PR counts. It holds because users are read before teams and teams are never deleted; the mutant that reads users last breaks it. About 358k states in about 15 s; four requests take over four minutes. |
| system_internal_error | `MC_System_internal.cfg` | violation | With no store failure at all, the client gets 500. The shortest trace: two Creates draw their reviewers at once from the shared `*rand.Rand`, and one panics (`RandomPanics`). With an author who has no teammates, no draw happens, and TLC finds the other case: two Creates of `p1` both pass the existence check. The second `INSERT` fails on the key and the client gets 500 `INTERNAL_ERROR`, where spec §5 asks for a PR_EXISTS-class conflict. Two creations of one team name fail the same way, 500 instead of `TEAM_EXISTS`. (This run has no team requests, so that TLC shows the pull request case.) |

Each violation is a finding in `PROJECT.json`. Each property of a passing run
has a mutant there: a plausible code fault that TLC must catch under the same
cfg.

### Bounds

- **Users.** `a` (the author), the teammates `u1 u2 u3`, and `o`, either in
  another team (`MCTeamOfOther`) or without a users row (`MCTeamOfMissing`,
  so that `USER_NOT_FOUND` is reached). Three teammates let Create fill both slots with a third candidate left
  for reassignment. `o` checks the team filter. `u1..u3` are symmetric, and so
  are the workers.
- **Pull requests.** One id, `p1`. All the races found are on a single pull
  request.
- **Requests and failures.** Three requests (Create plus two racers) are
  enough for every violation. The system run uses four requests and one
  failure, so two Creates can race and still have a reassign, merge or team
  creation after them, with one statement failing anywhere.
- **Teams.** Two names. The team requests create "payments" and "backend"
  again (a duplicate). In system_serial, "payments"
  takes `u1`, re-parenting one of the author's teammates. In the system run
  it takes `o`, a new user, so `u1 u2 u3` and the workers stay symmetric.
  The stale_reply run adds a third name, "platform", so that two new teams
  can both take `u1`.
- **Candidate slices** in the entity model have length ≤ 3. That is longer
  than the capacity, so the break, both skip branches and repeated candidates
  are all exercised.

### Fairness

No run assumes fairness, and no liveness property is stated. Each request
runs on its own goroutine. Every statement of the store returns a row, an
error or a failure, and no step of the services waits on another request:
the idle Tx holds no locks, and nothing awaits or retries. So every step of a
busy worker is always enabled, and each request has finitely many steps.
"Every accepted request is eventually answered" would follow from the
shape of the model under weak fairness, whatever the code did. Instead,
every run checks deadlock, so `Served` is the only step left once the
request bound is reached.

## 4. Not modelled

- JSON decoding of malformed bodies, the DTO copies in response bodies, the
  logging middleware, config and DB connection set-up. These are I/O and
  conversions, with no state of their own. Handler validation and statuses
  are modelled in `Api`.
- Go's evaluation order at `team_service.go:66`. `return resultTeam,
  resultTeamMembers, s.txManager.Do(...)` reads the two results and calls
  `Do` in one return statement. The language leaves that order unspecified.
  The gc compiler evaluates the call first, so the reply carries the values
  set inside `Do`; the model assumes this.
- The connection pool. `main.go` sets no `SetMaxOpenConns`, so the pool is
  unbounded and no request waits for a connection. The idle `sql.Tx` of
  `Do` holds one connection per request, which is a resource cost but not a
  wait.
- The `is_active` default. `UserStatusRequest.IsActive` and a team member's
  `is_active` have no `binding:"required"`, so an omitted field decodes as
  `false`. This is a decoding default that a unit test reaches directly, and
  the models always send an explicit flag.
- Context cancellation. With the Tx unused, a cancelled context only stops
  the statements not yet run, which is the same partial-failure shape as
  `Fail`.
