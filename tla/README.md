# Verification of the PR reviewer service

TLA+ modules for the service in `src/` that assigns reviewers to pull requests
(Go, PostgreSQL).  Three models: the operations of `internal/service` and
`internal/repository`, interleaved database call by database call, with the
reports that clients read beside them; the process around them, from `main` to
its exit (`internal/app`, the middlewares, the connection pool); and the
repository inside one transaction (`tx_storage.go`).  TLC checks them on small
instances; TLAPS proves the theorems of section 5 for every instance.

    tlc -workers 2 -config create_races.cfg MCReviewService.tla
    tlapm TrafficProofs.tla

## 1. Inventory

| Component | State | Operations | Correct when | Modelled |
|---|---|---|---|---|
| storage (`repository/storage.go`, `migrations/001_init.up.sql`) | tables `teams`, `users`, `pull_requests`, `pull_request_reviewers`, `review_assignment_events`; open transactions and their locks | `WithTx`, queries, single statements | rows obey their keys; audit events agree with the reviewers; commits are atomic | `ReviewStore`, `Reports` |
| pull requests (`service.go`, `storage.go`) | a PR: status, author, `merged_at`, reviewers | create (picks up to 2 reviewers), merge (idempotent), reassign | the author does not review; at most 2 reviewers, from the author's team and active; a MERGED PR does not change | `PullRequests`, `PRLifecycle` |
| teams and users | team membership, `is_active` | `CreateTeam` (upserts members), `SetUserActivity` | one creator of a team; no acknowledged write is lost | `Teams` |
| mass deactivation (`Service.MassDeactivate`) | local: targets, open PRs to go through, skipped users | deactivate users, list their open PRs, replace them one PR after the other | one transaction (says a comment); nobody deactivated and not reported as skipped reviews an open PR | `MassDeactivation` |
| reports (`GetTeam`, `ListReviewAssignments`, `FetchAssignmentStats`, `GetPullRequest` as a reply) | none | one or two queries each, in no transaction | what is shown together was never contradictory | `Reports` |
| random choice (`pickRandomIDs`, `randomizer`) | generator behind a mutex | shuffle, take the first *n* | distinct, at most *n*, all of them when there are fewer | its result, `RandomPicks` |
| transactional repository (`tx_storage.go`) | a `pgx.Tx` | the same operations in one given transaction | it reads what it has written; the events agree with the rows | `TxRepository` |
| connection pool (`pgxpool`) | `MaxConnections` connections | acquire, release, close | every connection comes back; nobody waits for good | `ConnectionPool` |
| application life cycle (`internal/app`, `cmd/run`) | stage, listener, signal context | migrate, connect with retries, serve, shut down | a graceful end cuts nobody off; the process ends when told to | `AppProcess`, `GracefulServer` |
| HTTP: router, handlers, middleware (panic, logging, metrics) | counters | count, call the service under a deadline, answer | one end for each request; the counters agree | `RequestHandling` (order, counters, deadlines) |
| configuration (`normalize`) | timeouts, pool size | defaults for what is missing | no timeout is zero | `ConnectionPool!Setting` |
| validation, logging, generated API types, swagger, load test | none that changes | pure functions, I/O | - | no |

Components interact by calls: a request runs on its own goroutine, handler ->
`Service` -> `Storage` -> one connection of the pool -> PostgreSQL.  Goroutines
share nothing in memory but the pool, the generator and the metrics; **all other
interaction of consequence is in the database**.  This is why there are three
models and not one: what the requests do to the rows does not depend on which
connection carries a call, and what the pool and the process do does not depend
on the rows.  `RequestHandling` keeps of a request the number and the order of
its calls, `ReviewService` what each call does; errors, deadlines and the death
of the process are in both.  What is hard:

- *Concurrency.*  `Storage.WithTx` uses default options: READ COMMITTED, no
  `FOR UPDATE` anywhere.  Checks and writes are different statements, and most
  reads precede the transaction that uses them.
- *Failure.*  Any call may fail, a COMMIT may succeed and its answer be lost, a
  deadline may cut a mass deactivation short, a handler may panic, the process
  may die.  The "transaction" of a mass deactivation contains none of its
  statements: every method of `Storage` takes its connection from the pool, not
  from the context the transaction manager passes.
- *Waiting.*  Row and key locks: two requests that lock rows of `users` in
  different orders deadlock, and PostgreSQL fails one of them.  Connections: a
  mass deactivation keeps one and needs a second.
- *Time.*  Four timeouts that do not fit each other: WriteTimeout 5 s, shutdown
  10 s, operations 30 s and 60 s.

The hazards, each at its line, are under `hazards` in `PROJECT.json`.

## 2. Modules

    ReviewStore          database, sessions and locks, requests
      PullRequests       create, merge, reassign, ReplaceReviewer
        MassDeactivation team/deactivate (uses ReplaceReviewer)
      Teams              team/add, users/setIsActive
    ReviewService        composes them; arrivals, failures, Next, fairness
      ReviewProperties   what is promised; INSTANCE PRLifecycle
        Reports            the queries of readers beside the service
        ReviewInvariant    the inductive invariant
          MCReviewService, MCReports   instances for TLC
    PRLifecycle          abstract: what may happen to a pull request

    ConnectionPool       settings, connections
      RequestHandling    a request from PanicMiddleware to the pool and back
        AppProcess       main, App.New, App.Run
          ProcessProperties  what is promised; INSTANCE GracefulServer
            MCProcess
    GracefulServer       abstract: what may happen to the process

    TxRepository         WithTransaction and txStorage
      TxProperties
        MCTransactions

Proofs: `ReviewServiceProofs` -> `MergeProofs` -> `ReplyProofs` ->
`LifecycleProofs` -> `TrafficProofs` (each extends the one before),
`ReportProofs` (extends `MergeProofs`), `ProcessProofs`, `TxProofs`.

### The service

**State.**  `teams`, `users`, `prs`, `reviewers` are the committed rows, as
functions from primary keys (`Null`: no row).  The events table is append-only
and only counted: `assigned[p][u]` and `unassigned[p][u]`.  For each request
goroutine `r`: `pc[r]` is the database call it makes next (the prefix names the
operation: `at_` CreateTeam, `sa_` SetUserActivity, `cp_` CreatePullRequest,
`mg_` UpdatePRStatus, `ra_` ReassignReviewer, `rp_` ReplaceReviewer, `md_`
MassDeactivate), `job[r]` its arguments and local variables, `tx[r]` what its
open transaction has written.  Locks are not a variable: a session holds the
rows and keys its transaction has written.

**Actions.**  One action is one database call with the Go code up to the next
one.  A `SELECT` reads the committed rows (READ COMMITTED; no code reads back a
row its own transaction wrote).  A write waits until no other session holds the
row or key, is evaluated on the version committed then (that is what PostgreSQL
does after waiting), and goes to `tx[r]`.  `Publish` is COMMIT; `Reply` is an
answer, with a rollback if the transaction is open.  Batches (`insertReviewers`,
`removeReviewer`) are one call.  An `UPDATE` of several rows and the upserts of
`CreateTeam` lock one row after the other, in any order, because deadlocks
depend on it.  Foreign keys take `KEY SHARE` locks, which do not conflict with
the `NO KEY UPDATE` locks of these updates: they make nobody wait.

| Code | Actions |
|---|---|
| `Service.CreatePullRequest` + `Storage.CreatePullRequest` | `CreateReadAuthor`, `CreatePickReviewers`, `CreateCheckExists`, `CreateInsertPR`, `CreateInsertReviewers`, `Commit`, `ReadBack` |
| `Storage.UpdatePRStatus` | `MergeReadStatus`, `MergeUpdate`, `Commit`, `ReadBack` |
| `Service.ReassignReviewer` | `ReassignReadPR`, `ReassignReadReviewers` (the two queries of `GetPullRequest`), `ReassignReadUser`, `ReassignPick` |
| `Storage.ReplaceReviewer` | `ReplaceReadStatus`, `ReplaceCheckAssigned`, `ReplaceDelete`, `ReplaceInsert`, `Commit`, `ReadBack` |
| `Storage.CreateTeam` | `AddTeamCheckExists`, `AddTeamInsert`, `AddTeamUpsert`, `Commit`, `ReadBack` |
| `Storage.SetUserActivity` | `SetUserActivity`, `ReadBack` |
| `Service.MassDeactivate` | `DeactivateReadTeam`, `DeactivateTeamExists`, `DeactivateUpdate`, `DeactivateCommit`, `DeactivateListOpenPRs`, `DeactivateNextPR`, `DeactivateReadPR`, `DeactivateReadReviewers`, `DeactivatePick`, the actions of `ReplaceReviewer`, `DeactivateLoopEnds`, `DeactivateFinish` |
| errors of any call | `CallError`, `CommitAnswerLost`; `SkipUser` in the loop of a mass deactivation, `Reply(r, "INTERNAL_ERROR")` elsewhere |
| deadlines, PostgreSQL, the process | `DeactivateExpires`, `DeadlockAbort`, `Crash` |

**The abstract specification**, `PRLifecycle`, knows the rows, the reviewers and
who is *admitted* to change them.  `Open`, `Merge`, `Admit`, `Replace` and
`Withdraw` say that a PR is opened once, with two reviewers at most, merged
once, and that each later change of the reviewers uses up one admission given
while the PR was open.  The refinement mapping is in `ReviewProperties`: rows
and reviewers are the committed ones, `admitted[p]` the requests past
`rp_status`.  So `Open` is the COMMIT of a creation, `Admit` the query of the
status in `ReplaceReviewer`, `Replace` its COMMIT, `Withdraw` an error or a
crash.  That `Replace` is allowed on a MERGED PR, and that nobody may have left,
is what the code does (findings 1 and 2).

**Reports.**  A reader `v` runs one report: `view[v]` holds which query comes
next and what it has been shown.  `TeamMembersQuery`, `TeamExistsQuery` are
`GetTeam`; `UserQuery`, `ReviewListQuery` are `/users/getReview`;
`StatsUsersQuery`, `StatsPRsQuery` are `FetchAssignmentStats`; `PRRowQuery`,
`PRReviewersQuery` are the `GetPullRequest` whose result create, merge and
reassign reply; `QueryError` is a failed query.  Any commit of the service may
come between two of them.  Readers change nothing the service reads.  `frozen`
and `moved` in a view only record the past for the properties.

### The process

**State.**  Of a request: `kind` (`long` is `/team/deactivate`, `short` the
others), `at` (where it is), `calls` (how many calls of `Storage` are behind
it), `age`, `outcome`.  Of the pool: `held`, the connections in use as pairs of
a request and what it uses one for, and `poolClosed`.  Of the middlewares: the
three counters `hits`, `served`, `responses`.  Of `main`: `stage`, `attempt`,
`signalled`, `listener`, `drain` (how long `Shutdown` has been waiting), `code`.

| Code | Actions |
|---|---|
| `runMigrations`, `connectWithRetry` | `Migrate`, `Connect`, `WakeUp` (the delay of the backoff, or the signal) |
| `App.Run` | `Listen`, `ListenerFails`, `BeginShutdown`, `ListenerErrorSeen`, `Drained`, `ShutdownTimesOut`, `PoolDown` |
| `signal.NotifyContext` | `Signal` |
| router and middlewares | `Receive`, `LogEnd`, `Panic`, and the `served` counter in `Finish` |
| the service under its deadline | `StartCall`, `StartDo` (`trMgr.Do`), `GetConnection`, `CallReturns`, `CallError`, `CallExpires`, `SkipUser`, `Return` |
| `net/http` | `Arrive`, `Flush` (the answer reaches the client or is lost to `WriteTimeout`) |
| time | `Tick` |

`Tick` advances the ages of the requests in flight and `drain`.  It waits while
a call is past its deadline (pgx returns at once then), and while `Shutdown` is
past its own.

**The abstract specification**, `GracefulServer`, knows the requests on their way
and those that are over, whether the server is broken or stopping and for how
long, the pool and the exit code.  `Receive` finds the pool open, unless the
server is broken; `Stop`, `Wait`, `Close` and `Exit` say that a server told to
stop closes the pool behind the last request or gives up when its patience is
over, and that its exit code tells which.  That `Stop` forgets a broken listener
is what the `select` does.  The mapping is in `ProcessProperties`: `BeginShutdown`
is `Stop`, `Tick` is `Wait` while draining, `Flush` is `End`, `Drained` and
`ListenerErrorSeen` are `Close`, and what ends `main` is `Exit`.

### Inside one transaction

`db` is what is committed; `wrote[s]` what transaction `s` has written: row
versions, reviewers taken out (`gone`) and put in (`new`), and its events,
counted as `balance` (ASSIGNED less UNASSIGNED).  `Over(d, w)` puts one on top
of the other; it is both what a statement sees (`View`) and what COMMIT leaves.
`at[s]` is the next statement of the method in `call[s]`, `answer[s]` what its
queries have returned.

| Code | Actions |
|---|---|
| `WithTransaction` | `Begin`, `CallMethod`, `CommitTx`, `Rollback` |
| `CreateTeam` | `TeamExists`, `TeamInsert`, `TeamUpsert` |
| `SetUserActivity`, `DeactivateUsers` | `SetActive`, `DeactivateRow` (one row at a time) |
| `CreatePullRequest` | `PRExists`, `PRInsert`, `InsertReviewers` |
| `UpdatePRStatus` | `MergeStatus`, `MergeUpdate` |
| `ReplaceReviewer` | `ReplaceStatus`, `ReplaceAssigned`, `ReplaceDelete`, `InsertReviewers` |
| the queries, and those at the end of the methods above | `Read`, `ReadMore` |
| PostgreSQL, the process | `StatementError` and `DeadlockAbort` (the transaction is *aborted*: only its end is accepted), `Crash` |

The service never calls `WithTransaction`, so the environment does: any
sequence of methods from `Calls`.  One abstraction: a reviewer row that the
transaction waited for has taken out and put back counts as the same row, while
PostgreSQL would find its old version gone and delete nothing.

## 3. Runs

`MCReviewService`, `MCReports`, `MCProcess` and `MCTransactions` hold the seeds
(databases an earlier run can have left), the traffic and the settings.

| Run | Instance | Shows |
|---|---|---|
| `all_operations` | two requests of any kind, one PR to work on and one to create, two teams; fairness | `StrongInv`, the inductive invariant of the proofs; `RepliesAreTrue`; `DeactivationStopsDraws`: whom a deactivation finds undrawn is assigned no more; `DeadlocksAreLocal`: which transactions can wait for each other in a circle; `EveryRequestAnswered`, through lock waits and deadlocks |
| `create_races` | three requests of create, merge, reassign on a PR that is not there; all faults; two teams | `StrongInv`; `RepliesAreTrue`: what was acknowledged is there, and one creator wins; `NoSelfReview`; `AuditNeverOverstates`; `ReviewersFromAuthorsTeam`, by `TeamInv`; `MergedIsFinal`: a merge that has read OPEN does not move `merged_at`; `MergeFreezes`: after a merge only reassignments past the status check change reviewers; `ImplementsLifecycle`: every step is one of `PRLifecycle` |
| `one_replacer` | one goroutine reassigns and deactivates, another merges; two PRs, all faults | `AtMostTwo`, `AuditExact` (by `SoleInv`), `DeactivatedAreFreed` (by `FreedInv`): true as long as one goroutine replaces reviewers and only merges run beside it |
| `reports` | two readers of any report beside a merge and a reassignment; failing queries and calls, crashes | `NobodyShownReviewingHimself`, `FrozenViewsStayTrue`, `MergedNeverShownOpenLater`, `StatsAgree`: what two queries show together |
| `process` | two requests of any kind, a pool of two connections; signals, a failing listener, errors, panics | `ProcessInv`, `CleanExit`, `CutOnlyAfterGrace`, `PoolOutlivesRequests`, `StallNeedsManagers`, `OnlyPanicsUncounted`; `ServesGracefully`: every step is one of `GracefulServer`; with fairness `EveryRequestEnds`, `SignalEndsProcess` |
| `transactions` | a transaction of two calls beside one of a single call, on shared rows; all faults | `TxInv`, `ReadsItsOwnWrites`, `OwnMergeBinds`, `EventsBacked`, `MergedStays`; with fairness `EveryTransactionEnds` |
| `three_reviewers` | two reassignments of one reviewer | **violates** `AtMostTwo` |
| `late_reassignment` | a merge and a reassignment | **violates** `MergedReviewersFixed` |
| `deactivation_not_atomic` | one deactivation, a failing call | **violates** `DeactivationIsAtomic` |
| `deactivation_leaves_prs` | one deactivation of a reviewer of two PRs, a merge | **violates** `DeactivationReassignsAll` |
| `inactive_reviewer` | a reassignment and a deactivation | **violates** `AssignedAreActive` |
| `panics_not_counted` | the instance of `process` | **violates** `EveryRequestCounted` |

**Bounds.**  *Service*: 1-3 goroutines, at most 3 requests (`MaxRequests`), 3-5
users, 1-2 teams, 1-2 PRs.  All hazards need two requests, or three when a third
one profits from a race (two reassignments and a merge); one PR suffices for
what is about a row, two for the loop of the deactivation; users are as many as
candidates are needed: author, two reviewers, one or two to replace them.  The
faults are in `create_races` and `one_replacer`, which have every operation on
PRs between them; `all_operations` is without, so that its liveness is in reach,
and `StrongInv` beside `CreateTeam` and `SetUserActivity` under faults is for the
theorem.
*Reports*: two readers, because `MergedNeverShownOpenLater` compares one with
another.  *Process*: two connections are the fewest on which one deactivation
gets through and two starve each other; `MaxCalls` is what a request needs to go
through every stage (4: the team, two calls inside `trMgr.Do`, one in its loop);
`Attempts` is the length of the backoff table.  Time is scaled to 1, 2, 3, 4 for
the 5, 10, 30 and 60 s of the defaults: only their order matters to the
properties, and it is kept; `age` stops where nothing depends on it any more.
*Transactions*: two calls are what it takes to read or undo one's own write, a
second transaction what it takes to conflict; `SomeCalls` meet on the same rows.
When a bound is reached and all is over the system stops in `Terminating`
(`Over` in the process), so deadlock stays checked in every run.  Symmetry is
used for goroutines with the same traffic, readers, and users the seed does not
tell apart, never in a run with liveness.

**Fairness.**  `all_operations`: `WF(Step(r))`, because the Go scheduler runs every
goroutine and every call returns - a statement that waits for a lock is
disabled, and enabled for good once its holder is over - and
`WF(DeadlockAbort(r))`, because PostgreSQL looks for deadlocks after
`deadlock_timeout`.  `process`: `WF(Main)`, `WF(Work(r))` for the goroutines and
`WF(Tick)` for time; not for `Signal`, `ListenerFails`, arrivals, errors and
panics, which need not happen.  No strong fairness is assumed of the pool: a
request that is overtaken for ever ends by its deadline.  `transactions`:
`WF(Statement(s) \/ Finish(s))`, because statements return and the function
passed to `WithTransaction` does too, and `WF(DeadlockAbort(s))`.

### Findings

1. `three_reviewers`: `ReplaceReviewer` does not look at how many rows its
   DELETE removed.  Both of two concurrent reassignments of a reviewer see him
   assigned; the second DELETE waits, removes nothing, and inserts all the same.
   The API says 0..2 reviewers.
2. `late_reassignment`: the status is read without `FOR UPDATE`, so a merge that
   commits meanwhile does not stop the replacement of a reviewer of what is then
   a MERGED PR.  `MergeFreezes` says how far it goes.
3. `deactivation_not_atomic`: "one transaction" is not one: users stay
   deactivated when a later call fails.
4. `deactivation_leaves_prs`: one PR merged meanwhile ends the loop over *all*
   PRs of its user, who keeps the others.
5. `inactive_reviewer`: the candidates are queried before the transaction, and
   nothing looks at `is_active` again: a user who is deactivated in between
   becomes a reviewer, which the assignment forbids.  `DeactivationStopsDraws`
   says how far it goes.
6. `panics_not_counted`: `http_requests_total` is incremented after the handler
   returns and not in a deferred function, so a request that panics is answered
   and never counted, though the comment and the help text say all are.
   `OnlyPanicsUncounted` says that nothing else is missed.

Seen on the way, without runs of their own:

- A race of two creations of a PR (or a team) answers the loser
  `INTERNAL_ERROR` instead of `PR_EXISTS` (`TEAM_EXISTS`), since the violation
  of the primary key is not mapped.
- The UNASSIGNED event is written even if the DELETE found no row.  Hence
  `AuditNeverOverstates` is an inequality, and exact only with one replacer.
- `GET /team/get` may show an empty team that was created with members, when the
  creation commits between its two queries.
- As many mass deactivations as there are connections wait for each other inside
  `trMgr.Do` until their deadline of 60 s (`StallNeedsManagers` shows that
  nothing else can dry the pool).
- `pgxpool` connects lazily, so `connectWithRetry` retries errors of the
  configuration and never sees a database that is down.
- An operation may take 30 or 60 s; its answer is lost after 5 s
  (`WriteTimeout`), though the operation goes on.
- A signal and a failed listener may both be ready; when the signal is taken the
  process exits with 0 although it had stopped listening.

## 4. Left out

- *Service*: names, timestamps other than `merged_at` (the number of the request
  stands for `NOW()`), the `source` of events, bodies of replies, validation
  (what it refuses reaches no table), repeated ids in `user_ids` (a set in the
  model; the repetition shows in the response only).
- *Random choice*: the shuffle is `math/rand`'s, taken to return any order; the
  mutex around the generator is one step.
- *HTTP*: decoding, routing, histograms, label values, the counters of business
  events, the codes of errors other than those in `job[r].res`.
- *Configuration*: reading the file and the environment; only `normalize` is
  modelled, for the settings the process depends on.
- *Pool*: idle connections, health checks, reconnecting.
- *Not modelled*: validation, logging, generated types, swagger and the load
  test.  They have no state that changes, or are pure input and output; the
  strings they work on are model values here.

Two hazards have no property.  Repeated ids, for the reason above.  The torn
`GetTeam`: the model has the interleaving, but no document promises the two
queries to agree.

## 5. Proofs

For all tables, seeds, goroutines, readers, traffic, faults and any bound:

| Theorem | Module | States |
|---|---|---|
| `Invariant` | `ReviewServiceProofs` | `Spec => []IInv` |
| `TypeCorrect` | `ReviewServiceProofs` | `Spec => []TypeOK` |
| `AuthorNeverReviews` | `ReviewServiceProofs` | `Spec => []NoSelfReview` |
| `MergeIsFinal` | `MergeProofs` | `Spec => MergedIsFinal` |
| `MergeFreezesReviewers` | `MergeProofs` | `Spec => MergeFreezes` |
| `EventsNeverOverstate` | `MergeProofs` | `Spec => []AuditNeverOverstates` |
| `AcknowledgedIsTrue` | `ReplyProofs` | `Spec => []RepliesAreTrue` |
| `StrongInvariant` | `LifecycleProofs` | `Spec => []StrongInv` |
| `RefinesLifecycle` | `LifecycleProofs` | `Spec => ImplementsLifecycle` |
| `DeadlocksAreOfTwoKinds` | `LifecycleProofs` | `Spec => []DeadlocksAreLocal` |
| `DrawsStopAtDeactivation` | `LifecycleProofs` | `Spec => DeactivationStopsDraws` |
| `SoleInvariant`, `TwoReviewersAtMost`, `EventsAreExact` | `TrafficProofs` | `Spec => []SoleInv`, `[]AtMostTwo`, `[]AuditExact`, if one goroutine replaces reviewers |
| `TeamInvariant`, `ReviewersStayInTeam` | `TrafficProofs` | `Spec => []TeamInv`, `[]ReviewersFromAuthorsTeam`, if nobody changes teams |
| `FreedInvariant`, `DeactivationFrees` | `TrafficProofs` | `Spec => []FreedInv`, `[]DeactivatedAreFreed`, if only merges run beside a mass deactivation |
| `ServiceBeneath` | `ReportProofs` | `ReportsSpec => Spec` |
| `ViewsConsistent` | `ReportProofs` | `ReportsSpec => []ViewTypeOK` |
| `NobodyIsShownReviewingHimself` | `ReportProofs` | `ReportsSpec => []NobodyShownReviewingHimself` |
| `FrozenViewsNeverStale` | `ReportProofs` | `ReportsSpec => []FrozenViewsStayTrue` |
| `MergeSeenInOrder` | `ReportProofs` | `ReportsSpec => MergedNeverShownOpenLater` |
| `StatisticsAgree` | `ReportProofs` | `ReportsSpec => []StatsAgree` |
| `ProcessInvariant` | `ProcessProofs` | `Spec => []ProcessInv` |
| `ExitsClean`, `GraceIsGranted`, `PoolStaysOpen`, `OnlyManagersStall`, `MetricsAgree` | `ProcessProofs` | the five safety properties of `process` |
| `RefinesGracefulServer` | `ProcessProofs` | `Spec => ServesGracefully` |
| `TransactionInvariant` | `TxProofs` | `Spec => []TxInv` |
| `EventsAreBacked`, `MergedStaysMerged`, `OwnMergeIsBinding`, `OwnWritesAreRead` | `TxProofs` | the safety properties of `transactions` |

**Assumptions.**  `NullAssumption` (`Null` is no id and no row),
`BoundAssumption`, `TrafficType`, `FaultsType`, `SeedType`, `SeedConsistent` (in
the seed the foreign keys hold, no author reviews, `status` and `merged_at` agree
and the events do not overstate); `RequestsFinite`,
`SettingsType` and `MaxCallsType` for the process; the like for
`TxRepository`.  TLC evaluates them in every run.  The theorems of
`TrafficProofs` carry their conditions themselves, each of them about the
traffic (`ReviewInvariant`):

- `OneReplacer` and `SeedExact`, with finitely many users: at most one goroutine
  reassigns or deactivates.  Finding 1 shows that it is needed.
- `NobodyMoves` and `SeedFromTeam`: no team is created, which moves its members
  from another one whatever they review.
- `OnlyMergesBeside`: beside a goroutine that deactivates, the others only merge.
  A reassignment that has drawn a user before could assign him after.

`StatisticsAgree` and `ViewsConsistent` are about finitely many users and PRs.

### The service

None of the properties is inductive.  `StrongInv`, in `ReviewInvariant`, is a
conjunction of layers, each proved on top of those before.

`IInv` is for `NoSelfReview`: the author is excluded when the candidates are
queried, before the transaction, and the rows appear at the COMMIT.  It carries
the fact from one to the other:

- `Arguments`: a request is at a label of its own operation with the arguments
  the label needs;
- `ReadsLast`: what it has read is still there - rows are never deleted;
- `Written`: the row a creation has written is of a PR nobody else has created,
  with the author sent; reviewers it has inserted do not include him; a
  replacement has inserted no author;
- `AuthorExcluded`: the author is not among the reviewers picked;
- `OneWriter`: no two sessions hold the row of a PR, so the reviewers picked for
  one author cannot land on the PR of another who won the race;
- `ForeignKeysHold`: a PR that is not there has no reviewers left over.

It is per request, so a step of one request needs three things: that it holds of
the request that moves (one lemma per operation), that the others are not worse
off in a database that only grows (`Bystander`, `DbGrows`), and that the rows
are right after a COMMIT (`PublishStep`).  `LocalStep` and `QuietStep` are the
common case of a step that commits nothing.

`MergeInv` is for the merge.  `RowFollows`: the row a session has written is the
one that follows the committed row, which cannot change as long as the session
holds it (`OneWriter`) - so a merge that has read OPEN publishes the very row of
a PR that was merged meanwhile.  `MergedHasTime`, for which requests must be
`Timed`: a MERGED row has its `merged_at`, which COALESCE keeps.  `SessionOK`:
only sessions that create a PR, or are past `rp_status`, have written about
reviewers; with `NoAdmission` (nobody passes the check of a MERGED PR) nobody is
left to change them.  The lemma `StepKinds` sorts the steps: each one leaves
nothing written about its PR or is one of five writes, and the rows of PRs change
by `Publish` only.

`AuditInv` is for the events.  `KeysDisjoint`: reviewers that open transactions
have inserted are not in the table, and no two transactions have touched the same
row of it.  `RemovalsRecorded`: each deleted row has its event in the same
transaction.  A COMMIT is then a matter of arithmetic (`PublishKeepsAudit`).

`ReplyInv` is for the replies.  `ReplyOK` follows an operation from its last
write to its answer: what it is going to acknowledge is in its transaction, then
in the table, where it stays.  `OneCreator` is for races: two sessions that have
both passed the check cannot both hold the key, and the one that comes second
finds it there, so of two successes the PRs (the teams) differ.

`SlotInv` is for the refinement: no more reviewers are picked than there are
slots, they are inserted all or none, and at most the reviewer replaced is
deleted.  `LifecycleStep` then maps every step: `Publish` of a creation to `Open`
(`PublishOpens`), of a merge to `Merge`, or to a stutter if the PR was merged
already (`PublishMerges`), of a replacement to `Replace` (`PublishReplaces`); the
check of the status to `Admit`; whatever else ends a request to `Withdraw`.

`UserInv` is for what follows about users: a session holds rows of users only
while it creates a team or deactivates one, and draws reviewers only when that is
over.  With `SessionOK` and `ReplyOK` it gives `WaitedFor`, which says at which
call a session can be that another one waits for.  In a circle everybody waits
and is waited for, so only `at_upsert`, `md_update` and `rp_insert` are left, and
these wait for their like: `DeadlocksAreOfTwoKinds`.

`DrawsStopAtDeactivation` needs no assumption about who deactivates whom, and no
invariant of its own: those drawn are active at that moment (`DrawsActive`); only
what a request has drawn itself is on its way to a COMMIT (`CarriedOn`, for which
`UserInv` says that merges and team creations draw nobody); and a COMMIT inserts
those drawn and is the end of the draw (`AssignedWereDrawn`, from `SlotInv`).

`SoleInv` is for one replacer.  From the check on, the reviewer replaced is
assigned, because nobody else removes him; so the DELETE removes exactly him, the
event written with it is true, and one who comes takes the place of one who
leaves.

`TeamInv` is for teams.  As long as nobody changes teams, the team of a user is
the one in the seed (`TeamOf`), a constant.  `FromTeam` carries it through the
local variables: whoever is picked is of the team of the one replaced, or of the
team deactivated, and those are of the team of the author.

`FreedInv` is for mass deactivations.  While a request goes through its PRs,
each review of an open PR by a user deactivated and not skipped is still in the
lists or is the one at hand; what is at hand is deleted before the COMMIT or its
user is skipped.  Merges only make PRs leave the condition, and nobody
deactivated is drawn for the PRs that others are taken from.

### The reports

A reader is a stutter of the service, so `Spec` holds of it and so do its
invariants (`ServiceBeneath`).  `ViewInv`: the row in a view is the committed one
but for its status, which can only have become MERGED; a view that was frozen has
the committed row still.  `MergeFreezes` does the rest.

The statistics are sums by folds, which are recursive functions over the subsets
of a finite set.  The induction that says what they compute is the choice of a
least counterexample (`SmallestSubset`, from the well-founded order of finite
subsets): `SumsAgree`, `SumsExist`, `TotalAdds`.  Then `TotalOfSizes`: the sizes of
a family of sets add up to the number of its pairs.  The totals by user and by
PR are both the number of rows of `pull_request_reviewers`, taken by one key or
by the other (`RowsByUser`, `RowsByPR`).

### The process

`PoolInv` ties the connections to the places of the requests: one for a call
exactly during the call, one for `trMgr.Do` exactly inside it.  Hence
`OnlyManagersStall`: if the pool is exhausted and nobody is in a call, all of its
connections are the managers'.  `StageInv` says what each stage of `main` has
behind it: the pool is closed from `closing` on, no request is in flight there
unless the listener failed, a refused listener let nobody in.  `MetricsAgree` is
a matter of counting: `MovesCount` says what a step of one request does to the
number of requests at a place.  For `RefinesGracefulServer` each step is mapped
under `ProcessInv`: a request is received, ends or stays on its way
(`RequestServes`), a step of `main` is the one named above (`MainServes`), and
time counts while draining (`TickServes`).

### Inside one transaction

`TxInv` holds what row locks are for.  `LocksInv`: no row is held by two
transactions.  `VersionsInv`: so the version of a PR a transaction holds was made
from the committed one, and if that was MERGED is equal to it.  `MergedInv`: a
MERGED row has a `merged_at`, which COALESCE keeps.  `EventsInv`: the events of an
open transaction are backed by the rows it has put in, each of which it holds,
together with those committed; so COMMIT keeps `EventsBacked`.  `CallInv` has the
arguments each statement needs.

### Only model-checked

Liveness: `EveryRequestAnswered`, `EveryRequestEnds`, `SignalEndsProcess` and
`EveryTransactionEnds` rest on fairness, whose `ENABLED` is out of the prover's
reach.  Every other property of a passing run is the statement of a theorem.
