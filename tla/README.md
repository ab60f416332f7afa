# A TLA+ model of RepoTempo

RepoTempo watches GitHub repositories: it discovers candidates, stores one star
count per repository and day, and shows growth on web pages. It is one Go binary
over one SQLite database (WAL, `BEGIN IMMEDIATE` for queue transactions, a busy
timeout of five seconds), used by a scheduled collector (`run-daily`, cron, under
`flock`), a web process (`serve`, systemd) and commands started by hand. The hard
behaviour is what these processes do to the same rows, and what a crash, a slow
answer or a blocked GitHub leaves behind. That is what this directory models.

Paths below are relative to `src/internal/` unless they start with `src/`.

## Inventory

| Component | State | Operations | Hard behaviour | Correct when | Here |
| --- | --- | --- | --- | --- | --- |
| Import queue (`store/sqlite/import_jobs.go`, `app/import_jobs.go`) | `job_runs` rows with stage, attempts, lease, retry instant; a worker's copy of its job | enqueue, claim, lease-guarded update; resolve, read, classify, fail | leases against wall-clock deadlines, crashes between a commit and its checkpoint, shutdown, retries | attempts never overlap, finished steps survive, outcomes are true, every job ends | `ImportQueue` |
| Daily snapshots (`service/snapshot`, `store/sqlite/snapshot.go`) | `daily_snapshots`, the run's list and date | run, put, repair | conditional requests whose ETag and count live in two tables; reruns, blocks, midnight | a success is final, a 304 copies the current count, only requested repositories fail | `DailySnapshots` |
| Registry (`store/sqlite/repository.go`) | `repositories` | upsert/merge, status, focus | observations out of order; several writers | newer facts win, owner decisions survive | snapshot fields in `DailySnapshots`, names and sources in `Candidates` |
| Watch commands and adds (`service/watch`, `store/sqlite/watch.go`) | the two tables above | add, pause, resume, AddTracked, ImportTracked | add in flight across midnight or a run | pauses survive, no success is overwritten | part of both |
| Discovery merge (`service/discovery`) | registry rows | Merge, additional sources | one candidate observed several times | discovery never lifts a pause; no name is lost | `DailySnapshots`, `Candidates`, `DailyRun` |
| Tags, legacy and CSV imports (`store/sqlite/tags_import.go`, `app/import.go`, `source/legacydb`, `source/csv`) | registry rows, snapshots | import | older data after newer | never overrides newer facts | part of `DailySnapshots` |
| Job tracker, run-daily (`service/jobs`, `app/run_daily.go`, `store/sqlite/job_run.go`) | `job_runs` | start, finish, the stages of a day | partial failure, crash between stages | a success is one in every part; no run plans by what a crash left | `DailyRun` |
| Discovery schedule (`app/discover.go`, `app/trending.go`, `config/schedule.go`) | details of earlier runs | due profiles, the Trending board | incomplete searches, failures after them | a profile or board is left out only after it was searched | `DailyRun` |
| Candidate sources (`source/types.go`, `source/manual`) | candidates in memory | merge across sources, previous names | old names, names that change hands | identity follows the ID, no name is lost | `Candidates` |
| GitHub client (`source/github/client.go`) | last request, recorded rate limits, a request mutex | do | waits and retries under one lock | no request inside a known limit, every call returns | `GitHubClient`; its answers in the callers |
| Search partition (`source/github/search.go`) | the query tree | split, page | 1,000-item boundary, results that move | complete or reported incomplete | `SearchProfile` |
| Activity (`app/activity.go`, `source/github/activity.go`, `store/sqlite/activity.go`) | the activity cache | list, count, store | a branch that moves, deadlines, two refreshes | counts are whole, the cache moves forward, each repository has its turn | `RepositoryActivity` |
| Login and sessions (`service/auth`, `store/sqlite/auth.go`, `web/auth*.go`) | login states, sessions, cookies, rate-limit buckets | begin, complete, logout, allow | repeated callbacks, expiry, capacity, failures between two statements | a state is used once, caps hold, rotation is complete | `Login` |
| Topics (`store/sqlite/topic.go`, `service/topic`, `service/classification`, `app/classification.go`) | assignments | assign, remove, classify, reclassify | automatic against manual | a person's decision stands, a dry run tells the truth | `Catalogue` |
| Analyses (`app/analysis*.go`, `store/sqlite/analysis*.go`) | saved analyses | import one, import a batch | two writers | a batch only fills gaps | `Catalogue` |
| Trends and metrics (`store/sqlite/metrics.go`, `store/sqlite/trends.go`) | none: queries over snapshots | growth, topic curve, project list | missing days, paging while snapshots are stored | nothing is counted twice or shown twice | `Views`, partly |
| Migrations (`store/sqlite/db.go`, `repository_migration.go`) | schema version | migrate, rebuild | concurrent opens, crash | each version once | not modelled |
| Exports, web pages, command line, settings, logging, configuration | none of their own | — | — | — | not modelled, except as stages and readers |

The components meet in the database: the web process enqueues imports and runs
the worker; the worker and the watch commands write registry rows and first
snapshots; discovery writes registry rows; the snapshot run lists active rows,
asks GitHub, writes snapshots and then registry rows again; the rows of `job_runs`
are what the next discovery plans by; the pages read the snapshots while they are
written. In memory, goroutines share the mutex and the recorded limits of the GitHub
client, the login limiter, and the worker's wake-up channel and context.
`PROJECT.json` lists every component, and every hazard at the line where it bites.

## Modules

| Module | What it is |
| --- | --- |
| `ImportService` | abstract specification: what the queue promises, without leases or workers. It translates no code. |
| `ImportQueue` | the queue and its workers, with properties and the refinement mapping to `ImportService` |
| `ImportQueueProofs` | TLAPS proofs about `ImportQueue`: types, the lease protocol, admission, outcomes, and that it implements `ImportService` |
| `DataLemmas` | lemmas about data: finite sets, least and greatest elements, places in an order, sums, division |
| `MCImportQueue` | request sets and symmetry for TLC |
| `DailySnapshots` | snapshot runs and all other writers of the two tables they use |
| `DailySnapshotsProofs` | proofs about `DailySnapshots` |
| `MCDailySnapshots` | two sides of it for TLC: one repository with every writer, two with a run that is blocked |
| `DailyRun` | the daily run and discovery as processes, with the rows of `job_runs` they plan by |
| `SearchProfile` | the recursive search of any kind of profile, while repositories change |
| `Candidates` | candidates of several sources on their way to the names of the registry |
| `Views` | growth, topic curve and paged project list over the snapshots |
| `MCPlanning` | `DailyRun`, `SearchProfile`, `Candidates` and `Views` for TLC |
| `PlanningProofs` | proofs about `DailyRun` and `Candidates` |
| `SearchProofs` | proofs about `SearchProfile` |
| `ViewsProofs` | proofs about `Views`, and the types of `MCPlanning` |
| `GitHubClient` | the request queue all callers of the client share |
| `RepositoryActivity` | activity runs and their reports, the commits they count and the cache they write |
| `MCCollector` | `GitHubClient` and `RepositoryActivity` for TLC |
| `CollectorProofs` | proofs about `GitHubClient` and `RepositoryActivity` |
| `Login` | login limiter, login states, callbacks, sessions |
| `Catalogue` | topic assignments and analyses |
| `MCWeb` | `Login` and `Catalogue` for TLC |
| `WebProofs` | proofs about `Login`, `Catalogue` and `MCWeb` |

Definitions whose comment begins "Faulty variant" are deliberate mistakes. No
specification uses them; substituting one for its neighbour must break a property,
which shows that the property can see that mistake.

### ImportQueue

One action is one SQLite transaction or one step between two transactions.

| Code | Model |
| --- | --- |
| `EnqueueRepositoryImport` | `Enqueue`, with `SameRepositoryPending` and `QueueFull` as guards |
| `ClaimRepositoryImport` | `BeginClaim` (the clock is read), then `ClaimNext`, `CloseExhausted` or `ClaimNothing` |
| `UpdateRepositoryImport` | `Update` = `Owns` ∧ `ValidUpdate` ∧ the stored row `Saved` |
| `processImport` | `Start`, `Resolve`, `SaveResolved`, `Read`, `SaveRead`, `Classify`, `SaveFinal` |
| `failImport`, `importError` | `FailWith`, `FailImport`; a failure is retryable or not |
| `startImportWorker`, `stopImportWorker`, `Close` | `StartWorker`, `Shutdown`, `Exit`; `Crash` is the death of the process |

*Time.* Instants are countdowns, so the state space is finite without a bound on
time: `lease` is LeaseUntil, `wait` NextAttemptAt, `budget` the 90 second deadline.
A claim compares with a clock reading taken before its transaction began; `age`
is how old it is. `ImportQueueAssumption` requires `TimeoutTicks + ClaimSkew <=
LeaseTicks`, which is 90 s + 5 s (busy timeout) ≤ 120 s in the code. A process that is
suspended for longer between reading the clock and committing the claim is outside
this assumption; every *write* to its row is still guarded by the lease. A cancelled
or expired context stops every step that needs the database or the network
(`CtxLive`); the write of `failImport` has a context of its own.

*Tokens.* A claim draws a UUID. Claims of a job are numbered by `attempts`, so the
number stands for the token.

*Refinement.* `Service` maps a row's stage to a phase, its attempts to `tries`, and
the job whose lease is live to `holder`. A lease that expires is a `Release`.

*Simplified.* `job_runs.status` is a function of the stage. Requests are a name and
whether a topic was chosen. Row corruption (`decodeImportState` failing) and
administrators editing rows are left out. A shutdown that falls inside `failImport`
is taken before or after it, so the retry is immediate or backs off.

### DailySnapshots

| Code | Model |
| --- | --- |
| `Service.Run` | `Begin`, then per repository `Lookup`, `Condition`, `Fetch`, `Baseline` (after a 304), `Put`, `Register`; `RecordFailure`, `StopMonitoring` and `Skip` for errors, `Abort` for a crash or cancellation |
| `PutDailySnapshot` | `PutSnapshot` with `Stored` |
| `UpsertRepository`, `mergeRepositoryObservation` | `Upsert`, `Created`, `Merged`, `MergedETag`, `MergedMonitor` |
| `Registry.Merge`, `persistAdditionalSources` | `Discover` |
| `watch add`, `pause`, `resume` | `WatchAdd`, `Pause`, `Resume` |
| `AddTracked`/`ImportTracked` | `Resolve` (answer and clock are read), `StoreAdd` (one transaction) |
| tags import, legacy import | `FillTopics`; `ImportLegacy`, `ImportObservation` |

The content of a repository on GitHub is a version number. It stands for the star
count and for the ETag of that content, so "the count copied after a 304 is the
current one" can be stated as an equality.

*Assumed.* An answer carries an ETag that changes with the content (external). The
date and the list of a run are one step (adjacent lines, no request between them).
The two upserts of one discovery candidate are one step. `PromptAdds` says
that no later observation and no midnight falls between an add's answer and its
transaction (milliseconds in the code); without it `NotModifiedIsCurrent` does not
hold, because a count older than the row's last observation may become the baseline.
`Commands` selects which other writers an instance runs. The legacy import registers
a repository once (bound).

*Left out.* GitHub status, names, notes, focus, research tags, OSS Insight evidence,
HTTP status and error texts.

### DailyRun

| Code | Model |
| --- | --- |
| `RunDaily` | `StartDaily`, the discovery, `TakeSnapshots`, `FinishRest`, `FinishDaily` |
| `Discover`, `runDiscovery` | `StartDiscovery`, `Trending`, `Plan`, `Search`, `SearchesDone`, `StoreCandidate`, `MergeEnds`, `FinishDiscovery` |
| `trendingCompletedToday`, `lastProfileSuccess`, `Due` | `BoardCompletedToday`, `SuccessDays`, `Due` over `ListJobRuns` |
| `Tracker.Start`, `Execution.Finish` | `NewRow`, `Finished`; `Finish` ignores the caller's cancellation and may itself fail |
| signals, crashes | `CancelRun`, `CrashRun`; nothing closes the row of a crashed process |

Candidates are "what a source delivered on a day". A row keeps what later runs read of it: status,
profiles reported without doubt, and the day of a complete board. Each row belongs to the process
that started it, so the read and the write of `UpdateJobRun` need not be apart. *Left out:* the
schedule `manual` (never due in a daily run), ISO weeks and months as anything but periods of
equal length, and previews (`app/planning.go`), which only read.

### SearchProfile

| Code | Model |
| --- | --- |
| `fetchQuery` up to its decision, `splitQuery` | `FirstPage`: read on, split, probe or truncate; `MaySplit`, `FirstIsStarSorted` |
| `splitStars`, `splitDate` | `Top`, `Halves`; `Probe` is the request for the largest count, sorted by `ByStars` |
| the loop over the pages, `addPageHits` | `NextPage`, `WithHits` |
| `SearchProfile`, `SearchIntegrityError` | `Root`, `SearchEnds`; `RequestFails` |

*Profiles.* `Asked` is what the configuration accepts: every partition with every sort and order, and a range with an upper
bound or without. With an open bound a first page sorted by stars, descending, tells the largest count; any other
needs the probe. An open range of days ends today. The lower
bound is 0 without loss of generality. The recursion is a list of queries to make, in the code's order.

*GitHub* is `Results` and `Above`: what matches a range now, and in which order, with ties in an order of GitHub's own (by
ID). A `Page` holds those with the right number of results above them (`Higher`). Between two requests a repository gains or
loses a star (`Star`), is pushed to or updated (`Renew`), and comes to meet the query or no longer does (`Qualify`).
The day does not change during a search.

*What is promised.* `CompleteIsWhole` covers whatever moves while ranges are split, and results that move up while pages are
read. It leaves out a query in which a result came, went, or fell behind another one *while its pages were
read* (`disturbed`): a result that loses a star between two pages, or one sorted by the oldest update that is
updated, lets the next one slip onto the page already read. No page is empty and the total does not
change, so the search reports a complete result without it. The comment of `SearchProfile` promises an integrity error
"when completeness cannot be guaranteed"; without `~disturbed` TLC shows with two pages that this is not so.

*Left out.* A profile's queries follow each other and are searched alike: one of them is modelled. Texts of queries, filters for
forks, topics and dates other than the partition, labels.

### Candidates

| Code | Model |
| --- | --- |
| `MergeCandidates`, `mergeCandidate`, `sourcePriority` | `MergeCandidate`, `Remerged` (it runs twice, the second time with the source's own priority) |
| `UpsertRepository`, `ensureFullNameIdentity`, `shouldAdoptObservedName` | `Upsert`, `NameIsFree`, `Adopts`, `Named` |
| `Registry.Merge`, `persistAdditionalSources` | `StoreFirst`, `StoreSource` |
| `preservePreviousNames` | `PreserveName` with `JustBefore` |

A discovery is followed for one repository at a time, since two meet only where a name is taken. `Refresh`
is any other writer that asked GitHub. *Left out:* forks, labels, notes and status; the cap of 20
previous names. *Observed:* a merged candidate keeps the instant of its first source, so a
newer name that arrives with a legacy candidate may only be remembered as a previous one.

### Views

`GrowthOn` is a day of `growthHistory`, `TopicHistory` with `Starts` and `Cohort` is `topicHistory`, `Shown` the
gap the web adapter leaves on days that are not fully observed, `Leaders` the leader that may be
excluded. `RowsAfter` is `ListRepositoryTrends` with its cursor: a row stands on the line that the number of rows ahead
of it gives. `Total` is its count. `Store` puts a snapshot
between two pages. A failed snapshot counts like none. *Left out:* growth rates, ranks, the
other sorts, text and topic filters, names. The count and the rows of a page are separate reads in the code and
one here.

### GitHubClient

| Code | Model |
| --- | --- |
| `do`: lock, `waitBeforeRequest` | `Acquire`, `QuotaSlept`, `Send` |
| `do`: response, `retryDelay` | `Answer` with `RetryDelays`, `Retry`, `NoAnswer` |
| `sleepContext`, a context that ends | `SleepCancelled`, `CancelCall`; waiting for the mutex cannot be cancelled |
| `activityRequest` | `CheckHeadroom`, which reads the recorded limit without the mutex |
| `FetchRepository`, `FetchReadme`, `FetchActivity`, search pages | `FollowsRedirect`, `ReadsReadme`, `ReadsCommits`, `ReadsPage`: the requests a call makes one after the other |

Times are countdowns. The extra second after a rate-limit reset is part of its last tick. *Observed:* an
activity call checks the quota before each request, but a retry inside `do` may still sleep until
the reset.

### RepositoryActivity

| Code | Model |
| --- | --- |
| `RefreshActivity` up to its list, `ActivityCandidates` | `StartRefresh` (all or a range of dates), `StartSingle` (one repository: an error if it is not monitored, skipped if it is fresh), `StartFails` (the list, or `dependencies`) |
| its loop | `NextRepository` (end, deadline, quota), `FetchFails`, `StoreResult`, `StoreFails` |
| `FetchActivity` | `ReadRepository`, `ReadHead`, `ReadPage` |
| `PutRepositoryActivity` | `IsNewer`, `Acceptable` |
| `watch pause`, `resume`, `add --focus`; a crash | `Monitor`, `Follow`; `AbortRefresh` |

*Reports.* A run ends in the state "done" with the report the code returns, also beside an error
(`failed`), because `run-daily` records it then too. They do not all add up to their list: an error of the store returns at once and counts
neither its repository nor those after it, `dependencies` fails after the target is set, and a single repository whose result
is fresh is skipped with a target of 0. `ReportAddsUp` says what each kind counts. Only a process that dies leaves no report.

*Turns.* The list of a run takes repositories in focus first, then those never fetched, then the newest. So a repository gets its
turn only if fewer than `Limit` others can come before it forever: those in focus, which go stale again and again, and newer
ones that never answer (`Rivals`). This is the premise of `EachIsObserved`; the code does not ensure
it: with `--limit` many of them (the limit may be 1) an older repository waits forever. Which repositories fail is
quantified in the property, for all older ones and any newer ones.

A branch is a set of commits numbered in the order of the branch, with committer
dates, which need not follow that order; a push appends or replaces the newest. A page is the commits of
the window that have the right number of newer ones ahead of them. The client's own waiting is in `GitHubClient`. *Left
out:* the reason why a run was deferred and the count of cut-off results in its report; the set of repositories is fixed.

### Login

| Code | Model |
| --- | --- |
| `authStartLimiter.allow` | `Admits`, `Swept`, `Counted` |
| `authStart`, `Begin`, `PutOAuthLoginState` | `LoginStart`, `NewLoginState`, `PutLoginState` |
| `authCallback`, `Complete` | `CallbackStart`, `ConsumeLoginState`, `IdentityKnown`, `ExchangeFails`, `PutAuthSession`, `RevokeOld`, `RevokeNew` |
| `authenticateRequest`, `Session` | `Authenticate`, `Serve` |
| `authLogout`, `Logout`, `Revoke` | `Logout`, `Revoke` |
| a failed statement, a restart | `StatementFails`, `WebRestart` (possibly with other administrators) |

A handler reads the clock before its statement; the statement uses that reading. A session carries
its rowid, which SQLite draws as one more than the largest (`NextRow`): it decides among sessions created together. Secrets drawn together are one
number. Responses set cookies when the handler ends, in any order. When the database fails in
`authenticateRequest`, nothing changes, so this is no action.

### Catalogue

`Infer` is the classification with its rules as data: words are the capabilities a name and description
mention, labels one name for a group of synonyms. `Assign` is the row `AssignRepositoryTopic` leaves;
`AssignByHand`, `ClassifyCandidate`, `AssignCandidates` and `Reclassify` are who asks for it, each assignment a transaction of
its own. `PutAnalysis` and `ImportBatch` write analyses. *Observed:* a formal reclassification also
changes topics that the configuration has retired, which a dry run does not count; evidence of GitHub becomes
automatic by the first reclassification, so that a second one may differ; candidates of the watchlist bring the
raw labels of GitHub as automatic categories. `DryRunForetells` is stated for configured topics.

## Runs

| Run | Shows | Bounds |
| --- | --- | --- |
| `queue_two_processes` | types, exclusive work, current copies, true outcomes, kept steps, the inductive invariant of the proofs, `ImplementsService` | 2 processes, 2 jobs, 2 attempts, lease at its tight value |
| `queue_admission` | one pending job per repository, bounded queue | 3 jobs, limit 2, four requests of which two conflict |
| `queue_liveness` | every accepted job ends | 1 process that may crash forever, 2 jobs, 2 attempts |
| `snapshots_daily` | 304s and day counts; unrequested repositories stay missing | 1 run at a time; 1 repository, 3 days, 2 contents and every writer, or 2 repositories and 2 days |
| `snapshots_all_writers` | types; a success is final | 1 run, 1 add across midnight, every command, imports, 2 days |
| `collector` | spaced requests, calls return; whole counts, forward cache, reports, everyone's turn | 2 callers, 1 retry, windows of 1 tick; 2 processes at one repository, 3 pushes; 1 process at 3 repositories for 2 places |
| `web` | single use, caps, quotas, rotation; decisions, dry run, analyses | 2 handlers, 1 browser, 3 sessions, 2 ticks; 2 processes, 2 topics, 2 revisions |
| `planning` | success, completeness, schedule; identity; growth, curves, paging | 1 process, 3 rows, 2 days; 3 results for a limit of 2 on pages of 1, 3 values, 1 that changes; 2 repositories, 3 names; 3 days of counts 0 or 1, pages of 1 |
| `overlapping_runs` | **violated**: a 304 after two overlapping runs | 2 runs, 2 days |
| `pause_during_run` | **violated**: a run undoes a pause | 1 run, 1 day |
| `watchlist_replay` | **violated**: discovery undoes a pause | 2 instants |
| `failed_run_advances_schedule` | **violated**: a failed run counts as a profile's success | 1 process, 1 day |

*Several components in one run.* The components of `collector`, `web` and `planning` share no
state that both change. Their MC modules start each behaviour in one `part`, chosen in the
initial state, and leave the others at rest: one run checks each part by itself. Parts also give an
instance the shape it needs:

* `MCCollector`: callers of one resource or of both; a branch that moves while one process reads, until its first result
  is stored; two processes at one repository; daily runs with two places for three repositories, whose branches are empty, while
  some come into focus, results go stale between the runs and any may fail forever.
* `MCWeb` begins with three sessions whose rows are not in the order of their creation, the state an
  overlap of two logins leaves.
* `MCPlanning`: a signal comes while the candidates are merged (earlier or later it leads to what
  a failure leads to); the third row is the discovery of a daily run, which plans by the other two;
  a search partitions and sorts in every way (only the stars with an upper bound too), by a field that only sorts at most one repository differs at first, and the third
  repository may meet the query only later; repositories change only while the search is neither in
  doubt nor disturbed (afterwards it promises nothing), and a request fails for good only before the
  first results; one candidate at a time of the second repository; snapshots stored between two
  pages of the project list are those of the day.
* `MCDailySnapshots`: `side` "deep" has one repository and every writer, "wide" two repositories.

*Why the bounds are enough.* In the queue, two processes are needed for every
race on a lease and a third adds no new pair; two jobs let one be closed as exhausted on
the way to another; two attempts give one retry and one exhaustion. The tick values
keep the order of the code's constants (deadline + skew ≤ lease) at equality or one
tick away from it, where an off-by-one would show. In the snapshots, repositories only
interact through the order of the run, so the properties of one row use one
repository and those of a batch two; three days allow a baseline, a gap or failure,
and a 304; two contents suffice to tell current from old. `snapshots_all_writers` takes one run
at a time: a snapshot is written by one statement, so the run, the add in flight and the imports
already are overlapping writers of a day; two runs are together in `overlapping_runs`. In the search, three values and a
limit of two results split twice, to single values; three repositories overflow the limit, fill and
shift pages; the one that changes may do so any number of times. Two sources and two renames let one name pass from a repository to the other. Two places
for three repositories make them compete, also when one of them always fails or keeps the focus. One capacity or two sessions are reached and exceeded by
two handlers. Numbers that the code compares but does not compute with (limits, lifetimes, pages)
keep their order.

*Counterexamples.* (1) `overlapping_runs`: run A fetches content 1, GitHub changes, run B
fetches content 2, A stores its count, B's is refused as success_protected but B stores
its ETag; the next day's 304 copies content 1. (2) `pause_during_run`:
a manually added row is listed as active, paused, and written back as active. (3)
`watchlist_replay`: a paused watchlist repository is found by a search; it is observed
again as manual without the profile that marks it as a replay. (4) `failed_run_advances_schedule`: a
profile is searched to its end, the process is cancelled while it merges, the run is recorded as
failed with the profile's report, and the next discovery of the day leaves the profile out. Each is listed in
`PROJECT.json` with the sentence of the documentation it contradicts. Two more show when a premise is
dropped. Without `~disturbed` in `CompleteIsWhole`, a search that reports no doubt has missed a repository that kept still (see
SearchProfile). With `ImportLegacy` added to a single run, the import stores an ETag and an observation of an older
content, and the first run is answered 304.

## Fairness

*Queue.* `FairSpec` assumes that the clock runs, that a worker
that is up takes its next step (`importLoop` polls at start and every second, so a lost
wake-up delays but does not stop it), and that a dead process is started again (`Restart=on-failure` in
`src/deploy/tencent2/github-radar-web.service`). Claiming gets strong fairness: it is
the first thing a started process does, and over infinitely many restarts it is not cut
off by a crash or a busy database every single time. Nothing is assumed of GitHub,
of the rest of an attempt, or of crashes. The argument is then that each claim
consumes an attempt and that a claim closes what has none left.

*Client.* `ClientFairness`: the clock runs; a caller that holds the mutex takes its next step (the transport has a
timeout, a sleep ends); a caller that waits gets the mutex in the end, which is strong
fairness of `Acquire`, because a `sync.Mutex` hands itself to a goroutine that has waited for a
millisecond. Nothing is assumed of what GitHub answers or whether callers are cancelled.

*Activity.* The daily run comes back whenever there is something to do (strong fairness of `StartRefresh` for all repositories,
not forced: cron) and its steps follow each other. `EachIsObserved` has two premises. A run that is interrupted forever
promises nothing: either interruptions (`Interruption`: a signal, the deadline, an error of the store or the configuration, a
crash, the quota, a refusal of GitHub, a failure of a repository that it does answer for) happen infinitely often, or the
repository gets its first result. And it has fewer rivals than a run has places, see RepositoryActivity. `MCCollector` assumes this
for the process of the daily run; a second one, the command line, owes nothing.

`CHECK_DEADLOCK FALSE` is set for all modules but `ImportQueue`: they stop when their bounds
(days, contents, instants, rows, drawn secrets, pushes) are used up, or when a part has nothing left to do.
`ImportQueue` never stops.

## Proofs

Every theorem below holds for all values of the constants that satisfy the `ASSUME` of its module,
which TLC evaluates in the runs. These say that bounds are natural numbers, limits and periods are at
least one, sets of repositories, categories and addresses that the code counts, sums or sorts are finite, and NULLs are
not values; the only one about timing is `TimeoutTicks + ClaimSkew <= LeaseTicks` of the queue. What
is assumed besides is stated as a hypothesis (`Scheduled`).

| Module | Theorem | States |
| --- | --- | --- |
| `ImportQueueProofs` | `TypeCorrect` | `Spec => []TypeOK` |
| | `LeaseDisciplineHolds` | `Spec => []LeaseDiscipline` |
| | `WorkIsExclusive` | `Spec => []ExclusiveWork` |
| | `RepositoriesPendOnce` | `Spec => []OnePendingPerRepository` |
| | `QueueStaysBounded` | `Spec => []QueueBounded` |
| | `CopiesAreCurrent` | `Spec => []CopyIsCurrent` |
| | `CompletedStepsAreKept` | `Spec => CompletedStepsKept` |
| | `OutcomesAreDurable` | `Spec => []OutcomeIsDurable` |
| | `QueueImplementsService` | `Spec => ImplementsService` |
| `DailySnapshotsProofs` | `TypeCorrect` | `Spec => []TypeOK` |
| | `SuccessesAreFinal` | `Spec => SuccessIsFinal` |
| | `OnlyRequestedFail` | `Spec => UnrequestedStayMissing` |
| | `NotModifiedCorrect` | `Spec => []NotModifiedIsCurrent` if `Scheduled` |
| | `CountsCorrect` | `Spec => []CountsAreOfTheirDay` if `Scheduled` |
| `CollectorProofs` | `ClientTypeCorrect`, `CollectorTypeCorrect` | `[]ClientTypeOK`, `CollectorSpec => []CollectorTypeOK` |
| | `RequestsAreSpaced` | `ClientSpec => SpacedRequests` |
| | `ReportsAddUp` | `ActivitySpec => []ReportAddsUp` |
| | `WindowsAreCountedWhole` | `ActivitySpec => CountsAreWhole` |
| | `CacheOnlyMovesForward` | `ActivitySpec => CacheMovesForward` |
| `PlanningProofs` | `DailyTypeCorrect`, `CandidatesTypeCorrect` | `[]DailyTypeOK`, `[]CandidatesTypeOK` |
| | `SuccessCorrect` | `DailySpec => []SuccessIsWhole` |
| | `SkippedBoardCorrect` | `DailySpec => SkippedBoardIsStored` |
| | `ProfilesComeRoundCorrect` | `DailySpec => ProfilesComeRound` |
| | `IdentityCorrect` | `CandidatesSpec => []IdentityOutlivesNames` |
| `SearchProofs` | `SearchTypeCorrect` | `[]SearchTypeOK` |
| | `CompleteCorrect` | `SearchSpec => []CompleteIsWhole` |
| `ViewsProofs` | `ViewsTypeCorrect`, `PlanningTypeCorrect` | `[]ViewsTypeOK`, `PlanningSpec => []PlanningTypeOK` |
| | `GrowthCorrect` | `ViewsSpec => []GrowthIsCountedOnce` |
| | `CurvesCorrect` | `ViewsSpec => []CurvesCompareOnePopulation` |
| | `ListCorrect` | `ViewsSpec => []ListShowsEachOnce` |
| `WebProofs` | `LoginTypeCorrect`, `CatalogueTypeCorrect`, `WebTypeCorrect` | `[]LoginTypeOK`, `[]CatalogueTypeOK`, `WebSpec => []WebTypeOK` |
| | `OneSessionCorrect` | `LoginSpec => []OneSessionPerLogin` |
| | `PlacesCorrect` | `LoginSpec => PlacesAreLive` |
| | `QuotaCorrect` | `LoginSpec => QuotaKept` |
| | `RotationCorrect` | `LoginSpec => RotationIsComplete` |
| | `NewestCorrect` | `LoginSpec => NewestSessionsSurvive` |
| | `DryRunCorrect` | `CatalogueSpec => []DryRunForetells` |
| | `DecisionsCorrect` | `CatalogueSpec => DecisionsStand` |
| | `AnalysesCorrect` | `CatalogueSpec => AnalysesKept` |

The modules `MCCollector`, `MCPlanning` and `MCWeb` only restrict these specifications to one component at a time.

*Exclusion.* `ExclusiveWork` is not inductive: it does not say why a claim finds no attempt inside its
deadline. `LeaseDiscipline` does, in four parts that need each other: a token names the last
claim of a pending row; at most one lease is live; attempts at work come from different claims; an
attempt inside its deadline holds a lease that ends no earlier than the deadline. A claim
needs every lease to be expired on a clock that is at most `ClaimSkew` behind, so no
deadline is running (`ClaimNeedsQuiet`), and the lease it writes outlasts the deadline it starts.
This last step is where the assumption on the constants is used.

*What is kept.* `RowStep` classifies every step by what it does to one row: enqueue it, nothing,
`Closed`, `Claimed`, or `Saved` by an attempt that passes the lease check. One pending job per name and
the limit follow from it, because only `Enqueue` makes a row pending. `CopyIsCurrent`
is strengthened to `CopyFollowsRow` (an attempt resolves a name only while its job has no
repository) and needs `LeaseDiscipline`: after a write no other attempt owns the job.
`CompletedStepsKept` follows from the copy being current and from unused rows being empty
(`AbsentRowsEmpty`). `OutcomeIsDurable` is strengthened to `DurableInv`: rows and copies only name
stored repositories, and the program counter of an attempt implies what it has done.

*Refinement.* `RefinementStep` maps every step under `TypeOK` and `LeaseDiscipline`: `Enqueue` to
`Accept`, a claim to `Attempt` or `GiveUp` together with the exhausted jobs it closes, a write to
`Finish`, `Release` or a stutter by its stage, the clock to `Release` when it ends the live
lease, everything else to a stutter. `OneLiveLease` makes the holder unique.

*Snapshots.* `SuccessIsFinal` and the types need only what a single statement guards (`SnapshotStep`), so they hold
whatever overlaps. `NotModifiedIsCurrent` does not: the counterexample of `overlapping_runs` is a behaviour of
the code. It is proved under `Scheduled`, which says of an instance what the deployment says of the code:
one run at a time (the `flock`), full answers that carry the topics, adds that are stored before anything overtakes
them, no legacy import. The invariant `ETagInv` says that every ETag in the registry, in a run's copy or
in a request under way belongs to a stored count that no later day falls below (`Backs`), and that an answer
is a content the repository had since the day began and the newest the registry knows (`AnswerCurrent`). `RunQuiet` is what
makes a run the only writer of its day unless the row was observed meanwhile; then its ETag
is not overwritten by an older observation.

*Client.* `RequestsAreSpaced` rests on the mutex: what its holder read of interval and quota stays true until it
sends, because only the holder writes `since` and `rates` (`Waits`).

*Activity.* `ReportsAddUp` needs what is left of the plan (`ReportOf`), and that each success so far is a place of the plan whose
repository has a result (`Backed`), which no other process takes away (`StoredNext`). `WindowsAreCountedWhole` needs that the pages read so
far are the commits with fewer than so many newer ones (`PagesOf`): the pinned history does not change, so pages neither
overlap nor leave a gap. `PlacesAreTaken` (`DataLemmas`) shows that the list of a run names as many different
repositories as it has places.

*Daily run.* `DailyInv` follows each process through its stages (`ProcessOK`): its rows are its own and still running, what it
has searched to the end and stored is recorded, and a row is only a success after all of it was stored. That rows never lose
their dates and that days only grow makes the planning theorems hold for what later runs read.

*Candidates.* `CandidatesInv` says while sources are stored one by one: every name not yet to be
preserved is known to the row (`BatchOK`), unless a failure was reported.

*Search.* `CompleteIsWhole` speaks of the end of a search only. `SearchInv` says on the way there that a repository that kept
still is a hit or `Awaited`: in a query to make, or far enough down the query being read. The halves of a range leave no value
out below its top (`SplitKeeps`), and the top is above every result, be it the bound, the day, the first result of a page sorted by
stars or the probe (`TopIsAbove`). A page takes the next results from the top in whatever order the profile asks
for, and whoever is overtaken only moves to a later page (`ChangeKeeps`); a change that would move it to an earlier one sets
`disturbed`. The pages to read hold all results unless there is a doubt: more results than GitHub shows are split or
reported as truncated.

*Growth and curves.* The code sums over repositories day by day, the properties sum what each repository gained. A sum of
the library is a fold over a set; `SumDefined` and `SumSteps` show by `SetInduction` that it exists and does not depend on
the order, and `SumOfDifferences` exchanges two sums. For one repository the differences between neighbouring
successes telescope, over gaps too (`GainRises`, `PointsAddUp`).

*Project list.* `ListOK` says of a repository that kept still: it was shown once and is not behind the cursor, or it was not shown
and is. That a page takes exactly the rows next to the cursor needs a total order (`AheadOrders`), with ties broken by ID
and NULLs last, and a snapshot stored meanwhile leaves two repositories that kept still in their order (`StoreKeeps`).

*Login.* A number drawn for a login is in one place at a time, a state, a callback that holds it, or a session
(`HoldersApart`, `RowsApart`); tokens not yet handed out are in no cookie (`TokensFresh`), so that a rotation knows its own
session. The states `MCWeb` begins with satisfy the invariant too.

*Catalogue.* No task holds an order by a person (`TaskOK`): manual assignments happen in one step.

*Proof technique.* Finite sets are reasoned about by `SetInduction` and the lemmas on least and greatest elements
of `DataLemmas`, which quantify over sets where the library's theorems take operators. Five definitions are
written without sorting for this: pages of commits and of search results, repositories to refresh, session rows and rows of the
project list are determined by how many elements come before an element, as in SQL's `ORDER BY ... LIMIT`.

*Not proved.* `AcceptedJobsFinish`, `CallsReturn` and `EachIsObserved` need fairness and ENABLED, which are out of the
prover's reach: TLC checks them. Every other property of a passing run is a theorem. For the four properties that are
violated there is nothing to prove; `NotModifiedIsCurrent` is one of them without `Scheduled` and a theorem with it.

## Not modelled

* Schema migrations: SQL in one transaction per version; what could go wrong is in the statements.
* Exports, backup and retention: file input and output. In `DailyRun` they are one stage that may fail.
* Rendering, request parsing, translations, flags, settings, logging: no state of their own.
* Fetching and parsing of Trending and OSS Insight pages: in `DailyRun` a source that delivers, fails
  or delivers in part.
* GitHub status, notes and research tags of the registry (focus only where it orders the activity refresh); radar, ranks and
  filters of the views.

## Plan

1. The two hazards without a property (`PROJECT.json`): GitHub status and monitoring status that a run writes by two
   statements, and an export that reads its tables one after the other while they are written.
2. What the liveness properties rest on, as far as it is safety: that each claim consumes an attempt and that an exhausted job
   is closed, that a run of the activity refresh puts the repositories observed longest ago first.
3. The partly modelled components: focus and notes of the registry in one module with the writers that own them, the text and
   topic filters of the project list, the radar.
