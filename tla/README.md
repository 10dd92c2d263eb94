# Ops Monitoring Agent: TLA+ models, checks and proofs

The program is a dashboard for Cloudera clusters: a FastAPI backend with a
database of users, plans and tenants (`backend/app`), a deterministic engine of
nine health checks (`checks`, `data_sources`, `cloudera`, `config`), AI analyses
of what breaches (`backend/app/ai`, `backend/app/llm`), and a React frontend
(`frontend/src`). This directory models the parts where order, overlap, failure
and time decide whether it is correct. Paths below are relative to `src/`.

## Inventory

How the backend runs matters everywhere: FastAPI serves each synchronous handler
in a worker thread with a SQLAlchemy session of its own (`db/base.py`). A session
loads rows, the handler checks and assigns them, the commit writes the columns
whose values changed. No handler locks a row or keeps a version, so two requests
interleave between one's load and its commit. In-memory state (`_JOBS`,
`_source_cache`, `_locks`) is shared by all threads of the one process and lost
with it.

| Component | State | Operations | What is hard | Correct when |
|---|---|---|---|---|
| Account life cycle (`routes/auth.py`, `admin.py`, `user_admin.py`, `db/models.py`) | `is_active` and three timestamps per user; the status is derived | register, create, set active, request, cancel, accept, reject, recover, approve, reject recovery, purge | two handlers writing the same row from different copies; the window's end | only reviews delete or restore, the window never moves, nobody is locked out |
| Sessions (`auth.py`, `core/security.py`, `api.js`) | revoked token ids; token pair in `localStorage` | login, refresh with rotation, logout, replay after 401 | two tabs, a lost answer to a refresh | a token is used once; a user with a valid session is not logged out |
| Credentials (`auth.py`, `user_admin.py`, `email.py`) | password hash, must-change flag | register, invite, forgot, reset, send, change | mail sent before or after the commit; a mail that is refused; a crash | somebody has the password that works |
| Plans, access, limits (`plans_admin.py`, `llm/access.py`) | plan rows, per-user overrides | create, update, delete, assign, effective values | check-then-write; several handlers on one row | nobody reverts what another handler wrote; foreign keys hold |
| AI jobs (`ai/jobs.py`, `routes/analysis.py`) | registry of jobs, worker threads | preflight, register and trim, run, finish, poll | parallel jobs, faults anywhere, restart | a job settles once and its answer stays |
| Model calls and limits (`ai/agent_runner.py`, `llm/usage.py`) | table `api_usage` | check limit, try the chain, record | check minutes before record | limits hold up to the overlap |
| Analyzer (`ai/analyzer.py`, `ai/models.py`) | none | severity floor, order, trend | trend shares a source with reports | the floor is never undercut |
| Breach history (`ai/breach_history.py`) | a CSV file, one lock | append | - | one line per finding |
| Bridge and source cache (`engine/bridge.py`) | cached sources, locks, environment | get, build, read under lock, invalidate | stale rows, shared `as_of` | reports see current settings and their own day |
| Tenant administration and uploads (`tenant_admin.py`, `engine/uploads.py`) | tenant rows, files and their rows | create, patch, connection, upload, delete, link | file and row are not written together | no file the checks read is without a record |
| Thresholds, KPI access, refresh rates (`monitoring.py`, `kpi_access.py`, `kpi_settings.py`) | JSON columns, override rows | read, merge, write | lost updates | a limit moves only by name |
| Checks engine (`checks/`) | none | nine checks, run all | boundaries, empty data, signals that contradict | a card agrees with its evidence; worse never looks better |
| Data sources (`data_sources/`) | file and metric caches, `as_of` | read, trim to day | cache age, days, requests that overlap | earlier days are settled; the lag is bounded |
| Cloudera client, configuration, agents and prompts, logging, migrations | none that changes | I/O and text | - | not modelled, see `PROJECT.json` |
| Frontend analysis store (`lib/analysis.jsx`) | entries in memory and `localStorage`, timers | start, poll, reset, hydrate | tabs, late answers, reload | what shows "running" is polled, and ends |
| Other frontend pages | presentation | - | - | - |

`PROJECT.json` lists every component with its sources, and the hazards with the
line where each bites and the properties that would catch it.

## Modules

| Module | Models | Checked by |
|---|---|---|
| `AccountLifecycle` | the account endpoints with atomic handlers: what they promise when requests do not overlap | `account_lifecycle` |
| `AccountRequests` | the same handlers split into load and commit, as `db/base.py` runs them; extends `AccountLifecycle` | `account_requests` |
| `Accounts_proofs` | the theorems of both | tlapm |
| `Sessions` | tokens, rotation and logout in `auth.py`, and the shared store and transparent refresh of `lib/api.js` and `lib/auth.jsx` | `sessions`, `session_calls`, `session_revived` |
| `Sessions_proofs` | its theorems | tlapm |
| `Database` | a server thread's request: load, steps, commit, crash; what an UPDATE writes | extended by the next three |
| `Credentials` | passwords and the mails that carry them; extends `Database` | `administration` |
| `Access` | plans, rights, rows of a user, thresholds, deletion; extends `Credentials` | `administration` |
| `TenantFiles` | files on disk and in `tenant_files`; extends `Database` | `administration` |
| `Administration` | the composition: all of these handlers on one server | `administration` |
| `Credentials_proofs` | theorems of `Administration` about the rows of users | tlapm |
| `Administration_proofs` | theorems about its types, deletions, thresholds and files | tlapm |
| `JobBoard` | abstract: what polling a job may show | refined in `analysis_jobs`, used by `AnalysisClient` |
| `AnalysisJobs` | `ai/jobs.py` with the chain of `agent_runner.py` and the limits of `usage.py` | `analysis_jobs`, `analysis_calls` |
| `AnalysisJobs_proofs` | its theorems | tlapm |
| `AnalysisClient` | the frontend's `lib/analysis.jsx` in several tabs, over `JobBoard` as its server | `analysis_client` |
| `AnalysisClient_proofs` | its theorems | tlapm |
| `SourceCache` | `engine/bridge.py` with the trend of `analyzer.py` and the handlers of `tenant_admin.py` | `source_cache` |
| `SourceCache_proofs` | its theorems | tlapm |
| `ClusterData` | what each kind of source tells the checks: parsers, day filter, metrics cache | `reports`, `live_report` |
| `Checks` | the nine checks, a report, a single check; extends `ClusterData` | `reports`, `live_report` |
| `Findings` | severity floor, order of findings, an incident; extends `Checks` | `reports` |
| `Reports` | a cluster that changes while it is reported on, and the requests of its live source; extends `Findings` | `reports`, `live_report` |
| `Reports_proofs` | its theorems | tlapm |

Each that is checked has an `MC` module that gives the constants small sets of model values.
Operators introduced as "plausible bugs" are used by no action; each is a mutated
form of the definition after it, and shows that the property named in
`PROJECT.json` depends on that definition.

### AccountLifecycle

`account[u]` is the row of user `u`: `stage` tells whether it exists, `active` is
`is_active`, `requested` whether `deletion_requested_at` is set (its value is
never read), `deletedAt` and `recovery` the other two timestamps. `Status` is the
property `account_status`. Roles never change, so administrators are a constant.
Each endpoint is an action with the guards of the handler (`CanAccept`,
`CanApprove`, ...) and its assignments (`Accepted`, `Approved`, ...), which
`AccountRequests` reuses. Handlers that answer an error write nothing and are
left out.

`Dormant` is the status, which is a function of the timestamps alone; whether one can
sign in (`CanAct`) is a matter of `is_active`. `DormantWakesOnlyByName` is about both: a
dormant account stays dormant until it is purged, and nobody signs in with it unless
`set_user_active` names it, which asks for no status. That the latter does happen is a
disagreement with `db/models.py:58` (see Findings).

The run has two administrators and two users, a window of two ticks and five
ticks of time: room for a deletion, an approval in the window's last tick, a
second deletion and its window.

### AccountRequests

`request[s]` is what a worker thread has loaded and assigned but not committed.
`Begin...` is the load, check and assignment of one handler; `Commit` writes the
columns that differ from the loaded ones (`Dirty`), and nothing when the row is
gone. Three properties say what survives even with stale copies, beside
`NoAdminEverDeleted`. `WindowMovesByReview`: a deletion is set only at the time of an
acceptance that had found the request standing, and lifted only by an approval that had
found the account in its window. `DeletedWakesOnlyByName`: one signs in with a deleted
account only when `set_user_active` has enabled it, which includes an acceptance that
loaded the account disabled and so leaves `is_active` out of its UPDATE.
`OnlyAdminsRestore`: no commit of a user enables an account or lifts a deletion.
What does not survive: `SomeAdminCanAct`, since two administrators may disable each
other (this is why the run does not check for deadlock: with both disabled and every
user disabled nothing moves); a withdrawn deletion may be carried out, by an
acceptance that had loaded the row before; and an approval may leave a recovery on
record (see Findings).
Two threads, three accounts and a window of one tick suffice: every property
relates two overlapping requests on one row.

### JobBoard and AnalysisJobs

`JobBoard` has one variable, what `GET /analysis/{job_id}` tells. `AnalysisJobs`
implements it with `board[j]` read off the registry and `Job.status`
(`ImplementsJobBoard`). A job's `thread` is where it is: the request up to
`Register`, then the worker. The steps cut where another thread can run between
two effects: the limit check and the record, `_finish`'s first and later
assignments, the registration under `_LOCK`. Over the cap the registering thread keeps the
lock and reads the statuses one by one (`ReadStatus`), in the order of insertion, before
it drops what it has found finished (`DropOldest`); `_finish` takes no lock, so jobs settle
in between. `DieUnhandled` is a fault outside
`_run`'s inner `try`; a fault inside it is `AnalysisFails`, `RecordFails` or
`AnswerUnusable`. `Restart` loses the registry and the threads, and keeps
`api_usage`. `NewDay` moves the window of the limit.

`calls` is table `api_usage`; of the four limits the daily call limit stands for
all, being read and compared at the same place. `peak` is a history variable.
`OldestDroppedFirst`: of two jobs that had finished before a trim began, it never drops the
newer and keeps the older. It cannot say more: an older job that finishes after its
status was read does outlive a newer one that finished before it was read.
`OvershootBoundedByOverlap`: the limit is checked before a call and recorded
after it, so parallel analyses do exceed it; by no more than their number less
one. The bound is an invariant that also counts calls in flight, which makes it
inductive.

Bounds: three jobs of two users, a registry that keeps two, one model, a limit of
one call, two days (`analysis_jobs`, with symmetry between the two jobs of one
user); and, for the chain and for liveness, two jobs of one user with up to two
models each (`analysis_calls`, no symmetry). Trimming needs three jobs, overshoot
two, fallback two models, a midnight two days.

Fairness is weak fairness of each registered job's thread: the operating system
schedules threads, `asyncio.wait_for` and the HTTP client's timeout (600 s) end
model calls, `with` ends the hold of the lock. Under it a loaded job settles
(`LoadedJobSettles`); a registered one need not, for `DieUnhandled` leaves it running.

### SourceCache

One cluster. `tenant` is its committed row: the mode, and per mode a version of
the settings a source is built from. `cache`, `lock` and `env` are
`_source_cache`, `_locks` and the two environment variables. A request's `at` is
where its thread is; `row` is the tenant as it loaded it and keeps it (sessions do
not expire rows on commit). `get_source` is `Configure`, `Look`, `Build`, `Take`:
it has no lock, so two requests may build, and `invalidate` may come before
`Take`. An analysis is a view and then the trend, with the same row. Sources are
freed when nothing refers to them, as Python does. An administrator's handler is
the commit, the refresh that rereads the mode, and the pop of that mode's key.
Of `GET /dates` nothing is modelled that a view does not do.

`CachedSourceIsCurrent`: once no change is in progress, the cached source of the
current mode has the current host and credentials, unless whoever built it was
out of date at that moment; so flipping modes back and forth never uncovers an
old source, although only one key is dropped. `OnlyTrendsMoveTheDay`: the lock
of a key does protect every source ever cached under it, and the trend is the
only way around it. Each of the two names its exception, and each exception does happen
(see Findings). `LockHeldOnlyWhileReading` is why no failing
check blocks the cluster. Bounds: a view and an analysis, two administrators, two
days, one change of settings per mode and any number of mode flips: each
property involves two requests and one or two changes.

### Sessions

One user in one browser. A pair of tokens is the number under which it was issued;
`login[n]` remembers the sign-in pair `n` descends from. `revoked` is table
`revoked_tokens`, `store` the pair in `localStorage`. A POST to `/auth/refresh` or
`/auth/logout` is a record in `posts` that goes through the look-up and the commit of
its handler, whether or not its tab still waits: `UniqueJti` is what the unique
column lets a commit insert. `refreshing[t]` is the promise of `lib/api.js` in tab
`t`, `leaving[t]` the logout it awaits, `call[c]` one call with its interceptors.
`LoggedOut` loads the login page and so forgets everything in the tab, except on the
login page itself. A `Reload` of a tab with nothing in memory is a tab being opened.
Access tokens expire at any time, in the order of issue; that a refresh token expires
only makes a refresh fail, which it may do anyway.

`OneLiveTokenPerLogin` and `EndedLoginStaysEnded` are what rotation promises when
requests overlap: both hold because of the unique column alone, the look-up does not
help. `StoredPairDiesInTransit` relates the browser to the server: the stored pair is
revoked only while an answer about it is on its way or has been lost. A second tab
whose refresh is refused clears a pair that works; no comment says otherwise, so this
is noted under the hazards only. `session_revived` shows that a late answer refills
the store after a logout.

`sessions` has two tabs with a call each and three pairs (two successors of one token
and their origin) and no faults, with symmetry of the tabs; `session_calls` has two
calls in one tab, two pairs and two faults (a lost message, a page load that forgets
something, the user disabled). Faults are bounded by `MaxFaults`; at the bound of
pairs a refresh can only fail, so that the bound stops nobody's call. The runs do not
check for deadlock: when all pairs are used and nobody is signed in, nothing moves.
Fairness: requests are answered or time out, and a tab's event loop runs what came
back; a call then settles (`CallSettles`).

### Database, Credentials, Access, TenantFiles, Administration

`Database` is how a handler runs: `Accept` starts a request in a free thread with
what its session has loaded; later steps are cut where the handler writes something
others can see (a commit, a mail, a file) and nowhere else; `Finish` ends it, `Crash`
ends all of them. `Written` is the UPDATE of SQLAlchemy: the columns assigned another
value than was loaded. `Inserts`, `On` and `RefersTo` are the unique and foreign keys
of `db/models.py` as PostgreSQL enforces them; where a key makes a commit fail the
action writes nothing.

`Credentials` has the handlers on passwords. A password is the request that made it;
`inbox` and `screen` are history variables: what a user has chosen or been sent, and
what an administrator has been shown. Each handler has its own order: register and
create commit first, `forgot_password` mails first and stores only what went out
(`AfterMail`), `reset_password` stores, then mails, then answers. `Access` has the
plans, overrides, priorities, the rows of the four tables that refer to a user, the
deletion with its hand-kept list of tables (`Cleared`), and thresholds as one column
merged from a copy. `TenantFiles` has an upload that stores and then records, and a
deletion that unlinks and then drops its record; records of one metric share a path.
`Administration` composes them: in each step one handler of one module moves.

`SomebodyHasThePassword`: whatever overlaps, fails to mail or dies, the stored
password is one that somebody was given, but for an invitation or a reset whose
answer died with the server. `ColumnsKeepTheirOwners`: a handler with an old copy of
a row reverts nothing but its own columns. `NoHiddenFile`: what the checks read, an
administrator can see and delete; it holds because a deletion drops its own record
only. `DeletionSucceeds`: a deletion fails only on a row inserted while it runs.
`LimitsMoveByName`: only an overlap moves a threshold that the edit did not name.

Bounds: an administrator and a user who comes and goes, one plan, two threads and
three requests, one crash. Each property is about two requests that overlap, and the
third prepares what they meet (a plan, a link, a first upload). Of a user's rows there
is one per table (`api_usage` aside), of four limits one, of clusters one; the priority
list is a set; a plan is not renamed. `Init` has users with rows in every table or
none at all. No deadlock check: the requests are counted.

### AnalysisClient

`tab[t][k]` is what a tab holds for a key: the entry, the calls of `poll` that are
alive (`loop`), and which of them `timers.current` names. A loop is *asking* while its
request is in flight and *waiting* while its timer runs; clearing the timer cancels a
waiting loop and leaves one that asks alone, which is what makes the store hard: an
entry may have several loops, and a timer entry may name a loop that has gone on.
A callback keeps the user it was made for (`by`) and the tokens its request was sent
with (`as`). `store` and `events` are `localStorage` and the storage events not yet
given to a tab; hydration and the storage listener are `Hydrate`. The server is
`JobBoard`; losing a settled job to trimming looks to a client as `ServerRestarts`
does. `stale` is the set of starts more than ten seconds ago.

`RunningIsPolled`: an entry that shows "running" and has a job has a loop.
`PolledEntrySettles`: such an entry does not go on for ever once its job is over on the
server, settled or lost in a restart. Fairness is weak fairness of hydration, and of the
poll answers and timers of each key: the browser runs the effects and timers of an open
page, and requests end if only in an error. Nothing is assumed of the server, where
`AnalysisJobs` has jobs that never settle (`DieUnhandled`), nor of POSTs, storage events
or users. The loops of a key may ask for different jobs, the old ones running for ever, and
the property says that this keeps none from finding out about the entry's own job. It
does not say with what the entry ends: a late answer about an older job may have
ended it before (see Findings).

Bounds: two tabs, one user, one key, two jobs, two loops per key and tab; jobs end in
"done". Each start, failed call, logout and page load takes a turn. A tab that is used
alone has four, which is what it takes for a late answer about an old job to meet a new one
after a sign-out or a page load; once another tab is signed in there is one (`Among`), so
that the other takes the entry over from the store, or starts it. The invariant, which is also
proved, was checked apart with two turns in each of two tabs (2.0 million states). Not checked for
deadlock: the turns are counted.

### ClusterData, Checks, Findings, Reports

`ClusterData` says what the three sources tell. A sample is a metric of a host (and
mount) at a moment; what a check asks for (`GetMetric`) is what the source of that
kind computes from the samples: ratios of two series of the same moment
(`DiskPercent`), sums over hosts (`HdfsCapacity`), trimmed to the viewed day
(`TrimToDay`), or as the live source's cache has them (`FetchPlan`, `Fresh`,
`InLookback`). Values are numerators with their divisor, so that no division is
rounded. `Checks` has one operator per check, from source and day to status, entities
and evidence rows, and `BuildReport` and `BuildSingleCheck`; `Findings` the analyzer's
floor, order and fallback. `Reports` has the state: the cluster, its history and the
cache. Most of its actions are the environment's, which is why half of `Reports` is marked
external: it makes any cluster. The others are the live source's requests: `Ask` finds
no fresh answer and sends the query, `Answered` has waited and stamps what has come with
the time by then, `Unanswered` is a time-out or an error. `Callers` may be in
flight at once and overwrite each other's answers, as the trend and the list of days do
without the lock. An answer has what was held when it was asked for and any part of what was
measured since. The reports themselves see a live source through `FetchPlan`, with an
answer that comes at once: what is said of them is about one moment.

`CardsAgreeWithTheirRows` relates what every check computes apart: status, breaching
entities and evidence. `EarlierDaysSettled`: nothing measured later changes what an
earlier day shows. `LagBoundedByTtl`: a cached answer hides nothing older than the TTL plus
the time its request took.
`WorseNeverClears`: a cluster whose signals only get worse keeps its red cards, over
the four signals of `service_status` and the services of HDFS. `CardsRespectFloor`:
whatever findings a model returns, the first card is as severe as each breach shown.

Bounds: two hosts with a mount, two services, two days of two moments, two records
beyond the sound cluster, values on both sides of every limit. Two records
are a ratio, a pair of signals or a before and after; the operators are evaluated for
every day and kind of source in every state. Two callers of the live source may be in
flight over three moments with a TTL of one: time for a slow answer to replace one asked for
later, and for both to expire. `MCNext` has requests only in a cluster of which nothing but memory
is measured, since the lag depends on nothing else. `live_report` is in Findings.

## Proofs

Every safety property that a run checks as true is also proved, for every value of
the constants that the assumptions allow. The assumptions only say what the constants
are: that administrators are users, that numbers are numbers, that the bodies of
requests have the fields of their schemas, that a model's findings are sequences
(`AccountAssumption`, `SessionsAssumption`, ... next to the constants, evaluated by TLC
in each run). Each proof module has the same plan: an inductive invariant, a lemma for
every action or group of actions, and the theorems that follow.

`Accounts_proofs`, part I: with atomic handlers, the inductive invariant `IInv` bounds
the clock, states of each row (`IRow`) that it has its type, that `deletedAt` is never
in the future, that a recovery request belongs to a deletion and lies in its
window, and that an administrator's row is never requested, deleted or purged; and
it contains `SomeAdminCanAct`. The last two go together: the administrator who
disables another cannot disable themselves, and nothing but `set_user_active` ends
an administrator's access only because administrators are never deleted. The window
needs the clause on the clock: `CanAccept` stamps a row with the present, so that
the time already passed since a deletion is never negative.
`HandlerRows` says once what any handler may do to a row; each action then follows
from the guard it has.

Part II: with load and commit apart, `RInv` says of a thread about to commit only what
it can know (`Checked`): that its handler's check passed on the copy it loaded and what
it assigned to it. The row in the table may be any other by then. So the proof that no
administrator is deleted (`AdminsNeverDeleted`) needs `Exempt` of the table's row and
of every copy that was ever loaded of it, and `OnlyAdminsRestore` looks at the columns a
user's commit can write (`Dirty`). `WindowReviewed` and `DeletedSleeps` go column by column
too: a commit that changes `deletedAt` is an acceptance or an approval, whose check holds of
the copy (`Reviewed`), and one that wakes a deleted account either sets `is_active` and
leaves the deletion, which only `set_user_active` does, or sets the deletion and leaves
`is_active`, which an acceptance does only of an account it found disabled.

`Sessions_proofs`: `SInv` adds to `OneLiveTokenPerLogin` that a pair
descends from a sign-in no younger than itself (a new sign-in is a family of its own)
and that nobody holds a token that was not issued, in particular no request that has
passed its look-up. Three lemmas carry it: `Rotation` (the successor takes the place
of a live token), `SignIn` and `Withdrawal`; every step is one of the three.
`StoredPairDiesInTransit` relates the browser to the server and needs `Transit`: a tab
awaits the answer to each request it has out, of each kind at most one; nobody but the tab
about to store an answered pair has heard of it; and a request about the stored pair
that no tab awaits has been given up by one (`orphaned`).

`Credentials_proofs`: `SomebodyHasThePassword` alone is not inductive: what a request
commits later depends on what it holds. The invariant `PInv` therefore says of every request
(`Sound`) that an edit differs from the row it loaded only in the columns its handler
assigns, that an insertion carries a complete row, that only an invitation or a reset
has an answer to give, with a password it made itself, and that `forgot_password` has
mailed what it is about to commit. `ThreadStep` reduces every step of a thread to what becomes
of each password (`Kept`): given away, about to be, or untouched by a thread that had
nothing to give. `CommittedEdit` says once what a commit may change in a row, from which
`EditsKeepToTheirColumns` follows for the six edits; the deletion of a plan, which
clears the plan of the users it has loaded, is the one other step that writes rows.

`Administration_proofs`: `TInv` gives every request the record its handler makes
(`Serving`), which is what makes the rows it commits rows; the default plan, the one
with the lowest number, exists because the natural numbers are well-founded.
`DeletionsSucceed` and `LimitsMovedByName` follow from the steps. For `NoHiddenFile`,
`FInv` adds what the property leaves out: a record is known by its
id, an upload's id is not that of any record or other request, a deletion unlinks the
file of the very record it drops, and a file on disk has a record that no deletion about
to commit names, or an upload about to record it. Without the last clause two deletions
of one path, each with its own record, could not be told from the case where the
last record goes and the file stays. The handlers that are not about files go through
`OtherStep`.

`AnalysisJobs_proofs`: `Stages` says what a job has on record by the place its thread
has reached, and that a job has settled only if its thread is finishing or gone;
`DoneBilledOnce` follows. For the overshoot, `Metered` adds that no call on record is of a
day to come and that a user's calls in flight are at most the `peak` that the bound
mentions. `OldestFirst` needs of a trim under way that what had finished before it began is
either unread or found, since a status never goes back; `TrimDropsOldest` says that
`OldestFound` takes the oldest of what was found. `RefinesJobBoard` maps
every step to a step of `JobBoard` or a stutter; the runs check the same, with `board`
read off the registry and the status.

`SourceCache_proofs`: `SInv` says where in a request a source is held (`Stages`), that
a lock's holder is the view reading under it (`Locked`), that nothing refers to a
source before it is built (`NotYetBuilt`), and that each source belongs to one key
(`OneKey`), the one it was cached under, which need not be that of the tenant's current mode.
From the last, `DayMovedByTrends`: whoever turns the day of a source under a lock has the
lock of that source. `CachedCurrent` adds `Fresh`: the cached source of the
current mode is current, late when built, or about to be dropped by the very handler that
made it old. The mode a change has left has no such promise, and needs none: to come back
to it is another change, whose handler drops that key.

`AnalysisClient_proofs`: `RunningIsPolled` is inductive only with `TimerAlive`: a timer
that is set names a loop that is alive. So `ensurePoll` may look at the timer alone: it
never takes a dead one for a poll. `CInv` adds that live loops poll for a user who was
signed in and that nothing is stored for nobody (`NothingOfAnon`). `TypeCorrect` is proved
with it; no run lists it, since `RunningIsPolled` is the sharper question.

`Reports_proofs`:

- `CardsAgree` needs no invariant. Every check is a lemma about its operator, for
  any source whatever: `ResultAgrees` says that a card agrees with its rows when the
  clauses of its detail and its red rows come together, and each check has to show just
  that (for `service_status`, that a breach always has a clause: `ServiceExplained`).
- `LagBounded` needs `AskedComplete` and `CacheComplete`: an answer, on its way or in the
  cache, has all its query asks for that was measured before it was asked for. A fresh one
  came at most `CacheTtl` ago, and its entry remembers how long before that it was asked.
- `EarlierDaysStay` compares two sources that tell the same of everything up to a day
  (`SameUpTo`), before and after a step, and shows check by check that the cards of that
  day are equal: what a step records is of the present, and a live source's answer is the
  one in its cache or is given anew.
- `WorseStaysRed` compares a source with one that tells no better (`NoBetter`), check
  by check: `service_status` keeps its card because no signal it prefers gets better.
- `FloorRespected` holds for any number of findings: `InOrderLists` shows that sorting
  by counting what comes before lists every finding once, in order, and then the first card is
  of the highest severity, each being at its own floor or above.

The order of findings is stated by the relation it sorts by (`MoreUrgent`, `InOrder`) and
not by the sorting of the community modules, whose result could only be reasoned about by
induction. Conditions of a `CASE` are written so that they exclude each other, since
TLA+ leaves the choice open where they overlap, and TLC takes the first.

Not provable with these tools, and checked by TLC alone: liveness under fairness
(`LoadedJobSettles`, `CallSettles`, `PolledEntrySettles`), and the two violations below.

## Findings

Two runs must find a violation; their entries are in `PROJECT.json`.

- `session_revived`: a logout can be undone by the answer to an earlier refresh.
- `live_report`: no live cluster gets a report. The disk check and the network check
  call the SSH methods of the API source, which raise without SSH settings, and
  `tenant_to_config` never sets any.

What else the models contain and no property denies:

- An administrator can enable a dormant account: `set_user_active` asks for no status and
  `login` looks at the status only of an inactive row (`admin.py:41`, `auth.py:87`). It
  then signs in and goes on being dormant, while `models.py:58` says "permanently shut
  down" and `auth.py:56` tells its owner so.
- An approval that loaded the row before the user asked for recovery leaves that request
  on record, as the UPDATE omits a column that was null (`user_admin.py:369`), while
  `models.py:83` says that it clears all timestamps. The next acceptance of a deletion
  then finds a recovery already requested.
- A tab hydrates what another has just saved and polls it; the storage event of that save
  comes while the first answer is awaited, and `ensurePoll`, which looks for a timer, starts
  a second loop (`analysis.jsx:105`, against 103).
- An acceptance of a deletion that loaded the row before the user's cancellation
  committed deletes the account (`user_admin.py:325`; `AccountRequests`). Two
  administrators can disable each other, which leaves none (`admin.py:39`).
- A fault outside `_run`'s inner `try`, or a thread that cannot start, leaves a job
  running for ever; running jobs are never trimmed (`jobs.py:64-67, 99`).
- The disk trend of an analysis moves the day of a source that a report is reading
  (`analyzer.py:43`), against `bridge.py:88-89`.
- A request that loaded the tenant before a change can cache a source of the old
  settings after the invalidation (`bridge.py:106`).
- An upload of `services.json` is always refused: validation asks for the services of
  a cluster with no name (`uploads.py:91`).
- A growth limit is compared over the whole history a source returns, not over its
  window (`hdfs_health.py:77-84`, against 10-12 there).
- `send_credentials` may mail a password that a reset has replaced since it was
  verified (`user_admin.py:202`).
- A `delete_plan` that overlaps an assignment takes the plan from the user again, or
  fails on the foreign key (`plans_admin.py:71`). A user without a plan and an
  override has a limit of 0, which is unlimited.
- Overlapping edits of thresholds: the second puts back what the first changed,
  fields its user may not see included (`monitoring.py:163-170`).
- A crash or an overlap can leave a record whose file is gone (`tenant_admin.py:227`).
- A poll answered late, about an older job of the same key, ends the entry of the newer
  one and shows the older one's result (`analysis.jsx:92`).
- A page reloaded while a start's POST is in flight, and hydrated within ten seconds,
  shows "running" and nothing ends it (`analysis.jsx:16` against 150-153): its entry
  has no job, so that nothing polls. This is why both properties of `AnalysisClient`
  speak of entries with a job.
- A poll answered after sign-out saves the tab's entries, by then another user's or
  nobody's, under the user it was started for (`analysis.jsx:41-47, 92`).
- The trim of the registry may drop a newer answer and keep an older one that settled while
  the statuses were read (`jobs.py:98-101`).

## Not modelled

HTTP and SSH to clusters, the protocols of the model providers and the agents' tools,
prompts and knowledge base are I/O and text. The breach history is appended to and
never read. Configuration files are read once. Migrations are one-off. Of the parsers
the arithmetic is modelled and the JSON is not; of the disk projection nothing, being a
text for a model. The pages of the frontend other than the analysis store keep no
state of their own that another component reads.

## Plan

Models, runs and proofs of safety are complete for the components listed as modelled. What
is left, in this order:

1. Further theorems: that `AccountRequests` with one thread, and a clock that waits for
   its commit, implements `AccountLifecycle`; that in `AnalysisClient` what another user
   has stored changes only in the way the code allows.
2. The hazards without a property: a source invalidated between `Look` and `Take`, which
   answers an error and changes nothing, and a poll between the assignments of `_finish`.
3. The breach history (`ai/breach_history.py`), whose one lock and append are
   sequential today.
