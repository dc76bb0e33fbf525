# OCIBot in TLA+

OCIBot is a panel for Oracle Cloud tenants: a FastAPI application
(`web/backend`), a worker process that retries launches until Oracle has
capacity (`web/backend/worker.py`), a SQLite or PostgreSQL database between
them, a wrapper of Oracle's SDK, and the files and scheduler of a desktop edition
(`app/`). This directory holds models of the parts where several processes,
threads, requests or containers share state, or where one must survive a crash or
a failure half-way; the TLC configurations that check them; and proofs, for every
value of the constants, of what matters most in the retry engine, the launch lock, the
update, sign-in, terminals and their host keys, tenants, backups, the firewall, tags and
addresses of instances, the allowance, launch metadata, and the scheduler and files of
the desktop edition.

    tlasany M.tla                          parse
    tlc -config Stop.cfg MCCapacityRetry   check one run (module and cfg: see "Runs")
    tlapm AccessProofs.tla                 check the proofs of one module

## The system

### Components

| component | state it keeps | hard behaviour | what makes it correct | module |
|---|---|---|---|---|
| capacity worker (`worker.py`) | leases in `capacity_jobs`, `_busy_tenants`, the objects of one pass | the row is written by users while an attempt is under way; the process dies between any two steps; commits fail | a stop is final; attempts, machines and the launch rate are bounded; every job ends | `CapacityRetry` |
| jobs API (`routers/jobs.py`) | none of its own | the commit writes over what happened since the read | one active job per tenant | `CapacityRetry` |
| launch route (`routers/instances.py`) | none of its own | competes with the worker for one allowance | the free allowance is never exceeded | `CapacityRetry`, `FreeQuota` |
| tenant launch lock (`quota_guard.py`) | `_HELD`, `_PROCESS_LOCKS`, advisory locks or lock files, pooled connections | three layers, two databases, timeouts, deaths, a pool the callers also use | mutual exclusion; nothing leaks; everybody is answered | `TenantLaunchLock` |
| quota guard (`quota_guard.py`, `app/free_quota.py`) | usage snapshots | incomplete reads, tiers, secondary regions, batches | what it admits is free; its three users agree | `FreeQuota` |
| self-update (`self_update.py`) | one JSON row, `_lock`, `_worker`, two containers | the update replaces the process that waits for it; every API process has its own `_lock` | one update at a time; a row that tells the truth | `SelfUpdate` |
| sign-in and sessions (`routers/auth.py`, `admin.py`, `lock_screen.py`), API keys | accounts, versions, the lock screen | a row read before a hash is written after it | a session is earned, and a revoked one stays so | `Accounts` |
| rate limits (`rate_limit.py`) | sliding windows | buckets are dropped while they count | no more than allowed in any window | `RateLimit` |
| ip ban (`ip_ban.py`) | rows, a copy per process, pins | refreshes against bans and unbans of several processes | a ban is not lost by a refresh; copies agree in the end | `IpBan` |
| audit trail (`audit.py`) | a table | rows are written during a prune | history goes last | `AuditTrail` |
| request bodies (`body_limit.py`) | counters of one request | the ceiling is passed in the middle of an answer | one answer, and it says so | `BodyLimit` |
| launch configuration cache (`launch_service.py`) | a copy per process, one they share, a row | polls and clicks reach different processes; threads die | a load is shown as what it is | `LaunchMeta` |
| public IP rotation (`ip_rotation.py`) | a job row, threads | a plan made before the job exists; Oracle acts after it has answered | each address is replaced once, under its name | `IpRotation` |
| address sync (`app/ip_sync.py`, attach and publish in `oci_client.py`) | metadata, a card, a record, a file lock | etags, reboots, runs that are killed | what is configured by hand stays; the card follows the list | `IpSync` |
| instance firewall (`oci_client.py`) | lists and groups at Oracle | whole lists are written back; lists are shared by subnets | nobody is shut out unasked; the verdict is true | `Firewall` |
| instance operations (`routers/instance_ops.py`) | tags, captures at Oracle | tags are written whole, without an etag | a protection holds; a capture is read when finished | `InstanceOps` |
| notifications (`notify.py`) | channels | limits on waits against limits on sends | the sender returns; "sent" is true | `Notify` |
| web SSH (`routers/webssh.py`) | slots, sessions | a slot is taken across awaits; shells stall | no slot leaks; sessions end | `WebSsh` |
| host keys (`ssh_hostkey.py`) | a row per instance and port | two first connections; the host changes in between | one key between two resets | `HostKey` |
| tenants (`routers/tenants.py`, `oci_bridge.py`) | rows, copies of credentials, kept sessions | a request waits for Oracle between read and write | rows of an account agree | `Tenants` |
| backup (`routers/backup.py`) | none | rows fail one by one; ids are issued anew | what is counted is there, with its links | `Restore` |
| desktop scheduler (`app/scheduler.py`) | `JobStore`, `BackgroundRunner` | busy sets changed from threads, restarts | one thing at a time; cool-downs last | `DesktopRunner` |
| desktop store (`app/config_store.py`) | one file | unreadable entries, repeated ids, crashes | what is saved comes back | `DesktopStore` |
| data migration (`app/runtime_paths.py`) | two directories | two starts at once, deaths | all or nothing | `DataMigration` |

The application shell, the web frontend and the installers keep little state of
their own; `PROJECT.json` lists each component with what is left out of it.

### How they interact

    browser ----> jobs API ----> capacity_jobs <---- worker (1..n processes)
       |                                               |
       +--> launch route ---> tenant launch lock <-----+
                                    |
                              usage snapshot, verdict, LaunchInstance (Oracle)

    administrator --> admin API --> status row <-- update thread
                         ^              ^                |
                         |              |           helper container
                         +---- API processes <-- replaces --+

The worker and the API share nothing but the database, the launch lock and
Oracle; several API processes share the database only, and each has its own
copies (bans, launch metadata, sessions with Oracle), threads (rotations,
refreshes, updates) and limits. A request or an attempt reads a row or asks
Oracle, works for seconds or minutes, and writes: what may happen in between is
what the models are about.

## Modules

| module | models | abstract counterpart |
|---|---|---|
| `CapacityRetry` | worker passes, jobs API, browser launches, the lock as one holder per tenant, Oracle's answer to a token | `LaunchMutex`, for callers between snapshot and answer |
| `TenantLaunchLock` | the layers of `tenant_launch_lock` and the connection pool | `LaunchMutex`, for the threads of all processes or of each |
| `LaunchMutex` | a mutex over resources: enter if nobody is inside, leave | |
| `SelfUpdate` | requests, update threads, status row, the two containers, deaths | `LaunchMutex`, for updates of one stack |
| the other modules of the table above | one component each | |
| `MC*` | instances for TLC | |
| `*Proofs` | theorems about one component, or about the parts of one sum (see "Proofs") | |

`LaunchMutex` is what composes the first ones. `CapacityRetry` uses the lock as
one holder per tenant, and shows that worker and browser, so locked, exclude each
other around the whole check-then-launch; `TenantLaunchLock` shows that the real
layers provide such a holder; `FreeQuota` takes a lock of one holder too and has
the verdict in full, with the routes that resize machines and grow volumes
without it. A worker that goes on without a lock after an error other than a
refusal (`_acquire_launch_lock`) is the fault `nolock` of `CapacityRetry`; the
degraded modes of the lock are faults of `TenantLaunchLock`. A terminal of
`WebSsh` asks `HostKey` for its host; a handshake asks `RateLimit`. These share
no state, so the modules are checked one by one.

Conventions of all modules: an action is one database transaction, one call of
Oracle, one request between two awaits, or one step in memory between them; a
request that has read a row carries the copy; a constant `Faults` names which of
the failures that the code handles happen in a run, with `MaxFaults` or the like
as their bound; `None` (or `"no one"`) is nobody. Texts, logs, redaction and the
shapes of answers are left out except where a property is about them. What is
outside the repository (Oracle, docker, the SSH library, the desktop window) is
marked external and does whatever the code is prepared for.

### CapacityRetry

`wk[w].pc` follows a pass: `scan` and `claim` are the loop of `tick_capacity`;
`prep`, `lock`, `quota`, `launch`, `judge`, `commit` are `_run_capacity_once`;
`notify` is the commit before a notification; `recover` is
`_release_job_after_crash`. The fields of `wk[w]` are what the in-memory `job`
held when the attempt began: the code writes them back later, whatever the row
says by then, and so do the actions. `said` is the answer being judged.

- The error path flushes the row before its attempt log, so judging and writing
  are one step there; the success path reads the row anew in a session of its
  own and commits later, so they are two (`JudgeSuccess`, `CommitSuccess`).
- A timestamp column is the time left until it, floored at `-Horizon`, which
  stands for NULL too: every reader treats NULL as past. A worker that took
  `now` some ticks ago compares with that lag (`tickLag`, `tryLag`).
- A request of the jobs API keeps the row it read; SQLAlchemy then writes the
  columns whose value differs from that copy (`Column`).
- The order and the limit of 20 of the candidate query are left to choice: any
  due candidate may be next.
- The batch plan over availability domains, notifications that fail after their
  commit and the text of messages are left out.
- `calls`, `sinceCall` and `stopCalls` are observers.

### TenantLaunchLock

`pc[t]` follows one caller: `ask` waits for the process lock, `connect` takes
the dedicated connection or opens the file, `try` polls, `in` is the body,
`leave` and `unlock` undo the layers, `answer` closes the caller's Session.
The Session holds a connection of the same pool throughout, as in
`launch_instance`. `db` says which database is installed; both are explored.
`SlotOf` maps tenant ids to advisory keys or files, colliding ones included. The
dictionary of process locks is got or filled under a guard of its own, so this
is one step. The lock of a killed process is freed at once.

### SelfUpdate

`row` is the JSON under `KEY_UPDATE_STATUS`; `req[r].st` is the copy a request
holds. `job[n]` is the thread `_apply_job`; `box` is what `docker inspect`
says of the helper and of the recovery container; `code` is the commit checked
out, `build` the one that runs. `Recreate` is compose replacing the API: every
process, thread and lock in it is gone. `age` is the age of `started_at`
against the 20 minutes of `start_update` and the 45 of `get_status`.

- `save()` reads and writes in one step; so do the two inspects of
  `_assert_no_live_helper`. `get_status` looks for the thread under `_lock` and
  inspects after letting it go: two steps (`Follow`, `Judge`).
- Neither limit passes in the middle of a request, nor at the commands before
  the helper is detached. A request does not spend the minute of `docker run` on
  its way to the mark.
- A helper that exits with 0 has made the API run the checkout.

### Access: Accounts, RateLimit, IpBan, AuditTrail, WebSsh, HostKey

- `Accounts`: `req[r].me` is the row as it was read when the request was let in;
  a flush writes the columns that differ from it (`Flush`). A token carries the
  version and, as observers, the password and the factor it cost. `Overlaps`
  names the operations that may overlap others in a run. `Locked` says whether
  the database has advisory locks (PostgreSQL) or not.
- `RateLimit`: the clock is read before the lock is taken; here both are one
  step, so that a hit is never older than one counted before it.
- `IpBan`: a key is an address or a /64; a rule set is the keys it hits. Pins
  last ten minutes, which no commit takes. `told` and `undone` are observers: an
  unban that comes while a process is banning the same key has the last word, also
  over that ban and over any other of the key that overlaps with it there (`Banning`).
  `Barring` says what each request may do and in which process (`SomeBans`).
- `AuditTrail`: rows have different times; writers go on during a prune. A row is
  noise (one of the two actions that are trimmed first), of a stranger but not
  among these, or history.
- `WebSsh`: the sessions are coroutines of one process. `MayStall` lets a shell
  stop reading; `Reads` says that it reads again some time.
- `HostKey`: rows that lack a key type, from an earlier version, and other ports
  are left out.

### Estate: Tenants, Restore, DesktopStore, DesktopRunner, DataMigration

- `Tenants`: the facts (tier, upgrade, home region) are the account they are of.
  `Alone` names operations that run while no other does, an assumption of the
  run; `EditsChildren` lets secondary rows be edited.
- `Restore`: a body stands for credentials and texts. What the import puts where
  an archive lacks a field is taken from the code: `free_only_mode` on, and 120
  days for a password expiry of 0.
- `Restore` again: the import looks whether the row an item names was restored
  (`backup.py:485`), not whether that one is a primary row, as the panel has it
  (`tenants.py:386`: never off each other). An archive of another make may hang a row off
  a secondary one; a deletion takes direct children only, and leaves it unlinked.
  `LinksStay` says what is left (`Chained`); TLC showed this while the proof was made.
- `DesktopStore`: a seal is the number of the secret a key was encrypted with. A
  save that fails keeps what is in memory, which the next save writes. An entry
  without an id gets one in `from_dict`, before `load` looks for ids that are taken,
  so it is not repaired but has a new one after every start, until something is saved.
- `DesktopRunner`: the window and both callbacks are external. Time is relative:
  what is left of a cool-down, how long since a call, whether a day has fired.
- `DataMigration`: a directory is the set of its files; symbolic links, which
  end the program, are a refusal like damaged files.

### Cloud: FreeQuota, Firewall, InstanceOps, LaunchMeta, IpRotation, IpSync, Notify

- `FreeQuota`: amounts are scaled: a tenant has two units of A1 free and four when
  paid, one size stands for CPUs and memory, four default boot volumes fit.
  Usage is four reads, each of which may be lost, as may that of the home region.
- `Firewall`: one address family; a rule is its content; a read of one list is one
  step, of several lists several; an etag is `fresh`, whether a list is as it was
  read. `Lossy` lets reads fail, `Apart` keeps requests for one instance apart.
- `InstanceOps`: tags are replaced whole. `Apart` again; `Answers` says whether
  the answer to a write may be lost.
- `LaunchMeta`: documents are numbered in the order in which they were finished.
- `IpRotation`: Oracle deletes and binds after it has answered (`Settle`); somebody
  else may take an address that is free (`"take"`) or move one that is bound
  (`"move"`). `Checked` says which asker has its selection compared with the page's;
  `agreed` remembers what that one was shown. A round that binds `Many` addresses
  anew gives no sign for longer than `STALE_SEC` and may be taken for dead (`Silent`).
- `IpSync`: `priv` and `meta` are Oracle's, `imds` is what the guest sees of the
  metadata, `card`, `hand` and `record` are the guest's. `"kill"` is the death of
  a run between two steps; `Room` the addresses a card may have.
- `Notify`: a limit bounds the wait for the next piece of an answer, which may come
  in several (`Drip`); texts are verdicts (`Says`).

## Runs

A run of several components is a sum: `part` is chosen at first and never changes,
the variables of other parts are not touched, and a property of the sum says of
each part what its module states under the name in brackets. Since a behaviour
keeps its part, the behaviours of the sum are those of the parts, each with its own
constants, and a violation in one of them is a violation of the sum. `MCEnds` asks
for liveness in this way too: the n-th weakly fair action of the sum is the n-th
weakly fair action of the part the behaviour is of.

| run | module | distinct states | question |
|---|---|---|---|
| `Stop` | `MCCapacityRetry` | 1,452,671 | does a stop hold and are attempts bounded (`JobKept`), do 429 pauses last, through every fault, with the user stopping, resuming and deleting and a browser in the lock? |
| `LaunchesApart` | `MCLaunches` | 1,277,052 | do a worker, one that takes over its lease, and a browser exclude each other around a launch and keep the allowance; does a row with two workers tell the truth (`RowsTrue`); where the user does not resume, are calls of a job a minimum interval apart through every fault (`LaunchFloor`)? |
| `JobsEnd` | `MCCapacityRetry` | 276,609 | does every enabled job end although the worker dies with the lease; do requests that do not overlap leave one active job? |
| `LockMutex` | `MCTenantLaunchLock` | 69,512 | do the layers implement the mutex on both databases, leak nothing and answer everybody? |
| `LockDegraded` | `MCTenantLaunchLock` | 150,336 | what is left of the lock without files, or when the connection drops? |
| `Update` | `MCUpdate` | 1,584,563 | do updates in one process exclude each other and leave a live helper alone (`OneUpdate`); are threads, helpers and outcomes what the row says, with two processes, faults and deaths (`StatusTrue`)? |
| `Access` | `MCAccess` | 1,297,832 | has whoever is let in earned it (`SignedInRightly`), does a revoked session stay so (`RevokedStays`), do terminals' slots, host keys and bans keep out who is to be kept out (`GuardsHold`), do limits and the trail count right (`LimitsHold`), is there one key per host (`OneKeyPerPin`)? |
| `Estate` | `MCEstate` | 770,424 | do rows of an account agree (`RowsBelong`), does a restore come back whole (`RestoredWell`), does the desktop's file keep what was saved (`FileSticks`) and lose nothing silently (`NothingGoesSilently`), does its scheduler do one thing at a time (`OneAtATime`) and cool down (`CooldownLasts`)? |
| `Cloud` | `MCCloud` | 875,957 | does what is free stay free (`WithinFree`) and do all guards agree (`VerdictsAgree`); does a write remove what was asked for only (`NothingElseGoes`) and shut nobody out (`NobodyIsHit`); are verdicts, addresses, loads and notices what they are said to be (`TruthIsTold`, `AddressesHold`, `MetadataRight`, `NoticesAreTrue`)? |
| `Ends` | `MCEnds` | 113,788 | under fairness: do requests, terminals, rotations and captures end (`RequestsEnd`), does nobody wait for ever behind something dead (`NobodyWaits`), do copies agree in the end (`CopiesAgree`), and is nothing taken for whole that is not (`NothingHalf`)? |
| `DeleteWedgesTenant` | `MCCapacityRetry` | | a disagreement: a delete in the middle of an attempt stops a tenant for good |
| `CheckForgesSuccess` | `MCSelfUpdate` | | a disagreement: a check brings back the last helper's name |

What each property says is above its definition, in the `MC` module for sums and in
the component's module for the formulas they are made of. Every property has a
mutant, a definition of the model that differs as a plausible bug would; with it
in place TLC finds the property violated. The type invariants of all parts are
conjuncts of one invariant of each sum (`TypesHold`).

The two disagreements in short. (1) When a user deletes a job whose attempt then
fails, the flush of the attempt log matches no row, the session has to be rolled
back, and reading `job.id` or `job.tenant_id` in the handlers raises: the pass is
over and `_busy_tenants` keeps the tenant, so its later jobs are skipped until
the worker is restarted. (2) `check_for_update` reads the row, asks GitHub, and
writes all of the row. If an update starts in between, the write brings back
`helper_container` of the run before; should the process of the new update die
before it names its own helper, `get_status` settles it by the old exit code.

### Bounds, and why they are enough

*Retry engine.* Jobs 1 or 2, tenants 1, workers 1 or 2, browsers 0 or 1, requests
of the jobs API 0 or 1: every race in the code is between two writers of one row
or two callers of one lock, and tenants share nothing. `MaxAttempts` 1 or 2 and
`Target` 1 or 2: a first and a last attempt and a machine that is not the last one.
`MinInterval`, `Interval` 1 or 2, `BaseBackoff` 2 with `MaxBackoff` 3, so that the
cap bites at the second 429; `Jitter` 0 or 1. `Lease` outlasts a pass (`Horizon`),
as ten minutes outlast the timeouts of an attempt, except in the part "apart" of
`LaunchesApart`, where it does not. `MaxFailures` 1 or 2 deaths or failed commits;
the other faults are unbounded. `MaxUsed` and `MaxBatch` bound browser
launches, `FreeSlots` is 1 or 2.

*Lock.* Threads 3 in 2 processes, so one process has two; tenants 2 on one or two
slots; `PoolSize` 3 or 4, small enough to be exhausted; `MaxDepth` 1.

*Update.* `MaxRuns` 2 updates (1 in `Ends`), `MaxCrashes` 1 besides the deaths by
`Recreate`, one or two administrators, one or two processes.

*Access.* Two accounts, two passwords, one or two secrets, `MaxKeys` 1 key, and 4 to 6
requests (`MaxOneByOne`, `MaxSecondFactor`, `MaxElected`): an order of operations in
which a session is revived or a factor missed has four. `Window` 2 in a `Horizon` of 5,
`Large` 3 buckets. Three rows of the trail (`MaxRows`), `Retention` 6 in a `Horizon` of
8, so that both age and number delete. One slot of each kind (`MaxPerUser`,
`MaxPerInstance`) for two sessions. Two connections of `MaxTries` 2, two key types,
`MaxGen` 2 keys of each and `MaxForgets` 1 reset. Two keys to ban, three requests of
`MaxOps` 2, `MaxFaults` 1.

*Estate.* Three rows of tenants of two accounts with two keys, two requests at once and
3 of them in a run (`MaxBegun`): a primary row, a secondary one and one more operation
that overlaps with the second; the theorem `RowsStayTogether` covers longer runs. Up to
three items in an archive and four ids, so that links cross, dangle or form a chain. Two
or three entries in a file, and four ids, so that an id may be made up by three starts.
Two jobs of a tenant or one job and one schedule over `Day` 2 hours, `MaxAttempts` 2,
`Interval` 1, `Backoff` 1 or 2.

*Cloud.* `MaxBegun` 2 requests, three machines, `MaxDisk` 6 where four units are
free. Two instances in two subnets that share a list, three groups, two requests,
`MaxEdits` 1 from outside, `Limit` 3 or 5 rules. Three requests on tags. Two
addresses with all room taken, or one and three threads; `MaxPub` 4, `MaxAsks` 1 to
3, `MaxFaults` 1 or 2. Two addresses and two runs of the script, `MaxFaults` 1 to
3; `MaxReqs` 2. Two pages over two processes, `TTL` 1 or 2, `MaxEntries` 1,
`MaxClicks` 2 or 3. Two channels; `MaxSends` 1 without time, or the times of the
code in units of twenty seconds, every limit rounded up, where the longest send is
`Longest` 7 (TLC refutes 6) and `MaxDrips` is 1. `Many` is 4 of the two addresses a
part has (as in the code, where three rebinds fit into `STALE_SEC`), or 1 where
rotations overlap, so that one rebind is a long round.

*Ends.* The same modules with one item of each kind that has to end, or two of which
one could starve the other; `MaxBody` 6 against a ceiling of `MaxBytes` 3; `Polls` 2
looks at a capture; `MaxCrashes` and `MaxFaults` 1 or 2. Liveness is asked of item 1
only: items are alike, and where they are not (the runner's jobs) 1 is the one that
is looked at last.

`Update`, `Access`, `Estate` and `Cloud` use symmetry over requests, ids or
connections that are alike; no liveness is checked there. Runs of sums, and
`LockDegraded`, have their deadlock check off: requests, clicks and deaths are
bounded, and after them a system may stop.

### Fairness

- `CapacityRetry`: the worker's steps are weakly fair, the loop never stops.
  Finding the lock free and reading usage are strongly fair: both are tried again
  in each pass and the holders' calls time out. Time passes whatever requests
  come (strong fairness of `Tick`, which waits for requests under way). Users,
  faults and Oracle's answers owe nothing.
- `TenantLaunchLock`: threads run and deadlines pass. The wait for a pooled
  connection ends by `pool_timeout`, which is an action of the caller.
- `SelfUpdate`: threads run, commands have timeouts, containers end, time passes.
  The page polls while the row says "running" (`startUpdatePoll`), which is what
  lets the row be settled after the API has been replaced.
- `BodyLimit`, `WebSsh`, `LaunchMeta`, `IpRotation`, `InstanceOps`: a request or thread
  that has begun goes on; the watchdog of a terminal runs; Oracle settles what it has
  begun; a rotation's deadline passes. A request whose client stops in the middle of its
  body is owed no answer: nothing in `body_limit.py` or in the server times it out, so
  only one whose body is all there, or too large, is (`Unstalled`). A shell reads again
  after a while, without which a session does not end (see below). The page polls until
  it gives up.
- `IpBan`: visitors come (to every process that is asked about), copies age, and a
  request that waits for the refresh lock of its process gets it (strong).
- `IpSync`: the timer runs every minute, the file lock is got by whoever waits for it
  (strong), Oracle's metadata reach the guest.
- `DesktopRunner`, `DataMigration`: threads run and the window ticks; a start that was
  begun goes on unless it dies.

## Proofs

Each theorem holds for all values of the constants under the named assumptions of the
modules, which TLC evaluates in the runs, and under the hypotheses in the third column.
Those about a sum hold for each of its parts, whose sets and bounds are constants of the
sum's `MC` module; what a part fixes there (which operations may overlap, which faults
happen) it fixes in the theorem too.

| theorem | statement | under |
|---|---|---|
| **`CapacityRetryProofs`** | | |
| `TypesHold` | `Spec => []TypeOK` | |
| `FreeCapHolds` | a free tenant has no more machines than its allowance | `LockWorks` |
| `StopHolds` | a stop lets at most the call already under way go out | `OneWorker`, `RequestsApart` |
| `AttemptsHold` | no more calls than the limit of attempts, but for lost outcomes | `OneWorker` |
| `JobsKept` | both: `JobKept` of the run `Stop` | `OneWorker`, `RequestsApart` |
| `CooldownKept` | no call during the pause after a 429 | `OneWorker` |
| `CallsKeptApart` | calls of a job are a minimum interval apart | `OneWorker`, `NoResume`, `LeaseOutlasts`, `BackoffLong` |
| `ActivesApart` | one active job per tenant | `OneWorker`, `OneClient`, none at first |
| `ClaimsExclude` | two workers never attempt one job at once | `NoResume`, `PassWithinLease` |
| `TargetHolds` | no more machines than asked for | the same and `Calm` |
| `LaunchesApart`, `LaunchesExcluded` | worker and browser implement the abstract mutex around snapshot and launch | `LockWorks` |
| **`TenantLaunchLockProofs`** | | |
| `LockTypesHold` | `Spec => []TypeOK` | |
| `HeldIsOwnedHolds` | thread-local entries and process locks agree | |
| `PoolBalancedHolds` | the pool counts Sessions and advisory locks, no more | |
| `MutexImplemented` | `Spec => Mutex!Spec`: the layers implement the mutex | `Sound` |
| `ProcessMutexImplemented` | and within one process whatever fails | |
| **`SelfUpdateProofs`** | | |
| `UpdateTypes`, `WorkersKnown` | types; a thread is known to its process until its outcome is saved | |
| `UpdatesApart` | `Spec => Mutex!Spec`: one update at a time | `OneProcess` |
| `HelperLeftAlone` | no update touches the checkout or the container of a live helper | `OneProcess`, `DockerAnswers` |
| `OneUpdateAtATime` | both, in the run `Update` | the same |
| `FinishedIsTrue` | "finished" is said when the API runs what was applied; a live helper shows in the row | and `OneRequest` |
| **`AccessProofs`** | | |
| `WhoIsSignedIn` | `SignedInRightly`: sessions and keys are earned, an unlock is spent once, an administrator can be reached, one first administrator | |
| `RevocationLasts` | `RevokedStays` | |
| `GuardsAreUp` | `GuardsHold`: slots of terminals, limits, owners; alarms about host keys are real; a process that has said "banned" refuses the address until somebody unbans it | |
| `LimitsAreKept` | `LimitsHold`: attempts in any window, the time a refusal names is enough; the trail forgets noise first, the oldest first, and is cut to its size; types | |
| `OneKey`, `TypeCorrect` | one key between two resets; types of `HostKey` | |
| **`EstateProofs`** | | |
| `RowsStayTogether` | `RowsBelong`: rows of an account agree, sessions are of rows there are | |
| `RestoresAreSound` | `RestoredWell`: what is counted is there, with its links and guards | |
| `NothingUnseen` | `NothingGoesSilently`: of tenants, archives and files | |
| `LaunchesOneAtATime` | `OneAtATime` | |
| `CooldownsLast` | `CooldownLasts` | |
| **`EndsProofs`** | | |
| `NothingIsHalf` | `NothingHalf`: a migration is all or nothing; no answer of the application begins once the body is over the ceiling, and one answer begins at all; captures | |
| **`CloudProofs`** | | |
| `MetadataIsRight` | `MetadataRight`: no load is shown as unfinished that runs or has ended; one refresh at a time | part "pages": only Oracle fails; part "page": one page |
| `VerdictsDoAgree` | `VerdictsAgree`: a usage read in part is judged more strictly; the three callers agree | |
| `TruthBeTold` | `TruthIsTold`: what a change of the firewall is said to have come to is so | one request |
| `RepairsHitNobody` | `NobodyIsHit`: no way in is lost unasked; a protection that was told of holds | one repair of an instance, one change of tags at a time |
| **`AddressProofs`** (extends `CloudProofs`) | | |
| `OthersStay` | `NothingElseGoes`: of lists, tags, metadata, the card, public addresses (none is taken away but one that the user was shown); nothing billed | part "tags": one change at a time |
| `AddressesDoHold` | `AddressesHold`: one for one, the report, the name, the record, no group left | parts "rotation", "rotations die": one asker, `Steady`; "record": no fault `kill`; "repairs" as above |

### Hypotheses, and why the code justifies them

- `LockWorks`: neither `nolock` nor `db` is among the faults. With them the guard is
  skipped (see below). `Sound`: neither `drop` nor `nofile`, the degraded modes of the lock.
- `OneWorker`, `OneProcess`: one worker and one API process, as both compose files and the
  image deploy them (`docker-compose.yml:183`, `OCIBOT_API_WORKERS=1` in
  `web/Dockerfile`). With more, TLC refutes the properties (see below), except those that
  are proved without.
- `NoResume`, `RequestsApart`, `OneClient`: no resume of a job, or requests for jobs one
  at a time. They bound a user; with resumes that overlap the properties fail.
- `PassWithinLease` (`Horizon <= Lease`): no attempt lasts longer than its lease, as ten
  minutes outlast the timeouts of its calls. `LeaseOutlasts` adds the minimum interval,
  and `BackoffLong` says that no pause after a 429 is shorter than it.
- `Calm`: no death, lost answer or failed commit. A lost answer is a machine nobody
  counts, and TLC shows `TargetKept` violated then.
- `DockerAnswers`: neither `unknown` nor `late`: an inspect answers, and a container that
  was given up does not come up. `OneRequest` is one administrator at a time; the run
  `CheckForgesSuccess` is the counterexample without it.
- Of the parts: in `Rows` an edit or a deletion has the rows for itself, in `Facts` a
  subscription too, while in `Kept` everything overlaps; in `OneByOne` and `SecondFactor`
  requests come one after the other, in `Elected` registrations and the making of keys
  overlap; captures are under way one at a time. Each is a constant of the part, and the
  table below has what happens otherwise.
- Of the parts of `Cloud` the assumptions beside `PartsAssumption` name it.
  `QuotaParts`: requests are of the kinds the routes pass on, and sizes are natural
  numbers (`schemas.py:470`, scaled). `MetadataParts`: which faults a part has, and that
  one page is a single browser tab. `FirewallParts`: lists, cards and groups are made of
  the rules and groups of the part; repairs of one instance come one after the other, as
  in a panel that disables the button meanwhile (`InstanceDetailView.vue:346`; two tabs
  could), while repairs of different instances, which share lists, overlap; rules with a
  source port are left out where TLC has a counterexample with them. A verdict is about
  a firewall nobody changes meanwhile: what is said after another change is about a
  state that is gone. `RotationParts`: one asker where names and the report are looked
  at (a page that waits, or a script, not both), and a `Steady` rotation: fewer
  addresses than can make a round go stale, and nobody moves a bound one by hand
  meanwhile. Where names are looked at, all addresses of the instance are rotated
  together, because the row keeps the names of the last job only. `GuestParts`: no run
  of the script is killed where the record is looked at. The table below has the
  counterexamples.

### Along which argument

*Kinds of moves.* `CapacityRetry` and `SelfUpdate` have some forty actions each. Their
proofs first say once what each step does to the rows and to the records of the workers
(`WorkerMoves`, `ClientMoves`, `TimePasses`, put together by `StepMoves`; `RequestMoves`
of `SelfUpdateProofs`), and every invariant is then shown to survive the dozen kinds of
moves instead of all actions.

*The lock.* That at most one thread is inside is not inductive by itself. The
invariant says who owns what: a process lock is held by exactly the thread that
wants its tenant and is between taking and giving it (`Owned`), and, when
`Sound`, whoever is inside owns the slot of its tenant (`Crossed`). A step into
the body takes a free slot, so nobody wanting the same tenant is inside. A thread
walks in again only on an entry of its own, hence only from the inside
(`ReenterInside`). Every step then shows the abstract mutex an entry, a departure
or nothing. Colliding slots do no harm, since one slot per tenant is all that is used.

*The allowance.* `used + reserved <= FreeSlots` for each tenant, where the
reservation belongs to the holder of its lock once the verdict is past; the lock
makes the holder unique.

*A stop.* A stopped job is disabled and stays so, because nothing but a resume enables a
row, and a stop that finds it disabled leaves it so (`Disabling`). Once the call that was
under way has gone out no attempt of the job stands before its call (`StopHeeded`).
Attempts are counted with what the attempt under way may still add (`Budget`) and what was
answered and is not in the row yet (`Uncommitted`).

*Claims and calls.* Whoever is at work holds a lease that has not run out (`LeaseKept`),
so two are at one job never (`OneAtAJob`); only a stop or a resume takes a lease away.
Calls are apart because the time since the call and the time to the next attempt together
cover the interval (`PutOff`), or the lease does (`Covered`).

*The update.* A thread is the one its process knows (`Known`). A request that is about
to start one has seen, under the lock, that nothing runs; a live container has a thread
that waits for it, or nobody has got past the door of `start_update` (`Watched`). For
the truth of "finished" the invariant follows the copies of the row that may still be
written back: what each says fits the container and the build there are (`Fits`,
`FitsLive`).

*Accounts.* A version stands for one password, and for one second factor while it is on:
a token with the version of the row has the row's password and factor (`AsEarned`). Every
change of a row keeps the version and these, or raises the version (`Grown`), and what a
request under way has seen is so still where it matters (`Waits`). From `Grown` alone a
revoked session stays revoked.

*Terminals.* The counters are cardinalities: of the sessions past taking a slot and
before giving it back (`UserHolders`, `InstanceHolders`), which `OnItsWay` reads off the
step a session is at.

*The host key.* Two first connections both find no record; the insert of the second
is refused and it goes by what the first has written. What is on record is pinned in the
present epoch (`RecordPinned`), and an attempt that may connect holds the key pinned
in the epoch in which it was judged (`JudgedPinned`). An alarm is real because the key
that was refused is the one of the type on record, if the host offered any (`JudgedBy`).

*Bans.* What a process said it refuses is in its copy, and either its pin is young or
the row is in the database, where the refresh under way has read it or is going to
(`Sure`); so for every key a process was told of and for every one it is banning that
nobody has unbanned since (`Claimed`, `Barred`): its pin may go only when the row was
seen to be there (`Written`), and what was unbanned meanwhile it was not told of
(`Heard`). One refresh of a process is under way at a time (`OneRefresh`).

*Limits.* A bucket remembers the last hits it let through, and all of them that are still
within the window (`BucketFits`, `Counted`); the sweep of old buckets forgets only what
none of its hits counts in. Two hits that are a limit apart are then more than a window
apart, and a refusal names the time at which the oldest of a full bucket has left.

*The trail.* While noise is trimmed the table is too large by no more than is left to trim
and by what has come since the prune began; when it is not enough, no noise of before is
left (`TrailHolds`), so only then history goes. That a time exists at which exactly as many
rows are kept as are to be (`CutIs`) needs no induction: the time just before
the least that leaves fewer rows leaves one row more, and therefore as many as wanted.

*Tenants.* A secondary row hangs off a primary one with its account and key (`Grown` of
`EstateProofs`). A request that may overlap others knows of its row what cannot change
meanwhile (`Looks`, `Recalls`); one that edits or deletes has the table for itself
(`ByItself`), so what it is about to write or to delete is complete (`Rewrites`, `Dooms`).

*Restores.* What has been read, the two dictionaries and the count are functions of the
prefix of the archive (`ReadWell`, `Noted`, `Tallied`), and rows come and go in families
(`Kin`).

*The desktop.* The busy sets are exactly those of the threads (`Ticking`), what is on file
of a job is its object or an earlier state of it (`Behind`), and a thread past its check
has a job that nobody else tries or puts off (`Clear`). A file that was read whole is in
memory whole (`Held`).

*Migration and bodies.* Whoever has staged files has all of them (`Staged`), and the data
directory is empty or complete (`Whole`), so that a rename at any moment is sound; what a
client was sent follows from who began the answer (`AnswerBegun`).

*Launch metadata.* A refresh past its mark vouches for the page that waits: the state is in
the table and not expired, and it goes only when a fresh document is in the shared cache
(`Vouched`), so whoever polls finds the one or the other (`Answered`, `Waiting`). What
a process has and the others lack cannot be, because writes go to the shared copy
with the local one (`Warm`). One page waits for its refresh before it asks again
(`OneAtATime`).

*Lists and verdicts.* A list whose etag still matches is as it was read (`FreshRead`):
every write, by whomever, takes the list from everybody's fresh ones, so a write that is
accepted changes what was read. A verdict is formed from what was seen; with one request
that is what there is (`TellsRight`), and the theorem is then that the scan, given that,
concludes rightly (`SeenIsEffective`, `ScanSees`, `ToldAtEnd`) in each kind of change.

*Repairs.* Two repairs share lists, not instances. Whoever is at work has an
instance of its own (`Alone`); a group is on one card only, or about to be (`Cards`); from
when a repair has read the lists until it writes them, what can be moved is about to be on
the card or is there (`Carries`); and a tightening that was not forced has found for
everyone concerned a group that lets something in, which nobody takes away (`Spares`).
`NoOrphans` is `Cards` once nobody is at work.

*Tags.* Between its read and its write a change of tags is alone with the tags
(`TagsHold`), so what it merges into is what there is. A termination past its guard has seen
no protection, and none is set before it is sent.

*Public addresses.* An address at Oracle is tied to one private address, by its
binding, by an item of a thread or by a plan (`Ties`), and to no other (`Tied`, `Planning`).
What a thread of a page has still to delete is among what its user was shown (`Consents`).
From this: nothing else is deleted; the new address of an item exists only when
the old is gone (`Replaced`), since a deletion is never undone (`GoneStays`). With one
asker one thread is at work and the row is its own (`OneJob`), an item is at a phase its
thread has reached (`Phased`), and what is called changed stays bound (`DoneIsSo`). Every
name a plan, an item, the row or an address has is the instance's own (`NamesHold`), whether
a rotation has died in between or not. Each step is first put as a move of a few kinds
(`RotationMoves`), as above.

*Addresses in the guest.* A request that is about to write metadata has read what there
is if the etag has not changed (`PublishHold`). What is configured by hand is neither on
record nor among what a run manages (`HandsOff`). Outside the lock everything the script
has put on the card is on record; inside it, whoever has the lock knows of it
(`OnRecord`).

*What is billed.* A request that goes on for an account that wants only what is free,
outside its home region, has read that it may; a launch past its check has a free shape
(`Held`).

### What is only model-checked

Everything under fairness (`JobsEnd`, `Answered`, the properties of `Ends` but
`NothingHalf`), which the prover does not reach. `RowsTrue`, `LaunchFloor` and
`StatusTrue` in the parts with several workers or processes, where the arguments above do
not apply. `FileSticks` (names, order and ids of entries through the repairs of a file,
which need induction over its entries). Of `Cloud`, `WithinFree` (sums over sets of
machines, which need induction over data) and `NoticesAreTrue` (the oldest channels come
first by a sort, the budget is a sum of waits).

## What does not hold outside these bounds

While the models were built TLC also refuted the following; each is reproduced by
changing the named constants of an instance of the module that states the property.
They are why the runs above exclude what they exclude.

| property | with | what happens | what the repository says |
|---|---|---|---|
| `StoppedLooksStopped` | op `stop`, `HardCap = TRUE` | an attempt that is put off, because the lock is busy or usage cannot be read, writes `idle` over a stop (`worker.py:322`) | `worker.py:996`: must not turn 已停止 back into 等待中 |
| `StoppedLooksStopped` | fault `raise` | `_release_job_after_crash` writes `idle` over a stop (`worker.py:377`) | the same |
| `CallsApart` | ops `stop`, `resume` | a resume uses a `last_attempt_at` the attempt under way has not written (`jobs.py:320`) | `jobs.py:310`: 「继续」不能把间隔下限清零 |
| `CallsApart` | two workers | the claim does not look at `next_run_at`, so a stale scan is launched again (`worker.py:242`) | `worker.py:248`: the claim re-asserts the candidate conditions |
| `UncountedIsReplayed` | fault `crash`, `HardCap = TRUE` | the machine of a lost attempt uses up the quota, so the replay that would adopt it is refused (`worker.py:640`) | `worker.py:678`: the same attempt gets the same token |
| `SingleFlight` | two workers, ops `stop`, `resume` | a stop clears the lease of an attempt under way (`jobs.py:267`) | `worker.py:240`: single-flight, crash-safe |
| `OneActivePerTenant` | two clients, op `create` | both look before either inserts (`jobs.py:211`) | `jobs.py:208`: two concurrent creates do not both pass |
| `TargetKept` | op `resume` | a resume commits over a success it has not seen (`jobs.py:308`) | `jobs.py:284`: 任务已成功，请新建任务 |
| `TargetKept` | fault `lost` | a lost answer counts as a failure, and the next attempt has another token (`worker.py:1041`) | `worker.py:706`: until there are enough |
| `FreeCap` | fault `db`, `FreeSlots = 0` | a refusal whose commit fails is skipped (`worker.py:668`) | `worker.py:600`: hard block |
| `NoStandoff` | `PoolSize = 2` | callers with a Session wait for each other's second connection until `pool_timeout` | `quota_guard.py:398`: taken in one order, so no deadlock |
| `HelperShown` | constants of `Update` | a check writes `idle` over a live helper (`self_update.py:409`) | `tests/test_self_update_mutex.py:16` |
| `HelperShown` | faults `detach` and `late` | a start that timed out comes up after all (`self_update.py:730`) | the same |
| `SuccessIsTrue` | two requests, `Kinds = {"apply", "status"}`, `"unreported"` | a status poll that settles the last helper overlaps the mark of a new update | `self_update.py:1389` |
| `Mutex!Spec` of `SelfUpdate` | two processes, `"apply"`, `"check"` | a check in the other process writes over "running" without the row lock | `self_update.py:1353`: the DB row is the real mutex |
| the same | two processes, `"unreported"` | settling the last helper writes over the other's mark (`self_update.py:1339`) | the same |
| the same | two processes, `"absent"` | `FOR UPDATE` of no row locks nothing | the same |
| `HelperUndisturbed` | fault `unknown`, one process | a failed inspect counts as no helper (`self_update.py:1112`) | `self_update.py:1073`: a failed inspect must not be read as finished |
| `HelperEnds` | faults `detach`, `created` | a container that was created and cannot start refuses every later update | `self_update.py:52` |
| `UnbanSeen` | fault `lost`, an unban from the command line | a commit that was made and raised leaves the pin for ten minutes (`ip_ban.py:452`) | `ip_ban.py:594`: read after `REFRESH_SEC` at the latest |
| `ToldIsBlocked` without `undone` | a ban and an unban of one address in one process | the unban takes the address from the copy after the ban put it there; the ban says "banned" all the same (`ip_ban.py:374`, `:456`) | `ip_ban.py:441`: this process blocks it at least |
| the same | two bans of one address in one process, an unban elsewhere, fault `db` | the first lets go of the pin of the second, whose commit fails; the next refresh drops the address (`ip_ban.py:369`) | `ip_ban.py:456`: for about ten minutes |
| `ForcedIsNew` | `Forced = {TRUE}` | a forced load takes the document of before the click (`launch_service.py:378`) | `LaunchView.vue:921`: poll until it is ready |
| `CacheBounded` | two keys, two processes | what is promoted is inserted without evicting (`launch_service.py:365`) | `launch_service.py:567` |
| `OneRefresh` | two pages | two processes both find nothing running (`launch_service.py:397`) | `launch_service.py:389`: a second click joins |
| `OneRotation` | one asker, a round of many rebinds | the row is not saved during the round; after `STALE_SEC` the next request takes the job for dead (`ip_rotation.py:35`) | the same as below |
| `OneRotation`, `NameKept` | two askers at once | the job is saved after the plan; the second forgets the name the first knew (`ip_rotation.py:141`) | `open_api.py:10`: 同一台实例同时只跑一个 |
| `DeletesNoOthers` | fault `take` or `move` | an address that is bound elsewhere by now is deleted by its OCID (`oci_client.py:10772`) | `oci_client.py:10606`: 要删的必须是用户确认过的那个地址 |
| `DeletesNoNew` | two askers at once, one a script | the script plans to delete what the page's rotation has just made | `open_api.py:10` |
| `NotSnatched` | fault `take` | an address is bound elsewhere between the list and the call (`oci_client.py:10985`) | `oci_client.py:10968`: 也不能再把它抢回来 |
| `CardFollows` | fault `kill` | a run that dies before its record leaves addresses nobody removes (`ip_sync.py:221`) | `ip_sync.py:22` |
| `ListFollows` | two requests, `Apart = FALSE` | a refused write of the list is not made again (`oci_client.py:10383`) | the same docstring: 别和同时进行的其他修改互相覆盖 |
| `OneFirstAdmin` | `Locked = FALSE`, `register` overlaps | SQLite has no advisory lock (`auth.py:322`) | `admin.py:1`: first registered user is admin |
| `NamesApart` | `register` overlaps | the name is looked up before the lock (`auth.py:306`) | `auth.py:303`: "Admin" next to "admin" |
| `NoRevival` | `change` or `everywhere` overlap | the version written is the one read plus one; it may go down (`auth.py:531`), and keys of then hold again (`KeysEarned`) | `auth.py:510`: revoke every issued token |
| `SessionsEarned` | `login` overlaps `enable` | the token has the version of after the factor was switched on (`auth.py:468`) | `auth.py:591` |
| `VerifiedSecret` | `setup` overlaps `enable` | a secret nobody has confirmed is in force (`auth.py:557`) | `auth.py:551` |
| `SomeAdmin` | `patch` overlaps | two administrators demote each other (`admin.py:93`) | |
| `StrangersFirst` | all kinds of rows | two more actions of people who are not signed in count as history (`audit.py:42`) | `audit.py:32`, `:129` |
| `ToldIsClosed` | `Reads = FALSE` | the loop waits in `drain()` of a shell that never reads (`webssh.py:553`) | `webssh.py:532`: 终端已断开 |
| `NoFalseAlarm` | a reset in between | the type on record is of before the reset (`ssh_hostkey.py:308`) | `webssh.py:310` |
| `FanOutInTime` | `MaxDrips` > 0 | a timeout of a socket bounds the wait for one piece of an answer, and nothing looks at the time before the body (`notify.py:108`) | `notify.py:582`: bound the fan-out |
| `PostInTime`, `SessionInTime` | times of the code | limits are set per wait and looked at between waits (`notify.py:109`, `:424`) | `notify.py:35`, `:415` |
| `OneKey`, `NoOrphans` | edit or delete overlaps a subscription | the primary row is read before Oracle is asked (`tenants.py:556`, `:608`) | `tenants.py:331`, `:877` |
| `OneKey` | `EditsChildren = TRUE` | a secondary row is given a key of its own (`tenants.py:307`) | `tenants.py:331` |
| `FactsAreTheirs` | queries overlap edits | the answer is written to a row of another account by now (`instances.py:629`) | `tenants.py:351` |
| `ProtectedStays` | edit overlaps delete | the protection is read before the deletion (`tenants.py:880`) | `tests/test_tenant_delete_protection.py:4` |
| `LinksStay` without `Chained` | an archive of another make, a deletion | the import does not look whether the parent an item names is a secondary row (`backup.py:485`) | `tenants.py:386`: never off each other |
| `TickCompletes` | | a busy set changes while it is iterated (`scheduler.py:416`) | `scheduler.py:343` |
| `IdsStick` | files with an entry without an id | `from_dict` makes an id up before `load` looks, so nothing is saved and each start shows another (`config_store.py:523`, `:615`) | `config_store.py:628`: the fix sticks across restarts |
| `NothingErased` | files of "torn" | entries that cannot be read are gone with the next save (`config_store.py:622`) | `config_store.py:622`: skip corrupt entry |
| `WithinFree` | `Alone` empty | resizes and volumes are judged outside the lock (`instances.py:437`, `storage.py:68`) | `quota_guard.py:282`, `:388` |
| `DryRunNeverDrifts` | requests with fallbacks | the dry run does not look at them (`instances.py:893`) | `instances.py:841` |
| `SelfKept` | rules with a source port; edits meanwhile | a rule counts as moved that was not (`oci_client.py:6122`, `:6298`) | `oci_client.py:6162`: the same ports before and after |
| `NoneShutOut` | `Apart = FALSE`, two repairs | the second's empty group takes the place of the first's (`oci_client.py:4100`) | `oci_client.py:6279` |
| `SshSure` | `Lossy`; rules with a source port | unread lists, and rules for one source port, count as SSH (`oci_client.py:6369`, `:5561`) | `oci_client.py:6506`, `:5569` |
| `SshDenied` | rules that let everything in | a warning counts as "no" (`oci_client.py:6507`) | `instance_ops.py:746` |
| `ShieldHolds`, `OthersKept` | `Apart = {}` | tags read before a change of others are written after it, without an etag (`oci_client.py:2331`, `:2363`) | `instances.py:285`: UI 传什么都绕不过去 |

Some of what follows from the code is not a property of it and was left out of the
formulas: an error of one refresh hides another's result for up to 15 minutes; a
launch cache cleared in one process stays in the others; rolling back an attach may
leave a private address without a public one; two overlapping subscriptions make two
rows of one region; a session with Oracle may be kept again for a row that was
deleted meanwhile; restoring an archive twice makes every row twice; an archive of
somebody else can link rows in a ring; a desktop job stopped between its check and
its mark runs once more; an import into the desktop store may stop half-way.

Most of these need a failure, or two requests of one user within seconds of each
other; the table says that the code does not exclude them, not how often they happen.

## Plan

Built: the retry engine, the launch lock, the update, and one module for each
component of the table above; the sums of "Runs"; the proofs above. What is left, in
this order:

1. Of `NoticesAreTrue`, what needs no sort.
2. `IpBan` as a refinement of a set of bans.
3. The default network (`ensure_default_network`) and the plan over availability
   domains (`_attempt_plan`), as functions.

## Not modelled

Oracle's SDK and its read-only calls (listings, metrics, billing), the terminal
stream, disk growth over SSH, users of identity domains, the frontend but for its
polling, formatting and wording, parsing of pasted configurations, checks of
addresses and URLs (pure functions that the unit tests cover), database migrations,
configuration, install scripts and desktop helper tools. A process lock whose guard
is contended, a torn write of the database and a clock that jumps are outside the
models.
