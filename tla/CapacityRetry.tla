---------------------------- MODULE CapacityRetry ----------------------------
(***************************************************************************)
(* The capacity-retry loop of OCIBot: rows of table capacity_jobs, the     *)
(* worker processes that turn due rows into LaunchInstance calls           *)
(* (web/backend/worker.py), the HTTP handlers that create, stop, resume    *)
(* and delete rows (routers/jobs.py), the browser launches that compete    *)
(* for the same tenant (routers/instances.py), the per-tenant launch lock  *)
(* they all share and Oracle's side of LaunchInstance.                     *)
(*                                                                         *)
(* Time.  A timestamp column is modelled by the time left until it: it     *)
(* counts down with Tick and stops at -Horizon, which also stands for NULL *)
(* (every reader treats NULL as "in the past").  A worker that captured    *)
(* "now" some units ago compares with that lag added back; Horizon bounds  *)
(* how long one pass over the candidates lasts.                            *)
(***************************************************************************)
EXTENDS Integers, FiniteSets

CONSTANTS
    Job,          \* ids of capacity_jobs rows
    Tenant,       \* ids of tenants rows
    TenantOf,     \* CapacityJob.tenant_id
    Worker,       \* worker processes
    Browser,      \* API threads serving POST /tenants/{id}/launch
    Client,       \* API threads serving /jobs/capacity
    NoOne,        \* SQL NULL, Python None
    InitJobs,     \* rows that exist at the start
    ClientOps,    \* the requests the clients of this instance make
    Faults,       \* the failures this instance lets happen
    MaxAttempts,  \* clamp_max_attempts(max_attempts)
    Target,       \* max(1, target_count)
    MinInterval,  \* MIN_RETRY_INTERVAL_SEC
    Interval,     \* clamp_retry_interval(interval_sec)
    Jitter,       \* the largest RETRY_JITTER_FRACTION share of a delay
    BaseBackoff,  \* RATE_LIMIT_BASE_BACKOFF_SEC
    MaxBackoff,   \* RATE_LIMIT_MAX_BACKOFF_SEC
    Lease,        \* the 10 minutes of locked_until
    HardCap,      \* hard_free_caps() of the tenants, outside secondary regions
    FreeSlots,    \* machines the Always Free allowance of a tenant admits
    MaxBatch,     \* bound: largest count of one browser launch
    MaxUsed,      \* bound: browsers stop asking once a tenant has this many
    MaxFailures,  \* bound: crashes and failed commits in one behaviour
    Horizon       \* bound: longest pass of a worker, in clock units

ASSUME ConstantsAssumption ==
    /\ TenantOf \in [Job -> Tenant]
    /\ InitJobs \subseteq Job
    /\ NoOne \notin Worker \cup Browser \cup Job
    /\ Worker \cap Browser = {}
    /\ ClientOps \subseteq {"stop", "resume", "create", "delete"}
    /\ Faults \subseteq {"crash", "prep", "raise", "lost", "db", "nolock"}
    /\ MaxAttempts \in Nat \ {0} /\ Target \in Nat \ {0}
    /\ MinInterval \in Nat \ {0} /\ Interval \in Nat /\ MinInterval <= Interval
    /\ Jitter \in Nat /\ BaseBackoff \in Nat /\ MaxBackoff \in Nat
    /\ Lease \in Nat /\ MinInterval <= Lease
    /\ HardCap \in BOOLEAN /\ FreeSlots \in Nat
    /\ MaxBatch \in Nat /\ MaxUsed \in Nat /\ MaxFailures \in Nat
    /\ Horizon \in Nat \ {0}

VARIABLES
    row,        \* the capacity_jobs table
    wk,         \* what each worker process keeps in memory
    br,         \* what each browser launch keeps in memory
    cl,         \* what each /jobs request keeps between its read and its commit
    lock,       \* holder of tenant_launch_lock, per tenant
    made,       \* <<job, attempt>> retry tokens Oracle has made a machine for
    used,       \* machines that count towards the free allowance, per tenant
    failures,   \* crashes and failed commits so far
    calls,      \* observer: LaunchInstance calls sent for a job
    sinceCall,  \* observer: time since the last of them, up to MinInterval
    stopCalls   \* observer: calls sent since the user's stop, -1 before one

vars == <<row, wk, br, cl, lock, made, used, failures, calls, sinceCall, stopCalls>>
observers == <<calls, sinceCall, stopCalls>>
oracle == <<made, used>>

------------------------------------------------------------------------------
(* Types and records *)

Past == -Horizon
Timer == {t \in Int : t >= Past}

Status == {"none", "idle", "running", "success", "stopped", "failed", "deleted"}

Row == [status: Status, enabled: BOOLEAN, attempts: Nat, created_count: Nat,
        rate_limits: Nat, next_run_at: Timer, floor_at: Timer,
        cooldown_until: Timer, locked_by: Worker \cup {NoOne},
        locked_until: Timer]

\* floor_at is last_attempt_at + interval_sec.
NewRow == [status |-> "idle", enabled |-> TRUE, attempts |-> 0,
           created_count |-> 0, rate_limits |-> 0, next_run_at |-> 0,
           floor_at |-> Past, cooldown_until |-> Past, locked_by |-> NoOne,
           locked_until |-> Past]
NoRow == [NewRow EXCEPT !.status = "none", !.enabled = FALSE]

Reply == {"ok", "capacity", "limited", "transient", "permanent"}
Success == {"finished", "more", "stopped"}

WorkerState ==
    [pc: {"poll", "scan", "claim", "prep", "lock", "quota", "launch", "judge",
          "commit", "notify", "recover", "unsaved", "lost"},
     scan: SUBSET Job, locked: SUBSET Tenant, busy: SUBSET Tenant,
     job: Job \cup {NoOne},
     attempts: Nat, created: Nat, limits: Nat,
     said: Reply \cup Success \cup {"none"},
     tickLag: 0..Horizon, tryLag: 0..Horizon]

\* busy is _busy_tenants: the one local that outlives a pass.
Sleeping == [pc |-> "poll", scan |-> {}, locked |-> {}, busy |-> {}, job |-> NoOne,
             attempts |-> 0, created |-> 0, limits |-> 0, said |-> "none",
             tickLag |-> 0, tryLag |-> 0]

BrowserState == [pc: {"idle", "lock", "quota", "launch"},
                 tenant: Tenant \cup {NoOne}, left: Nat]
NotLaunching == [pc |-> "idle", tenant |-> NoOne, left |-> 0]

ClientState == [op: {"none", "stop", "resume", "create", "delete"},
                job: Job \cup {NoOne}, read: Row]
NoRequest == [op |-> "none", job |-> NoOne, read |-> NoRow]

\* The one type invariant: every column and every local has its domain.
TypeOK ==
    /\ row \in [Job -> Row]
    /\ wk \in [Worker -> WorkerState]
    /\ br \in [Browser -> BrowserState]
    /\ cl \in [Client -> ClientState]
    /\ lock \in [Tenant -> Worker \cup Browser \cup {NoOne}]
    /\ made \subseteq Job \X Nat
    /\ used \in [Tenant -> Nat]
    /\ failures \in Nat
    /\ calls \in [Job -> Nat]
    /\ sinceCall \in [Job -> 0..MinInterval]
    /\ stopCalls \in [Job -> Int]

------------------------------------------------------------------------------
(* Predicates on a row, named after what the queries ask of it *)

Live(r) == r.status \notin {"none", "deleted"}
Active(r) == r.enabled /\ r.status \in {"idle", "running"}
Free(r) == r.locked_by = NoOne \/ r.locked_until < 0
Due(r) == Active(r) /\ r.next_run_at <= 0 /\ Free(r)
Exhausted(n) == n >= MaxAttempts

\* now + interval (+ jitter) after an attempt that failed for want of capacity
RetryDelays == Interval..(Interval + Jitter)

\* rate_limit_backoff_sec: doubles with each consecutive 429, capped
Backoff(hits) ==
    LET delay == BaseBackoff * 2^(hits - 1)
    IN  IF delay \in 0..MaxBackoff THEN delay ELSE MaxBackoff

AtLeast(a, b) == IF a > b THEN a ELSE b

\* A timestamp written as "captured now + d" by a process whose now is lag old.
FromThen(d, lag) == AtLeast(d - lag, Past)

\* The free allowance admits n more machines (check_launch_quota's verdict).
Admits(t, n) == HardCap => used[t] + n <= FreeSlots

\* Mutant: a job that is being attempted does not count as active.
ConflictIdleOnly(j) ==
    \E k \in Job \ {j} : /\ TenantOf[k] = TenantOf[j]
                         /\ row[k].enabled /\ row[k].status = "idle"

\* Another enabled idle/running job of the same tenant.
Conflict(j) == \E k \in Job \ {j} : TenantOf[k] = TenantOf[j] /\ Active(row[k])

\* What derive_retry_token makes of attempt n of job j.
Token(j, n) == <<j, n>>

\* Mutant: the answer is judged without a fresh read of the row.
StoppedUnread(r) == FALSE

\* _stopped_during_attempt: a fresh read that finds enabled = FALSE
StoppedMeanwhile(r) == Live(r) /\ ~r.enabled

\* A process that dies or leaves the critical section lets the tenant lock go.
Released(p) == [t \in Tenant |-> IF lock[t] = p THEN NoOne ELSE lock[t]]

------------------------------------------------------------------------------
(* The worker: one pass of tick_capacity over the candidates *)

\* Every worker action moves one worker, or writes one row, or both.
Step(w, s) == wk' = [wk EXCEPT ![w] = s]
Write(j, r) == row' = [row EXCEPT ![j] = r]

Unleased(r) == [r EXCEPT !.locked_by = NoOne, !.locked_until = Past]

\* The end of an attempt: the pass goes on with the next candidate, ...
NextCandidate(s) ==
    [Sleeping EXCEPT !.pc = "scan", !.scan = s.scan \ {s.job}, !.locked = s.locked,
                     !.busy = s.busy \ {TenantOf[s.job]}, !.tickLag = s.tickLag]

\* ... or the last commit raises and the pass is over, ...
Abort(s) == [Sleeping EXCEPT !.busy = s.busy \ {TenantOf[s.job]}]

\* ... or the finally clause itself raises: job.tenant_id cannot be loaded (its
\* row is gone, or the session waits for a rollback), so the tenant stays busy.
Wedged(s) == [Sleeping EXCEPT !.busy = s.busy]

\* Mutant: the pass frees no lease of a process that died.
TickBeginKeepsLeases(w) ==
    /\ wk[w].pc = "poll"
    /\ Step(w, [Sleeping EXCEPT !.pc = "scan", !.busy = wk[w].busy,
                  !.scan = {j \in Job : Due(row[j])},
                  !.locked = {TenantOf[j] : j \in {k \in Job : row[k].locked_by # NoOne}}])
    /\ UNCHANGED <<row, br, cl, lock, oracle, failures, observers>>

\* Frees expired leases, then lists the due rows and the tenants with a lease.
TickBegin(w) ==
    /\ wk[w].pc = "poll"
    /\ LET expired(r) == r.locked_by # NoOne /\ r.locked_until < 0
           leased == {j \in Job : row[j].locked_by # NoOne /\ ~expired(row[j])}
       IN  /\ row' = [j \in Job |->
                        IF expired(row[j]) THEN Unleased(row[j]) ELSE row[j]]
           /\ Step(w, [Sleeping EXCEPT !.pc = "scan", !.busy = wk[w].busy,
                         !.scan = {j \in Job : Due(row[j])},
                         !.locked = {TenantOf[j] : j \in leased}])
    /\ UNCHANGED <<br, cl, lock, oracle, failures, observers>>

PassEnds(w) ==
    /\ wk[w].pc = "scan" /\ wk[w].scan = {}
    /\ Step(w, Wedged(wk[w]))
    /\ UNCHANGED <<row, br, cl, lock, oracle, failures, observers>>

Occupied(s, t) == t \in s.locked \cup s.busy

\* A candidate the pass looks at; its tenant must not be at work already.
Candidate(w, j) ==
    /\ wk[w].pc = "scan" /\ j \in wk[w].scan
    /\ Live(row[j]) /\ ~Occupied(wk[w], TenantOf[j])

Drop(w, j) == Step(w, [wk[w] EXCEPT !.scan = @ \ {j}])

\* The row is gone: the claim matches nothing, or reading the expired object
\* raises out of the pass.
CandidateGone(w, j) ==
    /\ wk[w].pc = "scan" /\ j \in wk[w].scan /\ ~Live(row[j])
    /\ Drop(w, j) \/ Step(w, Wedged(wk[w]))
    /\ UNCHANGED <<row, br, cl, lock, oracle, failures, observers>>

SkipTenant(w, j) ==
    /\ wk[w].pc = "scan" /\ j \in wk[w].scan /\ Live(row[j])
    /\ Occupied(wk[w], TenantOf[j])
    /\ Drop(w, j)
    /\ UNCHANGED <<row, br, cl, lock, oracle, failures, observers>>

ConsiderExhausted(w, j) ==
    /\ Candidate(w, j) /\ Exhausted(row[j].attempts)
    /\ Write(j, [row[j] EXCEPT !.enabled = FALSE, !.status = "failed"])
    /\ Drop(w, j)
    /\ UNCHANGED <<br, cl, lock, oracle, failures, observers>>

\* now in tick_capacity was captured when the pass began.
\* Mutant of Cooling: reads the column that resume rewrites.
CoolingByNextRun(s, r) == r.next_run_at + s.tickLag > 0
Cooling(s, r) == r.cooldown_until + s.tickLag > 0
TooSoon(s, r) == r.floor_at + s.tickLag > 0

ConsiderCooling(w, j) ==
    /\ Candidate(w, j) /\ ~Exhausted(row[j].attempts) /\ Cooling(wk[w], row[j])
    /\ Drop(w, j)
    /\ UNCHANGED <<row, br, cl, lock, oracle, failures, observers>>

ConsiderTooSoon(w, j) ==
    /\ Candidate(w, j) /\ ~Exhausted(row[j].attempts) /\ ~Cooling(wk[w], row[j])
    /\ TooSoon(wk[w], row[j])
    /\ Write(j, [row[j] EXCEPT !.next_run_at = row[j].floor_at])
    /\ Drop(w, j)
    /\ UNCHANGED <<br, cl, lock, oracle, failures, observers>>

ConsiderDue(w, j) ==
    /\ Candidate(w, j) /\ ~Exhausted(row[j].attempts) /\ ~Cooling(wk[w], row[j])
    /\ ~TooSoon(wk[w], row[j])
    /\ Step(w, [wk[w] EXCEPT !.pc = "claim", !.job = j])
    /\ UNCHANGED <<row, br, cl, lock, oracle, failures, observers>>

\* The conditional UPDATE: it re-asserts enabled, status and lease, no clock.
Claimable(r) == Live(r) /\ Active(r) /\ Free(r)

Claim(w) ==
    LET s == wk[w]  r == row[s.job] IN
    /\ s.pc = "claim" /\ Claimable(r)
    /\ Write(s.job, [r EXCEPT !.locked_by = w, !.locked_until = Lease,
                              !.status = "running"])
    /\ Step(w, [s EXCEPT !.pc = "prep", !.locked = @ \cup {TenantOf[s.job]},
                         !.busy = @ \cup {TenantOf[s.job]}, !.attempts = r.attempts,
                         !.created = r.created_count, !.limits = r.rate_limits])
    /\ UNCHANGED <<br, cl, lock, oracle, failures, observers>>

ClaimLost(w) ==
    /\ wk[w].pc = "claim" /\ ~Claimable(row[wk[w].job])
    /\ Step(w, NextCandidate(wk[w]))
    /\ UNCHANGED <<row, br, cl, lock, oracle, failures, observers>>

------------------------------------------------------------------------------
(* The worker: one attempt (_run_capacity_once) up to LaunchInstance *)

\* The last commit of an attempt, lease and all: a row deleted meanwhile makes
\* it raise.
Settle(w, r) ==
    LET s == wk[w] IN
    IF Live(row[s.job])
    THEN Write(s.job, Unleased(r)) /\ Step(w, NextCandidate(s))
    ELSE UNCHANGED row /\ Step(w, Abort(s))

\* A flush and a commit in the middle of an attempt, then a notification.  If
\* the row was deleted meanwhile the flush fails, and so does every handler
\* that mentions job.id afterwards.
CommitThenNotify(w, r) ==
    LET s == wk[w] IN
    IF Live(row[s.job])
    THEN Write(s.job, r) /\ Step(w, [s EXCEPT !.pc = "notify"])
    ELSE UNCHANGED row /\ Step(w, Wedged(s))

PrepDone(w) ==
    /\ wk[w].pc = "prep"
    /\ Step(w, [wk[w] EXCEPT !.pc = "lock"])
    /\ UNCHANGED <<row, br, cl, lock, oracle, failures, observers>>

\* Tenant missing, disabled or of another owner.
TenantGone(w) ==
    /\ "prep" \in Faults /\ wk[w].pc = "prep"
    /\ Settle(w, [row[wk[w].job] EXCEPT !.enabled = FALSE, !.status = "failed"])
    /\ UNCHANGED <<br, cl, lock, oracle, failures, observers>>

PasswordLost(w) ==
    /\ "prep" \in Faults /\ wk[w].pc = "prep"
    /\ CommitThenNotify(w, [row[wk[w].job] EXCEPT !.enabled = FALSE,
                              !.status = "failed", !.next_run_at = Past])
    /\ UNCHANGED <<br, cl, lock, oracle, failures, observers>>

\* Building the OCI session raises.
PrepRaises(w) ==
    /\ "raise" \in Faults /\ wk[w].pc = "prep"
    /\ Step(w, [wk[w] EXCEPT !.pc = "recover"])
    /\ UNCHANGED <<row, br, cl, lock, oracle, failures, observers>>

WorkerLocks(w) ==
    LET t == TenantOf[wk[w].job] IN
    /\ wk[w].pc = "lock" /\ lock[t] = NoOne
    /\ lock' = [lock EXCEPT ![t] = w]
    /\ Step(w, [wk[w] EXCEPT !.pc = "quota"])
    /\ UNCHANGED <<row, br, cl, oracle, failures, observers>>

\* The lock mechanism itself fails: the attempt goes on without it.
LockBroken(w) ==
    /\ "nolock" \in Faults /\ wk[w].pc = "lock"
    /\ Step(w, [wk[w] EXCEPT !.pc = "quota"])
    /\ UNCHANGED <<row, br, cl, lock, oracle, failures, observers>>

\* Mutant: a status no query knows.
DeferredAsWaiting(s, r) ==
    [r EXCEPT !.status = "waiting", !.next_run_at = FromThen(Interval, s.tryLag)]

\* The row an attempt writes when it is put off: no attempt is counted.
Deferred(s, r) ==
    [r EXCEPT !.status = "idle", !.next_run_at = FromThen(Interval, s.tryLag)]

\* TenantLaunchLockBusy
LockBusy(w) ==
    /\ wk[w].pc = "lock" /\ lock[TenantOf[wk[w].job]] # NoOne
    /\ Settle(w, Deferred(wk[w], row[wk[w].job]))
    /\ UNCHANGED <<br, cl, lock, oracle, failures, observers>>

\* read_incomplete
QuotaUnreadable(w) ==
    /\ HardCap /\ wk[w].pc = "quota"
    /\ Settle(w, Deferred(wk[w], row[wk[w].job]))
    /\ lock' = Released(w)
    /\ UNCHANGED <<br, cl, oracle, failures, observers>>

\* attempts and last_attempt_at of the attempt that is under way
Counted(s, r) ==
    [r EXCEPT !.attempts = s.attempts, !.floor_at = FromThen(Interval, s.tryLag)]

\* Mutant: the lock is let go once usage has been judged.
QuotaAdmitsUnlocked(w) ==
    /\ wk[w].pc = "quota" /\ Admits(TenantOf[wk[w].job], 1)
    /\ Step(w, [wk[w] EXCEPT !.pc = "launch", !.attempts = @ + 1])
    /\ lock' = Released(w)
    /\ UNCHANGED <<row, br, cl, oracle, failures, observers>>

QuotaAdmits(w) ==
    /\ wk[w].pc = "quota" /\ Admits(TenantOf[wk[w].job], 1)
    /\ Step(w, [wk[w] EXCEPT !.pc = "launch", !.attempts = @ + 1])
    /\ UNCHANGED <<row, br, cl, lock, oracle, failures, observers>>

\* The guard ends the job; _notify_capacity_end lets the lock go, then commits.
QuotaBlocks(w) ==
    LET s == [wk[w] EXCEPT !.attempts = @ + 1] IN
    /\ wk[w].pc = "quota" /\ ~Admits(TenantOf[s.job], 1)
    /\ CommitThenNotify(w, [Counted(s, row[s.job]) EXCEPT !.enabled = FALSE,
                              !.status = "failed", !.next_run_at = Past])
    /\ lock' = Released(w)
    /\ UNCHANGED <<br, cl, oracle, failures, observers>>

\* The same with a COMMIT that fails: the exception is caught as "quota check
\* skipped" and the attempt goes on, its lock released, its session unusable.
QuotaBlockLost(w) ==
    /\ "db" \in Faults /\ failures < MaxFailures
    /\ wk[w].pc = "quota" /\ ~Admits(TenantOf[wk[w].job], 1)
    /\ failures' = failures + 1
    /\ lock' = Released(w)
    /\ Step(w, [wk[w] EXCEPT !.pc = "unsaved", !.attempts = @ + 1])
    /\ UNCHANGED <<row, br, cl, oracle, observers>>

\* What Oracle may answer to a token: one it has a machine for is a replay.
Answers(token) ==
    IF token \in made THEN {"ok", "limited", "transient"} ELSE Reply

Launch(w, reply, lost) ==
    LET s == wk[w]
        token == Token(s.job, s.attempts)
        makes == reply = "ok" \/ lost
    IN
    /\ s.pc \in {"launch", "unsaved"} /\ reply \in Answers(token)
    /\ lost => "lost" \in Faults /\ reply = "transient"
    /\ made' = IF makes THEN made \cup {token} ELSE made
    /\ used' = IF makes /\ token \notin made
               THEN [used EXCEPT ![TenantOf[s.job]] = @ + 1] ELSE used
    /\ lock' = Released(w)
    /\ Step(w, [s EXCEPT !.pc = IF @ = "launch" THEN "judge" ELSE "lost",
                         !.said = reply])
    /\ calls' = [calls EXCEPT ![s.job] = @ + 1]
    /\ sinceCall' = [sinceCall EXCEPT ![s.job] = 0]
    /\ stopCalls' = [stopCalls EXCEPT ![s.job] = IF @ >= 0 THEN @ + 1 ELSE @]
    /\ UNCHANGED <<row, br, cl, failures>>

------------------------------------------------------------------------------
(* The worker: what it makes of Oracle's answer *)

\* After a success the fresh read of enabled and the commit are two steps.
JudgeSuccess(w) ==
    LET s == wk[w]  done == s.created + 1 >= Target IN
    /\ s.pc = "judge" /\ s.said = "ok"
    /\ Step(w, [s EXCEPT !.pc = "commit", !.created = @ + 1,
                  !.said = IF done THEN "finished"
                           ELSE IF StoppedMeanwhile(row[s.job]) THEN "stopped"
                           ELSE "more"])
    /\ UNCHANGED <<row, br, cl, lock, oracle, failures, observers>>

\* Mutant: a machine that is not the last one enables the job again.
AfterSuccessEnables(s, r) ==
    [Counted(s, r) EXCEPT !.created_count = s.created, !.status = "idle",
                          !.enabled = s.said # "finished", !.next_run_at = Interval]

\* The columns a successful attempt writes; "more" leaves enabled alone.
AfterSuccess(s, r) ==
    LET counted == [Counted(s, r) EXCEPT !.created_count = s.created,
                                         !.rate_limits = 0, !.cooldown_until = Past]
    IN  CASE s.said = "finished" ->
               [counted EXCEPT !.status = "success", !.enabled = FALSE,
                               !.next_run_at = Past]
          [] s.said = "stopped" ->
               [counted EXCEPT !.status = "stopped", !.enabled = FALSE,
                               !.next_run_at = Past]
          [] OTHER ->
               [counted EXCEPT !.status = "idle", !.next_run_at = Interval]

CommitSuccess(w) ==
    /\ wk[w].pc = "commit"
    /\ CommitThenNotify(w, AfterSuccess(wk[w], row[wk[w].job]))
    /\ UNCHANGED <<br, cl, lock, oracle, failures, observers>>

\* After an error the attempt log is flushed first, so no other process writes
\* the row between the fresh read of enabled and the commit.
Failed(w) == wk[w].pc = "judge" /\ wk[w].said # "ok" /\ Live(row[wk[w].job])

\* The row of the attempt is gone: that flush fails.
FailedOnDeleted(w) ==
    /\ wk[w].pc = "judge" /\ wk[w].said # "ok" /\ ~Live(row[wk[w].job])
    /\ Step(w, Wedged(wk[w]))
    /\ UNCHANGED <<row, br, cl, lock, oracle, failures, observers>>

StoppedDuringAttempt(w) ==
    LET s == wk[w]  r == row[s.job] IN
    /\ Failed(w) /\ StoppedMeanwhile(r)
    /\ Settle(w, [Counted(s, r) EXCEPT !.enabled = FALSE, !.status = "stopped",
                                       !.next_run_at = Past])
    /\ UNCHANGED <<br, cl, lock, oracle, failures, observers>>

RateLimited(w) ==
    LET s == wk[w]  r == row[s.job] IN
    /\ Failed(w) /\ ~StoppedMeanwhile(r) /\ s.said = "limited"
    /\ Settle(w, [Counted(s, r) EXCEPT
                    !.rate_limits = s.limits + 1, !.status = "idle",
                    !.cooldown_until = Backoff(s.limits + 1),
                    !.next_run_at = Backoff(s.limits + 1)])
    /\ UNCHANGED <<br, cl, lock, oracle, failures, observers>>

\* The columns of every other error: the run of 429s is over.
AfterError(s, r) == [Counted(s, r) EXCEPT !.rate_limits = 0, !.cooldown_until = Past]

\* No capacity, a transient error, or a fallback configuration that is dropped.
TryAgain(w) ==
    LET s == wk[w]  r == row[s.job] IN
    /\ Failed(w) /\ ~StoppedMeanwhile(r)
    /\ \/ s.said \in {"capacity", "transient"} /\ ~Exhausted(s.attempts)
       \/ s.said = "permanent"
    /\ \E delay \in RetryDelays :
          Settle(w, [AfterError(s, r) EXCEPT !.status = "idle", !.next_run_at = delay])
    /\ UNCHANGED <<br, cl, lock, oracle, failures, observers>>

AttemptsUsedUp(w) ==
    LET s == wk[w]  r == row[s.job] IN
    /\ Failed(w) /\ ~StoppedMeanwhile(r)
    /\ s.said \in {"capacity", "transient"} /\ Exhausted(s.attempts)
    /\ \E delay \in RetryDelays :
          CommitThenNotify(w, [AfterError(s, r) EXCEPT
             !.status = "failed", !.enabled = FALSE, !.next_run_at = delay])
    /\ UNCHANGED <<br, cl, lock, oracle, failures, observers>>

PermanentFail(w) ==
    LET s == wk[w]  r == row[s.job] IN
    /\ Failed(w) /\ ~StoppedMeanwhile(r) /\ s.said = "permanent"
    /\ CommitThenNotify(w, [AfterError(s, r) EXCEPT
          !.status = "failed", !.enabled = FALSE, !.next_run_at = Past])
    /\ UNCHANGED <<br, cl, lock, oracle, failures, observers>>

\* The push is over: the lease goes by primary key, whoever holds it.  A row
\* deleted meanwhile is missed by the push, by the finally clause or by the commit.
Release(w) ==
    LET s == wk[w] IN
    /\ s.pc = "notify"
    /\ IF Live(row[s.job])
       THEN Write(s.job, Unleased(row[s.job])) /\ Step(w, NextCandidate(s))
       ELSE UNCHANGED row /\ (Step(w, Abort(s)) \/ Step(w, Wedged(s)))
    /\ UNCHANGED <<br, cl, lock, oracle, failures, observers>>

\* Mutant: no time is put between an attempt that raised and the next.
RecoveredAtOnce(r) == [Unleased(r) EXCEPT !.status = "idle", !.attempts = @ + 1]

\* The row an attempt that raised leaves: counted, put off and let go.
Recovered(r) == [Unleased(r) EXCEPT !.status = "idle", !.attempts = @ + 1,
                   !.floor_at = Interval, !.next_run_at = Interval]

\* _release_job_after_crash: re-read the row by id and write it.
Recover(w) ==
    LET s == wk[w]  r == row[s.job] IN
    /\ s.pc = "recover"
    /\ IF Live(r)
       THEN Write(s.job, Recovered(r)) /\ Step(w, NextCandidate(s))
       ELSE UNCHANGED row /\ Step(w, Wedged(s))
    /\ UNCHANGED <<br, cl, lock, oracle, failures, observers>>

\* The answers after which an attempt commits in its middle
EndsJob(s) ==
    \/ s.said = "permanent"
    \/ s.said \in {"capacity", "transient"} /\ Exhausted(s.attempts)

\* A COMMIT fails.  Inside the attempt the handler of tick_capacity takes over;
\* at its end the exception leaves the pass; in the handler it is swallowed.
CommitFails(w) ==
    LET s == wk[w] IN
    /\ "db" \in Faults /\ failures < MaxFailures
    /\ failures' = failures + 1
    /\ \/ /\ s.pc = "commit" \/ (s.pc = "judge" /\ EndsJob(s))
          /\ Step(w, [s EXCEPT !.pc = "recover"])
       \/ /\ s.pc = "notify" \/ (s.pc = "judge" /\ s.said # "ok")
          /\ Step(w, Abort(s))
       \/ /\ s.pc = "recover"
          /\ Step(w, NextCandidate(s))
    /\ UNCHANGED <<row, br, cl, lock, oracle, observers>>

\* The flush of the attempt log fails (database is locked): the session waits
\* for a rollback, and every handler raises anew over job.id.
FlushFails(w) ==
    LET s == wk[w] IN
    /\ "db" \in Faults /\ failures < MaxFailures
    /\ \/ s.pc = "commit"
       \/ s.pc = "judge" /\ s.said # "ok"
       \/ s.pc = "quota" /\ ~Admits(TenantOf[s.job], 1)
    /\ failures' = failures + 1
    /\ lock' = Released(w)
    /\ Step(w, Wedged(s))
    /\ UNCHANGED <<row, br, cl, oracle, observers>>

\* After QuotaBlockLost no commit of the attempt succeeds.
SessionLost(w) ==
    /\ wk[w].pc = "lost"
    /\ Step(w, [wk[w] EXCEPT !.pc = "recover"]) \/ Step(w, Abort(wk[w]))
    /\ UNCHANGED <<row, br, cl, lock, oracle, failures, observers>>

\* The process dies; its tenant lock goes with it, its lease stays.
WorkerCrash(w) ==
    /\ "crash" \in Faults /\ failures < MaxFailures /\ wk[w].pc # "poll"
    /\ failures' = failures + 1
    /\ lock' = Released(w)
    /\ Step(w, Sleeping)
    /\ UNCHANGED <<row, br, cl, oracle, observers>>

------------------------------------------------------------------------------
(* The browser launch (POST /tenants/{id}/launch without retry) *)

BrStep(b, s) == br' = [br EXCEPT ![b] = s]

BrowserAsks(b, t, n) ==
    /\ br[b].pc = "idle" /\ used[t] < MaxUsed
    /\ BrStep(b, [pc |-> "lock", tenant |-> t, left |-> n])
    /\ UNCHANGED <<row, wk, cl, lock, oracle, failures, observers>>

BrowserLocks(b) ==
    LET t == br[b].tenant IN
    /\ br[b].pc = "lock" /\ lock[t] = NoOne
    /\ lock' = [lock EXCEPT ![t] = b]
    /\ BrStep(b, [br[b] EXCEPT !.pc = "quota"])
    /\ UNCHANGED <<row, wk, cl, oracle, failures, observers>>

\* 409: another create holds the lock until the deadline
BrowserBusy(b) ==
    /\ br[b].pc = "lock" /\ lock[br[b].tenant] # NoOne
    /\ BrStep(b, NotLaunching)
    /\ UNCHANGED <<row, wk, cl, lock, oracle, failures, observers>>

\* Mutant: the lock covers the check but not the calls.
BrowserAdmittedUnlocked(b) ==
    /\ br[b].pc = "quota" /\ Admits(br[b].tenant, br[b].left)
    /\ BrStep(b, [br[b] EXCEPT !.pc = "launch"])
    /\ lock' = Released(b)
    /\ UNCHANGED <<row, wk, cl, oracle, failures, observers>>

\* enforce_launch_quota judges the whole batch before its first call
BrowserAdmitted(b) ==
    /\ br[b].pc = "quota" /\ Admits(br[b].tenant, br[b].left)
    /\ BrStep(b, [br[b] EXCEPT !.pc = "launch"])
    /\ UNCHANGED <<row, wk, cl, lock, oracle, failures, observers>>

\* 400 over the allowance, 503 incomplete read, 502 network preparation
BrowserRefused(b) ==
    /\ br[b].pc = "quota"
    /\ BrStep(b, NotLaunching)
    /\ lock' = Released(b)
    /\ UNCHANGED <<row, wk, cl, oracle, failures, observers>>

BrowserCreates(b) ==
    LET s == br[b] IN
    /\ s.pc = "launch"
    /\ used' = [used EXCEPT ![s.tenant] = @ + 1]
    /\ IF s.left > 1
       THEN BrStep(b, [s EXCEPT !.left = @ - 1]) /\ UNCHANGED lock
       ELSE BrStep(b, NotLaunching) /\ lock' = Released(b)
    /\ UNCHANGED <<row, wk, cl, made, failures, observers>>

\* The batch stops at its first failure; the machine may exist all the same.
BrowserFails(b, lost) ==
    LET s == br[b] IN
    /\ s.pc = "launch" /\ (lost => "lost" \in Faults)
    /\ used' = IF lost THEN [used EXCEPT ![s.tenant] = @ + 1] ELSE used
    /\ BrStep(b, NotLaunching)
    /\ lock' = Released(b)
    /\ UNCHANGED <<row, wk, cl, made, failures, observers>>

BrowserCrash(b) ==
    /\ "crash" \in Faults /\ failures < MaxFailures /\ br[b].pc # "idle"
    /\ failures' = failures + 1
    /\ BrStep(b, NotLaunching)
    /\ lock' = Released(b)
    /\ UNCHANGED <<row, wk, cl, oracle, observers>>

------------------------------------------------------------------------------
(* The API: create, stop, resume and delete read the row, then commit *)

Respond(c) == cl' = [cl EXCEPT ![c] = NoRequest]

Request(c, op, j) ==
    /\ op \in ClientOps /\ cl[c] = NoRequest
    /\ cl' = [cl EXCEPT ![c] = [op |-> op, job |-> j, read |-> row[j]]]
    /\ UNCHANGED <<row, wk, br, lock, oracle, failures, observers>>

ReadToCreate(c, j) ==
    /\ row[j].status = "none" /\ ~Conflict(j)
    /\ \A d \in Client : cl[d].job # j
    /\ Request(c, "create", j)

ReadToStop(c, j) == Live(row[j]) /\ Request(c, "stop", j)

\* 400 after a success or at the attempt limit, 409 on a second active job
ReadToResume(c, j) ==
    /\ Live(row[j]) /\ row[j].status # "success"
    /\ ~Exhausted(row[j].attempts) /\ ~Conflict(j)
    /\ Request(c, "resume", j)

ReadToDelete(c, j) == Live(row[j]) /\ Request(c, "delete", j)

\* The ORM writes a column only where the new value differs from the one read.
Column(was, new, now) == IF was = new THEN now ELSE new

\* The id must still be there: an UPDATE or DELETE of no row is an error.
Answered(c, op, r) ==
    LET j == cl[c].job IN
    /\ cl[c].op = op
    /\ IF op = "create" \/ Live(row[j]) THEN Write(j, r) ELSE UNCHANGED row
    /\ Respond(c)
    /\ UNCHANGED <<wk, br, lock, oracle, failures, calls, sinceCall>>

CommitCreate(c) ==
    /\ cl[c].op = "create"
    /\ Answered(c, "create", NewRow)
    /\ UNCHANGED stopCalls

CommitStop(c) ==
    LET was == cl[c].read
        now == row[cl[c].job]
        kept == was.status \in {"success", "failed"}
    IN
    /\ cl[c].op = "stop"
    /\ Answered(c, "stop",
         [now EXCEPT !.enabled = Column(was.enabled, FALSE, @),
                     !.status = IF kept THEN @ ELSE Column(was.status, "stopped", @),
                     !.locked_by = Column(was.locked_by, NoOne, @),
                     !.locked_until = IF was.locked_by = NoOne THEN @ ELSE Past])
    /\ stopCalls' = [stopCalls EXCEPT ![cl[c].job] = IF @ < 0 THEN 0 ELSE @]

CommitResume(c) ==
    LET was == cl[c].read
        now == row[cl[c].job]
    IN
    /\ cl[c].op = "resume"
    /\ Answered(c, "resume",
         [now EXCEPT !.enabled = Column(was.enabled, TRUE, @),
                     !.status = Column(was.status, "idle", @),
                     !.next_run_at = AtLeast(0, was.floor_at)])
    /\ stopCalls' = [stopCalls EXCEPT ![cl[c].job] = -1]

CommitDelete(c) ==
    /\ cl[c].op = "delete"
    /\ Answered(c, "delete", [NoRow EXCEPT !.status = "deleted"])
    /\ UNCHANGED stopCalls

------------------------------------------------------------------------------
(* Time *)

Later(t) == AtLeast(t - 1, Past)

\* No pass outlasts Horizon; a /jobs request fits in one unit of time.
Tick ==
    /\ \A w \in Worker : wk[w].tickLag < Horizon
    /\ \A c \in Client : cl[c].op = "none"
    /\ row' = [j \in Job |->
                 [row[j] EXCEPT !.next_run_at = Later(@), !.floor_at = Later(@),
                                !.cooldown_until = Later(@), !.locked_until = Later(@)]]
    /\ wk' = [w \in Worker |->
                IF wk[w].pc = "poll" THEN wk[w]
                ELSE [wk[w] EXCEPT !.tickLag = @ + 1,
                        !.tryLag = IF wk[w].pc \in {"scan", "claim"} THEN 0 ELSE @ + 1]]
    /\ sinceCall' = [j \in Job |->
                       IF sinceCall[j] < MinInterval THEN sinceCall[j] + 1
                       ELSE MinInterval]
    /\ UNCHANGED <<br, cl, lock, oracle, failures, calls, stopCalls>>

------------------------------------------------------------------------------
(* The system *)

Init ==
    /\ row = [j \in Job |-> IF j \in InitJobs THEN NewRow ELSE NoRow]
    /\ wk = [w \in Worker |-> Sleeping]
    /\ br = [b \in Browser |-> NotLaunching]
    /\ cl = [c \in Client |-> NoRequest]
    /\ lock = [t \in Tenant |-> NoOne]
    /\ made = {} /\ used = [t \in Tenant |-> 0] /\ failures = 0
    /\ calls = [j \in Job |-> 0]
    /\ sinceCall = [j \in Job |-> MinInterval]
    /\ stopCalls = [j \in Job |-> -1]

WorkerScans(w) ==
    \/ TickBegin(w) \/ PassEnds(w) \/ Claim(w) \/ ClaimLost(w)
    \/ \E j \in Job :
          \/ CandidateGone(w, j) \/ SkipTenant(w, j) \/ ConsiderExhausted(w, j)
          \/ ConsiderCooling(w, j) \/ ConsiderTooSoon(w, j) \/ ConsiderDue(w, j)

WorkerTries(w) ==
    \/ PrepDone(w) \/ WorkerLocks(w) \/ LockBusy(w)
    \/ QuotaAdmits(w) \/ QuotaBlocks(w)
    \/ \E reply \in Reply, lost \in BOOLEAN : Launch(w, reply, lost)

WorkerConcludes(w) ==
    \/ JudgeSuccess(w) \/ CommitSuccess(w) \/ StoppedDuringAttempt(w)
    \/ RateLimited(w) \/ TryAgain(w) \/ AttemptsUsedUp(w) \/ PermanentFail(w)
    \/ FailedOnDeleted(w) \/ Release(w) \/ Recover(w) \/ SessionLost(w)

\* What may happen to an attempt and nothing obliges to
WorkerMishaps(w) ==
    \/ TenantGone(w) \/ PasswordLost(w) \/ PrepRaises(w) \/ LockBroken(w)
    \/ QuotaUnreadable(w) \/ QuotaBlockLost(w) \/ CommitFails(w)
    \/ FlushFails(w) \/ WorkerCrash(w)

BrowserNext(b) ==
    \/ \E t \in Tenant, n \in 1..MaxBatch : BrowserAsks(b, t, n)
    \/ BrowserLocks(b) \/ BrowserBusy(b) \/ BrowserAdmitted(b)
    \/ BrowserRefused(b) \/ BrowserCreates(b)
    \/ \E lost \in BOOLEAN : BrowserFails(b, lost)
    \/ BrowserCrash(b)

ClientNext(c) ==
    \/ \E j \in Job :
          ReadToCreate(c, j) \/ ReadToStop(c, j) \/ ReadToResume(c, j) \/ ReadToDelete(c, j)
    \/ CommitCreate(c) \/ CommitStop(c) \/ CommitResume(c) \/ CommitDelete(c)

WorkerNext(w) ==
    WorkerScans(w) \/ WorkerTries(w) \/ WorkerConcludes(w) \/ WorkerMishaps(w)

Next ==
    \/ \E w \in Worker : WorkerNext(w)
    \/ \E b \in Browser : BrowserNext(b)
    \/ \E c \in Client : ClientNext(c)
    \/ Tick

Spec == Init /\ [][Next]_vars

\* The worker process keeps running and time passes, whatever requests come.
\* The lock is found free and the usage read succeeds when both are possible
\* again and again; nobody is obliged to press a button and no failure is
\* obliged to happen.
Fairness ==
    /\ \A w \in Worker :
          /\ WF_vars(WorkerScans(w) \/ WorkerTries(w) \/ WorkerConcludes(w))
          /\ SF_vars(WorkerLocks(w))
          /\ SF_vars(QuotaAdmits(w) \/ QuotaBlocks(w))
    /\ \A b \in Browser :
          WF_vars(BrowserLocks(b) \/ BrowserBusy(b) \/ BrowserAdmitted(b)
                  \/ BrowserRefused(b) \/ BrowserCreates(b))
    /\ \A c \in Client :
          WF_vars(CommitCreate(c) \/ CommitStop(c) \/ CommitResume(c) \/ CommitDelete(c))
    /\ SF_vars(Tick)

FairSpec == Init /\ [][Next]_vars /\ Fairness

------------------------------------------------------------------------------
(* Properties *)

\* The machines of a tenant under hard caps never exceed its Always Free
\* allowance: usage is read, judged and spent inside tenant_launch_lock by both
\* the worker and the browser launch (quota_guard.py, "check-then-act").
FreeCap == HardCap => \A t \in Tenant : used[t] <= FreeSlots

Launching ==
    [t \in Tenant |->
       {w \in Worker : /\ wk[w].pc \in {"quota", "launch", "unsaved"}
                       /\ TenantOf[wk[w].job] = t}
       \cup {b \in Browser : br[b].pc \in {"quota", "launch"} /\ br[b].tenant = t}]

Mutex == INSTANCE LaunchMutex WITH
            Caller <- Worker \cup Browser, Resource <- Tenant, inside <- Launching

\* After the user's stop at most the call already under way goes out, whatever
\* the worker commits over the row afterwards, until the user resumes.
StopIsFinal == \A j \in Job : stopCalls[j] <= 1

\* max_attempts bounds the calls of a job; only an attempt whose outcome was
\* lost with a process or a commit may be repeated.
AttemptsBounded == \A j \in Job : calls[j] <= MaxAttempts + failures

\* A stop is final and the limit of attempts holds, whatever a worker that was at it
\* commits over the row afterwards.
JobKept == StopIsFinal /\ AttemptsBounded

\* A job never makes more machines than it was asked for (target_count).
MachinesOf(j) == {token \in made : token[1] = j}
TargetKept == \A j \in Job : Cardinality(MachinesOf(j)) <= Target

\* A worker that holds the lease of a job and works on it
Attempting(w) ==
    wk[w].pc \in {"prep", "lock", "quota", "launch", "unsaved", "judge", "commit", "lost"}

\* Two workers never attempt the same job at once (the claim, worker.py).
SingleFlight ==
    \A v, w \in Worker : /\ Attempting(v) /\ Attempting(w)
                         /\ wk[v].job = wk[w].job
                         => v = w

\* Between attempts a disabled job does not read as waiting or running: the
\* panel shows what the user's stop did (_stopped_during_attempt).
StoppedLooksStopped ==
    \A j \in Job :
       /\ Live(row[j]) /\ ~row[j].enabled
       /\ \A w \in Worker : wk[w].job # j
       => row[j].status \notin {"idle", "running"}

\* A tenant has at most one enabled idle or running job (the create and resume
\* handlers refuse a second).
OneActivePerTenant ==
    \A j, k \in Job : /\ j # k /\ TenantOf[j] = TenantOf[k]
                      /\ Active(row[j])
                      => ~Active(row[k])

\* A machine the row has not counted is the one the next attempt asks for
\* again with the same retry token, unless its attempt is still being judged.
\* TLC refutes it with deaths under a hard cap.
UncountedIsReplayed ==
    \A j \in Job :
       /\ Live(row[j]) /\ Cardinality(MachinesOf(j)) > row[j].created_count
       /\ \A w \in Worker : wk[w].job # j
       => row[j].enabled /\ Token(j, row[j].attempts + 1) \in made

\* Two LaunchInstance calls of a job are at least MIN_RETRY_INTERVAL_SEC apart.
CallsApart == \A j \in Job : calls'[j] > calls[j] => sinceCall[j] >= MinInterval

\* No call goes out while the 429 cooldown of its job runs, though stop and
\* resume rewrite next_run_at at will.
CooldownHolds ==
    [][\A j \in Job : calls'[j] > calls[j] => row[j].cooldown_until <= 0]_vars

\* Every enabled job ends: it succeeds, fails or is stopped, though attempts
\* raise, the lock is busy or the usage read fails now and then.
JobsEnd == \A j \in Job : row[j].enabled ~> ~row[j].enabled
==============================================================================
