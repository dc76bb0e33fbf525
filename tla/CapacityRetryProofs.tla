------------------------- MODULE CapacityRetryProofs -------------------------
EXTENDS MCLaunches, FiniteSetTheorems, TLAPS

(* The type invariant, one part per group of variables, strengthened with what *)
(* the actions rely on: an attempt or a request under way names a job, a       *)
(* launch names a tenant, and an attempt starts within its pass.               *)

RowsTyped == row \in [Job -> Row]

WorkerTyped(s) ==
    /\ s \in WorkerState
    /\ s.pc \notin {"poll", "scan"} => s.job \in Job
    /\ s.tryLag <= s.tickLag
WorkersTyped ==
    /\ wk \in [Worker -> WorkerState]
    /\ \A w \in Worker : WorkerTyped(wk[w])

BrowsersTyped ==
    /\ br \in [Browser -> BrowserState]
    /\ \A b \in Browser : br[b].pc # "idle" => br[b].tenant \in Tenant

ClientsTyped ==
    /\ cl \in [Client -> ClientState]
    /\ \A c \in Client : cl[c].op # "none" => cl[c].job \in Job

SharedTyped ==
    /\ lock \in [Tenant -> Worker \cup Browser \cup {NoOne}]
    /\ made \subseteq Job \X Nat
    /\ used \in [Tenant -> Nat]
    /\ failures \in Nat

ObserversTyped ==
    /\ calls \in [Job -> Nat]
    /\ sinceCall \in [Job -> 0..MinInterval]
    /\ stopCalls \in [Job -> Int]

Typed == /\ RowsTyped /\ WorkersTyped /\ BrowsersTyped /\ ClientsTyped
         /\ SharedTyped /\ ObserversTyped

USE DEF Past

LEMMA ClippedTimer ==
    ASSUME NEW d \in Int, NEW lag \in Nat
    PROVE  FromThen(d, lag) \in Timer /\ AtLeast(d, Past) \in Timer
BY ConstantsAssumption DEF FromThen, AtLeast, Timer

LEMMA NaturalTimer == \A n \in Nat : n \in Timer
BY ConstantsAssumption DEF Timer

LEMMA PastIsTimer == Past \in Timer
BY ConstantsAssumption DEF Timer

LEMMA BackoffTimer == \A h : Backoff(h) \in Timer
BY ConstantsAssumption DEF Backoff, Timer

LEMMA NewRowsTyped ==
    /\ NewRow \in Row
    /\ NoRow \in Row
    /\ [NoRow EXCEPT !.status = "deleted"] \in Row
<1>1. Past \in Timer /\ 0 \in Timer
  BY PastIsTimer, NaturalTimer
<1>2. NewRow \in Row
  BY <1>1 DEF NewRow, Row, Status
<1>3. NoRow \in Row
  BY <1>2 DEF NoRow, Row, Status
<1>4. [NoRow EXCEPT !.status = "deleted"] \in Row
  BY <1>3 DEF Row, Status
<1> QED BY <1>2, <1>3, <1>4

LEMMA UnleasedTyped == ASSUME NEW r \in Row PROVE Unleased(r) \in Row
BY PastIsTimer DEF Unleased, Row

LEMMA CountedTyped ==
    ASSUME NEW r \in Row, NEW s \in WorkerState
    PROVE  Counted(s, r) \in Row
<1>1. s.attempts \in Nat /\ s.tryLag \in Nat
  BY ConstantsAssumption DEF WorkerState
<1>2. FromThen(Interval, s.tryLag) \in Timer
  BY <1>1, ConstantsAssumption, ClippedTimer
<1> QED BY <1>1, <1>2 DEF Counted, Row

LEMMA AfterSuccessTyped ==
    ASSUME NEW r \in Row, NEW s \in WorkerState
    PROVE  AfterSuccess(s, r) \in Row
<1> DEFINE c == [Counted(s, r) EXCEPT !.created_count = s.created,
                                      !.rate_limits = 0, !.cooldown_until = Past]
<1>1. c \in Row
  BY CountedTyped, PastIsTimer DEF Row, WorkerState
<1>2. Interval \in Timer
  BY ConstantsAssumption, NaturalTimer
<1> HIDE DEF c
<1>3. /\ [c EXCEPT !.status = "success", !.enabled = FALSE, !.next_run_at = Past] \in Row
      /\ [c EXCEPT !.status = "stopped", !.enabled = FALSE, !.next_run_at = Past] \in Row
      /\ [c EXCEPT !.status = "idle", !.next_run_at = Interval] \in Row
  BY <1>1, <1>2, PastIsTimer DEF Row, Status
<1> QED BY <1>3 DEF AfterSuccess, c

\* The row of a job that ends: the columns every failing path writes
LEMMA FailedRowTyped ==
    ASSUME NEW r \in Row
    PROVE  /\ [r EXCEPT !.enabled = FALSE, !.status = "failed"] \in Row
           /\ [r EXCEPT !.enabled = FALSE, !.status = "failed",
                        !.next_run_at = Past] \in Row
BY PastIsTimer DEF Row, Status

LEMMA DeferredTyped ==
    ASSUME NEW r \in Row, NEW s \in WorkerState
    PROVE  Deferred(s, r) \in Row
<1>1. FromThen(Interval, s.tryLag) \in Timer
  BY ConstantsAssumption, ClippedTimer DEF WorkerState
<1> QED BY <1>1 DEF Deferred, Row, Status

LEMMA ReleasedTyped ==
    ASSUME NEW p, SharedTyped
    PROVE  Released(p) \in [Tenant -> Worker \cup Browser \cup {NoOne}]
BY DEF Released, SharedTyped

LEMMA SleepingTyped == Sleeping \in WorkerState
BY ConstantsAssumption DEF Sleeping, WorkerState

LEMMA NextCandidateTyped ==
    ASSUME NEW s \in WorkerState
    PROVE  /\ NextCandidate(s) \in WorkerState
           /\ NextCandidate(s).pc = "scan"
           /\ NextCandidate(s).tryLag = 0
<1>1. /\ s.scan \ {s.job} \in SUBSET Job
      /\ s.locked \in SUBSET Tenant
      /\ s.busy \ {TenantOf[s.job]} \in SUBSET Tenant
      /\ s.tickLag \in 0..Horizon
  BY DEF WorkerState
<1>2. [Sleeping EXCEPT !.pc = "scan"] \in WorkerState
  BY SleepingTyped DEF WorkerState
<1> QED BY <1>1, <1>2, SleepingTyped DEF NextCandidate, Sleeping, WorkerState

\* A pass that is over, whatever is left in busy
LEMMA OverTyped ==
    ASSUME NEW s \in WorkerState
    PROVE  /\ Abort(s) \in WorkerState /\ Wedged(s) \in WorkerState
           /\ Abort(s).pc = "poll" /\ Wedged(s).pc = "poll"
           /\ Abort(s).tryLag = 0 /\ Wedged(s).tryLag = 0
<1>1. s.busy \ {TenantOf[s.job]} \in SUBSET Tenant /\ s.busy \in SUBSET Tenant
  BY DEF WorkerState
<1> QED BY <1>1, SleepingTyped DEF Abort, Wedged, Sleeping, WorkerState

LEMMA StepTyped ==
    ASSUME WorkersTyped, NEW w \in Worker, NEW s, WorkerTyped(s), Step(w, s)
    PROVE  WorkersTyped'
BY DEF WorkersTyped, WorkerTyped, Step

LEMMA WriteTyped ==
    ASSUME RowsTyped, NEW j \in Job, NEW r \in Row, Write(j, r)
    PROVE  RowsTyped'
BY DEF RowsTyped, Write

\* The worker's state after the ends of an attempt
LEMMA EndsTyped ==
    ASSUME NEW s, WorkerTyped(s)
    PROVE  /\ WorkerTyped(Sleeping)
           /\ WorkerTyped(Abort(s))
           /\ WorkerTyped(Wedged(s))
           /\ WorkerTyped(NextCandidate(s))
           /\ s.job \in Job => /\ WorkerTyped([s EXCEPT !.pc = "notify"])
                               /\ WorkerTyped([s EXCEPT !.pc = "recover"])
<1>1. WorkerTyped(Sleeping)
  BY SleepingTyped, ConstantsAssumption DEF WorkerTyped, Sleeping
<1>2. WorkerTyped(NextCandidate(s))
  BY NextCandidateTyped, ConstantsAssumption DEF WorkerTyped, WorkerState
<1>3. WorkerTyped(Abort(s)) /\ WorkerTyped(Wedged(s))
  BY OverTyped, ConstantsAssumption DEF WorkerTyped, WorkerState
<1>4. ASSUME s.job \in Job
      PROVE  /\ WorkerTyped([s EXCEPT !.pc = "notify"])
             /\ WorkerTyped([s EXCEPT !.pc = "recover"])
  BY <1>4 DEF WorkerTyped, WorkerState
<1> QED BY <1>1, <1>2, <1>3, <1>4

LEMMA SettleTyped ==
    ASSUME RowsTyped, WorkersTyped, NEW w \in Worker, wk[w].job \in Job,
           NEW r \in Row, Settle(w, r)
    PROVE  RowsTyped' /\ WorkersTyped'
<1>1. WorkerTyped(wk[w])
  BY DEF WorkersTyped
<1>2. CASE Live(row[wk[w].job])
  BY <1>1, <1>2, UnleasedTyped, EndsTyped, StepTyped, WriteTyped DEF Settle
<1>3. CASE ~Live(row[wk[w].job])
  <2>1. UNCHANGED row /\ Step(w, Abort(wk[w]))
    BY <1>3 DEF Settle
  <2> QED BY <2>1, <1>1, EndsTyped, StepTyped DEF RowsTyped
<1> QED BY <1>2, <1>3

LEMMA CommitTyped ==
    ASSUME RowsTyped, WorkersTyped, NEW w \in Worker, wk[w].job \in Job,
           NEW r \in Row, CommitThenNotify(w, r)
    PROVE  RowsTyped' /\ WorkersTyped'
<1>1. WorkerTyped(wk[w])
  BY DEF WorkersTyped
<1>2. CASE Live(row[wk[w].job])
  BY <1>1, <1>2, EndsTyped, StepTyped, WriteTyped DEF CommitThenNotify
<1>3. CASE ~Live(row[wk[w].job])
  <2>1. UNCHANGED row /\ Step(w, Wedged(wk[w]))
    BY <1>3 DEF CommitThenNotify
  <2> QED BY <2>1, <1>1, EndsTyped, StepTyped DEF RowsTyped
<1> QED BY <1>2, <1>3

LEMMA InitTyped == Init => Typed
<1> SUFFICES ASSUME Init PROVE Typed
  OBVIOUS
<1>1. RowsTyped
  BY NewRowsTyped DEF Init, RowsTyped
<1>2. WorkersTyped
  <2>1. WorkerTyped(Sleeping)
    BY SleepingTyped DEF WorkerTyped, Sleeping
  <2> QED BY <2>1, SleepingTyped DEF Init, WorkersTyped
<1>3. BrowsersTyped
  BY DEF Init, BrowsersTyped, BrowserState, NotLaunching
<1>4. ClientsTyped
  BY NewRowsTyped DEF Init, ClientsTyped, ClientState, NoRequest
<1>5. SharedTyped /\ ObserversTyped
  BY ConstantsAssumption DEF Init, SharedTyped, ObserversTyped
<1> QED BY <1>1, <1>2, <1>3, <1>4, <1>5 DEF Typed

\* What a worker's action leaves alone stays typed.
LEMMA OthersTyped ==
    ASSUME Typed, RowsTyped', WorkersTyped', SharedTyped', ObserversTyped',
           UNCHANGED <<br, cl>>
    PROVE  Typed'
BY DEF Typed, BrowsersTyped, ClientsTyped

LEMMA UnsharedTyped ==
    ASSUME Typed, RowsTyped', WorkersTyped',
           UNCHANGED <<br, cl, lock, oracle, failures, observers>>
    PROVE  Typed'
BY DEF Typed, BrowsersTyped, ClientsTyped, SharedTyped, ObserversTyped, oracle, observers

LEMMA ScansTyped ==
    ASSUME Typed, NEW w \in Worker, WorkerScans(w)
    PROVE  Typed'
<1> DEFINE s == wk[w]
<1>1. WorkerTyped(s) /\ RowsTyped /\ WorkersTyped
  BY DEF Typed, WorkersTyped
<1>2. UNCHANGED <<br, cl, lock, oracle, failures, observers>>
  BY DEF WorkerScans, TickBegin, PassEnds, Claim, ClaimLost, CandidateGone,
         SkipTenant, ConsiderExhausted, ConsiderCooling, ConsiderTooSoon, ConsiderDue
<1>3. SUFFICES RowsTyped' /\ WorkersTyped'
  BY <1>2, UnsharedTyped
<1>4. CASE TickBegin(w)
  <2>1. \A j \in Job : row[j] \in Row /\ Unleased(row[j]) \in Row
    BY <1>1, UnleasedTyped DEF RowsTyped
  <2>2. RowsTyped'
    BY <1>4, <2>1 DEF TickBegin, RowsTyped
  <2>3. PICK t \in SUBSET Tenant :
           Step(w, [Sleeping EXCEPT !.pc = "scan", !.busy = s.busy,
                      !.scan = {j \in Job : Due(row[j])}, !.locked = t])
    <3> DEFINE leased == {j \in Job : row[j].locked_by # NoOne
                            /\ ~(row[j].locked_by # NoOne /\ row[j].locked_until < 0)}
    <3>1. {TenantOf[j] : j \in leased} \in SUBSET Tenant
      BY ConstantsAssumption
    <3> QED BY <1>4, <3>1 DEF TickBegin
  <2>4. WorkerTyped([Sleeping EXCEPT !.pc = "scan", !.busy = s.busy,
                       !.scan = {j \in Job : Due(row[j])}, !.locked = t])
    <3> DEFINE due == {j \in Job : Due(row[j])}
    <3>1. due \in SUBSET Job /\ s.busy \in SUBSET Tenant
      BY <1>1 DEF WorkerTyped, WorkerState
    <3> HIDE DEF due
    <3>2. [Sleeping EXCEPT !.pc = "scan", !.busy = s.busy, !.scan = due, !.locked = t]
             \in WorkerState
      BY <3>1, SleepingTyped DEF WorkerState
    <3> QED BY <3>2, ConstantsAssumption DEF WorkerTyped, Sleeping, due
  <2> QED BY <2>2, <2>3, <2>4, <1>1, StepTyped
<1>5. CASE PassEnds(w)
  BY <1>5, <1>1, EndsTyped, StepTyped DEF PassEnds, RowsTyped
<1>6. CASE Claim(w)
  <2> DEFINE r == row[s.job]
             r1 == [r EXCEPT !.locked_by = w, !.locked_until = Lease, !.status = "running"]
             s1 == [s EXCEPT !.pc = "prep", !.locked = @ \cup {TenantOf[s.job]},
                      !.busy = @ \cup {TenantOf[s.job]}, !.attempts = r.attempts, !.created = r.created_count,
                      !.limits = r.rate_limits]
  <2>1. s.job \in Job /\ r \in Row
    BY <1>1, <1>6 DEF Claim, WorkerTyped, RowsTyped
  <2>2. r1 \in Row
    BY <2>1, ConstantsAssumption, NaturalTimer DEF Row, Status
  <2>3. TenantOf[s.job] \in Tenant /\ r.attempts \in Nat /\ r.created_count \in Nat
        /\ r.rate_limits \in Nat
    BY <2>1, ConstantsAssumption DEF Row
  <2>4. WorkerTyped(s1)
    BY <1>1, <2>1, <2>3 DEF WorkerTyped, WorkerState
  <2> QED BY <1>6, <1>1, <2>1, <2>2, <2>4, StepTyped, WriteTyped DEF Claim
<1>7. CASE ClaimLost(w)
  BY <1>7, <1>1, EndsTyped, StepTyped DEF ClaimLost, RowsTyped
<1>8. ASSUME NEW j \in Job,
             \/ CandidateGone(w, j) \/ SkipTenant(w, j) \/ ConsiderExhausted(w, j)
             \/ ConsiderCooling(w, j) \/ ConsiderTooSoon(w, j) \/ ConsiderDue(w, j)
      PROVE  RowsTyped' /\ WorkersTyped'
  <2>1. s.pc = "scan" /\ row[j] \in Row
    BY <1>1, <1>8 DEF RowsTyped, CandidateGone, SkipTenant, ConsiderExhausted,
          ConsiderCooling, ConsiderTooSoon, ConsiderDue, Candidate
  <2>2. /\ WorkerTyped([s EXCEPT !.scan = @ \ {j}])
        /\ WorkerTyped([s EXCEPT !.pc = "claim", !.job = j])
    BY <1>1, <2>1 DEF WorkerTyped, WorkerState
  <2>3. Drop(w, j) => WorkersTyped'
    BY <2>2, <1>1, StepTyped DEF Drop
  <2>4. CASE CandidateGone(w, j)
    BY <2>4, <2>3, <1>1, EndsTyped, StepTyped DEF CandidateGone, RowsTyped
  <2>5. CASE SkipTenant(w, j) \/ ConsiderCooling(w, j)
    BY <2>5, <2>3, <1>1 DEF SkipTenant, ConsiderCooling, RowsTyped
  <2>6. CASE ConsiderExhausted(w, j)
    <3>1. [row[j] EXCEPT !.enabled = FALSE, !.status = "failed"] \in Row
      BY <2>1 DEF Row, Status
    <3> QED BY <2>6, <3>1, <2>3, <1>1, WriteTyped DEF ConsiderExhausted
  <2>7. CASE ConsiderTooSoon(w, j)
    <3>1. [row[j] EXCEPT !.next_run_at = row[j].floor_at] \in Row
      BY <2>1 DEF Row
    <3> QED BY <2>7, <3>1, <2>3, <1>1, WriteTyped DEF ConsiderTooSoon
  <2>8. CASE ConsiderDue(w, j)
    BY <2>8, <2>2, <1>1, StepTyped DEF ConsiderDue, RowsTyped
  <2> QED BY <1>8, <2>4, <2>5, <2>6, <2>7, <2>8
<1> QED BY <1>4, <1>5, <1>6, <1>7, <1>8 DEF WorkerScans

LEMMA TriesTyped ==
    ASSUME Typed, NEW w \in Worker, WorkerTries(w)
    PROVE  Typed'
<1> DEFINE s == wk[w]
           r == row[s.job]
<1>1. WorkerTyped(s) /\ RowsTyped /\ WorkersTyped /\ SharedTyped /\ ObserversTyped
  BY DEF Typed, WorkersTyped
<1>2. s.job \in Job /\ r \in Row /\ TenantOf[s.job] \in Tenant
  <2>1. s.pc \in {"prep", "lock", "quota", "launch", "unsaved"}
    BY DEF WorkerTries, PrepDone, WorkerLocks, LockBusy, QuotaAdmits, QuotaBlocks, Launch
  <2> QED BY <2>1, <1>1, ConstantsAssumption DEF WorkerTyped, RowsTyped
<1>3. /\ WorkerTyped([s EXCEPT !.pc = "lock"])
      /\ WorkerTyped([s EXCEPT !.pc = "quota"])
      /\ WorkerTyped([s EXCEPT !.pc = "launch", !.attempts = @ + 1])
      /\ [s EXCEPT !.attempts = @ + 1] \in WorkerState
  <2>1. s.attempts + 1 \in Nat
    BY <1>1 DEF WorkerTyped, WorkerState
  <2>2. /\ WorkerTyped([s EXCEPT !.pc = "lock"])
        /\ WorkerTyped([s EXCEPT !.pc = "quota"])
    BY <1>1, <1>2 DEF WorkerTyped, WorkerState
  <2>3. WorkerTyped([s EXCEPT !.pc = "launch", !.attempts = @ + 1])
    BY <1>1, <1>2, <2>1 DEF WorkerTyped, WorkerState
  <2>4. [s EXCEPT !.attempts = @ + 1] \in WorkerState
    BY <1>1, <2>1 DEF WorkerTyped, WorkerState
  <2> QED BY <2>2, <2>3, <2>4
<1>4. CASE PrepDone(w)
  BY <1>4, <1>1, <1>3, StepTyped, UnsharedTyped DEF PrepDone, RowsTyped
<1>5. CASE WorkerLocks(w)
  <2>1. WorkersTyped' /\ RowsTyped'
    BY <1>5, <1>1, <1>3, StepTyped DEF WorkerLocks, RowsTyped
  <2>2. SharedTyped' /\ ObserversTyped'
    BY <1>5, <1>1, <1>2 DEF WorkerLocks, SharedTyped, ObserversTyped, oracle, observers
  <2> QED BY <1>5, <2>1, <2>2, OthersTyped DEF WorkerLocks
<1>6. CASE LockBusy(w)
  <2>1. Deferred(s, r) \in Row
    BY <1>1, <1>2, DeferredTyped DEF WorkerTyped
  <2> QED BY <1>6, <2>1, <1>1, <1>2, SettleTyped, UnsharedTyped DEF LockBusy
<1>7. CASE QuotaAdmits(w)
  BY <1>7, <1>1, <1>3, StepTyped, UnsharedTyped DEF QuotaAdmits, RowsTyped
<1>8. CASE QuotaBlocks(w)
  <2> DEFINE s1 == [s EXCEPT !.attempts = @ + 1]
             r1 == [Counted(s1, r) EXCEPT !.enabled = FALSE, !.status = "failed",
                                          !.next_run_at = Past]
  <2>1. Counted(s1, r) \in Row
    BY <1>2, <1>3, CountedTyped
  <2>2. r1 \in Row
    BY <2>1, FailedRowTyped
  <2>3. CommitThenNotify(w, r1)
    BY <1>8 DEF QuotaBlocks
  <2>4. RowsTyped' /\ WorkersTyped'
    BY <2>2, <2>3, <1>1, <1>2, CommitTyped
  <2>5. SharedTyped' /\ ObserversTyped'
    BY <1>8, <1>1, ReleasedTyped DEF QuotaBlocks, SharedTyped, ObserversTyped, oracle, observers
  <2> QED BY <1>8, <2>4, <2>5, OthersTyped DEF QuotaBlocks
<1>9. ASSUME NEW reply \in Reply, NEW lost \in BOOLEAN, Launch(w, reply, lost)
      PROVE  Typed'
  <2>1. \A p \in {"judge", "lost"} : WorkerTyped([s EXCEPT !.pc = p, !.said = reply])
    BY <1>1, <1>2 DEF WorkerTyped, WorkerState
  <2>2. /\ UNCHANGED row
        /\ \E p \in {"judge", "lost"} : Step(w, [s EXCEPT !.pc = p, !.said = reply])
    BY <1>9 DEF Launch
  <2>7. WorkersTyped' /\ RowsTyped'
    BY <2>2, <1>1, <2>1, StepTyped DEF RowsTyped
  <2>3. Token(s.job, s.attempts) \in Job \X Nat
    BY <1>1, <1>2 DEF Token, WorkerTyped, WorkerState
  <2>4. /\ lock' = Released(w) /\ UNCHANGED failures
        /\ made' \in {made, made \cup {Token(s.job, s.attempts)}}
        /\ used' \in {used, [used EXCEPT ![TenantOf[s.job]] = @ + 1]}
    BY <1>9 DEF Launch
  <2>5. SharedTyped'
    BY <2>3, <2>4, <1>1, <1>2, ReleasedTyped DEF SharedTyped
  <2>6. ObserversTyped'
    BY <1>9, <1>1, <1>2, ConstantsAssumption DEF Launch, ObserversTyped
  <2> QED BY <1>9, <2>7, <2>5, <2>6, OthersTyped DEF Launch
<1> QED BY <1>4, <1>5, <1>6, <1>7, <1>8, <1>9 DEF WorkerTries

LEMMA AfterErrorTyped ==
    ASSUME NEW r \in Row, NEW s \in WorkerState
    PROVE  AfterError(s, r) \in Row
BY CountedTyped, PastIsTimer DEF AfterError, Row

LEMMA RetryDelayTyped == \A delay \in RetryDelays : delay \in Timer
BY ConstantsAssumption, NaturalTimer DEF RetryDelays

LEMMA ConcludesTyped ==
    ASSUME Typed, NEW w \in Worker, WorkerConcludes(w)
    PROVE  Typed'
<1> DEFINE s == wk[w]
           r == row[s.job]
<1>1. WorkerTyped(s) /\ s \in WorkerState /\ RowsTyped /\ WorkersTyped
  BY DEF Typed, WorkersTyped
<1>2. s.job \in Job /\ r \in Row
  <2>1. s.pc \in {"judge", "commit", "notify", "recover", "lost"}
    BY DEF WorkerConcludes, JudgeSuccess, CommitSuccess, StoppedDuringAttempt,
           RateLimited, TryAgain, AttemptsUsedUp, PermanentFail, Release, Recover, Failed,
           FailedOnDeleted, SessionLost
  <2> QED BY <2>1, <1>1 DEF WorkerTyped, RowsTyped
<1>3. UNCHANGED <<br, cl, lock, oracle, failures, observers>>
  BY DEF WorkerConcludes, JudgeSuccess, CommitSuccess, StoppedDuringAttempt,
         RateLimited, TryAgain, AttemptsUsedUp, PermanentFail, Release, Recover,
         FailedOnDeleted, SessionLost
<1>4. SUFFICES RowsTyped' /\ WorkersTyped'
  BY <1>3, UnsharedTyped
<1>5. Counted(s, r) \in Row /\ AfterError(s, r) \in Row
  BY <1>1, <1>2, CountedTyped, AfterErrorTyped
<1>6. CASE JudgeSuccess(w)
  <2>1. \A v \in Success :
           WorkerTyped([s EXCEPT !.pc = "commit", !.created = @ + 1, !.said = v])
    <3>1. s.created + 1 \in Nat
      BY <1>1 DEF WorkerState
    <3> QED BY <3>1, <1>1, <1>2 DEF WorkerTyped, WorkerState
  <2>2. \E v \in Success :
           Step(w, [s EXCEPT !.pc = "commit", !.created = @ + 1, !.said = v])
    BY <1>6 DEF JudgeSuccess, Success
  <2> QED BY <1>6, <2>1, <2>2, <1>1, StepTyped DEF JudgeSuccess, RowsTyped
<1>7. CASE CommitSuccess(w)
  BY <1>7, <1>1, <1>2, AfterSuccessTyped, CommitTyped DEF CommitSuccess
<1>8. CASE StoppedDuringAttempt(w)
  <2>1. [Counted(s, r) EXCEPT !.enabled = FALSE, !.status = "stopped",
                              !.next_run_at = Past] \in Row
    BY <1>5, PastIsTimer DEF Row, Status
  <2> QED BY <1>8, <2>1, <1>1, <1>2, SettleTyped DEF StoppedDuringAttempt
<1>9. CASE RateLimited(w)
  <2> DEFINE c == Counted(s, r)
             h == s.limits + 1
             b == Backoff(s.limits + 1)
  <2>1. h \in Nat /\ b \in Timer
    BY <1>1, BackoffTimer DEF WorkerState
  <2>2. c \in Row
    BY <1>5
  <2> HIDE DEF c, h, b
  <2>3. [c EXCEPT !.rate_limits = h, !.status = "idle", !.cooldown_until = b,
                  !.next_run_at = b] \in Row
    BY <2>1, <2>2 DEF Row, Status
  <2> QED BY <1>9, <2>3, <1>1, <1>2, SettleTyped DEF RateLimited, c, h, b
<1>10. CASE TryAgain(w)
  <2>1. \A delay \in RetryDelays :
           [AfterError(s, r) EXCEPT !.status = "idle", !.next_run_at = delay] \in Row
    BY <1>5, RetryDelayTyped DEF Row, Status
  <2> QED BY <1>10, <2>1, <1>1, <1>2, SettleTyped DEF TryAgain
<1>11. CASE AttemptsUsedUp(w)
  <2>1. \A delay \in RetryDelays :
           [AfterError(s, r) EXCEPT !.status = "failed", !.enabled = FALSE,
                                    !.next_run_at = delay] \in Row
    BY <1>5, RetryDelayTyped DEF Row, Status
  <2> QED BY <1>11, <2>1, <1>1, <1>2, CommitTyped DEF AttemptsUsedUp
<1>12. CASE PermanentFail(w)
  <2>1. [AfterError(s, r) EXCEPT !.status = "failed", !.enabled = FALSE,
                                 !.next_run_at = Past] \in Row
    BY <1>5, PastIsTimer DEF Row, Status
  <2> QED BY <1>12, <2>1, <1>1, <1>2, CommitTyped DEF PermanentFail
<1>13. CASE Release(w)
  BY <1>13, <1>1, <1>2, UnleasedTyped, EndsTyped, StepTyped, WriteTyped
     DEF Release, RowsTyped
<1>14. CASE Recover(w)
  <2>1. Recovered(r) \in Row
    <3>1. Unleased(r) \in Row /\ Unleased(r).attempts + 1 \in Nat
      BY <1>2, UnleasedTyped DEF Row
    <3>2. Interval \in Timer
      BY ConstantsAssumption, NaturalTimer
    <3> QED BY <3>1, <3>2 DEF Recovered, Row, Status
  <2> QED BY <1>14, <2>1, <1>1, <1>2, EndsTyped, StepTyped, WriteTyped
          DEF Recover, RowsTyped
<1>15. CASE FailedOnDeleted(w) \/ SessionLost(w)
  BY <1>15, <1>1, <1>2, EndsTyped, StepTyped DEF FailedOnDeleted, SessionLost, RowsTyped
<1> QED BY <1>6, <1>7, <1>8, <1>9, <1>10, <1>11, <1>12, <1>13, <1>14, <1>15
        DEF WorkerConcludes

LEMMA MishapsTyped ==
    ASSUME Typed, NEW w \in Worker, WorkerMishaps(w)
    PROVE  Typed'
<1> DEFINE s == wk[w]
           r == row[s.job]
<1>1. WorkerTyped(s) /\ s \in WorkerState /\ RowsTyped /\ WorkersTyped
      /\ SharedTyped /\ ObserversTyped
  BY DEF Typed, WorkersTyped
<1>2. /\ UNCHANGED <<br, cl>>
      /\ ObserversTyped'
  BY <1>1 DEF WorkerMishaps, TenantGone, PasswordLost, PrepRaises, LockBroken,
     QuotaUnreadable, QuotaBlockLost, CommitFails, FlushFails, WorkerCrash, observers, ObserversTyped
<1>3. SUFFICES RowsTyped' /\ WorkersTyped' /\ SharedTyped'
  BY <1>2, OthersTyped
<1>4. SharedTyped'
  <2>1. lock' = lock \/ lock' = Released(w)
    BY DEF WorkerMishaps, TenantGone, PasswordLost, PrepRaises, LockBroken,
           QuotaUnreadable, QuotaBlockLost, CommitFails, FlushFails, WorkerCrash
  <2>2. UNCHANGED oracle /\ failures' \in {failures, failures + 1}
    BY DEF WorkerMishaps, TenantGone, PasswordLost, PrepRaises, LockBroken,
           QuotaUnreadable, QuotaBlockLost, CommitFails, FlushFails, WorkerCrash
  <2> QED BY <2>1, <2>2, <1>1, ReleasedTyped DEF SharedTyped, oracle
<1>5. CASE WorkerCrash(w)
  <2>1. UNCHANGED row /\ Step(w, Sleeping)
    BY <1>5 DEF WorkerCrash
  <2> QED BY <2>1, <1>1, <1>4, EndsTyped, StepTyped DEF RowsTyped
<1>6. CASE CommitFails(w)
  <2>1. s.job \in Job
    BY <1>6, <1>1 DEF CommitFails, WorkerTyped
  <2>2. /\ UNCHANGED row
        /\ \/ Step(w, [s EXCEPT !.pc = "recover"])
           \/ Step(w, Abort(s))
           \/ Step(w, NextCandidate(s))
    BY <1>6 DEF CommitFails
  <2> QED BY <2>1, <2>2, <1>1, <1>4, EndsTyped, StepTyped DEF RowsTyped
<1>7. ASSUME \/ TenantGone(w) \/ PasswordLost(w) \/ PrepRaises(w) \/ LockBroken(w)
             \/ QuotaUnreadable(w) \/ QuotaBlockLost(w)
      PROVE  RowsTyped' /\ WorkersTyped'
  <2>1. s.job \in Job /\ r \in Row
    BY <1>7, <1>1 DEF TenantGone, PasswordLost, PrepRaises, LockBroken,
       QuotaUnreadable, QuotaBlockLost, WorkerTyped, RowsTyped
  <2>2. CASE TenantGone(w)
    BY <2>2, <2>1, <1>1, FailedRowTyped, SettleTyped DEF TenantGone
  <2>3. CASE PasswordLost(w)
    BY <2>3, <2>1, <1>1, FailedRowTyped, CommitTyped DEF PasswordLost
  <2>4. CASE PrepRaises(w)
    BY <2>4, <2>1, <1>1, EndsTyped, StepTyped DEF PrepRaises, RowsTyped
  <2>5. CASE LockBroken(w)
    <3>1. WorkerTyped([s EXCEPT !.pc = "quota"])
      BY <1>1, <2>1 DEF WorkerTyped, WorkerState
    <3> QED BY <2>5, <3>1, <1>1, StepTyped DEF LockBroken, RowsTyped
  <2>6. CASE QuotaUnreadable(w)
    BY <2>6, <2>1, <1>1, DeferredTyped, SettleTyped DEF QuotaUnreadable
  <2>7. CASE QuotaBlockLost(w)
    <3>1. s.attempts + 1 \in Nat
      BY <1>1 DEF WorkerState
    <3>2. WorkerTyped([s EXCEPT !.pc = "unsaved", !.attempts = @ + 1])
      BY <1>1, <2>1, <3>1 DEF WorkerTyped, WorkerState
    <3> QED BY <2>7, <3>2, <1>1, StepTyped DEF QuotaBlockLost, RowsTyped
  <2> QED BY <1>7, <2>2, <2>3, <2>4, <2>5, <2>6, <2>7
<1>8. CASE FlushFails(w)
  <2>1. UNCHANGED row /\ Step(w, Wedged(s))
    BY <1>8 DEF FlushFails
  <2> QED BY <2>1, <1>1, <1>4, EndsTyped, StepTyped DEF RowsTyped
<1> QED BY <1>4, <1>5, <1>6, <1>7, <1>8 DEF WorkerMishaps

LEMMA BrowserTyped ==
    ASSUME Typed, NEW b \in Browser, BrowserNext(b)
    PROVE  Typed'
<1> DEFINE s == br[b]
<1>1. BrowsersTyped /\ SharedTyped
  BY DEF Typed
<1>2. UNCHANGED <<row, wk, cl, made, observers>>
  BY DEF BrowserNext, BrowserAsks, BrowserLocks, BrowserBusy, BrowserAdmitted,
         BrowserRefused, BrowserCreates, BrowserFails, BrowserCrash, oracle
<1>3. SUFFICES BrowsersTyped' /\ SharedTyped'
  BY <1>2 DEF Typed, RowsTyped, WorkersTyped, ClientsTyped, ObserversTyped, observers
<1>4. s \in BrowserState /\ NotLaunching \in BrowserState
  BY <1>1 DEF BrowsersTyped, BrowserState, NotLaunching
<1>5. ASSUME NEW s1 \in BrowserState, BrStep(b, s1),
             s1.pc # "idle" => s1.tenant \in Tenant
      PROVE  BrowsersTyped'
  BY <1>1, <1>5 DEF BrowsersTyped, BrStep
<1>6. BrStep(b, NotLaunching) => BrowsersTyped'
  BY <1>4, <1>5 DEF NotLaunching
<1>7. CASE \E t \in Tenant, n \in 1..MaxBatch : BrowserAsks(b, t, n)
  <2>1. PICK t \in Tenant, n \in 1..MaxBatch : BrowserAsks(b, t, n)
    BY <1>7
  <2>2. [pc |-> "lock", tenant |-> t, left |-> n] \in BrowserState
    BY DEF BrowserState
  <2> QED BY <2>1, <2>2, <1>1, <1>5 DEF BrowserAsks, SharedTyped, oracle
<1>8. CASE BrowserLocks(b)
  <2>1. s.tenant \in Tenant
    BY <1>8, <1>1 DEF BrowserLocks, BrowsersTyped
  <2>2. [s EXCEPT !.pc = "quota"] \in BrowserState
    BY <1>4 DEF BrowserState
  <2>3. BrowsersTyped'
    BY <1>8, <2>1, <2>2, <1>4, <1>5 DEF BrowserLocks, BrowserState
  <2> QED BY <1>8, <2>1, <2>3, <1>1 DEF BrowserLocks, SharedTyped, oracle
<1>9. CASE BrowserBusy(b)
  BY <1>9, <1>6, <1>1 DEF BrowserBusy, SharedTyped, oracle
<1>10. CASE BrowserAdmitted(b)
  <2>1. s.tenant \in Tenant
    BY <1>10, <1>1 DEF BrowserAdmitted, BrowsersTyped
  <2>2. [s EXCEPT !.pc = "launch"] \in BrowserState
    BY <1>4 DEF BrowserState
  <2>3. BrowsersTyped'
    BY <1>10, <2>1, <2>2, <1>4, <1>5 DEF BrowserAdmitted, BrowserState
  <2> QED BY <1>10, <2>3, <1>1 DEF BrowserAdmitted, SharedTyped, oracle
<1>11. CASE BrowserRefused(b)
  BY <1>11, <1>6, <1>1, ReleasedTyped DEF BrowserRefused, SharedTyped, oracle
<1>12. CASE BrowserCreates(b)
  <2>1. s.tenant \in Tenant
    BY <1>12, <1>1 DEF BrowserCreates, BrowsersTyped
  <2>2. SharedTyped'
    <3>1. used' = [used EXCEPT ![s.tenant] = @ + 1]
          /\ lock' \in {lock, Released(b)} /\ UNCHANGED <<made, failures>>
      BY <1>12 DEF BrowserCreates
    <3> QED BY <3>1, <2>1, <1>1, ReleasedTyped DEF SharedTyped
  <2>3. CASE s.left > 1
    <3>1. [s EXCEPT !.left = @ - 1] \in BrowserState
      BY <2>3, <1>4 DEF BrowserState
    <3>2. [s EXCEPT !.left = @ - 1].tenant = s.tenant
      BY <1>4 DEF BrowserState
    <3>3. BrStep(b, [s EXCEPT !.left = @ - 1])
      BY <1>12, <2>3 DEF BrowserCreates
    <3> QED BY <2>1, <2>2, <3>1, <3>2, <3>3, <1>5
  <2>4. CASE ~(s.left > 1)
    BY <1>12, <2>2, <2>4, <1>6 DEF BrowserCreates
  <2> QED BY <2>3, <2>4
<1>13. CASE \E lost \in BOOLEAN : BrowserFails(b, lost)
  <2>1. s.tenant \in Tenant
    BY <1>13, <1>1 DEF BrowserFails, BrowsersTyped
  <2>2. /\ used' \in {used, [used EXCEPT ![s.tenant] = @ + 1]}
        /\ lock' = Released(b) /\ UNCHANGED <<made, failures>>
        /\ BrStep(b, NotLaunching)
    BY <1>13 DEF BrowserFails
  <2> QED BY <2>1, <2>2, <1>1, <1>6, ReleasedTyped DEF SharedTyped
<1>14. CASE BrowserCrash(b)
  <2>1. /\ lock' = Released(b) /\ failures' = failures + 1 /\ UNCHANGED <<made, used>>
        /\ BrStep(b, NotLaunching)
    BY <1>14 DEF BrowserCrash, oracle
  <2> QED BY <2>1, <1>1, <1>6, ReleasedTyped DEF SharedTyped
<1> QED BY <1>7, <1>8, <1>9, <1>10, <1>11, <1>12, <1>13, <1>14 DEF BrowserNext

LEMMA ClientTyped ==
    ASSUME Typed, NEW c \in Client, ClientNext(c)
    PROVE  Typed'
<1> DEFINE j == cl[c].job
           was == cl[c].read
           now == row[cl[c].job]
<1>1. RowsTyped /\ ClientsTyped /\ ObserversTyped /\ cl[c] \in ClientState
  BY DEF Typed, ClientsTyped
<1>2. CASE \E k \in Job : \/ ReadToCreate(c, k) \/ ReadToStop(c, k)
                          \/ ReadToResume(c, k) \/ ReadToDelete(c, k)
  <2>1. PICK op \in ClientOps, k \in Job : Request(c, op, k)
    BY <1>2 DEF ReadToCreate, ReadToStop, ReadToResume, ReadToDelete, Request
  <2>2. [op |-> op, job |-> k, read |-> row[k]] \in ClientState
    BY <1>1, ConstantsAssumption DEF ClientState, RowsTyped
  <2>3. ClientsTyped'
    BY <2>1, <2>2, <1>1 DEF Request, ClientsTyped
  <2> QED BY <2>1, <2>3 DEF Request, Typed, RowsTyped, WorkersTyped, BrowsersTyped,
             SharedTyped, ObserversTyped, oracle, observers
<1>3. ASSUME NEW op \in {"create", "stop", "resume", "delete"}, NEW r \in Row,
             Answered(c, op, r), ObserversTyped'
      PROVE  Typed'
  <2>1. j \in Job
    BY <1>1, <1>3 DEF Answered, ClientsTyped
  <2>2. RowsTyped'
    BY <1>1, <1>3, <2>1, WriteTyped DEF Answered, RowsTyped
  <2>3. NoRequest \in ClientState /\ NoRequest.op = "none"
    BY NewRowsTyped DEF NoRequest, ClientState
  <2>4. ClientsTyped'
    BY <1>1, <1>3, <2>3 DEF Answered, Respond, ClientsTyped
  <2> QED BY <1>3, <2>2, <2>4 DEF Answered, Typed, WorkersTyped, BrowsersTyped,
             SharedTyped, oracle
<1>4. CASE CommitCreate(c)
  BY <1>4, <1>1, <1>3, NewRowsTyped DEF CommitCreate, Answered, ObserversTyped
<1>5. CASE CommitDelete(c)
  BY <1>5, <1>1, <1>3, NewRowsTyped DEF CommitDelete, Answered, ObserversTyped
<1>6. CASE CommitStop(c)
  <2>1. j \in Job /\ now \in Row /\ was \in Row
    BY <1>1, <1>6 DEF CommitStop, ClientsTyped, ClientState, RowsTyped
  <2> DEFINE en == Column(was.enabled, FALSE, now.enabled)
             st == IF was.status \in {"success", "failed"} THEN now.status
                   ELSE Column(was.status, "stopped", now.status)
             by == Column(was.locked_by, NoOne, now.locked_by)
             lu == IF was.locked_by = NoOne THEN now.locked_until ELSE Past
  <2>2. en \in BOOLEAN /\ st \in Status /\ by \in Worker \cup {NoOne} /\ lu \in Timer
    BY <2>1, PastIsTimer DEF Column, Row, Status
  <2>3. Answered(c, "stop", [now EXCEPT !.enabled = en, !.status = st,
                                        !.locked_by = by, !.locked_until = lu])
    BY <1>6 DEF CommitStop
  <2> HIDE DEF en, st, by, lu, now
  <2>4. [now EXCEPT !.enabled = en, !.status = st, !.locked_by = by,
                    !.locked_until = lu] \in Row
    BY <2>1, <2>2 DEF Row
  <2>5. ObserversTyped'
    <3>1. /\ UNCHANGED <<calls, sinceCall>>
          /\ stopCalls' = [stopCalls EXCEPT ![cl[c].job] = IF @ < 0 THEN 0 ELSE @]
      BY <1>6 DEF CommitStop, Answered
    <3> QED BY <3>1, <2>1, <1>1 DEF ObserversTyped
  <2> QED BY <2>3, <2>4, <2>5, <1>3
<1>7. CASE CommitResume(c)
  <2>1. j \in Job /\ now \in Row /\ was \in Row
    BY <1>1, <1>7 DEF CommitResume, ClientsTyped, ClientState, RowsTyped
  <2> DEFINE en == Column(was.enabled, TRUE, now.enabled)
             st == Column(was.status, "idle", now.status)
             nx == AtLeast(0, was.floor_at)
  <2>2. en \in BOOLEAN /\ st \in Status /\ nx \in Timer
    <3>1. en \in BOOLEAN /\ st \in Status
      BY <2>1 DEF Column, Row, Status
    <3>2. was.floor_at \in Int
      BY <2>1 DEF Row, Timer
    <3>3. nx \in Timer
      BY <3>2, ConstantsAssumption DEF AtLeast, Timer
    <3> QED BY <3>1, <3>3
  <2>3. Answered(c, "resume", [now EXCEPT !.enabled = en, !.status = st,
                                          !.next_run_at = nx])
    BY <1>7 DEF CommitResume
  <2> HIDE DEF en, st, nx, now
  <2>4. [now EXCEPT !.enabled = en, !.status = st, !.next_run_at = nx] \in Row
    BY <2>1, <2>2 DEF Row
  <2>5. ObserversTyped'
    <3>1. /\ UNCHANGED <<calls, sinceCall>>
          /\ stopCalls' = [stopCalls EXCEPT ![cl[c].job] = -1]
      BY <1>7 DEF CommitResume, Answered
    <3> QED BY <3>1, <2>1, <1>1 DEF ObserversTyped
  <2> QED BY <2>3, <2>4, <2>5, <1>3
<1> QED BY <1>2, <1>4, <1>5, <1>6, <1>7 DEF ClientNext

LEMMA TickTyped == ASSUME Typed, Tick PROVE Typed'
<1>1. RowsTyped /\ WorkersTyped /\ ObserversTyped
  BY DEF Typed
<1>2. RowsTyped'
  <2>1. \A t \in Timer : Later(t) \in Timer
    BY ConstantsAssumption DEF Later, AtLeast, Timer
  <2>2. \A j \in Job : [row[j] EXCEPT !.next_run_at = Later(@), !.floor_at = Later(@),
                          !.cooldown_until = Later(@), !.locked_until = Later(@)] \in Row
    BY <1>1, <2>1 DEF RowsTyped, Row
  <2> QED BY <2>2 DEF Tick, RowsTyped
<1>3. WorkersTyped'
  <2> DEFINE Aged(s) == IF s.pc = "poll" THEN s
                        ELSE [s EXCEPT !.tickLag = @ + 1,
                                !.tryLag = IF s.pc \in {"scan", "claim"} THEN 0 ELSE @ + 1]
  <2>1. ASSUME NEW w \in Worker PROVE WorkerTyped(Aged(wk[w]))
    <3>1. WorkerTyped(wk[w]) /\ wk[w].tickLag < Horizon
      BY <1>1 DEF WorkersTyped, Tick
    <3> DEFINE s == wk[w]
               lag == IF s.pc \in {"scan", "claim"} THEN 0 ELSE s.tryLag + 1
    <3>2. s.tickLag + 1 \in 0..Horizon /\ lag \in 0..Horizon /\ lag <= s.tickLag + 1
      BY <3>1, ConstantsAssumption DEF WorkerTyped, WorkerState
    <3> HIDE DEF lag
    <3>3. WorkerTyped([s EXCEPT !.tickLag = s.tickLag + 1, !.tryLag = lag])
      BY <3>1, <3>2 DEF WorkerTyped, WorkerState
    <3> QED BY <3>1, <3>3 DEF lag
  <2>2. wk' = [w \in Worker |-> Aged(wk[w])]
    BY DEF Tick
  <2> HIDE DEF Aged
  <2> QED BY <2>1, <2>2 DEF WorkersTyped, WorkerTyped
<1>4. ObserversTyped'
  <2>1. \A j \in Job : IF sinceCall[j] < MinInterval THEN sinceCall[j] + 1 \in 0..MinInterval
                      ELSE MinInterval \in 0..MinInterval
    BY <1>1, ConstantsAssumption DEF ObserversTyped
  <2>2. /\ UNCHANGED <<calls, stopCalls>>
        /\ sinceCall' = [j \in Job |-> IF sinceCall[j] < MinInterval
                                       THEN sinceCall[j] + 1 ELSE MinInterval]
    BY DEF Tick
  <2> QED BY <2>1, <2>2, <1>1 DEF ObserversTyped
<1> QED BY <1>2, <1>3, <1>4 DEF Tick, Typed, BrowsersTyped, ClientsTyped, SharedTyped, oracle

LEMMA StutterTyped == ASSUME Typed, UNCHANGED vars PROVE Typed'
BY DEF vars, Typed, RowsTyped, WorkersTyped, BrowsersTyped, ClientsTyped,
       SharedTyped, ObserversTyped

LEMMA NextTyped == Typed /\ [Next]_vars => Typed'
<1> SUFFICES ASSUME Typed, [Next]_vars PROVE Typed'
  OBVIOUS
<1>1. CASE \E w \in Worker : WorkerNext(w)
  BY <1>1, ScansTyped, TriesTyped, ConcludesTyped, MishapsTyped DEF WorkerNext
<1>2. CASE \E b \in Browser : BrowserNext(b)
  BY <1>2, BrowserTyped
<1>3. CASE \E c \in Client : ClientNext(c)
  BY <1>3, ClientTyped
<1>4. CASE Tick
  BY <1>4, TickTyped
<1>5. CASE UNCHANGED vars
  BY <1>5, StutterTyped
<1> QED BY <1>1, <1>2, <1>3, <1>4, <1>5 DEF Next

LEMMA AlwaysTyped == Spec => []Typed
BY InitTyped, NextTyped, PTL DEF Spec

\* Every column and every local of every process keeps its domain, whatever
\* the faults, the clients and the number of processes.
THEOREM TypesHold == Spec => []TypeOK
<1>1. Typed => TypeOK
  BY DEF Typed, TypeOK, RowsTyped, WorkersTyped, BrowsersTyped, ClientsTyped,
         SharedTyped, ObserversTyped
<1> QED BY <1>1, AlwaysTyped, PTL

------------------------------------------------------------------------------
(* The free allowance.  FreeCap is not inductive: what a process was admitted  *)
(* for is still free when it asks Oracle only because it holds the tenant lock *)
(* all the while.                                                              *)

\* The attempt that goes on after a lost verdict ("unsaved") is counted in: the
\* theorem's assumption rules it out, so it needs no exception anywhere.
Asking == {"launch", "unsaved"}
Critical == Asking \cup {"quota"}

\* Whoever reads usage or asks Oracle holds the lock of the tenant.
LockHeld ==
    /\ \A w \in Worker : wk[w].pc \in Critical => lock[TenantOf[wk[w].job]] = w
    /\ \A b \in Browser : br[b].pc \in Critical => lock[br[b].tenant] = b

\* What the holder was admitted for still fits.
Room ==
    /\ \A w \in Worker : wk[w].pc \in Asking => used[TenantOf[wk[w].job]] + 1 <= FreeSlots
    /\ \A b \in Browser : br[b].pc = "launch" => used[br[b].tenant] + br[b].left <= FreeSlots

BatchNotEmpty == \A b \in Browser : br[b].pc # "idle" => br[b].left >= 1

Guarded == LockHeld /\ BatchNotEmpty /\ FreeCap /\ (HardCap => Room)

\* The lock mechanism works, and so do the commits of the guard's verdict.
LockWorks == Faults \cap {"nolock", "db"} = {}

LEMMA InitGuarded == Init => Guarded
BY ConstantsAssumption DEF Init, Guarded, LockHeld, BatchNotEmpty, FreeCap, Room,
   Critical, Asking, Sleeping, NotLaunching

\* A worker that stays outside or leaves the critical section disturbs nobody.
LEMMA WorkerOutside ==
    ASSUME Typed, Guarded, NEW w \in Worker, NEW s, Step(w, s), s.pc \notin Critical,
           UNCHANGED <<br, used>>, lock' \in {lock, Released(w)}
    PROVE  Guarded'
<1>1. \A v \in Worker : v # w => wk'[v] = wk[v]
  BY DEF Step, Typed, WorkersTyped
<1>2. wk'[w].pc \notin Critical
  BY DEF Step, Typed, WorkersTyped
<1>3. \A v \in Worker : v # w /\ wk[v].pc \in Critical =>
         lock'[TenantOf[wk[v].job]] = v
  BY ConstantsAssumption DEF Guarded, LockHeld, Released, Critical, Asking, Typed, WorkersTyped, WorkerTyped
<1>4. \A b \in Browser : br[b].pc \in Critical => lock'[br[b].tenant] = b
  BY ConstantsAssumption DEF Guarded, LockHeld, Released, Critical, Asking, Typed, BrowsersTyped
<1>5. LockHeld'
  BY <1>1, <1>2, <1>3, <1>4 DEF LockHeld
<1>6. HardCap => Room'
  BY <1>1, <1>2 DEF Guarded, Room, Critical, Asking
<1> QED BY <1>5, <1>6 DEF Guarded, BatchNotEmpty, FreeCap

LEMMA ScansGuarded ==
    ASSUME Typed, Guarded, NEW w \in Worker, WorkerScans(w)
    PROVE  Guarded'
<1>1. UNCHANGED <<br, used, lock>>
  BY DEF WorkerScans, TickBegin, PassEnds, Claim, ClaimLost, CandidateGone, SkipTenant,
         ConsiderExhausted, ConsiderCooling, ConsiderTooSoon, ConsiderDue, oracle
<1>2. wk[w] \in WorkerState
  BY DEF Typed, WorkersTyped
<1>3. PICK s : Step(w, s) /\ s.pc \notin Critical
  <2>1. CASE TickBegin(w)
    <3>1. \A x, y, z : [Sleeping EXCEPT !.pc = "scan", !.busy = z, !.scan = x,
                                        !.locked = y].pc = "scan"
      BY DEF Sleeping
    <3>2. \E x, y, z : Step(w, [Sleeping EXCEPT !.pc = "scan", !.busy = z, !.scan = x,
                                                !.locked = y])
      BY <2>1 DEF TickBegin
    <3> QED BY <3>1, <3>2 DEF Critical, Asking
  <2>2. CASE PassEnds(w)
    BY <2>2, <1>2, OverTyped DEF PassEnds, Critical, Asking
  <2>3. CASE Claim(w)
    <3>1. \A x, y, a, c, l : [wk[w] EXCEPT !.pc = "prep", !.locked = x, !.busy = y,
                                 !.attempts = a, !.created = c, !.limits = l].pc = "prep"
      BY <1>2 DEF WorkerState
    <3>2. \E x, y, a, c, l :
             Step(w, [wk[w] EXCEPT !.pc = "prep", !.locked = x, !.busy = y,
                        !.attempts = a, !.created = c, !.limits = l])
      BY <2>3 DEF Claim
    <3> QED BY <3>1, <3>2 DEF Critical, Asking
  <2>4. CASE ClaimLost(w)
    BY <2>4, <1>2, NextCandidateTyped DEF ClaimLost, Critical, Asking
  <2>5. ASSUME NEW j \in Job,
               \/ CandidateGone(w, j) \/ SkipTenant(w, j) \/ ConsiderExhausted(w, j)
               \/ ConsiderCooling(w, j) \/ ConsiderTooSoon(w, j) \/ ConsiderDue(w, j)
        PROVE  \E s : Step(w, s) /\ s.pc \notin Critical
    <3>1. wk[w].pc = "scan"
      BY <2>5 DEF CandidateGone, SkipTenant, ConsiderExhausted, ConsiderCooling,
            ConsiderTooSoon, ConsiderDue, Candidate
    <3>2. \/ Drop(w, j) \/ Step(w, Wedged(wk[w]))
          \/ Step(w, [wk[w] EXCEPT !.pc = "claim", !.job = j])
      BY <2>5 DEF CandidateGone, SkipTenant, ConsiderExhausted, ConsiderCooling,
            ConsiderTooSoon, ConsiderDue
    <3>3. /\ [wk[w] EXCEPT !.scan = @ \ {j}].pc \notin Critical
          /\ [wk[w] EXCEPT !.pc = "claim", !.job = j].pc \notin Critical
          /\ Wedged(wk[w]).pc \notin Critical
      BY <3>1, <1>2, OverTyped DEF Critical, Asking, WorkerState
    <3> QED BY <3>2, <3>3 DEF Drop
  <2> QED BY <2>1, <2>2, <2>3, <2>4, <2>5 DEF WorkerScans
<1> QED BY <1>1, <1>3, WorkerOutside

\* The ends of an attempt are outside the critical section.
LEMMA EndsOutside ==
    ASSUME Typed, NEW w \in Worker, NEW r,
           Settle(w, r) \/ CommitThenNotify(w, r)
    PROVE  \E s : Step(w, s) /\ s.pc \notin Critical
<1>1. wk[w] \in WorkerState
  BY DEF Typed, WorkersTyped
<1>2. /\ NextCandidate(wk[w]).pc \notin Critical
      /\ Abort(wk[w]).pc \notin Critical
      /\ Wedged(wk[w]).pc \notin Critical
      /\ [wk[w] EXCEPT !.pc = "notify"].pc \notin Critical
  BY <1>1, NextCandidateTyped, OverTyped DEF Critical, Asking, WorkerState
<1> QED BY <1>2 DEF Settle, CommitThenNotify

LEMMA ConcludesGuarded ==
    ASSUME Typed, Guarded, NEW w \in Worker, WorkerConcludes(w)
    PROVE  Guarded'
<1>1. UNCHANGED <<br, used, lock>>
  BY DEF WorkerConcludes, JudgeSuccess, CommitSuccess, StoppedDuringAttempt, RateLimited,
         TryAgain, AttemptsUsedUp, PermanentFail, Release, Recover, FailedOnDeleted,
         SessionLost, oracle
<1>2. wk[w] \in WorkerState
  BY DEF Typed, WorkersTyped
<1>3. PICK s : Step(w, s) /\ s.pc \notin Critical
  <2>1. CASE JudgeSuccess(w)
    <3>1. \A c, v : [wk[w] EXCEPT !.pc = "commit", !.created = c, !.said = v].pc = "commit"
      BY <1>2 DEF WorkerState
    <3>2. \E c, v : Step(w, [wk[w] EXCEPT !.pc = "commit", !.created = c, !.said = v])
      BY <2>1 DEF JudgeSuccess
    <3> QED BY <3>1, <3>2 DEF Critical, Asking
  <2>2. CASE Release(w) \/ Recover(w)
    BY <2>2, <1>2, NextCandidateTyped, OverTyped DEF Release, Recover, Critical, Asking
  <2>3. CASE \/ CommitSuccess(w) \/ StoppedDuringAttempt(w) \/ RateLimited(w)
             \/ TryAgain(w) \/ AttemptsUsedUp(w) \/ PermanentFail(w)
    BY <2>3, EndsOutside DEF CommitSuccess, StoppedDuringAttempt, RateLimited, TryAgain,
       AttemptsUsedUp, PermanentFail
  <2>4. CASE FailedOnDeleted(w) \/ SessionLost(w)
    <3>1. [wk[w] EXCEPT !.pc = "recover"].pc = "recover"
      BY <1>2 DEF WorkerState
    <3> QED BY <2>4, <3>1, <1>2, OverTyped DEF FailedOnDeleted, SessionLost, Critical, Asking
  <2> QED BY <2>1, <2>2, <2>3, <2>4 DEF WorkerConcludes
<1> QED BY <1>1, <1>3, WorkerOutside

LEMMA MishapsGuarded ==
    ASSUME LockWorks, Typed, Guarded, NEW w \in Worker, WorkerMishaps(w)
    PROVE  Guarded'
<1>1. UNCHANGED <<br, used>> /\ lock' \in {lock, Released(w)}
  BY DEF WorkerMishaps, TenantGone, PasswordLost, PrepRaises, LockBroken,
         QuotaUnreadable, QuotaBlockLost, CommitFails, FlushFails, WorkerCrash, oracle
<1>2. wk[w] \in WorkerState
  BY DEF Typed, WorkersTyped
<1>3. /\ ~LockBroken(w) /\ ~QuotaBlockLost(w)
      /\ ~CommitFails(w) /\ ~FlushFails(w)
  BY DEF LockWorks, LockBroken, QuotaBlockLost, CommitFails, FlushFails
<1>4. PICK s : Step(w, s) /\ s.pc \notin Critical
  <2>1. CASE TenantGone(w) \/ PasswordLost(w) \/ QuotaUnreadable(w)
    BY <2>1, EndsOutside DEF TenantGone, PasswordLost, QuotaUnreadable
  <2>2. CASE PrepRaises(w)
    BY <2>2, <1>2 DEF PrepRaises, Critical, Asking, WorkerState
  <2>3. CASE WorkerCrash(w)
    BY <2>3 DEF WorkerCrash, Critical, Asking, Sleeping
  <2> QED BY <1>3, <2>1, <2>2, <2>3 DEF WorkerMishaps
<1> QED BY <1>1, <1>4, WorkerOutside

LEMMA TriesGuarded ==
    ASSUME Typed, Guarded, NEW w \in Worker, WorkerTries(w)
    PROVE  Guarded'
<1> DEFINE s == wk[w]
           t == TenantOf[wk[w].job]
<1>1. wk[w] \in WorkerState /\ UNCHANGED br
  BY DEF Typed, WorkersTyped, WorkerTries, PrepDone, WorkerLocks, LockBusy, QuotaAdmits,
         QuotaBlocks, Launch
<1>2. CASE PrepDone(w)
  <2>1. [s EXCEPT !.pc = "lock"].pc \notin Critical
    BY <1>1 DEF WorkerState, Critical, Asking
  <2> QED BY <1>2, <2>1, WorkerOutside DEF PrepDone, oracle
<1>3. CASE LockBusy(w) \/ QuotaBlocks(w)
  <2>1. UNCHANGED used /\ lock' \in {lock, Released(w)}
    BY <1>3 DEF LockBusy, QuotaBlocks, oracle
  <2>2. PICK s1 : Step(w, s1) /\ s1.pc \notin Critical
    BY <1>3, EndsOutside DEF LockBusy, QuotaBlocks
  <2> QED BY <1>1, <2>1, <2>2, WorkerOutside
<1>4. CASE WorkerLocks(w)
  <2>1. t \in Tenant
    BY <1>4, ConstantsAssumption DEF Typed, WorkersTyped, WorkerTyped, WorkerLocks
  <2>2. /\ lock[t] = NoOne /\ lock' = [lock EXCEPT ![t] = w] /\ UNCHANGED used
        /\ wk' = [wk EXCEPT ![w] = [wk[w] EXCEPT !.pc = "quota"]]
    BY <1>4 DEF WorkerLocks, Step, oracle
  <2>3. /\ \A v \in Worker : v # w => wk'[v] = wk[v]
        /\ wk'[w].pc = "quota" /\ wk'[w].job = wk[w].job
    BY <2>2, <1>1 DEF Typed, WorkersTyped, WorkerState
  <2>4. LockHeld'
    BY <1>1, <2>1, <2>2, <2>3, ConstantsAssumption
       DEF Guarded, LockHeld, Typed, SharedTyped
  <2>5. HardCap => Room'
    BY <1>1, <2>2, <2>3 DEF Guarded, Room, Asking
  <2> QED BY <1>1, <2>2, <2>4, <2>5 DEF Guarded, BatchNotEmpty, FreeCap
<1>5. CASE QuotaAdmits(w)
  <2>1. UNCHANGED <<used, lock>> /\ Admits(t, 1) /\ wk[w].pc = "quota"
    BY <1>5 DEF QuotaAdmits, oracle
  <2>2. /\ \A v \in Worker : v # w => wk'[v] = wk[v]
        /\ wk'[w].pc = "launch" /\ wk'[w].job = wk[w].job
    BY <1>5, <1>1 DEF QuotaAdmits, Step, Typed, WorkersTyped, WorkerState
  <2>3. LockHeld'
    BY <1>1, <2>1, <2>2 DEF Guarded, LockHeld, Critical, Asking
  <2>4. HardCap => Room'
    BY <1>1, <2>1, <2>2 DEF Guarded, Room, Asking, Admits
  <2> QED BY <1>1, <2>1, <2>3, <2>4 DEF Guarded, BatchNotEmpty, FreeCap
<1>6. ASSUME NEW reply \in Reply, NEW lost \in BOOLEAN, Launch(w, reply, lost)
      PROVE  Guarded'
  <2>1. t \in Tenant /\ lock[t] = w
    BY <1>6, ConstantsAssumption
       DEF Typed, WorkersTyped, WorkerTyped, Launch, Guarded, LockHeld, Critical, Asking
  <2>2. /\ lock' = Released(w)
        /\ used' \in {used, [used EXCEPT ![t] = @ + 1]}
        /\ \E p \in {"judge", "lost"} :
              wk' = [wk EXCEPT ![w] = [wk[w] EXCEPT !.pc = p, !.said = reply]]
        /\ wk[w].pc \in Asking
    BY <1>6 DEF Launch, Step, Asking
  <2>3. /\ \A v \in Worker : v # w => wk'[v] = wk[v]
        /\ wk'[w].pc \in {"judge", "lost"}
    BY <2>2, <1>1 DEF Typed, WorkersTyped, WorkerState
  <2>4. LockHeld'
    <3>1. \A v \in Worker : v # w /\ wk[v].pc \in Critical =>
             lock'[TenantOf[wk[v].job]] = v
      BY <2>2, ConstantsAssumption
         DEF Guarded, LockHeld, Released, Critical, Asking, Typed, WorkersTyped, WorkerTyped
    <3>2. \A b \in Browser : br[b].pc \in Critical => lock'[br[b].tenant] = b
      BY <2>2, ConstantsAssumption
         DEF Guarded, LockHeld, Released, Critical, Asking, Typed, BrowsersTyped
    <3> QED BY <1>1, <2>3, <3>1, <3>2 DEF LockHeld, Critical, Asking
  <2>5. FreeCap'
    BY <2>1, <2>2 DEF Guarded, Room, Asking, FreeCap, Typed, SharedTyped
  <2>6. HardCap => Room'
    \* the machine is made on t, and nobody else is at work on t
    <3>1. \A v \in Worker : v # w /\ wk[v].pc \in Asking => TenantOf[wk[v].job] # t
      BY <2>1 DEF Guarded, LockHeld, Critical, Asking
    <3>2. \A b \in Browser : br[b].pc = "launch" => br[b].tenant # t
      BY <2>1, ConstantsAssumption DEF Guarded, LockHeld, Critical, Asking
    <3>3. \A u \in Tenant : u # t => used'[u] = used[u]
      BY <2>2 DEF Typed, SharedTyped
    <3>4. /\ \A v \in Worker : wk[v].pc \in Asking => TenantOf[wk[v].job] \in Tenant
          /\ \A b \in Browser : br[b].pc = "launch" => br[b].tenant \in Tenant
      BY ConstantsAssumption DEF Asking, Typed, WorkersTyped, WorkerTyped, BrowsersTyped
    <3> QED BY <1>1, <2>3, <3>1, <3>2, <3>3, <3>4 DEF Guarded, Room, Asking
  <2> QED BY <1>1, <2>4, <2>5, <2>6 DEF Guarded, BatchNotEmpty
<1> QED BY <1>2, <1>3, <1>4, <1>5, <1>6 DEF WorkerTries

\* A browser that leaves the critical section disturbs nobody.
LEMMA BrowserOutside ==
    ASSUME Typed, Guarded, NEW b \in Browser, BrStep(b, NotLaunching),
           UNCHANGED wk, FreeCap', HardCap => Room', lock' \in {lock, Released(b)}
    PROVE  Guarded'
<1>1. /\ \A c \in Browser : c # b => br'[c] = br[c]
      /\ br'[b] = NotLaunching
  BY DEF BrStep, Typed, BrowsersTyped
<1>2. \A v \in Worker : wk[v].pc \in Critical => lock'[TenantOf[wk[v].job]] = v
  BY ConstantsAssumption
     DEF Guarded, LockHeld, Released, Critical, Asking, Typed, WorkersTyped, WorkerTyped
<1>3. \A c \in Browser : c # b /\ br[c].pc \in Critical => lock'[br[c].tenant] = c
  BY ConstantsAssumption DEF Guarded, LockHeld, Released, Critical, Asking, Typed, BrowsersTyped
<1>4. LockHeld'
  BY <1>1, <1>2, <1>3 DEF LockHeld, Critical, Asking, NotLaunching
<1>5. BatchNotEmpty'
  BY <1>1 DEF Guarded, BatchNotEmpty, NotLaunching
<1> QED BY <1>4, <1>5 DEF Guarded

\* What a browser launch makes, it makes on a tenant nobody else is at work on.
LEMMA BrowserAlone ==
    ASSUME Typed, Guarded, NEW b \in Browser, br[b].pc = "launch"
    PROVE  /\ br[b].tenant \in Tenant
           /\ \A v \in Worker : wk[v].pc \in Critical => TenantOf[wk[v].job] # br[b].tenant
           /\ \A c \in Browser : c # b /\ br[c].pc \in Critical
                                 => br[c].tenant # br[b].tenant
<1>1. br[b].tenant \in Tenant /\ lock[br[b].tenant] = b
  BY DEF Typed, BrowsersTyped, Guarded, LockHeld, Critical, Asking
<1> QED BY <1>1, ConstantsAssumption DEF Guarded, LockHeld

LEMMA BrowserGuarded ==
    ASSUME Typed, Guarded, NEW b \in Browser, BrowserNext(b)
    PROVE  Guarded'
<1> DEFINE s == br[b]
           t == br[b].tenant
<1>1. s \in BrowserState /\ UNCHANGED wk
  BY DEF Typed, BrowsersTyped, BrowserNext, BrowserAsks, BrowserLocks, BrowserBusy,
         BrowserAdmitted, BrowserRefused, BrowserCreates, BrowserFails, BrowserCrash
<1>2. ASSUME NEW u \in Tenant, NEW n \in 1..MaxBatch, BrowserAsks(b, u, n)
      PROVE  Guarded'
  <2>1. /\ br' = [br EXCEPT ![b] = [pc |-> "lock", tenant |-> u, left |-> n]]
        /\ UNCHANGED <<lock, used>>
    BY <1>2 DEF BrowserAsks, BrStep, oracle
  <2>2. /\ \A c \in Browser : c # b => br'[c] = br[c]
        /\ br'[b].pc = "lock" /\ br'[b].left = n
    BY <2>1 DEF Typed, BrowsersTyped
  <2>3. LockHeld' /\ BatchNotEmpty'
    BY <1>1, <2>1, <2>2 DEF Guarded, LockHeld, BatchNotEmpty, Critical, Asking
  <2>4. FreeCap' /\ (HardCap => Room')
    BY <1>1, <2>1, <2>2 DEF Guarded, FreeCap, Room
  <2> QED BY <2>3, <2>4 DEF Guarded
<1>3. CASE BrowserLocks(b)
  <2>1. t \in Tenant /\ lock[t] = NoOne
    BY <1>3 DEF BrowserLocks, Typed, BrowsersTyped
  <2>2. /\ lock' = [lock EXCEPT ![t] = b] /\ UNCHANGED used
        /\ br' = [br EXCEPT ![b] = [br[b] EXCEPT !.pc = "quota"]] /\ br[b].pc = "lock"
    BY <1>3 DEF BrowserLocks, BrStep, oracle
  <2>3. /\ \A c \in Browser : c # b => br'[c] = br[c]
        /\ br'[b].pc = "quota" /\ br'[b].tenant = t /\ br'[b].left = br[b].left
    BY <2>2, <1>1 DEF Typed, BrowsersTyped, BrowserState
  <2>4. LockHeld'
    BY <1>1, <2>1, <2>2, <2>3, ConstantsAssumption DEF Guarded, LockHeld, Typed, SharedTyped
  <2>5. BatchNotEmpty'
    BY <2>2, <2>3 DEF Guarded, BatchNotEmpty
  <2>6. FreeCap' /\ (HardCap => Room')
    BY <1>1, <2>2, <2>3 DEF Guarded, FreeCap, Room
  <2> QED BY <2>4, <2>5, <2>6 DEF Guarded
<1>4. CASE BrowserBusy(b) \/ BrowserRefused(b) \/ BrowserCrash(b)
  <2>1. BrStep(b, NotLaunching) /\ UNCHANGED used /\ lock' \in {lock, Released(b)}
    BY <1>4 DEF BrowserBusy, BrowserRefused, BrowserCrash, oracle
  <2>2. \A c \in Browser : br'[c] = br[c] \/ br'[c] = NotLaunching
    BY <2>1 DEF BrStep, Typed, BrowsersTyped
  <2>3. FreeCap' /\ (HardCap => Room')
    BY <1>1, <2>1, <2>2 DEF Guarded, FreeCap, Room, NotLaunching
  <2> QED BY <1>1, <2>1, <2>3, BrowserOutside
<1>5. CASE BrowserAdmitted(b)
  <2>1. /\ br' = [br EXCEPT ![b] = [br[b] EXCEPT !.pc = "launch"]] /\ br[b].pc = "quota"
        /\ UNCHANGED <<lock, used>> /\ Admits(t, br[b].left)
    BY <1>5 DEF BrowserAdmitted, BrStep, oracle
  <2>2. /\ \A c \in Browser : c # b => br'[c] = br[c]
        /\ br'[b].pc = "launch" /\ br'[b].tenant = t /\ br'[b].left = br[b].left
    BY <2>1, <1>1 DEF Typed, BrowsersTyped, BrowserState
  <2>3. LockHeld' /\ BatchNotEmpty'
    BY <1>1, <2>1, <2>2 DEF Guarded, LockHeld, BatchNotEmpty, Critical, Asking
  <2>4. FreeCap' /\ (HardCap => Room')
    BY <1>1, <2>1, <2>2 DEF Guarded, FreeCap, Room, Admits
  <2> QED BY <2>3, <2>4 DEF Guarded
<1>6. CASE BrowserCreates(b) /\ s.left > 1
  <2>1. /\ br[b].pc = "launch" /\ UNCHANGED lock
        /\ used' = [used EXCEPT ![t] = @ + 1]
        /\ br' = [br EXCEPT ![b] = [br[b] EXCEPT !.left = @ - 1]]
    BY <1>6 DEF BrowserCreates, BrStep
  <2>2. /\ \A c \in Browser : c # b => br'[c] = br[c]
        /\ br'[b].pc = "launch" /\ br'[b].tenant = t /\ br'[b].left = br[b].left - 1
        /\ br[b].left - 1 >= 1
    BY <2>1, <1>1, <1>6 DEF Typed, BrowsersTyped, BrowserState
  <2>3. LockHeld' /\ BatchNotEmpty'
    BY <1>1, <2>1, <2>2 DEF Guarded, LockHeld, BatchNotEmpty, Critical, Asking
  <2>4. t \in Tenant /\ br[b].left \in Nat /\ used[t] \in Nat
    BY <2>1, <1>1, BrowserAlone DEF Typed, SharedTyped, BrowserState
  <2>5. used'[t] = used[t] + 1 /\ \A u \in Tenant : u # t => used'[u] = used[u]
    BY <2>1, <2>4 DEF Typed, SharedTyped
  <2>6. HardCap => used[t] + br[b].left <= FreeSlots
    BY <2>1 DEF Guarded, Room, Asking
  <2>7. FreeCap'
    BY <2>2, <2>4, <2>5, <2>6, ConstantsAssumption DEF Guarded, FreeCap
  <2>8. ASSUME HardCap PROVE Room'
    <3>1. \A w \in Worker : wk[w].pc \in Asking => used'[TenantOf[wk[w].job]] + 1 <= FreeSlots
      BY <2>8, <2>1, <2>5, BrowserAlone, ConstantsAssumption
         DEF Guarded, Room, Critical, Asking, Typed, WorkersTyped, WorkerTyped
    <3>2. \A c \in Browser : c # b /\ br[c].pc = "launch"
                             => used'[br[c].tenant] + br[c].left <= FreeSlots
      BY <2>8, <2>1, <2>5, BrowserAlone DEF Guarded, Room, Critical, Asking, Typed, BrowsersTyped
    <3>3. used'[t] + (br[b].left - 1) <= FreeSlots
      BY <2>8, <2>4, <2>5, <2>6, ConstantsAssumption
    <3> QED BY <1>1, <2>2, <3>1, <3>2, <3>3 DEF Room
  <2> QED BY <2>3, <2>7, <2>8 DEF Guarded
<1>7. CASE \/ BrowserCreates(b) /\ ~(s.left > 1)
           \/ \E lost \in BOOLEAN : BrowserFails(b, lost)
  <2>1. /\ br[b].pc = "launch" /\ lock' = Released(b) /\ BrStep(b, NotLaunching)
        /\ used' \in {used, [used EXCEPT ![t] = @ + 1]}
    BY <1>7 DEF BrowserCreates, BrowserFails
  <2>2. t \in Tenant /\ br[b].left >= 1 /\ br[b].left \in Nat /\ used[t] \in Nat
    BY <2>1, <1>1, BrowserAlone
       DEF Guarded, BatchNotEmpty, Typed, SharedTyped, BrowserState
  <2>3. used'[t] <= used[t] + 1 /\ \A u \in Tenant : u # t => used'[u] = used[u]
    BY <2>1, <2>2 DEF Typed, SharedTyped
  <2>4. used'[t] \in Nat
    BY <2>1, <2>2 DEF Typed, SharedTyped
  <2>5. FreeCap'
    BY <2>1, <2>2, <2>3, <2>4, ConstantsAssumption DEF Guarded, Room, FreeCap
  <2>6. \A c \in Browser : br'[c] = IF c = b THEN NotLaunching ELSE br[c]
    BY <2>1 DEF BrStep, Typed, BrowsersTyped
  <2>7. ASSUME HardCap PROVE Room'
    <3>1. \A w \in Worker : wk[w].pc \in Asking => used'[TenantOf[wk[w].job]] + 1 <= FreeSlots
      BY <2>7, <2>1, <2>3, BrowserAlone, ConstantsAssumption
         DEF Guarded, Room, Critical, Asking, Typed, WorkersTyped, WorkerTyped
    <3>2. \A c \in Browser : c # b /\ br[c].pc = "launch"
                             => used'[br[c].tenant] + br[c].left <= FreeSlots
      BY <2>7, <2>1, <2>3, BrowserAlone DEF Guarded, Room, Critical, Asking, Typed, BrowsersTyped
    <3> QED BY <1>1, <2>6, <3>1, <3>2 DEF Room, NotLaunching
  <2> QED BY <1>1, <2>1, <2>5, <2>7, BrowserOutside
<1> QED BY <1>2, <1>3, <1>4, <1>5, <1>6, <1>7 DEF BrowserNext

\* Clients and time touch neither a lock nor a machine.
LEMMA ElsewhereGuarded ==
    ASSUME Guarded, UNCHANGED <<br, used, lock>>,
           \A w \in Worker : wk'[w].pc = wk[w].pc /\ wk'[w].job = wk[w].job
    PROVE  Guarded'
BY DEF Guarded, LockHeld, BatchNotEmpty, FreeCap, Room

LEMMA ClientGuarded ==
    ASSUME Guarded, NEW c \in Client, ClientNext(c)
    PROVE  Guarded'
<1>1. UNCHANGED <<wk, br, used, lock>>
  BY DEF ClientNext, ReadToCreate, ReadToStop, ReadToResume, ReadToDelete, Request,
         CommitCreate, CommitStop, CommitResume, CommitDelete, Answered, oracle
<1> QED BY <1>1, ElsewhereGuarded

LEMMA TickGuarded ==
    ASSUME Typed, Guarded, Tick
    PROVE  Guarded'
<1>1. UNCHANGED <<br, used, lock>>
  BY DEF Tick, oracle
<1>2. \A w \in Worker : wk'[w].pc = wk[w].pc /\ wk'[w].job = wk[w].job
  <2> SUFFICES ASSUME NEW w \in Worker
               PROVE  wk'[w].pc = wk[w].pc /\ wk'[w].job = wk[w].job
    OBVIOUS
  <2>1. wk[w] \in WorkerState
    BY DEF Typed, WorkersTyped
  <2> DEFINE Aged(a, l) == [wk[w] EXCEPT !.tickLag = a, !.tryLag = l]
  <2>2. \A a, l : Aged(a, l).pc = wk[w].pc /\ Aged(a, l).job = wk[w].job
    BY <2>1 DEF WorkerState
  <2>3. \/ wk'[w] = wk[w]
        \/ \E a, l : wk'[w] = Aged(a, l)
    BY DEF Tick
  <2> HIDE DEF Aged
  <2> QED BY <2>2, <2>3
<1> QED BY <1>1, <1>2, ElsewhereGuarded

LEMMA NextGuarded == LockWorks /\ Typed /\ Guarded /\ [Next]_vars => Guarded'
<1> SUFFICES ASSUME LockWorks, Typed, Guarded, [Next]_vars PROVE Guarded'
  OBVIOUS
<1>1. CASE \E w \in Worker : WorkerNext(w)
  BY <1>1, ScansGuarded, TriesGuarded, ConcludesGuarded, MishapsGuarded DEF WorkerNext
<1>2. CASE \E b \in Browser : BrowserNext(b)
  BY <1>2, BrowserGuarded
<1>3. CASE \E c \in Client : ClientNext(c)
  BY <1>3, ClientGuarded
<1>4. CASE Tick
  BY <1>4, TickGuarded
<1>5. CASE UNCHANGED vars
  BY <1>5, ElsewhereGuarded DEF vars, oracle
<1> QED BY <1>1, <1>2, <1>3, <1>4, <1>5 DEF Next

\* While the tenant lock works and the verdicts of the guard are committed, no
\* interleaving of workers, browser launches, requests, crashes and lost
\* answers makes more machines than the free allowance admits.
THEOREM FreeCapHolds == LockWorks => (Spec => []FreeCap)
<1>1. Init => Guarded
  BY InitGuarded
<1>2. LockWorks => (Typed /\ Guarded /\ [Next]_vars => Guarded')
  BY NextGuarded
<1>3. Guarded => FreeCap
  BY DEF Guarded
<1>4. ASSUME LockWorks PROVE Spec => []FreeCap
  <2>1. Typed /\ Guarded /\ [Next]_vars => Guarded'
    BY <1>2, <1>4
  <2> QED BY <1>1, <2>1, <1>3, AlwaysTyped, PTL DEF Spec
<1> QED BY <1>4

------------------------------------------------------------------------------
(* What a job is promised: its attempts, its stop, its cooldown, its lease, its *)
(* machines and the time between two of its calls.  Every proof rests on the    *)
(* same account of what a step may do, which comes first.                       *)

(* The hypotheses of the theorems *)

\* One worker process, as both installers deploy it
OneWorker == \A v, w \in Worker : v = w

\* Nobody resumes a job
NoResume == "resume" \notin ClientOps

\* Requests of two users that are under way at once would need no resume among them.
OneClient == \A c, d \in Client : c = d
RequestsApart == NoResume \/ OneClient

\* Nothing is lost with a process, an answer or a commit.
Calm == Faults \cap {"crash", "lost", "db"} = {}

------------------------------------------------------------------------------
(* Fields of the records the worker builds *)

LEMMA NextFields ==
    ASSUME NEW s \in WorkerState
    PROVE  /\ NextCandidate(s).pc = "scan" /\ NextCandidate(s).scan = s.scan \ {s.job}
           /\ Abort(s).pc = "poll" /\ Abort(s).scan = {}
           /\ Wedged(s).pc = "poll" /\ Wedged(s).scan = {}
           /\ Sleeping.pc = "poll" /\ Sleeping.scan = {}
BY DEF NextCandidate, Abort, Wedged, Sleeping

LEMMA StepFields ==
    ASSUME Typed, NEW w \in Worker, NEW s, Step(w, s)
    PROVE  wk'[w] = s /\ \A v \in Worker \ {w} : wk'[v] = wk[v]
BY DEF Typed, WorkersTyped, Step

LEMMA WriteFields ==
    ASSUME Typed, NEW j \in Job, NEW r, Write(j, r)
    PROVE  row'[j] = r /\ \A k \in Job \ {j} : row'[k] = row[k]
BY DEF Typed, RowsTyped, Write

LEMMA UnleasedFields ==
    ASSUME NEW r \in Row
    PROVE  LET u == Unleased(r) IN
           /\ u.status = r.status /\ u.enabled = r.enabled /\ u.attempts = r.attempts
           /\ u.created_count = r.created_count /\ u.next_run_at = r.next_run_at
           /\ u.cooldown_until = r.cooldown_until /\ u.locked_by = NoOne
BY DEF Unleased, Row

LEMMA CountedFields ==
    ASSUME NEW r \in Row, NEW s
    PROVE  LET u == Counted(s, r) IN
           /\ u.status = r.status /\ u.enabled = r.enabled /\ u.attempts = s.attempts
           /\ u.created_count = r.created_count /\ u.next_run_at = r.next_run_at
           /\ u.locked_by = r.locked_by /\ u.locked_until = r.locked_until
BY DEF Counted, Row

------------------------------------------------------------------------------
(* What a step of the worker may do.  A process is engaged in a job from its   *)
(* claim to the last commit of the attempt, and early in it up to the call.    *)

Engaged == {"prep", "lock", "quota", "launch", "unsaved", "judge", "commit",
            "notify", "recover", "lost"}
Early == {"prep", "lock", "quota", "launch", "unsaved"}
AtWork(w) == wk[w].pc \in Engaged

\* No call goes out, no machine is made, no request is served.
Quiet ==
    /\ UNCHANGED <<cl, made, calls, sinceCall, stopCalls>>
    /\ failures' = failures \/ (failures' = failures + 1 /\ ~Calm)

Alone(w) == \A v \in Worker \ {w} : wk'[v] = wk[v]
Elsewhere(j) == \A k \in Job \ {j} : row'[k] = row[k]

\* The pass begins: leases that ran out are freed.
Surveys(w) ==
    /\ Quiet /\ Alone(w) /\ wk[w].pc = "poll" /\ wk'[w].pc = "scan"
    /\ wk'[w].scan = {j \in Job : Due(row[j])}
    /\ \A j \in Job : \/ row'[j] = row[j]
                      \/ row[j].locked_until < 0 /\ row'[j] = Unleased(row[j])

\* The job is left as it is, for good or for this pass.
StepsBack(w) ==
    /\ Quiet /\ Alone(w) /\ UNCHANGED row
    /\ wk'[w].pc \in {"poll", "scan"} /\ wk'[w].scan \subseteq wk[w].scan
    /\ wk[w].pc # "scan" => wk[w].job \notin wk'[w].scan
    /\ AtWork(w) /\ Live(row[wk[w].job]) => wk[w].pc = "lost" \/ failures' = failures + 1

\* A candidate that is not due after all is put off or closed.
SetsAside(w, j) ==
    /\ Quiet /\ Alone(w) /\ Elsewhere(j) /\ failures' = failures
    /\ wk[w].pc = "scan" /\ wk'[w].pc = "scan" /\ wk'[w].scan \subseteq wk[w].scan
    /\ j \in wk[w].scan /\ Live(row[j]) /\ Live(row'[j])
    /\ row'[j].enabled => row[j].enabled /\ row'[j].status = row[j].status
    /\ row'[j].attempts = row[j].attempts /\ row'[j].created_count = row[j].created_count
    /\ row'[j].locked_by = row[j].locked_by /\ row'[j].locked_until = row[j].locked_until

\* A candidate is due.
Picks(w, j) ==
    /\ Quiet /\ Alone(w) /\ UNCHANGED row /\ failures' = failures
    /\ wk[w].pc = "scan" /\ wk'[w].pc = "claim" /\ wk'[w].job = j /\ wk'[w].scan = wk[w].scan
    /\ j \in wk[w].scan /\ Live(row[j])
    /\ row[j].attempts < MaxAttempts /\ row[j].cooldown_until <= 0

\* The conditional UPDATE takes the lease.
Claims(w) ==
    LET j == wk[w].job IN
    /\ Quiet /\ Alone(w) /\ Elsewhere(j) /\ failures' = failures
    /\ wk[w].pc = "claim" /\ wk'[w].pc = "prep"
    /\ wk'[w].job = j /\ wk'[w].scan = wk[w].scan
    /\ wk'[w].attempts = row[j].attempts /\ wk'[w].created = row[j].created_count
    /\ Claimable(row[j])
    /\ row'[j].status = "running" /\ row'[j].enabled
    /\ row'[j].attempts = row[j].attempts /\ row'[j].created_count = row[j].created_count
    /\ row'[j].next_run_at = row[j].next_run_at
    /\ row'[j].cooldown_until = row[j].cooldown_until
    /\ row'[j].locked_by = w /\ row'[j].locked_until = Lease

SameAttempt(w) ==
    /\ wk'[w].job = wk[w].job /\ wk'[w].scan = wk[w].scan
    /\ wk'[w].tryLag = wk[w].tryLag

\* The attempt goes on.
Advances(w) ==
    /\ Quiet /\ Alone(w) /\ UNCHANGED row /\ SameAttempt(w)
    /\ wk'[w].created = wk[w].created
    /\ \/ /\ wk[w].pc = "prep" /\ wk'[w].pc \in {"lock", "recover"}
          /\ wk'[w].attempts = wk[w].attempts
       \/ /\ wk[w].pc = "lock" /\ wk'[w].pc = "quota"
          /\ wk'[w].attempts = wk[w].attempts
       \/ /\ wk[w].pc = "quota" /\ wk'[w].pc = "launch"
          /\ wk'[w].attempts = wk[w].attempts + 1
       \/ /\ wk[w].pc = "quota" /\ wk'[w].pc = "unsaved" /\ failures' = failures + 1
          /\ wk'[w].attempts = wk[w].attempts + 1
       \/ /\ wk[w].pc \in {"judge", "commit"} /\ wk'[w].pc = "recover"
          /\ failures' = failures + 1
       \/ wk[w].pc = "lost" /\ wk'[w].pc = "recover"

\* LaunchInstance is called and answers.
CallsOut(w) ==
    LET j == wk[w].job IN
    /\ UNCHANGED <<row, cl, failures>> /\ Alone(w) /\ SameAttempt(w)
    /\ wk'[w].created = wk[w].created /\ wk'[w].attempts = wk[w].attempts
    /\ \/ wk[w].pc = "launch" /\ wk'[w].pc = "judge"
       \/ wk[w].pc = "unsaved" /\ wk'[w].pc = "lost"
    /\ calls' = [calls EXCEPT ![j] = @ + 1]
    /\ sinceCall' = [sinceCall EXCEPT ![j] = 0]
    /\ stopCalls' = [stopCalls EXCEPT ![j] = IF @ >= 0 THEN @ + 1 ELSE @]
    /\ \/ made' = made
       \/ /\ made' = made \cup {Token(j, wk[w].attempts)}
          /\ wk'[w].said = "ok" \/ ~Calm

\* The machine is counted in memory.
CountsMachine(w) ==
    /\ Quiet /\ Alone(w) /\ UNCHANGED row /\ SameAttempt(w) /\ failures' = failures
    /\ wk[w].pc = "judge" /\ wk[w].said = "ok" /\ wk'[w].pc = "commit"
    /\ wk'[w].attempts = wk[w].attempts /\ wk'[w].created = wk[w].created + 1
    /\ wk'[w].said \in Success
    /\ wk'[w].said = "finished" <=> wk[w].created + 1 >= Target

\* The last commit of an attempt: the lease goes and the pass goes on.
Settles(w) ==
    LET j == wk[w].job IN
    /\ Quiet /\ Alone(w) /\ Elsewhere(j) /\ failures' = failures
    /\ wk[w].pc \in {"prep", "lock", "quota", "judge", "recover", "notify"}
    /\ wk[w].pc = "judge" => wk[w].said # "ok"
    /\ wk'[w].pc = "scan" /\ wk'[w].scan = wk[w].scan \ {j}
    /\ Live(row[j]) /\ Live(row'[j])
    /\ row'[j].locked_by = NoOne /\ row'[j].created_count = row[j].created_count
    /\ row'[j].attempts = IF wk[w].pc = "judge" THEN wk[w].attempts
                          ELSE IF wk[w].pc = "recover" THEN row[j].attempts + 1
                          ELSE row[j].attempts
    /\ wk[w].pc = "prep" => ~row'[j].enabled
    /\ row'[j].enabled =>
          /\ row[j].enabled
          /\ IF wk[w].pc = "notify"
             THEN row'[j].status = row[j].status /\ row'[j].next_run_at = row[j].next_run_at
             ELSE row'[j].status = "idle"
          /\ wk[w].pc \in {"judge", "recover"} =>
                \/ row'[j].next_run_at >= Interval
                \/ \E h \in Nat \ {0} : row'[j].next_run_at = Backoff(h)

\* A commit in the middle of an attempt, under the lease, before the push.
Reports(w) ==
    LET j == wk[w].job IN
    /\ Quiet /\ Alone(w) /\ Elsewhere(j) /\ SameAttempt(w) /\ failures' = failures
    /\ wk[w].pc \in {"prep", "quota", "judge", "commit"}
    /\ wk[w].pc = "judge" => wk[w].said # "ok"
    /\ wk'[w].pc = "notify"
    /\ Live(row[j]) /\ Live(row'[j])
    /\ row'[j].locked_by = row[j].locked_by /\ row'[j].locked_until = row[j].locked_until
    /\ row'[j].attempts = IF wk[w].pc = "prep" THEN row[j].attempts
                          ELSE IF wk[w].pc = "quota" THEN wk[w].attempts + 1
                          ELSE wk[w].attempts
    /\ row'[j].created_count = IF wk[w].pc = "commit" THEN wk[w].created
                               ELSE row[j].created_count
    /\ row'[j].enabled =>
          /\ row[j].enabled /\ wk[w].pc = "commit" /\ wk[w].said # "finished"
          /\ row'[j].status = "idle" /\ row'[j].next_run_at >= Interval

WorkerMoves(w) ==
    \/ Surveys(w) \/ StepsBack(w) \/ (\E j \in Job : SetsAside(w, j) \/ Picks(w, j))
    \/ Claims(w) \/ Advances(w) \/ CallsOut(w) \/ CountsMachine(w)
    \/ Settles(w) \/ Reports(w)

LEMMA ScanMoves ==
    ASSUME Typed, NEW w \in Worker, WorkerScans(w)
    PROVE  WorkerMoves(w)
<1> DEFINE s == wk[w]
<1>1. /\ Quiet /\ failures' = failures
      /\ UNCHANGED <<br, cl, lock, oracle, failures, observers>>
  BY DEF WorkerScans, TickBegin, PassEnds, Claim, ClaimLost, CandidateGone, SkipTenant,
         ConsiderExhausted, ConsiderCooling, ConsiderTooSoon, ConsiderDue, Quiet, oracle,
         observers
<1>2. s \in WorkerState /\ (s.pc \notin {"poll", "scan"} => s.job \in Job)
  BY DEF Typed, WorkersTyped, WorkerTyped
<1>3. \A j \in Job : row[j] \in Row
  BY DEF Typed, RowsTyped
<1>4. CASE TickBegin(w)
  <2> DEFINE due == {j \in Job : Due(row[j])}
  <2>1. PICK y, z : Step(w, [Sleeping EXCEPT !.pc = "scan", !.busy = z, !.scan = due,
                                             !.locked = y])
    BY <1>4 DEF TickBegin
  <2> HIDE DEF due
  <2>2. LET n == [Sleeping EXCEPT !.pc = "scan", !.busy = z, !.scan = due, !.locked = y]
        IN  n.pc = "scan" /\ n.scan = due
    BY DEF Sleeping
  <2>3. Alone(w) /\ wk'[w].pc = "scan" /\ wk'[w].scan = due
    BY <2>1, <2>2, StepFields DEF Alone
  <2>4. \A j \in Job : \/ row'[j] = row[j]
                       \/ row[j].locked_until < 0 /\ row'[j] = Unleased(row[j])
    BY <1>4 DEF TickBegin
  <2> QED BY <1>1, <1>4, <2>3, <2>4 DEF TickBegin, Surveys, WorkerMoves, due
<1>5. CASE PassEnds(w)
  <2>1. UNCHANGED row /\ Step(w, Wedged(s)) /\ s.pc = "scan"
    BY <1>5 DEF PassEnds
  <2> QED BY <1>1, <1>2, <2>1, StepFields, NextFields
          DEF StepsBack, WorkerMoves, Alone, AtWork, Engaged
<1>6. CASE Claim(w)
  <2> DEFINE j == s.job
             r == row[j]
             n == [s EXCEPT !.pc = "prep", !.locked = @ \cup {TenantOf[j]},
                     !.busy = @ \cup {TenantOf[j]}, !.attempts = r.attempts,
                     !.created = r.created_count, !.limits = r.rate_limits]
             m == [r EXCEPT !.locked_by = w, !.locked_until = Lease, !.status = "running"]
  <2>1. s.pc = "claim" /\ Claimable(r) /\ Write(j, m) /\ Step(w, n) /\ j \in Job
    BY <1>2, <1>6 DEF Claim
  <2>2. /\ n.pc = "prep" /\ n.job = j /\ n.scan = s.scan
        /\ n.attempts = r.attempts /\ n.created = r.created_count
    BY <1>2 DEF WorkerState
  <2>3. /\ m.status = "running" /\ m.enabled = r.enabled /\ m.attempts = r.attempts
        /\ m.created_count = r.created_count /\ m.next_run_at = r.next_run_at
        /\ m.cooldown_until = r.cooldown_until /\ m.locked_by = w /\ m.locked_until = Lease
    BY <1>3, <2>1 DEF Row
  <2>4. r.enabled
    BY <2>1 DEF Claimable, Active
  <2> HIDE DEF n, m
  <2>5. wk'[w] = n /\ Alone(w) /\ row'[j] = m /\ Elsewhere(j)
    BY <2>1, StepFields, WriteFields DEF Alone, Elsewhere
  <2> QED BY <1>1, <2>1, <2>2, <2>3, <2>4, <2>5 DEF Claims, WorkerMoves
<1>7. CASE ClaimLost(w)
  <2>1. UNCHANGED row /\ Step(w, NextCandidate(s)) /\ s.pc = "claim"
    BY <1>7 DEF ClaimLost
  <2> QED BY <1>1, <1>2, <2>1, StepFields, NextFields
          DEF StepsBack, WorkerMoves, Alone, AtWork, Engaged
<1>8. ASSUME NEW j \in Job,
             \/ CandidateGone(w, j) \/ SkipTenant(w, j) \/ ConsiderExhausted(w, j)
             \/ ConsiderCooling(w, j) \/ ConsiderTooSoon(w, j) \/ ConsiderDue(w, j)
      PROVE  WorkerMoves(w)
  <2>1. s.pc = "scan" /\ j \in s.scan
    BY <1>8 DEF CandidateGone, SkipTenant, ConsiderExhausted, ConsiderCooling,
          ConsiderTooSoon, ConsiderDue, Candidate
  <2>2. /\ [s EXCEPT !.scan = @ \ {j}].pc = "scan"
        /\ [s EXCEPT !.scan = @ \ {j}].scan \subseteq s.scan
        /\ [s EXCEPT !.pc = "claim", !.job = j].pc = "claim"
        /\ [s EXCEPT !.pc = "claim", !.job = j].job = j
        /\ [s EXCEPT !.pc = "claim", !.job = j].scan = s.scan
    BY <1>2, <2>1 DEF WorkerState
  <2>3. Drop(w, j) => Alone(w) /\ wk'[w].pc = "scan" /\ wk'[w].scan \subseteq s.scan
    BY <2>2, StepFields DEF Drop, Alone
  <2>4. CASE CandidateGone(w, j) \/ SkipTenant(w, j) \/ ConsiderCooling(w, j)
    <3>1. UNCHANGED row /\ (Drop(w, j) \/ Step(w, Wedged(s)))
      BY <2>4 DEF CandidateGone, SkipTenant, ConsiderCooling
    <3>2. Alone(w) /\ wk'[w].pc \in {"poll", "scan"} /\ wk'[w].scan \subseteq s.scan
      BY <1>2, <2>3, <3>1, StepFields, NextFields DEF Alone
    <3> QED BY <1>1, <2>1, <3>1, <3>2 DEF StepsBack, WorkerMoves, AtWork, Engaged
  <2>5. CASE ConsiderExhausted(w, j) \/ ConsiderTooSoon(w, j)
    <3> DEFINE m == [row[j] EXCEPT !.enabled = FALSE, !.status = "failed"]
               n == [row[j] EXCEPT !.next_run_at = row[j].floor_at]
    <3>1. (Write(j, m) \/ Write(j, n)) /\ Drop(w, j) /\ Live(row[j])
      BY <2>5 DEF ConsiderExhausted, ConsiderTooSoon, Candidate
    <3>2. /\ ~m.enabled /\ m.status = "failed" /\ m.attempts = row[j].attempts
          /\ m.created_count = row[j].created_count /\ m.locked_by = row[j].locked_by
          /\ m.locked_until = row[j].locked_until
      BY <1>3 DEF Row
    <3>3. /\ n.enabled = row[j].enabled /\ n.status = row[j].status
          /\ n.attempts = row[j].attempts
          /\ n.created_count = row[j].created_count /\ n.locked_by = row[j].locked_by
          /\ n.locked_until = row[j].locked_until
      BY <1>3 DEF Row
    <3> HIDE DEF m, n
    <3>4. row'[j] \in {m, n} /\ Elsewhere(j)
      BY <3>1, WriteFields DEF Elsewhere
    <3>5. SetsAside(w, j)
      BY <1>1, <2>1, <2>3, <3>1, <3>2, <3>3, <3>4 DEF SetsAside, Live
    <3> QED BY <3>5 DEF WorkerMoves
  <2>6. CASE ConsiderDue(w, j)
    <3>1. /\ UNCHANGED row /\ Step(w, [s EXCEPT !.pc = "claim", !.job = j])
          /\ Live(row[j]) /\ ~Exhausted(row[j].attempts) /\ ~Cooling(s, row[j])
      BY <2>6 DEF ConsiderDue, Candidate
    <3>2. /\ row[j].attempts \in Nat /\ row[j].cooldown_until \in Int
          /\ s.tickLag \in Nat
      BY <1>2, <1>3 DEF Row, Timer, WorkerState
    <3>3. row[j].attempts < MaxAttempts /\ row[j].cooldown_until <= 0
      BY <3>1, <3>2, ConstantsAssumption DEF Exhausted, Cooling
    <3>4. Picks(w, j)
      BY <1>1, <2>1, <2>2, <3>1, <3>3, StepFields DEF Picks, Alone
    <3> QED BY <3>4 DEF WorkerMoves
  <2> QED BY <1>8, <2>4, <2>5, <2>6
<1> QED BY <1>4, <1>5, <1>6, <1>7, <1>8 DEF WorkerScans

\* What a pass that is over leaves: the rows as they are
LEMMA OverMoves ==
    ASSUME Typed, NEW w \in Worker, Quiet, UNCHANGED row,
           \/ Step(w, Abort(wk[w])) \/ Step(w, Wedged(wk[w])) \/ Step(w, Sleeping)
           \/ Step(w, NextCandidate(wk[w])),
           AtWork(w) /\ Live(row[wk[w].job]) => wk[w].pc = "lost" \/ failures' = failures + 1,
           wk[w].pc # "poll"
    PROVE  WorkerMoves(w)
<1>1. wk[w] \in WorkerState
  BY DEF Typed, WorkersTyped
<1>2. /\ Alone(w) /\ wk'[w].pc \in {"poll", "scan"}
      /\ wk'[w].scan \subseteq wk[w].scan /\ wk[w].job \notin wk'[w].scan
  BY <1>1, StepFields, NextFields DEF Alone
<1> QED BY <1>2 DEF StepsBack, WorkerMoves

\* The last commit of an attempt writes r without its lease, ...
LEMMA SettleFields ==
    ASSUME Typed, NEW w \in Worker, NEW r \in Row, wk[w].job \in Job, Settle(w, r),
           Live(row[wk[w].job])
    PROVE  LET j == wk[w].job IN
           /\ Alone(w) /\ Elsewhere(j) /\ wk'[w].pc = "scan" /\ wk'[w].scan = wk[w].scan \ {j}
           /\ row'[j].status = r.status /\ row'[j].enabled = r.enabled
           /\ row'[j].attempts = r.attempts /\ row'[j].created_count = r.created_count
           /\ row'[j].next_run_at = r.next_run_at /\ row'[j].locked_by = NoOne
<1>1. wk[w] \in WorkerState
  BY DEF Typed, WorkersTyped
<1>2. Write(wk[w].job, Unleased(r)) /\ Step(w, NextCandidate(wk[w]))
  BY DEF Settle
<1>3. row'[wk[w].job] = Unleased(r) /\ Elsewhere(wk[w].job)
  BY <1>2, WriteFields DEF Elsewhere
<1>4. /\ Alone(w) /\ wk'[w].pc = "scan" /\ wk'[w].scan = wk[w].scan \ {wk[w].job}
  BY <1>1, <1>2, StepFields, NextFields DEF Alone
<1> QED BY <1>3, <1>4, UnleasedFields

\* ... and one in its middle writes r and goes on to notify.
LEMMA ReportFields ==
    ASSUME Typed, NEW w \in Worker, NEW r \in Row, wk[w].job \in Job, CommitThenNotify(w, r),
           Live(row[wk[w].job])
    PROVE  LET j == wk[w].job IN
           /\ Alone(w) /\ Elsewhere(j) /\ SameAttempt(w) /\ wk'[w].pc = "notify"
           /\ row'[j] = r
<1>1. wk[w] \in WorkerState
  BY DEF Typed, WorkersTyped
<1>2. Write(wk[w].job, r) /\ Step(w, [wk[w] EXCEPT !.pc = "notify"])
  BY DEF CommitThenNotify
<1>3. row'[wk[w].job] = r /\ Elsewhere(wk[w].job)
  BY <1>2, WriteFields DEF Elsewhere
<1>4. wk'[w] = [wk[w] EXCEPT !.pc = "notify"] /\ Alone(w)
  BY <1>2, StepFields DEF Alone
<1>5. wk'[w].pc = "notify" /\ SameAttempt(w)
  BY <1>1, <1>4 DEF WorkerState, SameAttempt
<1> QED BY <1>3, <1>4, <1>5

\* With the row gone either commit ends the pass.
LEMMA NoRowMoves ==
    ASSUME Typed, NEW w \in Worker, NEW r, Quiet, AtWork(w), ~Live(row[wk[w].job]),
           Settle(w, r) \/ CommitThenNotify(w, r)
    PROVE  WorkerMoves(w)
<1>1. UNCHANGED row /\ (Step(w, Abort(wk[w])) \/ Step(w, Wedged(wk[w])))
  BY DEF Settle, CommitThenNotify
<1> QED BY <1>1, OverMoves DEF AtWork, Engaged

LEMMA DeferredFields ==
    ASSUME NEW r \in Row, NEW s
    PROVE  LET u == Deferred(s, r) IN
           /\ u.status = "idle" /\ u.enabled = r.enabled /\ u.attempts = r.attempts
           /\ u.created_count = r.created_count
BY DEF Deferred, Row

LEMMA TryMoves ==
    ASSUME Typed, NEW w \in Worker, WorkerTries(w)
    PROVE  WorkerMoves(w)
<1> DEFINE s == wk[w]
           r == row[s.job]
<1>1. s \in WorkerState /\ UNCHANGED cl /\ failures' = failures
  BY DEF Typed, WorkersTyped, WorkerTries, PrepDone, WorkerLocks, LockBusy, QuotaAdmits,
         QuotaBlocks, Launch
<1>2. s.job \in Job /\ r \in Row
  BY DEF WorkerTries, PrepDone, WorkerLocks, LockBusy, QuotaAdmits, QuotaBlocks, Launch,
         Typed, WorkersTyped, WorkerTyped, RowsTyped
<1>3. CASE PrepDone(w)
  <2>1. /\ Quiet /\ UNCHANGED row /\ s.pc = "prep" /\ Step(w, [s EXCEPT !.pc = "lock"])
    BY <1>3 DEF PrepDone, Quiet, oracle, observers
  <2> QED BY <1>1, <2>1, StepFields DEF WorkerState, Advances, WorkerMoves, SameAttempt, Alone
<1>4. CASE WorkerLocks(w)
  <2>1. /\ Quiet /\ UNCHANGED row /\ s.pc = "lock" /\ Step(w, [s EXCEPT !.pc = "quota"])
    BY <1>4 DEF WorkerLocks, Quiet, oracle, observers
  <2> QED BY <1>1, <2>1, StepFields DEF WorkerState, Advances, WorkerMoves, SameAttempt, Alone
<1>5. CASE LockBusy(w)
  <2>1. Quiet /\ s.pc = "lock" /\ Settle(w, Deferred(s, r))
    BY <1>5 DEF LockBusy, Quiet, oracle, observers
  <2>2. CASE Live(r)
    BY <1>1, <1>2, <2>1, <2>2, DeferredTyped, SettleFields, DeferredFields
       DEF Settles, WorkerMoves, Live
  <2> QED BY <2>1, <2>2, NoRowMoves DEF AtWork, Engaged
<1>6. CASE QuotaAdmits(w)
  <2>1. /\ Quiet /\ UNCHANGED row /\ s.pc = "quota"
        /\ Step(w, [s EXCEPT !.pc = "launch", !.attempts = @ + 1])
    BY <1>6 DEF QuotaAdmits, Quiet, oracle, observers
  <2>2. wk'[w] = [s EXCEPT !.pc = "launch", !.attempts = @ + 1] /\ Alone(w)
    BY <2>1, StepFields DEF Alone
  <2>3. /\ wk'[w].pc = "launch" /\ wk'[w].attempts = s.attempts + 1
        /\ SameAttempt(w) /\ wk'[w].created = s.created
    BY <1>1, <2>2 DEF WorkerState, SameAttempt
  <2>4. Advances(w)
    BY <2>1, <2>2, <2>3 DEF Advances
  <2> QED BY <2>4 DEF WorkerMoves
<1>7. CASE QuotaBlocks(w)
  <2> DEFINE s1 == [s EXCEPT !.attempts = @ + 1]
             m == [Counted(s1, r) EXCEPT !.enabled = FALSE, !.status = "failed",
                                         !.next_run_at = Past]
  <2>1. Quiet /\ s.pc = "quota" /\ CommitThenNotify(w, m)
    BY <1>7, <1>1 DEF QuotaBlocks, Quiet, oracle, observers, WorkerState
  <2>2. s1 \in WorkerState /\ s1.attempts = s.attempts + 1
    BY <1>1 DEF WorkerState
  <2>3. Counted(s1, r) \in Row /\ m \in Row
    BY <1>2, <2>2, CountedTyped, FailedRowTyped
  <2>4. /\ ~m.enabled /\ m.status = "failed" /\ m.attempts = s.attempts + 1
        /\ m.created_count = r.created_count /\ m.locked_by = r.locked_by
        /\ m.locked_until = r.locked_until
    BY <1>2, <2>2, <2>3, CountedFields DEF Row
  <2> HIDE DEF m
  <2>5. CASE Live(r)
    BY <1>1, <1>2, <2>1, <2>3, <2>4, <2>5, ReportFields DEF Reports, WorkerMoves, Live
  <2> QED BY <2>1, <2>5, NoRowMoves DEF AtWork, Engaged
<1>8. ASSUME NEW reply \in Reply, NEW lost \in BOOLEAN, Launch(w, reply, lost)
      PROVE  WorkerMoves(w)
  <2> DEFINE n == [s EXCEPT !.pc = IF @ = "launch" THEN "judge" ELSE "lost", !.said = reply]
  <2>1. /\ s.pc \in {"launch", "unsaved"} /\ UNCHANGED <<row, cl, failures>> /\ Step(w, n)
        /\ calls' = [calls EXCEPT ![s.job] = @ + 1]
        /\ sinceCall' = [sinceCall EXCEPT ![s.job] = 0]
        /\ stopCalls' = [stopCalls EXCEPT ![s.job] = IF @ >= 0 THEN @ + 1 ELSE @]
    BY <1>8 DEF Launch
  <2>2. \/ made' = made
        \/ made' = made \cup {Token(s.job, s.attempts)} /\ (reply = "ok" \/ ~Calm)
    BY <1>8 DEF Launch, Calm
  <2>3. /\ n.job = s.job /\ n.scan = s.scan /\ n.tryLag = s.tryLag
        /\ n.created = s.created /\ n.attempts = s.attempts /\ n.said = reply
        /\ n.pc = IF s.pc = "launch" THEN "judge" ELSE "lost"
    BY <1>1 DEF WorkerState
  <2> HIDE DEF n
  <2>4. wk'[w] = n /\ Alone(w)
    BY <2>1, StepFields DEF Alone
  <2> QED BY <2>1, <2>2, <2>3, <2>4 DEF CallsOut, WorkerMoves, SameAttempt
<1> QED BY <1>3, <1>4, <1>5, <1>6, <1>7, <1>8 DEF WorkerTries

\* What every row of a failed attempt keeps
Failing(u, s, r) ==
    /\ u \in Row /\ Live(u) /\ u.attempts = s.attempts /\ u.created_count = r.created_count
    /\ u.locked_by = r.locked_by /\ u.locked_until = r.locked_until

LEMMA AfterErrorFields ==
    ASSUME NEW r \in Row, NEW s \in WorkerState
    PROVE  LET a == AfterError(s, r) IN
           /\ a \in Row /\ a.enabled = r.enabled /\ a.attempts = s.attempts
           /\ a.created_count = r.created_count
           /\ a.locked_by = r.locked_by /\ a.locked_until = r.locked_until
<1> DEFINE c == Counted(s, r)
<1>1. c \in Row
  BY CountedTyped
<1>2. /\ c.enabled = r.enabled /\ c.attempts = s.attempts
      /\ c.created_count = r.created_count
      /\ c.locked_by = r.locked_by /\ c.locked_until = r.locked_until
  BY CountedFields
<1> HIDE DEF c
<1> QED BY <1>1, <1>2, PastIsTimer DEF AfterError, Row, c

LEMMA StoppedFields ==
    ASSUME NEW r \in Row, NEW s \in WorkerState
    PROVE  LET u == [Counted(s, r) EXCEPT !.enabled = FALSE, !.status = "stopped",
                                          !.next_run_at = Past]
           IN  Failing(u, s, r) /\ ~u.enabled
<1> DEFINE c == Counted(s, r)
<1>1. c \in Row
  BY CountedTyped
<1>2. /\ c.attempts = s.attempts /\ c.created_count = r.created_count
      /\ c.locked_by = r.locked_by /\ c.locked_until = r.locked_until
  BY CountedFields
<1> HIDE DEF c
<1> QED BY <1>1, <1>2, PastIsTimer DEF Failing, Row, Status, Live, c

LimitedRow(s, r, h, n) ==
    [Counted(s, r) EXCEPT !.rate_limits = h, !.status = "idle", !.cooldown_until = n,
                          !.next_run_at = n]
AgainRow(s, r, n) == [AfterError(s, r) EXCEPT !.status = "idle", !.next_run_at = n]
FailedRow(s, r, n) ==
    [AfterError(s, r) EXCEPT !.status = "failed", !.enabled = FALSE, !.next_run_at = n]

LEMMA LimitedFields ==
    ASSUME NEW r \in Row, NEW s \in WorkerState, NEW h \in Nat, NEW n \in Timer
    PROVE  LET u == LimitedRow(s, r, h, n)
           IN  /\ Failing(u, s, r)
               /\ u.enabled = r.enabled /\ u.status = "idle" /\ u.next_run_at = n
<1> DEFINE c == Counted(s, r)
<1>1. c \in Row
  BY CountedTyped
<1>2. /\ c.enabled = r.enabled /\ c.attempts = s.attempts
      /\ c.created_count = r.created_count
      /\ c.locked_by = r.locked_by /\ c.locked_until = r.locked_until
  BY CountedFields
<1>3. LimitedRow(s, r, h, n) = [c EXCEPT !.rate_limits = h, !.status = "idle",
                                         !.cooldown_until = n, !.next_run_at = n]
  BY DEF LimitedRow
<1> HIDE DEF c
<1> QED BY <1>1, <1>2, <1>3 DEF Failing, Row, Status, Live

LEMMA AgainFields ==
    ASSUME NEW r \in Row, NEW s \in WorkerState, NEW n \in Timer
    PROVE  LET u == AgainRow(s, r, n)
           IN  /\ Failing(u, s, r)
               /\ u.enabled = r.enabled /\ u.status = "idle" /\ u.next_run_at = n
<1> DEFINE a == AfterError(s, r)
<1>1. /\ a \in Row /\ a.enabled = r.enabled /\ a.attempts = s.attempts
      /\ a.created_count = r.created_count
      /\ a.locked_by = r.locked_by /\ a.locked_until = r.locked_until
  BY AfterErrorFields
<1>2. AgainRow(s, r, n) = [a EXCEPT !.status = "idle", !.next_run_at = n]
  BY DEF AgainRow
<1> HIDE DEF a
<1> QED BY <1>1, <1>2 DEF Failing, Row, Status, Live

LEMMA FailedFields ==
    ASSUME NEW r \in Row, NEW s \in WorkerState, NEW n \in Timer
    PROVE  Failing(FailedRow(s, r, n), s, r) /\ ~FailedRow(s, r, n).enabled
<1> DEFINE a == AfterError(s, r)
<1>1. /\ a \in Row /\ a.attempts = s.attempts /\ a.created_count = r.created_count
      /\ a.locked_by = r.locked_by /\ a.locked_until = r.locked_until
  BY AfterErrorFields
<1>2. FailedRow(s, r, n) = [a EXCEPT !.status = "failed", !.enabled = FALSE,
                                     !.next_run_at = n]
  BY DEF FailedRow
<1> HIDE DEF a
<1> QED BY <1>1, <1>2 DEF Failing, Row, Status, Live

\* The row a successful attempt reports
LEMMA SuccessFields ==
    ASSUME NEW r \in Row, NEW s \in WorkerState
    PROVE  LET u == AfterSuccess(s, r) IN
           /\ u \in Row /\ Live(u) /\ u.attempts = s.attempts /\ u.created_count = s.created
           /\ u.locked_by = r.locked_by /\ u.locked_until = r.locked_until
           /\ u.enabled => /\ r.enabled /\ s.said # "finished"
                           /\ u.status = "idle" /\ u.next_run_at = Interval
<1> DEFINE c0 == Counted(s, r)
           c == [c0 EXCEPT !.created_count = s.created, !.rate_limits = 0,
                           !.cooldown_until = Past]
           finished == [c EXCEPT !.status = "success", !.enabled = FALSE, !.next_run_at = Past]
           stopped == [c EXCEPT !.status = "stopped", !.enabled = FALSE, !.next_run_at = Past]
           more == [c EXCEPT !.status = "idle", !.next_run_at = Interval]
           Kept(u) == /\ Live(u) /\ u.attempts = s.attempts /\ u.created_count = s.created
                      /\ u.locked_by = r.locked_by /\ u.locked_until = r.locked_until
<1>1. c0 \in Row
  BY CountedTyped
<1>2. /\ c0.enabled = r.enabled /\ c0.attempts = s.attempts
      /\ c0.locked_by = r.locked_by /\ c0.locked_until = r.locked_until
  BY CountedFields
<1> HIDE DEF c0
<1>3. /\ c \in Row /\ c.enabled = r.enabled /\ c.attempts = s.attempts
      /\ c.created_count = s.created
      /\ c.locked_by = r.locked_by /\ c.locked_until = r.locked_until
  BY <1>1, <1>2, PastIsTimer DEF Row, WorkerState
<1> HIDE DEF c
<1>4. Kept(finished) /\ ~finished.enabled /\ Kept(stopped) /\ ~stopped.enabled
  BY <1>3, PastIsTimer DEF Row, Status, Live
<1>5. Kept(more) /\ more.enabled = r.enabled /\ more.status = "idle"
      /\ more.next_run_at = Interval
  BY <1>3, ConstantsAssumption, NaturalTimer DEF Row, Status, Live
<1>6. AfterSuccess(s, r) = IF s.said = "finished" THEN finished
                           ELSE IF s.said = "stopped" THEN stopped ELSE more
  BY DEF AfterSuccess, c, c0
<1> HIDE DEF finished, stopped, more
<1> QED BY <1>4, <1>5, <1>6, AfterSuccessTyped

LEMMA ConcludeMoves ==
    ASSUME Typed, NEW w \in Worker, WorkerConcludes(w)
    PROVE  WorkerMoves(w)
<1> DEFINE s == wk[w]
           r == row[s.job]
<1>1. /\ s \in WorkerState /\ s.attempts \in Nat /\ s.limits \in Nat
      /\ Quiet /\ failures' = failures
  BY DEF Typed, WorkersTyped, WorkerState, WorkerConcludes, JudgeSuccess, CommitSuccess,
         StoppedDuringAttempt, RateLimited, TryAgain, AttemptsUsedUp, PermanentFail,
         FailedOnDeleted, Release, Recover, SessionLost, Quiet, oracle, observers
<1>2. s.job \in Job /\ r \in Row
  BY DEF WorkerConcludes, JudgeSuccess, CommitSuccess, StoppedDuringAttempt, RateLimited,
         TryAgain, AttemptsUsedUp, PermanentFail, FailedOnDeleted, Release, Recover,
         SessionLost, Failed, Typed, WorkersTyped, WorkerTyped, RowsTyped
<1>3. CASE JudgeSuccess(w)
  <2> DEFINE said == IF s.created + 1 >= Target THEN "finished"
                     ELSE IF StoppedMeanwhile(r) THEN "stopped" ELSE "more"
             n == [s EXCEPT !.pc = "commit", !.created = @ + 1, !.said = said]
  <2>1. s.pc = "judge" /\ s.said = "ok" /\ UNCHANGED row /\ Step(w, n)
    BY <1>3 DEF JudgeSuccess
  <2>2. said \in Success /\ (said = "finished" <=> s.created + 1 >= Target)
    BY DEF Success
  <2> HIDE DEF said
  <2>3. /\ n.pc = "commit" /\ n.created = s.created + 1 /\ n.said = said /\ n.job = s.job
        /\ n.scan = s.scan /\ n.tryLag = s.tryLag /\ n.attempts = s.attempts
    BY <1>1 DEF WorkerState
  <2> HIDE DEF n
  <2>4. wk'[w] = n /\ Alone(w)
    BY <2>1, StepFields DEF Alone
  <2>5. CountsMachine(w)
    BY <1>1, <2>1, <2>2, <2>3, <2>4 DEF CountsMachine, SameAttempt
  <2> QED BY <2>5 DEF WorkerMoves
<1>4. CASE CommitSuccess(w)
  <2>1. s.pc = "commit" /\ CommitThenNotify(w, AfterSuccess(s, r))
    BY <1>4 DEF CommitSuccess
  <2>2. CASE Live(r)
    <3>1. AfterSuccess(s, r) \in Row
      BY <1>1, <1>2, AfterSuccessTyped
    <3>2. Alone(w) /\ Elsewhere(s.job) /\ SameAttempt(w) /\ wk'[w].pc = "notify"
          /\ row'[s.job] = AfterSuccess(s, r)
      BY <1>2, <2>1, <2>2, <3>1, ReportFields
    <3>3. Reports(w)
      BY <1>1, <1>2, <2>1, <2>2, <3>2, SuccessFields, ConstantsAssumption DEF Reports
    <3> QED BY <3>3 DEF WorkerMoves
  <2> QED BY <1>1, <2>1, <2>2, NoRowMoves DEF AtWork, Engaged
<1>5. CASE StoppedDuringAttempt(w)
  <2> DEFINE m == [Counted(s, r) EXCEPT !.enabled = FALSE, !.status = "stopped",
                                        !.next_run_at = Past]
  <2>1. s.pc = "judge" /\ s.said # "ok" /\ Live(r) /\ Settle(w, m)
    BY <1>5 DEF StoppedDuringAttempt, Failed
  <2>2. Failing(m, s, r) /\ ~m.enabled
    BY <1>1, <1>2, StoppedFields
  <2> HIDE DEF m
  <2>3. Settles(w)
    BY <1>1, <1>2, <2>1, <2>2, SettleFields DEF Settles, Live, Failing
  <2> QED BY <2>3 DEF WorkerMoves
<1>6. CASE RateLimited(w)
  <2> DEFINE h == s.limits + 1
             m == LimitedRow(s, r, h, Backoff(h))
  <2>1. s.pc = "judge" /\ s.said # "ok" /\ Live(r) /\ Settle(w, m)
    BY <1>6 DEF RateLimited, Failed, LimitedRow
  <2>2. h \in Nat \ {0} /\ Backoff(h) \in Timer
    BY <1>1, BackoffTimer
  <2>3. /\ Failing(m, s, r)
        /\ m.enabled = r.enabled /\ m.status = "idle" /\ m.next_run_at = Backoff(h)
    <3> HIDE DEF h
    <3> QED BY <1>1, <1>2, <2>2, LimitedFields
  <2> HIDE DEF m, h
  <2>4. Settles(w)
    BY <1>1, <1>2, <2>1, <2>2, <2>3, SettleFields DEF Settles, Live, Failing
  <2> QED BY <2>4 DEF WorkerMoves
<1>7. CASE TryAgain(w)
  <2>1. PICK n \in RetryDelays : Settle(w, AgainRow(s, r, n))
    BY <1>7 DEF TryAgain, AgainRow
  <2>2. s.pc = "judge" /\ s.said # "ok" /\ Live(r)
    BY <1>7 DEF TryAgain, Failed
  <2>3. n \in Timer /\ n >= Interval
    BY ConstantsAssumption, NaturalTimer DEF RetryDelays
  <2> DEFINE m == AgainRow(s, r, n)
  <2>4. /\ Failing(m, s, r)
        /\ m.enabled = r.enabled /\ m.status = "idle" /\ m.next_run_at = n
    BY <1>1, <1>2, <2>3, AgainFields
  <2>5. Settle(w, m)
    BY <2>1
  <2> HIDE DEF m
  <2>6. Settles(w)
    BY <1>1, <1>2, <2>2, <2>3, <2>4, <2>5, SettleFields DEF Settles, Live, Failing
  <2> QED BY <2>6 DEF WorkerMoves
<1>8. CASE AttemptsUsedUp(w) \/ PermanentFail(w)
  <2>1. s.pc = "judge" /\ s.said # "ok" /\ Live(r)
    BY <1>8 DEF AttemptsUsedUp, PermanentFail, Failed
  <2>2. PICK n \in RetryDelays \cup {Past} : CommitThenNotify(w, FailedRow(s, r, n))
    BY <1>8 DEF AttemptsUsedUp, PermanentFail, FailedRow
  <2>3. n \in Timer
    BY ConstantsAssumption, NaturalTimer, PastIsTimer DEF RetryDelays
  <2> DEFINE m == FailedRow(s, r, n)
  <2>4. Failing(m, s, r) /\ ~m.enabled
    BY <1>1, <1>2, <2>3, FailedFields
  <2>5. CommitThenNotify(w, m)
    BY <2>2
  <2> HIDE DEF m
  <2>6. Reports(w)
    BY <1>1, <1>2, <2>1, <2>4, <2>5, ReportFields DEF Reports, Failing
  <2> QED BY <2>6 DEF WorkerMoves
<1>9. CASE FailedOnDeleted(w)
  <2>1. UNCHANGED row /\ Step(w, Wedged(s)) /\ ~Live(r) /\ s.pc = "judge"
    BY <1>9 DEF FailedOnDeleted
  <2> QED BY <1>1, <2>1, OverMoves
<1>10. CASE Release(w)
  <2>1. s.pc = "notify"
    BY <1>10 DEF Release
  <2>2. CASE Live(r)
    <3>1. Settle(w, r)
      BY <1>10, <2>2 DEF Release, Settle
    <3>2. Settles(w)
      BY <1>1, <1>2, <2>1, <2>2, <3>1, SettleFields DEF Settles, Live
    <3> QED BY <3>2 DEF WorkerMoves
  <2>3. CASE ~Live(r)
    <3>1. UNCHANGED row /\ (Step(w, Abort(s)) \/ Step(w, Wedged(s)))
      BY <1>10, <2>3 DEF Release
    <3> QED BY <1>1, <2>1, <2>3, <3>1, OverMoves
  <2> QED BY <2>2, <2>3
<1>11. CASE Recover(w)
  <2> DEFINE u == Unleased(r)
             m == Recovered(r)
  <2>1. s.pc = "recover"
    BY <1>11 DEF Recover
  <2>2. CASE Live(r)
    <3>1. Write(s.job, m) /\ Step(w, NextCandidate(s))
      BY <1>11, <2>2 DEF Recover
    <3>2. u \in Row /\ u.enabled = r.enabled /\ u.attempts = r.attempts
          /\ u.created_count = r.created_count /\ u.locked_by = NoOne
      BY <1>2, UnleasedTyped, UnleasedFields
    <3> HIDE DEF u
    <3>3. /\ m.status = "idle" /\ m.enabled = r.enabled /\ m.attempts = r.attempts + 1
          /\ m.created_count = r.created_count /\ m.locked_by = NoOne
          /\ m.next_run_at = Interval
      BY <3>2 DEF Recovered, Row, u
    <3> HIDE DEF m
    <3>4. row'[s.job] = m /\ Elsewhere(s.job)
      BY <1>2, <3>1, WriteFields DEF Elsewhere
    <3>5. /\ Alone(w) /\ wk'[w].pc = "scan" /\ wk'[w].scan = s.scan \ {s.job}
      BY <1>1, <3>1, StepFields, NextFields DEF Alone
    <3>6. Settles(w)
      BY <1>1, <2>1, <2>2, <3>3, <3>4, <3>5, ConstantsAssumption DEF Settles, Live
    <3> QED BY <3>6 DEF WorkerMoves
  <2>3. CASE ~Live(r)
    <3>1. UNCHANGED row /\ Step(w, Wedged(s))
      BY <1>11, <2>3 DEF Recover
    <3> QED BY <1>1, <2>1, <2>3, <3>1, OverMoves
  <2> QED BY <2>2, <2>3
<1>12. CASE SessionLost(w)
  <2>1. s.pc = "lost" /\ UNCHANGED row
    BY <1>12 DEF SessionLost
  <2>2. CASE Step(w, [s EXCEPT !.pc = "recover"])
    <3>1. wk'[w] = [s EXCEPT !.pc = "recover"] /\ Alone(w)
      BY <2>2, StepFields DEF Alone
    <3>2. wk'[w].pc = "recover" /\ SameAttempt(w) /\ wk'[w].created = s.created
      BY <1>1, <3>1 DEF WorkerState, SameAttempt
    <3>3. Advances(w)
      BY <1>1, <2>1, <3>1, <3>2 DEF Advances
    <3> QED BY <3>3 DEF WorkerMoves
  <2>3. CASE Step(w, Abort(s))
    BY <1>1, <2>1, <2>3, OverMoves
  <2> QED BY <1>12, <2>2, <2>3 DEF SessionLost
<1> QED BY <1>3, <1>4, <1>5, <1>6, <1>7, <1>8, <1>9, <1>10, <1>11, <1>12
        DEF WorkerConcludes

LEMMA MishapMoves ==
    ASSUME Typed, NEW w \in Worker, WorkerMishaps(w)
    PROVE  WorkerMoves(w)
<1> DEFINE s == wk[w]
           r == row[s.job]
<1>1. s \in WorkerState /\ Quiet
  BY DEF Typed, WorkersTyped, WorkerMishaps, TenantGone, PasswordLost, PrepRaises, LockBroken,
         QuotaUnreadable, QuotaBlockLost, CommitFails, FlushFails, WorkerCrash, Quiet, Calm,
         oracle, observers
<1>2. s.pc \notin {"poll", "scan"} => s.job \in Job /\ r \in Row
  BY DEF Typed, WorkersTyped, WorkerTyped, RowsTyped
<1>3. CASE TenantGone(w)
  <2> DEFINE m == [r EXCEPT !.enabled = FALSE, !.status = "failed"]
  <2>1. s.pc = "prep" /\ Settle(w, m) /\ failures' = failures
    BY <1>3 DEF TenantGone
  <2>2. /\ m \in Row /\ ~m.enabled /\ Live(m) /\ m.attempts = r.attempts
        /\ m.created_count = r.created_count
    BY <1>2, <2>1 DEF Row, Status, Live
  <2> HIDE DEF m
  <2>3. CASE Live(r)
    <3>1. Settles(w)
      BY <1>1, <1>2, <2>1, <2>2, <2>3, SettleFields DEF Settles, Live
    <3> QED BY <3>1 DEF WorkerMoves
  <2> QED BY <1>1, <2>1, <2>3, NoRowMoves DEF AtWork, Engaged
<1>4. CASE PasswordLost(w)
  <2> DEFINE m == [r EXCEPT !.enabled = FALSE, !.status = "failed", !.next_run_at = Past]
  <2>1. s.pc = "prep" /\ CommitThenNotify(w, m) /\ failures' = failures
    BY <1>4 DEF PasswordLost
  <2>2. /\ m \in Row /\ ~m.enabled /\ Live(m) /\ m.attempts = r.attempts
        /\ m.created_count = r.created_count /\ m.locked_by = r.locked_by
        /\ m.locked_until = r.locked_until
    BY <1>2, <2>1, PastIsTimer DEF Row, Status, Live
  <2> HIDE DEF m
  <2>3. CASE Live(r)
    <3>1. Reports(w)
      BY <1>1, <1>2, <2>1, <2>2, <2>3, ReportFields DEF Reports
    <3> QED BY <3>1 DEF WorkerMoves
  <2> QED BY <1>1, <2>1, <2>3, NoRowMoves DEF AtWork, Engaged
<1>5. CASE PrepRaises(w) \/ LockBroken(w)
  <2>1. /\ UNCHANGED row
        /\ \/ s.pc = "prep" /\ Step(w, [s EXCEPT !.pc = "recover"])
           \/ s.pc = "lock" /\ Step(w, [s EXCEPT !.pc = "quota"])
    BY <1>5 DEF PrepRaises, LockBroken
  <2>2. /\ SameAttempt(w) /\ wk'[w].created = s.created /\ wk'[w].attempts = s.attempts
        /\ wk'[w].pc = IF s.pc = "prep" THEN "recover" ELSE "quota"
    BY <1>1, <2>1, StepFields DEF WorkerState, SameAttempt
  <2>3. Alone(w)
    BY <2>1, StepFields DEF Alone
  <2>4. Advances(w)
    BY <1>1, <2>1, <2>2, <2>3 DEF Advances
  <2> QED BY <2>4 DEF WorkerMoves
<1>6. CASE QuotaUnreadable(w)
  <2>1. s.pc = "quota" /\ Settle(w, Deferred(s, r)) /\ failures' = failures
    BY <1>6 DEF QuotaUnreadable
  <2>2. CASE Live(r)
    <3>1. Settles(w)
      BY <1>1, <1>2, <2>1, <2>2, DeferredTyped, SettleFields, DeferredFields
         DEF Settles, Live
    <3> QED BY <3>1 DEF WorkerMoves
  <2> QED BY <1>1, <2>1, <2>2, NoRowMoves DEF AtWork, Engaged
<1>7. CASE QuotaBlockLost(w)
  <2>1. /\ UNCHANGED row /\ failures' = failures + 1 /\ s.pc = "quota"
        /\ Step(w, [s EXCEPT !.pc = "unsaved", !.attempts = @ + 1])
    BY <1>7 DEF QuotaBlockLost
  <2>2. wk'[w] = [s EXCEPT !.pc = "unsaved", !.attempts = @ + 1] /\ Alone(w)
    BY <2>1, StepFields DEF Alone
  <2>3. /\ wk'[w].pc = "unsaved" /\ wk'[w].attempts = s.attempts + 1
        /\ SameAttempt(w) /\ wk'[w].created = s.created
    BY <1>1, <2>2 DEF WorkerState, SameAttempt
  <2>4. Advances(w)
    BY <1>1, <2>1, <2>2, <2>3 DEF Advances
  <2> QED BY <2>4 DEF WorkerMoves
<1>8. CASE CommitFails(w)
  <2>1. UNCHANGED row /\ failures' = failures + 1
    BY <1>8 DEF CommitFails
  <2>2. CASE s.pc \in {"commit", "judge"} /\ Step(w, [s EXCEPT !.pc = "recover"])
    <3>1. wk'[w] = [s EXCEPT !.pc = "recover"] /\ Alone(w)
      BY <2>2, StepFields DEF Alone
    <3>2. wk'[w].pc = "recover" /\ SameAttempt(w) /\ wk'[w].created = s.created
      BY <1>1, <3>1 DEF WorkerState, SameAttempt
    <3>3. Advances(w)
      BY <1>1, <2>1, <2>2, <3>1, <3>2 DEF Advances
    <3> QED BY <3>3 DEF WorkerMoves
  <2>3. CASE /\ s.pc \in {"notify", "judge", "recover"}
             /\ Step(w, Abort(s)) \/ Step(w, NextCandidate(s))
    BY <1>1, <2>1, <2>3, OverMoves
  <2> QED BY <1>8, <2>2, <2>3 DEF CommitFails
<1>9. CASE FlushFails(w) \/ WorkerCrash(w)
  <2>1. /\ UNCHANGED row /\ failures' = failures + 1 /\ s.pc # "poll"
        /\ Step(w, Wedged(s)) \/ Step(w, Sleeping)
    BY <1>9 DEF FlushFails, WorkerCrash
  <2> QED BY <1>1, <2>1, OverMoves
<1> QED BY <1>3, <1>4, <1>5, <1>6, <1>7, <1>8, <1>9 DEF WorkerMishaps

LEMMA AllMoves ==
    ASSUME Typed, NEW w \in Worker, WorkerNext(w)
    PROVE  WorkerMoves(w)
BY ScanMoves, TryMoves, ConcludeMoves, MishapMoves DEF WorkerNext

------------------------------------------------------------------------------
(* What a request, a browser launch and time do *)

\* A request reads its row and is under way.
Asks(c, op, j) ==
    /\ UNCHANGED <<row, wk, made, failures, calls, sinceCall, stopCalls>>
    /\ op \in ClientOps /\ cl[c].op = "none"
    /\ cl'[c].op = op /\ cl'[c].job = j /\ cl'[c].read = row[j]
    /\ \A d \in Client \ {c} : cl'[d] = cl[d]
    /\ \/ /\ op = "create" /\ row[j].status = "none" /\ ~Conflict(j)
          /\ \A d \in Client : cl[d].job # j
       \/ op \in {"stop", "delete"} /\ Live(row[j])
       \/ /\ op = "resume" /\ Live(row[j]) /\ row[j].status # "success"
          /\ row[j].attempts < MaxAttempts /\ ~Conflict(j)

\* A request commits and is answered.
Commits(c) ==
    LET j == cl[c].job IN
    /\ UNCHANGED <<wk, made, failures, calls, sinceCall>>
    /\ cl'[c].op = "none" /\ \A d \in Client \ {c} : cl'[d] = cl[d]
    /\ Elsewhere(j)

CommitsCreate(c) ==
    LET j == cl[c].job IN
    /\ Commits(c) /\ cl[c].op = "create" /\ row'[j] = NewRow /\ UNCHANGED stopCalls

\* The row a stop leaves
HasStopped(was, now, r) ==
    /\ r.enabled = Column(was.enabled, FALSE, now.enabled)
    /\ r.status = IF was.status \in {"success", "failed"} THEN now.status
                  ELSE Column(was.status, "stopped", now.status)
    /\ r.attempts = now.attempts /\ r.created_count = now.created_count
    /\ r.next_run_at = now.next_run_at /\ r.cooldown_until = now.cooldown_until

CommitsStop(c) ==
    LET j == cl[c].job IN
    /\ Commits(c) /\ cl[c].op = "stop"
    /\ IF Live(row[j]) THEN HasStopped(cl[c].read, row[j], row'[j]) ELSE UNCHANGED row
    /\ stopCalls' = [stopCalls EXCEPT ![j] = IF @ < 0 THEN 0 ELSE @]

\* The row a resume leaves
HasResumed(was, now, r) ==
    /\ r.enabled = Column(was.enabled, TRUE, now.enabled)
    /\ r.status = Column(was.status, "idle", now.status)
    /\ r.attempts = now.attempts /\ r.created_count = now.created_count
    /\ r.locked_by = now.locked_by /\ r.locked_until = now.locked_until
    /\ r.cooldown_until = now.cooldown_until

CommitsResume(c) ==
    LET j == cl[c].job IN
    /\ Commits(c) /\ cl[c].op = "resume"
    /\ IF Live(row[j]) THEN HasResumed(cl[c].read, row[j], row'[j]) ELSE UNCHANGED row
    /\ stopCalls' = [stopCalls EXCEPT ![j] = -1]

CommitsDelete(c) ==
    LET j == cl[c].job IN
    /\ Commits(c) /\ cl[c].op = "delete" /\ UNCHANGED stopCalls
    /\ IF Live(row[j])
       THEN /\ ~row'[j].enabled /\ row'[j].status = "deleted" /\ row'[j].attempts = 0
            /\ row'[j].cooldown_until = Past
       ELSE UNCHANGED row

ClientMoves(c) ==
    \/ \E op \in {"create", "stop", "resume", "delete"}, j \in Job : Asks(c, op, j)
    \/ CommitsCreate(c) \/ CommitsStop(c) \/ CommitsResume(c) \/ CommitsDelete(c)

LEMMA AnswerMoves ==
    ASSUME Typed, NEW c \in Client, NEW op \in {"create", "stop", "resume", "delete"},
           NEW r, Answered(c, op, r)
    PROVE  /\ cl[c].job \in Job /\ cl[c].op = op /\ Commits(c)
           /\ IF op = "create" \/ Live(row[cl[c].job])
              THEN row'[cl[c].job] = r ELSE UNCHANGED row
<1>1. cl[c].job \in Job /\ cl[c].op = op
  BY DEF Answered, Typed, ClientsTyped
<1>2. /\ UNCHANGED <<wk, made, failures, calls, sinceCall>>
      /\ cl' = [cl EXCEPT ![c] = NoRequest]
  BY DEF Answered, Respond, oracle
<1>3. cl'[c].op = "none" /\ \A d \in Client \ {c} : cl'[d] = cl[d]
  BY <1>2 DEF NoRequest, Typed, ClientsTyped
<1>4. IF op = "create" \/ Live(row[cl[c].job]) THEN Write(cl[c].job, r) ELSE UNCHANGED row
  BY <1>1 DEF Answered
<1> QED BY <1>1, <1>2, <1>3, <1>4, WriteFields DEF Commits, Elsewhere

LEMMA RequestMoves ==
    ASSUME Typed, NEW c \in Client, ClientNext(c)
    PROVE  ClientMoves(c)
<1>1. ASSUME NEW j \in Job,
             \/ ReadToCreate(c, j) \/ ReadToStop(c, j)
             \/ ReadToResume(c, j) \/ ReadToDelete(c, j)
      PROVE  ClientMoves(c)
  <2>1. PICK op \in {"create", "stop", "resume", "delete"} :
           /\ Request(c, op, j)
           /\ \/ /\ op = "create" /\ row[j].status = "none" /\ ~Conflict(j)
                 /\ \A d \in Client : cl[d].job # j
              \/ op \in {"stop", "delete"} /\ Live(row[j])
              \/ /\ op = "resume" /\ Live(row[j]) /\ row[j].status # "success"
                 /\ ~Exhausted(row[j].attempts) /\ ~Conflict(j)
    BY <1>1 DEF ReadToCreate, ReadToStop, ReadToResume, ReadToDelete
  <2>2. /\ op \in ClientOps /\ cl[c] = NoRequest
        /\ cl' = [cl EXCEPT ![c] = [op |-> op, job |-> j, read |-> row[j]]]
        /\ UNCHANGED <<row, wk, made, failures, calls, sinceCall, stopCalls>>
    BY <2>1 DEF Request, oracle, observers
  <2>3. cl'[c] = [op |-> op, job |-> j, read |-> row[j]] /\ cl[c].op = "none"
        /\ \A d \in Client \ {c} : cl'[d] = cl[d]
    BY <2>2 DEF NoRequest, Typed, ClientsTyped
  <2>4. ~Exhausted(row[j].attempts) => row[j].attempts < MaxAttempts
    BY ConstantsAssumption DEF Exhausted, Typed, RowsTyped, Row
  <2>5. Asks(c, op, j)
    BY <2>1, <2>2, <2>3, <2>4 DEF Asks
  <2> QED BY <2>5 DEF ClientMoves
<1> DEFINE j == cl[c].job
           was == cl[c].read
           now == row[j]
<1>2. cl[c].op # "none" => j \in Job /\ now \in Row
  BY DEF Typed, ClientsTyped, RowsTyped
<1>3. CASE CommitCreate(c)
  BY <1>3, AnswerMoves DEF CommitCreate, CommitsCreate, ClientMoves
<1>4. CASE CommitStop(c)
  <2> DEFINE en == Column(was.enabled, FALSE, now.enabled)
             st == IF was.status \in {"success", "failed"} THEN now.status
                   ELSE Column(was.status, "stopped", now.status)
             lb == Column(was.locked_by, NoOne, now.locked_by)
             lu == IF was.locked_by = NoOne THEN now.locked_until ELSE Past
             m == [now EXCEPT !.enabled = en, !.status = st, !.locked_by = lb,
                              !.locked_until = lu]
  <2>1. Answered(c, "stop", m) /\ cl[c].op = "stop"
        /\ stopCalls' = [stopCalls EXCEPT ![j] = IF @ < 0 THEN 0 ELSE @]
    BY <1>4 DEF CommitStop
  <2> HIDE DEF en, st, lb, lu
  <2>2. /\ m.enabled = en /\ m.status = st /\ m.attempts = now.attempts
        /\ m.created_count = now.created_count /\ m.next_run_at = now.next_run_at
        /\ m.cooldown_until = now.cooldown_until
    BY <1>2, <2>1 DEF Row
  <2> HIDE DEF m
  <2>3. HasStopped(was, now, m)
    BY <2>2 DEF HasStopped, en, st
  <2>4. Commits(c) /\ (IF Live(now) THEN row'[j] = m ELSE UNCHANGED row)
    BY <2>1, AnswerMoves
  <2> QED BY <2>1, <2>3, <2>4 DEF CommitsStop, ClientMoves
<1>5. CASE CommitResume(c)
  <2> DEFINE en == Column(was.enabled, TRUE, now.enabled)
             st == Column(was.status, "idle", now.status)
             nx == AtLeast(0, was.floor_at)
             m == [now EXCEPT !.enabled = en, !.status = st, !.next_run_at = nx]
  <2>1. Answered(c, "resume", m) /\ cl[c].op = "resume"
        /\ stopCalls' = [stopCalls EXCEPT ![j] = -1]
    BY <1>5 DEF CommitResume
  <2> HIDE DEF en, st, nx
  <2>2. /\ m.enabled = en /\ m.status = st /\ m.attempts = now.attempts
        /\ m.created_count = now.created_count /\ m.locked_by = now.locked_by
        /\ m.locked_until = now.locked_until /\ m.cooldown_until = now.cooldown_until
    BY <1>2, <2>1 DEF Row
  <2> HIDE DEF m
  <2>3. HasResumed(was, now, m)
    BY <2>2 DEF HasResumed, en, st
  <2>4. Commits(c) /\ (IF Live(now) THEN row'[j] = m ELSE UNCHANGED row)
    BY <2>1, AnswerMoves
  <2> QED BY <2>1, <2>3, <2>4 DEF CommitsResume, ClientMoves
<1>6. CASE CommitDelete(c)
  <2> DEFINE m == [NoRow EXCEPT !.status = "deleted"]
  <2>1. Answered(c, "delete", m) /\ cl[c].op = "delete" /\ UNCHANGED stopCalls
    BY <1>6 DEF CommitDelete
  <2>2. /\ ~m.enabled /\ m.status = "deleted" /\ m.attempts = 0
        /\ m.cooldown_until = Past
    BY DEF NoRow, NewRow
  <2> HIDE DEF m
  <2>3. Commits(c) /\ (IF Live(now) THEN row'[j] = m ELSE UNCHANGED row)
    BY <2>1, AnswerMoves
  <2> QED BY <2>1, <2>2, <2>3 DEF CommitsDelete, ClientMoves
<1> QED BY <1>1, <1>3, <1>4, <1>5, <1>6 DEF ClientNext

\* A browser launch shares the lock and the allowance with a job, none of its columns.
Unmoved == UNCHANGED <<row, wk>> /\ Quiet

LEMMA BrowserMoves ==
    ASSUME NEW b \in Browser, BrowserNext(b)
    PROVE  Unmoved
BY DEF BrowserNext, BrowserAsks, BrowserLocks, BrowserBusy, BrowserAdmitted, BrowserRefused,
       BrowserCreates, BrowserFails, BrowserCrash, Unmoved, Quiet, Calm, oracle, observers

\* Every timer is one unit nearer, down to Past; a pass lasts one unit longer.
Ages(now, r) ==
    /\ r.status = now.status /\ r.enabled = now.enabled /\ r.attempts = now.attempts
    /\ r.created_count = now.created_count /\ r.locked_by = now.locked_by
    /\ r.next_run_at = Later(now.next_run_at) /\ r.locked_until = Later(now.locked_until)
    /\ r.cooldown_until = Later(now.cooldown_until)

Lasts(now, s) ==
    /\ s.pc = now.pc /\ s.job = now.job /\ s.scan = now.scan /\ s.attempts = now.attempts
    /\ s.created = now.created /\ s.said = now.said
    /\ now.pc \in Engaged => s.tryLag = now.tryLag + 1

TimePasses ==
    /\ UNCHANGED <<cl, made, failures, calls, stopCalls>>
    /\ \A c \in Client : cl[c].op = "none"
    /\ \A j \in Job : Ages(row[j], row'[j])
    /\ \A w \in Worker : Lasts(wk[w], wk'[w])
    /\ sinceCall' = [j \in Job |-> IF sinceCall[j] < MinInterval THEN sinceCall[j] + 1
                                   ELSE MinInterval]

LEMMA LaterBound == ASSUME NEW t \in Int PROVE Later(t) \in Int /\ Later(t) >= t - 1
BY ConstantsAssumption DEF Later, AtLeast, Past

LEMMA TickMoves ==
    ASSUME Typed, Tick
    PROVE  TimePasses
<1>1. \A j \in Job : Ages(row[j], row'[j])
  <2> SUFFICES ASSUME NEW j \in Job PROVE Ages(row[j], row'[j])
    OBVIOUS
  <2> DEFINE m == [row[j] EXCEPT !.next_run_at = Later(@), !.floor_at = Later(@),
                                 !.cooldown_until = Later(@), !.locked_until = Later(@)]
  <2>1. row'[j] = m /\ row[j] \in Row
    BY DEF Tick, Typed, RowsTyped
  <2>2. Ages(row[j], m)
    BY <2>1 DEF Ages, Row
  <2> QED BY <2>1, <2>2
<1>2. \A w \in Worker : Lasts(wk[w], wk'[w])
  <2> SUFFICES ASSUME NEW w \in Worker PROVE Lasts(wk[w], wk'[w])
    OBVIOUS
  <2> DEFINE s == wk[w]
             lag == IF s.pc \in {"scan", "claim"} THEN 0 ELSE s.tryLag + 1
             a == s.tickLag + 1
             n == [s EXCEPT !.tickLag = a, !.tryLag = lag]
  <2>1. s \in WorkerState
    BY DEF Typed, WorkersTyped
  <2>2. wk'[w] = IF s.pc = "poll" THEN s ELSE n
    BY DEF Tick
  <2>3. s.pc \in Engaged => lag = s.tryLag + 1
    BY DEF Engaged
  <2> HIDE DEF lag, a
  <2>4. s.pc = "poll" => s.pc \notin Engaged
    BY DEF Engaged
  <2>5. Lasts(s, n)
    BY <2>1, <2>3 DEF Lasts, WorkerState
  <2> HIDE DEF n
  <2> QED BY <2>2, <2>4, <2>5 DEF Lasts
<1> QED BY <1>1, <1>2 DEF Tick, TimePasses, oracle

LEMMA StepMoves ==
    ASSUME Typed, [Next]_vars
    PROVE  \/ \E w \in Worker : WorkerMoves(w)
           \/ \E c \in Client : ClientMoves(c)
           \/ Unmoved \/ TimePasses
<1>1. CASE UNCHANGED vars
  BY <1>1 DEF vars, Unmoved, Quiet
<1> QED BY <1>1, AllMoves, RequestMoves, BrowserMoves, TickMoves DEF Next

------------------------------------------------------------------------------
(* What every proof below starts from: nobody is at work on a job that was     *)
(* never created, and a request that is under way still matches its row.       *)

\* What a worker does to a row: it neither creates nor deletes it, nor enables it.
SameLife(r, n) ==
    /\ n.status = "none" <=> r.status = "none"
    /\ Live(n) <=> Live(r)
    /\ n.enabled => r.enabled
    /\ ~Live(r) => n.attempts = r.attempts

LEMMA WorkerRows ==
    ASSUME Typed, NEW w \in Worker, WorkerMoves(w)
    PROVE  \A k \in Job : SameLife(row[k], row'[k])
<1> SUFFICES ASSUME NEW k \in Job PROVE SameLife(row[k], row'[k])
  OBVIOUS
<1>1. row[k] \in Row
  BY DEF Typed, RowsTyped
<1>2. row'[k] = row[k] => SameLife(row[k], row'[k])
  BY DEF SameLife
<1>3. CASE Surveys(w)
  BY <1>1, <1>2, <1>3, UnleasedFields DEF Surveys, SameLife, Live
<1>4. CASE StepsBack(w) \/ Advances(w) \/ CallsOut(w) \/ CountsMachine(w)
  BY <1>2, <1>4 DEF StepsBack, Advances, CallsOut, CountsMachine
<1>5. ASSUME NEW j \in Job, SetsAside(w, j) \/ Picks(w, j)
      PROVE  SameLife(row[k], row'[k])
  BY <1>2, <1>5 DEF SetsAside, Picks, Elsewhere, SameLife, Live
<1>6. CASE Claims(w)
  BY <1>2, <1>6 DEF Claims, Claimable, Active, Elsewhere, SameLife, Live
<1>7. CASE Settles(w) \/ Reports(w)
  BY <1>2, <1>7 DEF Settles, Reports, Elsewhere, SameLife, Live
<1> QED BY <1>3, <1>4, <1>5, <1>6, <1>7 DEF WorkerMoves

\* An attempt is of a job that was created.
Begun == \A w \in Worker : wk[w].pc \notin {"poll", "scan"} => row[wk[w].job].status # "none"

\* A request is one of those the users make, and creates only what is not there.
Asked ==
    \A c \in Client :
       LET op == cl[c].op  j == cl[c].job IN
       /\ op \in ClientOps \cup {"none"}
       /\ op = "create" => /\ row[j].status = "none"
                           /\ \A d \in Client \ {c} : cl[d].op = "create" => cl[d].job # j
       /\ op \in {"stop", "resume", "delete"} => row[j].status # "none"

\* A job nobody created yet has no history.
Fresh ==
    \A j \in Job : row[j].status = "none" =>
       /\ ~row[j].enabled /\ row[j].attempts = 0
       /\ calls[j] = 0 /\ stopCalls[j] = -1 /\ sinceCall[j] = MinInterval

Grounded == Begun /\ Asked /\ Fresh

LEMMA InitGrounded == Init => Grounded
<1> SUFFICES ASSUME Init PROVE Grounded
  OBVIOUS
<1>1. Begun /\ Asked
  BY DEF Init, Begun, Asked, Sleeping, NoRequest
<1>2. Fresh
  BY ConstantsAssumption DEF Init, Fresh, NewRow, NoRow
<1> QED BY <1>1, <1>2 DEF Grounded

LEMMA WorkerGrounded ==
    ASSUME Typed, Grounded, NEW w \in Worker, WorkerMoves(w)
    PROVE  Grounded'
<1>1. \A k \in Job : SameLife(row[k], row'[k])
  BY WorkerRows
<1>2. /\ \A v \in Worker \ {w} : wk'[v] = wk[v]
      /\ UNCHANGED cl
      /\ wk'[w].pc \notin {"poll", "scan"} =>
            \/ wk'[w].job = wk[w].job /\ wk[w].pc \notin {"poll", "scan"}
            \/ wk'[w].job \in Job /\ Live(row[wk'[w].job])
  BY DEF WorkerMoves, Surveys, StepsBack, SetsAside, Picks, Claims, Advances, CallsOut,
         CountsMachine, Settles, Reports, Quiet, Alone, SameAttempt
<1>3. \A v \in Worker : wk[v].pc \notin {"poll", "scan"} => wk[v].job \in Job
  BY DEF Typed, WorkersTyped, WorkerTyped
<1>4. Begun'
  BY <1>1, <1>2, <1>3 DEF Grounded, Begun, SameLife, Live
<1>5. \A c \in Client : cl[c].op # "none" => cl[c].job \in Job
  BY DEF Typed, ClientsTyped
<1>6. Asked'
  BY <1>1, <1>2, <1>5 DEF Grounded, Asked, SameLife
<1>7. ASSUME NEW j \in Job, row'[j].status = "none"
      PROVE  /\ calls'[j] = calls[j] /\ stopCalls'[j] = stopCalls[j]
             /\ sinceCall'[j] = sinceCall[j]
  <2>1. CASE CallsOut(w)
    <3>1. wk[w].job \in Job /\ wk[w].job # j
      BY <1>1, <1>3, <1>7, <2>1 DEF CallsOut, Grounded, Begun, SameLife
    <3> QED BY <2>1, <3>1 DEF CallsOut, Typed, ObserversTyped
  <2>2. CASE ~CallsOut(w)
    BY <2>2 DEF WorkerMoves, Surveys, StepsBack, SetsAside, Picks, Claims, Advances,
                CountsMachine, Settles, Reports, Quiet
  <2> QED BY <2>1, <2>2
<1>8. Fresh'
  BY <1>1, <1>7 DEF Grounded, Fresh, SameLife, Live
<1> QED BY <1>4, <1>6, <1>8 DEF Grounded

LEMMA ClientGrounded ==
    ASSUME Typed, Grounded, NEW c \in Client, ClientMoves(c)
    PROVE  Grounded'
<1>1. \A v \in Worker : wk[v].pc \notin {"poll", "scan"} => wk[v].job \in Job
  BY DEF Typed, WorkersTyped, WorkerTyped
<1>2. \A d \in Client : cl[d].op # "none" => cl[d].job \in Job
  BY DEF Typed, ClientsTyped
<1>3. ASSUME NEW op \in {"create", "stop", "resume", "delete"}, NEW j \in Job, Asks(c, op, j)
      PROVE  Grounded'
  <2>1. Begun' /\ Fresh'
    BY <1>3 DEF Asks, Grounded, Begun, Fresh
  <2>2. Asked'
    BY <1>3 DEF Asks, Grounded, Asked, Live
  <2> QED BY <2>1, <2>2 DEF Grounded
<1> DEFINE j == cl[c].job
<1>4. CASE CommitsCreate(c)
  <2>1. /\ j \in Job /\ row[j].status = "none" /\ row'[j].status = "idle"
        /\ \A k \in Job \ {j} : row'[k] = row[k]
        /\ UNCHANGED <<wk, calls, sinceCall, stopCalls>>
        /\ cl'[c].op = "none" /\ \A d \in Client \ {c} : cl'[d] = cl[d]
    BY <1>2, <1>4 DEF CommitsCreate, Commits, Elsewhere, NewRow, Grounded, Asked
  <2>2. Begun' /\ Fresh'
    BY <1>1, <2>1 DEF Grounded, Begun, Fresh
  <2>3. Asked'
    BY <1>2, <1>4, <2>1 DEF Grounded, Asked, CommitsCreate
  <2> QED BY <2>2, <2>3 DEF Grounded
<1>5. CASE CommitsStop(c) \/ CommitsResume(c) \/ CommitsDelete(c)
  <2>1. /\ j \in Job /\ row[j].status # "none"
        /\ \A k \in Job \ {j} : row'[k] = row[k] /\ stopCalls'[k] = stopCalls[k]
        /\ UNCHANGED <<wk, calls, sinceCall>>
        /\ cl'[c].op = "none" /\ \A d \in Client \ {c} : cl'[d] = cl[d]
    BY <1>2, <1>5 DEF CommitsStop, CommitsResume, CommitsDelete, Commits, Elsewhere,
       Grounded, Asked, Typed, ObserversTyped
  <2>2. row'[j].status # "none"
    BY <1>5, <2>1 DEF CommitsStop, CommitsResume, CommitsDelete, HasStopped, HasResumed,
       Column, Live
  <2>3. Begun' /\ Fresh'
    BY <1>1, <2>1, <2>2 DEF Grounded, Begun, Fresh
  <2>4. Asked'
    BY <1>2, <2>1, <2>2 DEF Grounded, Asked
  <2> QED BY <2>3, <2>4 DEF Grounded
<1> QED BY <1>3, <1>4, <1>5 DEF ClientMoves

LEMMA NextGrounded == Typed /\ Grounded /\ [Next]_vars => Grounded'
<1> SUFFICES ASSUME Typed, Grounded, [Next]_vars PROVE Grounded'
  OBVIOUS
<1>1. CASE Unmoved
  BY <1>1 DEF Unmoved, Quiet, Grounded, Begun, Asked, Fresh
<1>2. CASE TimePasses
  <2>1. /\ \A j \in Job : /\ row'[j].status = row[j].status
                          /\ row'[j].enabled = row[j].enabled
                          /\ row'[j].attempts = row[j].attempts
                          /\ sinceCall[j] = MinInterval => sinceCall'[j] = MinInterval
        /\ \A w \in Worker : wk'[w].pc = wk[w].pc /\ wk'[w].job = wk[w].job
        /\ UNCHANGED <<cl, calls, stopCalls>>
        /\ \A c \in Client : cl[c].op = "none"
    BY <1>2, ConstantsAssumption DEF TimePasses, Ages, Lasts
  <2>2. \A v \in Worker : wk[v].pc \notin {"poll", "scan"} => wk[v].job \in Job
    BY DEF Typed, WorkersTyped, WorkerTyped
  <2> QED BY <2>1, <2>2 DEF Grounded, Begun, Asked, Fresh
<1> QED BY <1>1, <1>2, StepMoves, WorkerGrounded, ClientGrounded

LEMMA AlwaysGrounded == Spec => []Grounded
BY InitGrounded, NextGrounded, AlwaysTyped, PTL DEF Spec

------------------------------------------------------------------------------
(* The limit of attempts.  One worker process: the count of attempts is kept   *)
(* in memory from the quota check to the commit, so the number of calls is     *)
(* bounded by the larger of the two counts, and each failure adds one.         *)

\* What the attempt under way may still add
Budget(w) ==
    LET s == wk[w]  r == row[s.job]  n == calls[s.job] IN
    /\ s.pc = "claim" /\ Live(r) => r.attempts < MaxAttempts
    /\ s.pc \in {"prep", "lock", "quota"} =>
          /\ s.attempts < MaxAttempts /\ n <= s.attempts + failures
          /\ Live(r) => r.attempts = s.attempts
    /\ s.pc \in {"launch", "unsaved", "judge", "commit", "lost"} =>
          /\ s.attempts <= MaxAttempts
          /\ Live(r) => r.attempts = s.attempts - 1
    /\ s.pc \in {"launch", "lost"} => n + 1 <= s.attempts + failures
    /\ s.pc = "unsaved" => n + 2 <= s.attempts + failures
    /\ s.pc \in {"judge", "commit"} => n <= s.attempts + failures
    /\ s.pc = "recover" /\ Live(r) =>
          r.attempts < MaxAttempts /\ n <= r.attempts + 1 + failures

\* A call that was answered and is not in the row yet
Uncommitted(w, j) == wk[w].job = j /\ wk[w].pc \in {"judge", "commit", "recover"}

Counts ==
    /\ \A w \in Worker : Budget(w)
    /\ \A j \in Job :
          /\ calls[j] <= MaxAttempts + failures /\ row[j].attempts <= MaxAttempts
          /\ Live(row[j]) /\ (\A w \in Worker : ~Uncommitted(w, j))
             => calls[j] <= row[j].attempts + failures

LEMMA InitCounts == Init => Counts
<1> SUFFICES ASSUME Init PROVE Counts
  OBVIOUS
<1>1. \A w \in Worker : wk[w].pc = "poll"
  BY DEF Init, Sleeping
<1>2. \A j \in Job : calls[j] = 0 /\ row[j].attempts = 0
  BY DEF Init, NewRow, NoRow
<1>3. failures = 0
  BY DEF Init
<1> QED BY <1>1, <1>2, <1>3, ConstantsAssumption DEF Counts, Budget

\* A step that leaves the worker where it is.
LEMMA ElsewhereCounts ==
    ASSUME Typed, Typed', Counts, UNCHANGED calls,
           failures' = failures \/ failures' = failures + 1,
           \A w \in Worker : /\ wk'[w].pc = wk[w].pc /\ wk'[w].job = wk[w].job
                             /\ wk'[w].attempts = wk[w].attempts,
           \A j \in Job : Live(row'[j]) => Live(row[j]) /\ row'[j].attempts = row[j].attempts,
           \A j \in Job : row'[j].attempts <= MaxAttempts
    PROVE  Counts'
<1>1. /\ \A w \in Worker : wk[w].pc \notin {"poll", "scan"} => wk[w].job \in Job
      /\ \A w \in Worker : wk[w].attempts \in Nat
      /\ \A j \in Job : row[j].attempts \in Nat /\ calls[j] \in Nat
      /\ failures \in Nat
  BY DEF Typed, WorkersTyped, WorkerTyped, WorkerState, RowsTyped, Row, ObserversTyped,
         SharedTyped
<1>2. ASSUME NEW w \in Worker PROVE Budget(w)'
  <2>1. Budget(w)
    BY DEF Counts
  <2> QED BY <1>1, <2>1, ConstantsAssumption DEF Budget
<1>3. ASSUME NEW j \in Job
      PROVE  /\ calls'[j] <= MaxAttempts + failures' /\ row'[j].attempts <= MaxAttempts
             /\ Live(row'[j]) /\ (\A w \in Worker : ~Uncommitted(w, j)')
                => calls'[j] <= row'[j].attempts + failures'
  BY <1>1, <1>3, ConstantsAssumption DEF Counts, Uncommitted
<1> QED BY <1>2, <1>3 DEF Counts

LEMMA WorkerCounts ==
    ASSUME OneWorker, Typed, Typed', Grounded, Counts, NEW w \in Worker, WorkerMoves(w)
    PROVE  Counts'
<1> DEFINE s == wk[w]
           j == s.job
           Kept(k) == /\ calls'[k] <= MaxAttempts + failures' /\ row'[k].attempts <= MaxAttempts
                      /\ Live(row'[k]) /\ ~Uncommitted(w, k)'
                         => calls'[k] <= row'[k].attempts + failures'
<1>1. /\ s.pc \notin {"poll", "scan"} => j \in Job
      /\ s.attempts \in Nat /\ wk'[w].attempts \in Nat
      /\ \A k \in Job : row[k].attempts \in Nat /\ calls[k] \in Nat /\ row[k] \in Row
      /\ failures \in Nat /\ MaxAttempts \in Nat \ {0}
  BY ConstantsAssumption DEF Typed, WorkersTyped, WorkerTyped, WorkerState, RowsTyped, Row,
     ObserversTyped, SharedTyped
<1>2. /\ Budget(w)
      /\ \A k \in Job : /\ calls[k] <= MaxAttempts + failures /\ row[k].attempts <= MaxAttempts
                        /\ Live(row[k]) /\ ~Uncommitted(w, k)
                           => calls[k] <= row[k].attempts + failures
  BY DEF Counts, OneWorker
<1>3. SUFFICES Budget(w)' /\ \A k \in Job : Kept(k)
  BY DEF Counts, OneWorker
<1>4. CASE Surveys(w)
  <2>1. \A k \in Job : row'[k].attempts = row[k].attempts /\ row'[k].status = row[k].status
    BY <1>1, <1>4, UnleasedFields DEF Surveys
  <2> QED BY <1>1, <1>2, <1>4, <2>1 DEF Surveys, Quiet, Budget, Uncommitted, Live
<1>5. CASE StepsBack(w)
  BY <1>1, <1>2, <1>5 DEF StepsBack, Quiet, Budget, Uncommitted, AtWork, Engaged
<1>6. ASSUME NEW k \in Job, SetsAside(w, k)
      PROVE  Budget(w)' /\ \A i \in Job : Kept(i)
  BY <1>1, <1>2, <1>6 DEF SetsAside, Quiet, Elsewhere, Budget, Uncommitted
<1>7. ASSUME NEW k \in Job, Picks(w, k)
      PROVE  Budget(w)' /\ \A i \in Job : Kept(i)
  BY <1>1, <1>2, <1>7 DEF Picks, Quiet, Budget, Uncommitted
<1>8. CASE Claims(w)
  BY <1>1, <1>2, <1>8 DEF Claims, Claimable, Quiet, Elsewhere, Budget, Uncommitted, Live
<1>9. CASE Advances(w)
  <2>1. Budget(w)'
    BY <1>1, <1>2, <1>9 DEF Advances, SameAttempt, Quiet, Budget, Uncommitted
  <2>2. \A k \in Job : Kept(k)
    BY <1>1, <1>2, <1>9 DEF Advances, SameAttempt, Quiet, Budget, Uncommitted
  <2> QED BY <2>1, <2>2
<1>10. CASE CallsOut(w)
  <2>1. /\ j \in Job /\ calls'[j] = calls[j] + 1
        /\ \A k \in Job \ {j} : calls'[k] = calls[k]
    BY <1>1, <1>10 DEF CallsOut, Typed, ObserversTyped
  <2>2. Budget(w)'
    BY <1>1, <1>2, <1>10, <2>1 DEF CallsOut, SameAttempt, Budget
  <2>3. \A k \in Job : Kept(k)
    BY <1>1, <1>2, <1>10, <2>1 DEF CallsOut, SameAttempt, Budget, Uncommitted
  <2> QED BY <2>2, <2>3
<1>11. CASE CountsMachine(w)
  BY <1>1, <1>2, <1>11 DEF CountsMachine, SameAttempt, Quiet, Budget, Uncommitted
<1>12. CASE Settles(w)
  <2>1. Budget(w)'
    BY <1>12 DEF Settles, Budget
  <2>2. \A k \in Job : Kept(k)
    BY <1>1, <1>2, <1>12 DEF Settles, Quiet, Elsewhere, Budget, Uncommitted
  <2> QED BY <2>1, <2>2
<1>13. CASE Reports(w)
  <2>1. Budget(w)'
    BY <1>13 DEF Reports, Budget
  <2>2. \A k \in Job : Kept(k)
    BY <1>1, <1>2, <1>13 DEF Reports, SameAttempt, Quiet, Elsewhere, Budget, Uncommitted
  <2> QED BY <2>1, <2>2
<1> QED BY <1>4, <1>5, <1>6, <1>7, <1>8, <1>9, <1>10, <1>11, <1>12, <1>13 DEF WorkerMoves

LEMMA ClientCounts ==
    ASSUME Typed, Typed', Grounded, Counts, NEW c \in Client, ClientMoves(c)
    PROVE  Counts'
<1>1. /\ UNCHANGED <<wk, calls, failures>>
      /\ cl[c].op # "none" => cl[c].job \in Job
  BY DEF ClientMoves, Asks, CommitsCreate, CommitsStop, CommitsResume, CommitsDelete, Commits,
         Typed, ClientsTyped
<1>2. CASE ~CommitsCreate(c)
  <2>1. \A j \in Job : /\ Live(row'[j]) => Live(row[j]) /\ row'[j].attempts = row[j].attempts
                       /\ row'[j].attempts \in {0, row[j].attempts}
    BY <1>1, <1>2 DEF ClientMoves, Asks, CommitsStop, CommitsResume, CommitsDelete, Commits,
       Elsewhere, HasStopped, HasResumed, Live
  <2>2. \A j \in Job : row'[j].attempts <= MaxAttempts
    BY <2>1, ConstantsAssumption DEF Counts
  <2> QED BY <1>1, <2>1, <2>2, ElsewhereCounts
<1>3. CASE CommitsCreate(c)
  <2> DEFINE j == cl[c].job
  <2>1. /\ j \in Job /\ row[j].status = "none" /\ calls[j] = 0
        /\ row'[j].attempts = 0 /\ \A k \in Job \ {j} : row'[k] = row[k]
        /\ \A w \in Worker : wk[w].pc \notin {"poll", "scan"} => wk[w].job # j
    BY <1>1, <1>3 DEF CommitsCreate, Commits, Elsewhere, NewRow, Grounded, Asked, Fresh, Begun
  <2>2. failures \in Nat /\ \A w \in Worker : wk[w].pc \notin {"poll", "scan"} => wk[w].job \in Job
    BY DEF Typed, SharedTyped, WorkersTyped, WorkerTyped
  <2>3. ASSUME NEW w \in Worker PROVE Budget(w)'
    BY <1>1, <2>1, <2>2 DEF Counts, Budget
  <2>4. ASSUME NEW k \in Job
        PROVE  /\ calls'[k] <= MaxAttempts + failures' /\ row'[k].attempts <= MaxAttempts
               /\ Live(row'[k]) /\ (\A w \in Worker : ~Uncommitted(w, k)')
                  => calls'[k] <= row'[k].attempts + failures'
    BY <1>1, <2>1, <2>2, ConstantsAssumption DEF Counts, Uncommitted
  <2> QED BY <2>3, <2>4 DEF Counts
<1> QED BY <1>2, <1>3

LEMMA NextCounts ==
    ASSUME OneWorker, Typed, Typed', Grounded, Counts, [Next]_vars
    PROVE  Counts'
<1>1. \A j \in Job : row[j].attempts <= MaxAttempts
  BY DEF Counts
<1>2. CASE Unmoved
  BY <1>1, <1>2, ElsewhereCounts DEF Unmoved, Quiet
<1>3. CASE TimePasses
  <2>1. /\ \A j \in Job : row'[j].status = row[j].status /\ row'[j].attempts = row[j].attempts
        /\ \A w \in Worker : /\ wk'[w].pc = wk[w].pc /\ wk'[w].job = wk[w].job
                             /\ wk'[w].attempts = wk[w].attempts
        /\ UNCHANGED <<calls, failures>>
    BY <1>3 DEF TimePasses, Ages, Lasts
  <2> QED BY <1>1, <2>1, ElsewhereCounts DEF Live
<1> QED BY <1>2, <1>3, StepMoves, WorkerCounts, ClientCounts

------------------------------------------------------------------------------
(* A request that disables a row leaves it disabled, however many workers there *)
(* are: only a resume enables one, and none is under way at the same time.      *)

StopsRead ==
    \A c \in Client : cl[c].op = "stop" /\ ~cl[c].read.enabled => ~row[cl[c].job].enabled
GoneDisabled == \A j \in Job : row[j].status = "deleted" => ~row[j].enabled
Disabling == StopsRead /\ GoneDisabled

LEMMA InitDisabling == Init => Disabling
<1> SUFFICES ASSUME Init PROVE Disabling
  OBVIOUS
<1>1. /\ \A j \in Job : row[j].status \in {"none", "idle"}
      /\ \A c \in Client : cl[c].op = "none"
  BY DEF Init, NewRow, NoRow, NoRequest
<1> QED BY <1>1 DEF Disabling, StopsRead, GoneDisabled

\* A step that enables no job and serves no request
LEMMA ElsewhereDisabling ==
    ASSUME Typed, Disabling, UNCHANGED cl,
           \A j \in Job : (row'[j].enabled => row[j].enabled)
                          /\ (row'[j].status = "deleted" => row[j].status = "deleted")
    PROVE  Disabling'
<1>1. \A c \in Client : cl[c].op = "stop" => cl[c].job \in Job
  BY DEF Typed, ClientsTyped
<1>2. StopsRead'
  BY <1>1 DEF Disabling, StopsRead
<1>3. GoneDisabled'
  BY DEF Disabling, GoneDisabled
<1> QED BY <1>2, <1>3 DEF Disabling

\* What a request's commit does to its row: a stop and a deletion disable it, and a
\* row that is gone stays as it was.
LEMMA CommitFields ==
    ASSUME Typed, Grounded, Disabling, NEW c \in Client,
           CommitsStop(c) \/ CommitsResume(c) \/ CommitsDelete(c)
    PROVE  LET j == cl[c].job IN
           /\ j \in Job /\ row[j].status # "none"
           /\ \A k \in Job \ {j} : row'[k] = row[k]
           /\ ~CommitsResume(c) => ~row'[j].enabled
           /\ row'[j].status = "deleted" => ~row'[j].enabled
           /\ ~Live(row[j]) => row' = row
           /\ UNCHANGED wk
           /\ cl'[c].op = "none" /\ \A d \in Client \ {c} : cl'[d] = cl[d]
<1> DEFINE j == cl[c].job
<1>1. /\ j \in Job /\ row[j].status # "none" /\ UNCHANGED wk
      /\ \A k \in Job \ {j} : row'[k] = row[k]
      /\ cl'[c].op = "none" /\ \A d \in Client \ {c} : cl'[d] = cl[d]
  BY DEF CommitsStop, CommitsResume, CommitsDelete, Commits, Elsewhere, Grounded, Asked,
         Typed, ClientsTyped
<1>2. row[j].enabled \in BOOLEAN /\ cl[c].read.enabled \in BOOLEAN
  BY <1>1 DEF Typed, ClientsTyped, ClientState, RowsTyped, Row
<1>3. ~Live(row[j]) => ~row[j].enabled /\ row' = row
  BY <1>1 DEF CommitsStop, CommitsResume, CommitsDelete, Live, Disabling, GoneDisabled
<1>4. ~CommitsResume(c) => ~row'[j].enabled
  BY <1>1, <1>2, <1>3 DEF CommitsStop, CommitsDelete, HasStopped, Column, Disabling, StopsRead
<1>5. CommitsResume(c) /\ row'[j].status = "deleted" => ~row'[j].enabled
  BY <1>1, <1>2, <1>3 DEF CommitsResume, HasResumed, Column, Live
<1> QED BY <1>1, <1>3, <1>4, <1>5

LEMMA ClientDisabling ==
    ASSUME RequestsApart, Typed, Grounded, Disabling, NEW c \in Client, ClientMoves(c)
    PROVE  Disabling'
<1> DEFINE j == cl[c].job
<1>1. \A d \in Client : cl[d].op # "none" => cl[d].job \in Job
  BY DEF Typed, ClientsTyped
<1>2. ASSUME NEW op \in {"create", "stop", "resume", "delete"}, NEW k \in Job, Asks(c, op, k)
      PROVE  Disabling'
  BY <1>2 DEF Asks, Disabling, StopsRead, GoneDisabled
<1>3. CASE CommitsCreate(c)
  <2>1. /\ j \in Job /\ row[j].status = "none" /\ row'[j].status = "idle"
        /\ \A k \in Job \ {j} : row'[k] = row[k]
        /\ cl'[c].op = "none" /\ \A d \in Client \ {c} : cl'[d] = cl[d]
    BY <1>1, <1>3 DEF CommitsCreate, Commits, Elsewhere, NewRow, Grounded, Asked
  <2>2. StopsRead'
    BY <1>1, <2>1 DEF Disabling, StopsRead, Grounded, Asked
  <2>3. GoneDisabled'
    BY <2>1 DEF Disabling, GoneDisabled
  <2> QED BY <2>2, <2>3 DEF Disabling
<1>4. CASE CommitsStop(c) \/ CommitsResume(c) \/ CommitsDelete(c)
  <2>1. GoneDisabled'
    BY <1>4, CommitFields DEF Disabling, GoneDisabled
  <2>2. CommitsResume(c) => \A d \in Client : d = c
    BY DEF CommitsResume, RequestsApart, NoResume, OneClient, Grounded, Asked
  <2>3. StopsRead'
    BY <1>1, <1>4, <2>2, CommitFields DEF Disabling, StopsRead
  <2> QED BY <2>1, <2>3 DEF Disabling
<1> QED BY <1>2, <1>3, <1>4 DEF ClientMoves

LEMMA NextDisabling ==
    ASSUME RequestsApart, Typed, Grounded, Disabling, [Next]_vars
    PROVE  Disabling'
<1>1. CASE \E w \in Worker : WorkerMoves(w)
  <2>1. PICK w \in Worker : WorkerMoves(w)
    BY <1>1
  <2>2. UNCHANGED cl
    BY <2>1 DEF WorkerMoves, Surveys, StepsBack, SetsAside, Picks, Claims, Advances, CallsOut,
                CountsMachine, Settles, Reports, Quiet
  <2> QED BY <2>1, <2>2, WorkerRows, ElsewhereDisabling DEF SameLife, Live
<1>2. CASE Unmoved
  BY <1>2, ElsewhereDisabling DEF Unmoved, Quiet
<1>3. CASE TimePasses
  BY <1>3, ElsewhereDisabling DEF TimePasses, Ages
<1> QED BY <1>1, <1>2, <1>3, StepMoves, ClientDisabling

LEMMA AlwaysDisabling == RequestsApart => (Spec => []Disabling)
<1>1. ASSUME RequestsApart PROVE Spec => []Disabling
  <2>1. Typed /\ Grounded /\ Disabling /\ [Next]_vars => Disabling'
    BY <1>1, NextDisabling
  <2> QED BY <2>1, InitDisabling, AlwaysTyped, AlwaysGrounded, PTL DEF Spec
<1> QED BY <1>1

------------------------------------------------------------------------------
(* The user's stop.  One worker process: a stop finds at most one attempt      *)
(* under way, and no claim follows it, because the row stays disabled.         *)

\* A stopped job is disabled; once the call that was under way has gone out, no
\* attempt of the job is before its call.
StopHeeded ==
    \A j \in Job :
       /\ stopCalls[j] >= 0 => ~row[j].enabled
       /\ stopCalls[j] <= 1
       /\ stopCalls[j] = 1 => \A w \in Worker : wk[w].pc \in Early => wk[w].job # j

LEMMA InitStopHeeded == Init => StopHeeded
BY DEF Init, StopHeeded

\* A step that enables no job, moves no attempt and answers no request
LEMMA ElsewhereStopHeeded ==
    ASSUME StopHeeded, UNCHANGED stopCalls,
           \A j \in Job : row'[j].enabled => row[j].enabled,
           \A w \in Worker : wk'[w].pc \in Early =>
              wk'[w].job = wk[w].job /\ wk[w].pc \in Early
    PROVE  StopHeeded'
BY DEF StopHeeded

LEMMA WorkerStopHeeded ==
    ASSUME OneWorker, Typed, StopHeeded, NEW w \in Worker, WorkerMoves(w)
    PROVE  StopHeeded'
<1> DEFINE j == wk[w].job
<1>1. \A k \in Job : row'[k].enabled => row[k].enabled
  BY WorkerRows DEF SameLife
<1>2. \A v \in Worker : v = w
  BY DEF OneWorker
<1>3. wk[w].pc \notin {"poll", "scan"} => j \in Job
  BY DEF Typed, WorkersTyped, WorkerTyped
<1>4. CASE CallsOut(w)
  <2>1. /\ j \in Job /\ stopCalls[j] \in Int /\ wk[w].pc \in Early /\ wk'[w].pc \notin Early
        /\ UNCHANGED row
        /\ stopCalls' = [stopCalls EXCEPT ![j] = IF @ >= 0 THEN @ + 1 ELSE @]
    BY <1>3, <1>4 DEF CallsOut, Early, Typed, ObserversTyped
  <2>2. stopCalls[j] <= 0
    BY <2>1 DEF StopHeeded
  <2> QED BY <1>2, <2>1, <2>2 DEF StopHeeded, Typed, ObserversTyped
<1>5. CASE Claims(w)
  <2>1. j \in Job /\ row[j].enabled /\ wk'[w].job = j /\ UNCHANGED stopCalls
    BY <1>3, <1>5 DEF Claims, Claimable, Active, Quiet
  <2> QED BY <1>1, <1>2, <2>1 DEF StopHeeded
<1>6. CASE ~CallsOut(w) /\ ~Claims(w)
  <2>1. /\ UNCHANGED stopCalls
        /\ wk'[w].pc \in Early => wk'[w].job = wk[w].job /\ wk[w].pc \in Early
    BY <1>6 DEF WorkerMoves, Surveys, StepsBack, SetsAside, Picks, Advances, CountsMachine,
                Settles, Reports, Quiet, SameAttempt, Early
  <2> QED BY <1>1, <1>2, <2>1, ElsewhereStopHeeded
<1> QED BY <1>4, <1>5, <1>6

LEMMA ClientStopHeeded ==
    ASSUME Typed, Grounded, Disabling, StopHeeded, NEW c \in Client, ClientMoves(c)
    PROVE  StopHeeded'
<1> DEFINE j == cl[c].job
<1>1. /\ \A d \in Client : cl[d].op # "none" => cl[d].job \in Job
      /\ stopCalls \in [Job -> Int]
  BY DEF Typed, ClientsTyped, ObserversTyped
<1>2. ASSUME NEW op \in {"create", "stop", "resume", "delete"}, NEW k \in Job, Asks(c, op, k)
      PROVE  StopHeeded'
  BY <1>2 DEF Asks, StopHeeded
<1>3. CASE CommitsCreate(c)
  <2>1. /\ j \in Job /\ stopCalls[j] = -1
        /\ \A k \in Job \ {j} : row'[k] = row[k]
        /\ UNCHANGED <<wk, stopCalls>>
    BY <1>1, <1>3 DEF CommitsCreate, Commits, Elsewhere, Grounded, Asked, Fresh
  <2> QED BY <2>1 DEF StopHeeded
<1>4. CASE CommitsStop(c)
  <2>1. /\ j \in Job /\ ~row'[j].enabled /\ UNCHANGED wk
        /\ \A k \in Job \ {j} : row'[k] = row[k]
    BY <1>4, CommitFields DEF CommitsStop, CommitsResume
  <2>2. stopCalls' = [stopCalls EXCEPT ![j] = IF @ < 0 THEN 0 ELSE @]
    BY <1>4 DEF CommitsStop
  <2> QED BY <1>1, <2>1, <2>2 DEF StopHeeded
<1>5. CASE CommitsResume(c)
  <2>1. /\ j \in Job /\ \A k \in Job \ {j} : row'[k] = row[k]
        /\ UNCHANGED wk /\ stopCalls' = [stopCalls EXCEPT ![j] = -1]
    BY <1>1, <1>5 DEF CommitsResume, Commits, Elsewhere
  <2> QED BY <1>1, <2>1 DEF StopHeeded
<1>6. CASE CommitsDelete(c)
  <2>1. UNCHANGED stopCalls /\ ~CommitsResume(c)
    BY <1>6 DEF CommitsDelete, CommitsResume
  <2> QED BY <1>6, <2>1, CommitFields DEF StopHeeded
<1> QED BY <1>2, <1>3, <1>4, <1>5, <1>6 DEF ClientMoves

LEMMA NextStopHeeded ==
    ASSUME OneWorker, Typed, Grounded, Disabling, StopHeeded, [Next]_vars
    PROVE  StopHeeded'
<1>1. CASE Unmoved
  BY <1>1, ElsewhereStopHeeded DEF Unmoved, Quiet
<1>2. CASE TimePasses
  BY <1>2, ElsewhereStopHeeded DEF TimePasses, Ages, Lasts
<1> QED BY <1>1, <1>2, StepMoves, WorkerStopHeeded, ClientStopHeeded

\* With one worker process, and requests that resume a job only one at a time, a
\* stop lets at most the call already under way go out, whatever fails and
\* whatever is created, stopped, resumed or deleted meanwhile.
THEOREM StopHolds == OneWorker /\ RequestsApart => (Spec => []StopIsFinal)
<1>1. ASSUME OneWorker, RequestsApart PROVE Spec => []StopIsFinal
  <2>1. Init => StopHeeded
    BY InitStopHeeded
  <2>2. Typed /\ Grounded /\ Disabling /\ StopHeeded /\ [Next]_vars => StopHeeded'
    BY <1>1, NextStopHeeded
  <2>3. StopHeeded => StopIsFinal
    BY DEF StopHeeded, StopIsFinal
  <2>4. Spec => []Disabling
    BY <1>1, AlwaysDisabling
  <2> QED BY <2>1, <2>2, <2>3, <2>4, AlwaysTyped, AlwaysGrounded, PTL DEF Spec
<1> QED BY <1>1

\* With one worker process no job makes more calls than its limit of attempts,
\* but for one more after each failure that loses an outcome.
THEOREM AttemptsHold == OneWorker => (Spec => []AttemptsBounded)
<1>1. ASSUME OneWorker PROVE Spec => []AttemptsBounded
  <2>1. Init => Counts
    BY InitCounts
  <2>2. Typed /\ Typed' /\ Grounded /\ Counts /\ [Next]_vars => Counts'
    BY <1>1, NextCounts
  <2>3. Counts => AttemptsBounded
    BY DEF Counts, AttemptsBounded
  <2> QED BY <2>1, <2>2, <2>3, AlwaysTyped, AlwaysGrounded, PTL DEF Spec
<1> QED BY <1>1

\* Both at once: what the user and the limit of a job are promised.
THEOREM JobsKept == OneWorker /\ RequestsApart => (Spec => []JobKept)
<1>1. StopIsFinal /\ AttemptsBounded <=> JobKept
  BY DEF JobKept
<1>2. ASSUME OneWorker, RequestsApart PROVE Spec => []JobKept
  <2>1. (Spec => []StopIsFinal) /\ (Spec => []AttemptsBounded)
    BY <1>2, StopHolds, AttemptsHold
  <2> QED BY <1>1, <2>1, PTL
<1> QED BY <1>2

------------------------------------------------------------------------------
(* The lease.  Any number of worker processes: as long as no pass outlasts the *)
(* lease, the row of a job that is enabled names whoever is at work on it, so  *)
(* no second process can claim it.  A stop may clear the lease, but the row is *)
(* disabled then, and without a resume it stays so.                            *)

PassWithinLease == Horizon <= Lease

LeaseKept ==
    \A w \in Worker : AtWork(w) /\ row[wk[w].job].enabled =>
       /\ row[wk[w].job].locked_by = w
       /\ row[wk[w].job].locked_until >= Lease - wk[w].tryLag

OneAtAJob == \A v, w \in Worker : AtWork(v) /\ AtWork(w) /\ wk[v].job = wk[w].job => v = w

Leased == LeaseKept /\ OneAtAJob

LEMMA InitLeased == Init => Leased
BY DEF Init, Sleeping, Leased, LeaseKept, OneAtAJob, AtWork, Engaged

\* A lease that is kept has not run out.
LEMMA LeaseRunning ==
    ASSUME PassWithinLease, Typed, Leased, NEW w \in Worker, AtWork(w),
           row[wk[w].job].enabled
    PROVE  row[wk[w].job].locked_by = w /\ ~(row[wk[w].job].locked_until < 0)
<1>1. wk[w].tryLag \in 0..Horizon /\ wk[w].job \in Job
  BY DEF Typed, WorkersTyped, WorkerTyped, WorkerState, AtWork, Engaged
<1>2. row[wk[w].job].locked_until \in Int
  BY <1>1 DEF Typed, RowsTyped, Row, Timer
<1> QED BY <1>1, <1>2, ConstantsAssumption DEF Leased, LeaseKept, PassWithinLease

\* Who is at work and which leases are held stay as they are, ...
LEMMA ElsewhereLeased ==
    ASSUME Typed, Leased,
           \A w \in Worker : AtWork(w)' => /\ AtWork(w) /\ wk'[w].job = wk[w].job
                                           /\ wk'[w].tryLag = wk[w].tryLag,
           \A w \in Worker : AtWork(w)' /\ row'[wk[w].job].enabled =>
              /\ row[wk[w].job].enabled
              /\ row'[wk[w].job].locked_by = row[wk[w].job].locked_by
              /\ row'[wk[w].job].locked_until = row[wk[w].job].locked_until
    PROVE  Leased'
<1>1. LeaseKept'
  BY DEF Leased, LeaseKept
<1>2. OneAtAJob'
  BY DEF Leased, OneAtAJob
<1> QED BY <1>1, <1>2 DEF Leased

LEMMA WorkerLeased ==
    ASSUME PassWithinLease, Typed, Typed', Leased, NEW w \in Worker, WorkerMoves(w)
    PROVE  Leased'
<1> DEFINE j == wk[w].job
<1>1. \A v \in Worker : AtWork(v) => wk[v].job \in Job
  BY DEF AtWork, Engaged, Typed, WorkersTyped, WorkerTyped
<1>2. \A k \in Job : row'[k].enabled => row[k].enabled
  BY WorkerRows DEF SameLife
<1>3. \A v \in Worker : v # w => wk'[v] = wk[v]
  BY DEF WorkerMoves, Surveys, StepsBack, SetsAside, Picks, Claims, Advances, CallsOut,
         CountsMachine, Settles, Reports, Alone
<1>4. CASE Claims(w)
  <2>1. /\ wk[w].pc = "claim" /\ row[j].enabled /\ Free(row[j])
        /\ wk'[w].job = j /\ row'[j].locked_by = w /\ row'[j].locked_until = Lease
        /\ \A k \in Job \ {j} : row'[k] = row[k]
    BY <1>4 DEF Claims, Claimable, Active, Elsewhere
  <2>2. j \in Job /\ wk'[w].tryLag \in Nat
    BY <2>1, ConstantsAssumption DEF Typed, WorkersTyped, WorkerTyped, WorkerState
  <2>3. \A v \in Worker : v # w /\ AtWork(v) => wk[v].job # j
    BY <2>1, LeaseRunning, ConstantsAssumption DEF Free
  <2>4. LeaseKept'
    BY <1>1, <1>3, <2>1, <2>2, <2>3, ConstantsAssumption DEF Leased, LeaseKept, AtWork
  <2>5. OneAtAJob'
    BY <1>3, <2>1, <2>3 DEF Leased, OneAtAJob, AtWork
  <2> QED BY <2>4, <2>5 DEF Leased
<1>5. CASE ~Claims(w)
  <2>1. AtWork(w)' => AtWork(w) /\ wk'[w].job = j /\ wk'[w].tryLag = wk[w].tryLag
    BY <1>5 DEF WorkerMoves, Surveys, StepsBack, SetsAside, Picks, Advances, CallsOut,
                CountsMachine, Settles, Reports, SameAttempt, AtWork, Engaged
  <2>2. ASSUME NEW v \in Worker, AtWork(v)', row'[wk[v].job].enabled
        PROVE  /\ row'[wk[v].job].locked_by = row[wk[v].job].locked_by
               /\ row'[wk[v].job].locked_until = row[wk[v].job].locked_until
    <3> DEFINE k == wk[v].job
    <3>1. AtWork(v) /\ k \in Job /\ row[k].enabled
      BY <1>1, <1>2, <1>3, <2>1, <2>2 DEF AtWork
    <3>2. CASE Surveys(w)
      BY <3>1, <3>2, LeaseRunning DEF Surveys
    <3>3. CASE StepsBack(w) \/ Advances(w) \/ CallsOut(w) \/ CountsMachine(w)
      BY <3>3 DEF StepsBack, Advances, CallsOut, CountsMachine
    <3>4. CASE \E i \in Job : SetsAside(w, i) \/ Picks(w, i)
      BY <3>1, <3>4 DEF SetsAside, Picks, Elsewhere
    <3>5. CASE Settles(w)
      <4>1. v # w /\ AtWork(w)
        BY <2>2, <3>5 DEF Settles, AtWork, Engaged
      <4>2. k # j
        BY <3>1, <4>1 DEF Leased, OneAtAJob
      <4> QED BY <3>1, <3>5, <4>2 DEF Settles, Elsewhere
    <3>6. CASE Reports(w)
      BY <3>1, <3>6 DEF Reports, Elsewhere
    <3> QED BY <1>5, <3>2, <3>3, <3>4, <3>5, <3>6 DEF WorkerMoves
  <2>3. \A v \in Worker : AtWork(v)' => /\ AtWork(v) /\ wk'[v].job = wk[v].job
                                        /\ wk'[v].tryLag = wk[v].tryLag
    BY <1>3, <2>1 DEF AtWork
  <2>4. \A v \in Worker : AtWork(v)' /\ row'[wk[v].job].enabled => row[wk[v].job].enabled
    BY <1>1, <1>2, <2>3
  <2> QED BY <2>2, <2>3, <2>4, ElsewhereLeased
<1> QED BY <1>4, <1>5

\* Without a resume a request enables no row but the one it creates.
LEMMA ClientRows ==
    ASSUME NoResume, Typed, Grounded, Disabling, NEW c \in Client, ClientMoves(c)
    PROVE  \A k \in Job : row'[k] = row[k] \/ ~row'[k].enabled \/ row[k].status = "none"
<1>1. CASE \E op \in {"create", "stop", "resume", "delete"}, k \in Job : Asks(c, op, k)
  BY <1>1 DEF Asks
<1>2. CASE CommitsCreate(c)
  BY <1>2 DEF CommitsCreate, Commits, Elsewhere, Grounded, Asked
<1>3. ~CommitsResume(c)
  BY DEF CommitsResume, NoResume, Grounded, Asked
<1>4. CASE CommitsStop(c) \/ CommitsDelete(c)
  BY <1>3, <1>4, CommitFields
<1> QED BY <1>1, <1>2, <1>3, <1>4 DEF ClientMoves

LEMMA ClientLeased ==
    ASSUME NoResume, Typed, Grounded, Disabling, Leased, NEW c \in Client, ClientMoves(c)
    PROVE  Leased'
<1>1. UNCHANGED wk
  BY DEF ClientMoves, Asks, CommitsCreate, CommitsStop, CommitsResume, CommitsDelete, Commits
<1>2. \A v \in Worker : AtWork(v) => wk[v].job \in Job /\ row[wk[v].job].status # "none"
  BY DEF AtWork, Engaged, Typed, WorkersTyped, WorkerTyped, Grounded, Begun
<1>3. \A k \in Job : \/ row'[k] = row[k] \/ ~row'[k].enabled \/ row[k].status = "none"
  BY ClientRows
<1>4. \A v \in Worker : AtWork(v)' <=> AtWork(v)
  BY <1>1 DEF AtWork
<1> QED BY <1>1, <1>2, <1>3, <1>4, ElsewhereLeased

LEMMA TimeLeased ==
    ASSUME Typed, Leased, TimePasses
    PROVE  Leased'
<1>1. \A w \in Worker : /\ AtWork(w)' <=> AtWork(w)
                        /\ wk'[w].job = wk[w].job
                        /\ AtWork(w) => wk'[w].tryLag = wk[w].tryLag + 1
  BY DEF TimePasses, Lasts, AtWork
<1>2. OneAtAJob'
  BY <1>1 DEF Leased, OneAtAJob
<1>3. ASSUME NEW w \in Worker, AtWork(w)', row'[wk'[w].job].enabled
      PROVE  /\ row'[wk'[w].job].locked_by = w
             /\ row'[wk'[w].job].locked_until >= Lease - wk'[w].tryLag
  <2> DEFINE k == wk[w].job
  <2>1. AtWork(w) /\ wk'[w].job = k /\ wk'[w].tryLag = wk[w].tryLag + 1
    BY <1>1, <1>3
  <2>2. k \in Job /\ wk[w].tryLag \in Int
    BY <2>1, ConstantsAssumption DEF AtWork, Engaged, Typed, WorkersTyped, WorkerTyped, WorkerState
  <2>3. /\ row'[k].enabled = row[k].enabled /\ row'[k].locked_by = row[k].locked_by
        /\ row'[k].locked_until = Later(row[k].locked_until) /\ row[k].locked_until \in Int
    BY <2>2 DEF TimePasses, Ages, Typed, RowsTyped, Row, Timer
  <2>4. row[k].locked_by = w /\ row[k].locked_until >= Lease - wk[w].tryLag
    BY <1>3, <2>1, <2>3 DEF Leased, LeaseKept
  <2>5. row'[k].locked_until \in Int /\ row'[k].locked_until >= row[k].locked_until - 1
    BY <2>3, LaterBound
  <2>6. row'[k].locked_until >= Lease - (wk[w].tryLag + 1)
    BY <2>2, <2>3, <2>4, <2>5, ConstantsAssumption
  <2> QED BY <2>1, <2>3, <2>4, <2>6
<1>4. LeaseKept'
  BY <1>3 DEF LeaseKept
<1> QED BY <1>2, <1>4 DEF Leased

LEMMA NextLeased ==
    ASSUME NoResume, PassWithinLease, Typed, Typed', Grounded, Disabling, Leased, [Next]_vars
    PROVE  Leased'
<1>1. CASE Unmoved
  BY <1>1, ElsewhereLeased DEF Unmoved, AtWork
<1> QED BY <1>1, StepMoves, WorkerLeased, ClientLeased, TimeLeased

LEMMA AlwaysLeased == NoResume /\ PassWithinLease => (Spec => []Leased)
<1>1. ASSUME NoResume, PassWithinLease PROVE Spec => []Leased
  <2>1. Typed /\ Typed' /\ Grounded /\ Disabling /\ Leased /\ [Next]_vars => Leased'
    BY <1>1, NextLeased
  <2>2. Spec => []Disabling
    BY <1>1, AlwaysDisabling DEF RequestsApart
  <2> QED BY <2>1, <2>2, InitLeased, AlwaysTyped, AlwaysGrounded, PTL DEF Spec
<1> QED BY <1>1

\* Two workers never attempt the same job at once: while a pass fits in the lease
\* and nobody resumes the job, the claim is exclusive for any number of processes,
\* jobs and users, whatever fails.
THEOREM ClaimsExclude == NoResume /\ PassWithinLease => (Spec => []SingleFlight)
<1>1. Leased => SingleFlight
  BY DEF Leased, OneAtAJob, SingleFlight, Attempting, AtWork, Engaged
<1>2. ASSUME NoResume, PassWithinLease PROVE Spec => []SingleFlight
  <2>1. Spec => []Leased
    BY <1>2, AlwaysLeased
  <2> QED BY <1>1, <2>1, PTL
<1> QED BY <1>2

------------------------------------------------------------------------------
(* The cooldown of a 429.  One worker process: the pass reads the column when  *)
(* it picks the job, and from there to the call only the worker itself could   *)
(* put the cooldown off; stop and resume rewrite other columns.                *)

Cooled ==
    \A w \in Worker : wk[w].pc \in Early \cup {"claim"} => row[wk[w].job].cooldown_until <= 0

LEMMA InitCooled == Init => Cooled
BY DEF Init, Sleeping, Cooled, Early

LEMMA WorkerCooled ==
    ASSUME OneWorker, Cooled, NEW w \in Worker, WorkerMoves(w)
    PROVE  Cooled'
<1>1. \A v \in Worker : v = w
  BY DEF OneWorker
<1>2. CASE \E j \in Job : Picks(w, j)
  BY <1>1, <1>2 DEF Picks, Cooled
<1>3. CASE Claims(w)
  BY <1>1, <1>3 DEF Claims, Cooled
<1>4. CASE Advances(w)
  BY <1>1, <1>4 DEF Advances, SameAttempt, Cooled, Early
<1>5. CASE ~Claims(w) /\ ~Advances(w) /\ ~\E j \in Job : Picks(w, j)
  <2>1. wk'[w].pc \notin Early \cup {"claim"}
    BY <1>5 DEF WorkerMoves, Surveys, StepsBack, SetsAside, CallsOut, CountsMachine, Settles,
                Reports, Early
  <2> QED BY <1>1, <2>1 DEF Cooled
<1> QED BY <1>2, <1>3, <1>4, <1>5

LEMMA ClientCooled ==
    ASSUME Typed, Grounded, Cooled, NEW c \in Client, ClientMoves(c)
    PROVE  Cooled'
<1>1. UNCHANGED wk
  BY DEF ClientMoves, Asks, CommitsCreate, CommitsStop, CommitsResume, CommitsDelete, Commits
<1>2. \A w \in Worker : wk[w].pc \notin {"poll", "scan"} =>
         wk[w].job \in Job /\ row[wk[w].job].status # "none"
  BY DEF Typed, WorkersTyped, WorkerTyped, Grounded, Begun
<1>3. ASSUME NEW k \in Job, row[k].status # "none", row[k].cooldown_until <= 0
      PROVE  row'[k].cooldown_until <= 0
  <2>1. CASE \E op \in {"create", "stop", "resume", "delete"}, j \in Job : Asks(c, op, j)
    BY <1>3, <2>1 DEF Asks
  <2>2. CASE CommitsCreate(c)
    BY <1>3, <2>2 DEF CommitsCreate, Commits, Elsewhere, Grounded, Asked
  <2>3. CASE CommitsStop(c) \/ CommitsResume(c)
    BY <1>3, <2>3 DEF CommitsStop, CommitsResume, Commits, Elsewhere, HasStopped, HasResumed
  <2>4. CASE CommitsDelete(c)
    BY <1>3, <2>4, ConstantsAssumption DEF CommitsDelete, Commits, Elsewhere, Past
  <2> QED BY <2>1, <2>2, <2>3, <2>4 DEF ClientMoves
<1> QED BY <1>1, <1>2, <1>3 DEF Cooled, Early

LEMMA NextCooled ==
    ASSUME OneWorker, Typed, Grounded, Cooled, [Next]_vars
    PROVE  Cooled'
<1>1. CASE Unmoved
  BY <1>1 DEF Unmoved, Cooled
<1>2. CASE TimePasses
  <2>1. \A t \in Int : t <= 0 => Later(t) <= 0
    BY ConstantsAssumption DEF Later, AtLeast, Past
  <2>2. \A w \in Worker : wk[w].pc \in Early \cup {"claim"} => wk[w].job \in Job
    BY DEF Typed, WorkersTyped, WorkerTyped, Early
  <2>3. \A j \in Job : row[j].cooldown_until \in Int
    BY DEF Typed, RowsTyped, Row, Timer
  <2> QED BY <1>2, <2>1, <2>2, <2>3 DEF TimePasses, Ages, Lasts, Cooled
<1> QED BY <1>1, <1>2, StepMoves, WorkerCooled, ClientCooled

\* A call is sent for the job of a worker that stands before its call.
LEMMA CallMoves ==
    ASSUME Typed, [Next]_vars, NEW j \in Job, calls'[j] > calls[j]
    PROVE  \E w \in Worker : CallsOut(w) /\ wk[w].pc \in Early /\ wk[w].job = j
<1>1. calls \in [Job -> Nat]
  BY DEF Typed, ObserversTyped
<1>2. calls'[j] # calls[j]
  BY <1>1
<1>3. ~Unmoved /\ ~TimePasses /\ \A c \in Client : ~ClientMoves(c)
  BY <1>2 DEF Unmoved, TimePasses, Quiet, ClientMoves, Asks, CommitsCreate, CommitsStop,
              CommitsResume, CommitsDelete, Commits
<1>4. PICK w \in Worker : WorkerMoves(w)
  BY <1>3, StepMoves
<1>5. CallsOut(w)
  BY <1>2, <1>4 DEF WorkerMoves, Surveys, StepsBack, SetsAside, Picks, Claims, Advances,
                    CountsMachine, Settles, Reports, Quiet
<1>6. wk[w].pc \in Early /\ wk[w].job = j
  BY <1>1, <1>2, <1>5 DEF CallsOut, Early
<1> QED BY <1>5, <1>6

\* With one worker process no call goes out for a job while its 429 cooldown runs,
\* whatever the users stop, resume, delete or create meanwhile.
THEOREM CooldownKept == OneWorker => (Spec => CooldownHolds)
<1>1. ASSUME OneWorker PROVE Spec => CooldownHolds
  <2> DEFINE Calls == \A j \in Job : calls'[j] > calls[j] => row[j].cooldown_until <= 0
  <2>1. Typed /\ Grounded /\ Cooled /\ [Next]_vars => Cooled'
    BY <1>1, NextCooled
  <2>2. Typed /\ Cooled /\ [Next]_vars => Calls
    BY CallMoves DEF Cooled
  <2>3. Typed /\ Cooled /\ [Next]_vars => [Calls]_vars
    BY <2>2
  <2> QED BY <2>1, <2>3, InitCooled, AlwaysTyped, AlwaysGrounded, PTL DEF Spec, CooldownHolds
<1> QED BY <1>1

------------------------------------------------------------------------------
(* The time between two calls.  One worker process, no resume, a lease that    *)
(* outlasts an attempt by the minimum interval, and a backoff no shorter than  *)
(* that interval.  From a call to the end of its attempt the lease keeps the   *)
(* job away from the next pass, from then on next_run_at does.                 *)

LeaseOutlasts == MinInterval + Horizon <= Lease + 1
BackoffLong == \A hits \in Nat \ {0} : Backoff(hits) >= MinInterval

\* The minimum interval is over, or will be when the job falls due.
Waited(j) == sinceCall[j] >= MinInterval
PutOff(j) == Waited(j) \/ row[j].next_run_at + sinceCall[j] >= MinInterval

\* The lease runs at least to the last unit of the interval.
Covered(j) ==
    row[j].locked_by # NoOne /\ row[j].locked_until + sinceCall[j] + 1 >= MinInterval

\* What the worker means to try, and the one job it is about to let go
SpacedAt(w) ==
    LET s == wk[w] IN
    /\ s.pc \in Early => Waited(s.job)
    /\ s.pc = "claim" /\ row[s.job].enabled => Waited(s.job)
    /\ \A j \in s.scan : (s.pc = "scan" \/ j # s.job) /\ row[j].enabled => Waited(j)
    /\ s.pc = "notify" /\ row[s.job].enabled => PutOff(s.job)

Spaced ==
    /\ \A w \in Worker : SpacedAt(w)
    /\ \A j \in Job : row[j].enabled => PutOff(j) \/ Covered(j)

LEMMA InitSpaced == Init => Spaced
<1> SUFFICES ASSUME Init PROVE Spaced
  OBVIOUS
<1>1. \A j \in Job : Waited(j)
  BY ConstantsAssumption DEF Init, Waited
<1>2. \A w \in Worker : wk[w].pc = "poll" /\ wk[w].scan = {}
  BY DEF Init, Sleeping
<1> QED BY <1>1, <1>2 DEF Spaced, SpacedAt, Early, PutOff

\* The types the comparisons of times need
LEMMA TimesTyped ==
    ASSUME Typed
    PROVE  /\ \A j \in Job : /\ row[j].next_run_at \in Int /\ row[j].locked_until \in Int
                             /\ sinceCall[j] \in Nat /\ sinceCall[j] <= MinInterval
           /\ sinceCall \in [Job -> Int]
           /\ \A w \in Worker : /\ wk[w].scan \subseteq Job
                                /\ wk[w].pc \notin {"poll", "scan"} => wk[w].job \in Job
                                /\ wk[w].tryLag \in Nat /\ wk[w].tryLag <= Horizon
BY ConstantsAssumption DEF Typed, RowsTyped, Row, Timer, ObserversTyped, WorkersTyped,
   WorkerTyped, WorkerState

\* A step that sends no call, moves no attempt and puts no enabled job forward
LEMMA ElsewhereSpaced ==
    ASSUME Typed, Spaced, UNCHANGED <<wk, sinceCall>>,
           \A j \in Job : row'[j] = row[j] \/ ~row'[j].enabled \/ Waited(j)
    PROVE  Spaced'
<1>1. \A j \in Job : Waited(j)' <=> Waited(j)
  BY DEF Waited
<1>2. \A j \in Job : row'[j].enabled => (Waited(j) \/ row'[j] = row[j])
  OBVIOUS
<1>3. ASSUME NEW w \in Worker PROVE SpacedAt(w)'
  BY <1>1, <1>2, TimesTyped DEF Spaced, SpacedAt, PutOff, Early
<1>4. ASSUME NEW j \in Job, row'[j].enabled PROVE PutOff(j)' \/ Covered(j)'
  BY <1>1, <1>2, <1>4 DEF Spaced, PutOff, Covered
<1> QED BY <1>3, <1>4 DEF Spaced

LEMMA ClientSpaced ==
    ASSUME NoResume, Typed, Grounded, Disabling, Spaced, NEW c \in Client, ClientMoves(c)
    PROVE  Spaced'
<1>1. UNCHANGED <<wk, sinceCall>>
  BY DEF ClientMoves, Asks, CommitsCreate, CommitsStop, CommitsResume, CommitsDelete, Commits
<1>2. \A j \in Job : row[j].status = "none" => Waited(j)
  BY ConstantsAssumption DEF Grounded, Fresh, Waited
<1> QED BY <1>1, <1>2, ClientRows, ElsewhereSpaced

LEMMA TimeSpaced ==
    ASSUME Typed, Spaced, TimePasses
    PROVE  Spaced'
<1>1. \A j \in Job : /\ row'[j].enabled = row[j].enabled
                     /\ row'[j].locked_by = row[j].locked_by
                     /\ row'[j].next_run_at \in Int /\ row'[j].locked_until \in Int
                     /\ row'[j].next_run_at >= row[j].next_run_at - 1
                     /\ row'[j].locked_until >= row[j].locked_until - 1
  BY TimesTyped, LaterBound DEF TimePasses, Ages
<1>2. \A j \in Job : sinceCall'[j] = IF sinceCall[j] < MinInterval THEN sinceCall[j] + 1
                                     ELSE MinInterval
  BY DEF TimePasses
<1>3. \A w \in Worker : /\ wk'[w].pc = wk[w].pc /\ wk'[w].job = wk[w].job
                        /\ wk'[w].scan = wk[w].scan
  BY DEF TimePasses, Lasts
<1>4. \A j \in Job : /\ Waited(j) => Waited(j)'
                     /\ PutOff(j) => PutOff(j)'
                     /\ Covered(j) => PutOff(j)' \/ Covered(j)'
  BY <1>1, <1>2, TimesTyped, ConstantsAssumption DEF Waited, PutOff, Covered
<1>5. ASSUME NEW w \in Worker PROVE SpacedAt(w)'
  BY <1>1, <1>3, <1>4, TimesTyped DEF Spaced, SpacedAt, Early
<1>6. ASSUME NEW j \in Job, row'[j].enabled PROVE PutOff(j)' \/ Covered(j)'
  BY <1>1, <1>4, <1>6 DEF Spaced
<1> QED BY <1>5, <1>6 DEF Spaced

LEMMA WorkerSpaced ==
    ASSUME OneWorker, LeaseOutlasts, BackoffLong, Typed, Typed', Leased, Spaced,
           NEW w \in Worker, WorkerMoves(w)
    PROVE  Spaced'
<1> DEFINE s == wk[w]
           j == s.job
           Lets(k) == row'[k].enabled => PutOff(k)' \/ Covered(k)'
<1>1. SUFFICES SpacedAt(w)' /\ \A k \in Job : Lets(k)
  BY DEF Spaced, OneWorker
<1>2. SpacedAt(w) /\ \A k \in Job : row[k].enabled => PutOff(k) \/ Covered(k)
  BY DEF Spaced
<1>3. \A k \in Job : row'[k].enabled => row[k].enabled
  BY WorkerRows DEF SameLife
<1>4. \A k \in Job : row'[k].next_run_at \in Int
  BY DEF Typed, RowsTyped, Row, Timer
<1>5. CASE Surveys(w)
  <2>1. \A k \in Job : /\ row'[k].next_run_at = row[k].next_run_at
                       /\ row'[k].locked_until < 0 \/ row[k].locked_until < 0
                          \/ row'[k] = row[k]
    BY <1>5, UnleasedFields DEF Surveys, Typed, RowsTyped
  <2>2. UNCHANGED sinceCall /\ s.pc = "poll" /\ wk'[w].pc = "scan"
        /\ wk'[w].scan = {k \in Job : Due(row[k])}
    BY <1>5 DEF Surveys, Quiet
  <2>3. \A k \in Job : Due(row[k]) => Waited(k)
    BY <1>2, TimesTyped, ConstantsAssumption
       DEF Due, Active, Free, PutOff, Waited, Covered
  <2>4. \A k \in Job : row'[k] = row[k] \/ row[k].locked_until < 0
    BY <1>5 DEF Surveys
  <2>5. \A k \in Job : Lets(k)
    BY <1>2, <1>3, <2>1, <2>2, <2>4, TimesTyped, ConstantsAssumption
       DEF PutOff, Waited, Covered
  <2>6. SpacedAt(w)'
    BY <2>2, <2>3 DEF SpacedAt, Early, Waited
  <2> QED BY <2>5, <2>6
<1>6. CASE StepsBack(w)
  <2>1. UNCHANGED <<row, sinceCall>>
    BY <1>6 DEF StepsBack, Quiet
  <2>2. SpacedAt(w)'
    BY <1>2, <1>6, <2>1 DEF StepsBack, SpacedAt, Early, Waited
  <2> QED BY <1>2, <2>1, <2>2 DEF PutOff, Waited, Covered
<1>7. ASSUME NEW k \in Job, SetsAside(w, k)
      PROVE  SpacedAt(w)' /\ \A i \in Job : Lets(i)
  <2>1. /\ UNCHANGED sinceCall /\ s.pc = "scan" /\ wk'[w].pc = "scan"
        /\ wk'[w].scan \subseteq s.scan /\ k \in s.scan
        /\ \A i \in Job \ {k} : row'[i] = row[i]
    BY <1>7 DEF SetsAside, Quiet, Elsewhere
  <2>2. SpacedAt(w)'
    BY <1>2, <1>3, <2>1, TimesTyped DEF SpacedAt, Early, Waited
  <2>3. row[k].enabled => Waited(k)
    BY <1>2, <2>1 DEF SpacedAt
  <2> QED BY <1>2, <1>3, <2>1, <2>2, <2>3 DEF PutOff, Waited, Covered
<1>8. ASSUME NEW k \in Job, Picks(w, k)
      PROVE  SpacedAt(w)' /\ \A i \in Job : Lets(i)
  <2>1. UNCHANGED <<row, sinceCall>>
    BY <1>8 DEF Picks, Quiet
  <2>2. SpacedAt(w)'
    BY <1>2, <1>8, <2>1 DEF Picks, SpacedAt, Early, Waited
  <2> QED BY <1>2, <2>1, <2>2 DEF PutOff, Waited, Covered
<1>9. CASE Claims(w)
  <2>1. /\ UNCHANGED sinceCall /\ s.pc = "claim" /\ wk'[w].pc = "prep" /\ wk'[w].job = j
        /\ wk'[w].scan = s.scan /\ row[j].enabled /\ j \in Job
        /\ \A i \in Job \ {j} : row'[i] = row[i]
    BY <1>9, TimesTyped DEF Claims, Claimable, Active, Quiet, Elsewhere
  <2>2. Waited(j)
    BY <1>2, <2>1 DEF SpacedAt
  <2>3. SpacedAt(w)'
    BY <1>2, <1>3, <2>1, <2>2, TimesTyped DEF SpacedAt, Early, Waited
  <2> QED BY <1>2, <2>1, <2>2, <2>3 DEF PutOff, Waited, Covered
<1>10. CASE Advances(w) \/ CountsMachine(w)
  <2>1. UNCHANGED <<row, sinceCall>> /\ wk'[w].job = j /\ wk'[w].scan = s.scan
    BY <1>10 DEF Advances, CountsMachine, SameAttempt, Quiet
  <2>2. /\ wk'[w].pc \in Early => s.pc \in Early
        /\ s.pc # "scan" /\ wk'[w].pc \notin {"scan", "claim", "notify"}
    BY <1>10 DEF Advances, CountsMachine, Early
  <2>3. SpacedAt(w)'
    BY <1>2, <2>1, <2>2 DEF SpacedAt, Waited
  <2> QED BY <1>2, <2>1, <2>3 DEF PutOff, Waited, Covered
<1>11. CASE CallsOut(w)
  <2>1. /\ UNCHANGED row /\ wk'[w].job = j /\ wk'[w].scan = s.scan
        /\ s.pc \in {"launch", "unsaved"} /\ wk'[w].pc \in {"judge", "lost"} /\ j \in Job
        /\ sinceCall' = [sinceCall EXCEPT ![j] = 0]
    BY <1>11, TimesTyped DEF CallsOut, SameAttempt
  <2>2. sinceCall'[j] = 0 /\ \A i \in Job \ {j} : sinceCall'[i] = sinceCall[i]
    BY <2>1, TimesTyped
  <2>3. SpacedAt(w)'
    BY <1>2, <2>1, <2>2, TimesTyped DEF SpacedAt, Early, Waited
  <2>4. row[j].enabled => Covered(j)'
    <3>1. ASSUME row[j].enabled
          PROVE  row[j].locked_by = w /\ row[j].locked_until >= Lease - s.tryLag
      BY <2>1, <3>1 DEF Leased, LeaseKept, AtWork, Engaged
    <3> QED BY <2>1, <2>2, <3>1, TimesTyped, ConstantsAssumption DEF Covered, LeaseOutlasts
  <2> QED BY <1>2, <2>1, <2>2, <2>3, <2>4 DEF PutOff, Waited, Covered
<1>12. CASE Settles(w) \/ Reports(w)
  <2>1. /\ UNCHANGED sinceCall /\ j \in Job /\ \A i \in Job \ {j} : row'[i] = row[i]
    BY <1>12, TimesTyped DEF Settles, Reports, Quiet, Elsewhere
  <2>2. ASSUME NEW k \in Job, k = j, row'[k].enabled PROVE PutOff(k)'
    <3>1. CASE Settles(w) /\ s.pc \in {"lock", "quota"}
      BY <1>2, <2>1, <2>2, <3>1 DEF SpacedAt, Early, PutOff, Waited
    <3>2. CASE Settles(w) /\ s.pc = "notify"
      BY <1>2, <1>3, <2>1, <2>2, <3>2 DEF Settles, SpacedAt, PutOff, Waited
    <3>3. CASE \/ Settles(w) /\ s.pc \in {"judge", "recover"}
               \/ Reports(w)
      <4>1. row'[k].next_run_at >= MinInterval
        BY <1>4, <2>2, <3>3, ConstantsAssumption DEF Settles, Reports, BackoffLong
      <4> QED BY <1>4, <2>1, <4>1, TimesTyped, ConstantsAssumption DEF PutOff
    <3>4. CASE Settles(w) /\ s.pc = "prep"
      BY <2>2, <3>4 DEF Settles
    <3> QED BY <1>12, <3>1, <3>2, <3>3, <3>4 DEF Settles
  <2>3. \A k \in Job : Lets(k)
    BY <1>2, <2>1, <2>2 DEF PutOff, Waited, Covered
  <2>4. SpacedAt(w)'
    <3>1. CASE Settles(w)
      BY <1>2, <1>3, <2>1, <3>1, TimesTyped DEF Settles, SpacedAt, Early, Waited
    <3>2. CASE Reports(w)
      BY <1>2, <1>3, <2>1, <2>2, <3>2, TimesTyped
         DEF Reports, SameAttempt, SpacedAt, Early, Waited
    <3> QED BY <1>12, <3>1, <3>2
  <2> QED BY <2>3, <2>4
<1> QED BY <1>5, <1>6, <1>7, <1>8, <1>9, <1>10, <1>11, <1>12 DEF WorkerMoves

LEMMA NextSpaced ==
    ASSUME OneWorker, NoResume, LeaseOutlasts, BackoffLong, Typed, Typed', Grounded,
           Disabling, Leased, Spaced, [Next]_vars
    PROVE  Spaced'
<1>1. CASE Unmoved
  BY <1>1, ElsewhereSpaced DEF Unmoved, Quiet
<1> QED BY <1>1, StepMoves, WorkerSpaced, ClientSpaced, TimeSpaced

\* Two calls of a job are at least the minimum interval apart, with one worker
\* process and without a resume, whatever fails between them.
THEOREM CallsKeptApart ==
    OneWorker /\ NoResume /\ LeaseOutlasts /\ BackoffLong => (Spec => [][CallsApart]_vars)
<1>1. ASSUME OneWorker, NoResume, LeaseOutlasts, BackoffLong
      PROVE  Spec => [][CallsApart]_vars
  <2>1. Typed /\ Typed' /\ Grounded /\ Disabling /\ Leased /\ Spaced /\ [Next]_vars
        => Spaced'
    BY <1>1, NextSpaced
  <2>2. Typed /\ Spaced /\ [Next]_vars => [CallsApart]_vars
    BY CallMoves DEF Spaced, SpacedAt, CallsApart, Waited
  <2>3. Spec => []Disabling
    BY <1>1, AlwaysDisabling DEF RequestsApart
  <2>4. Spec => []Leased
    BY <1>1, AlwaysLeased, ConstantsAssumption DEF LeaseOutlasts, PassWithinLease
  <2> QED BY <2>1, <2>2, <2>3, <2>4, InitSpaced, AlwaysTyped, AlwaysGrounded, PTL DEF Spec
<1> QED BY <1>1

------------------------------------------------------------------------------
(* One active job per tenant.  One worker process, one request at a time: a    *)
(* request that makes a job active has just found no other, and no worker      *)
(* makes an inactive job active.  Two requests that read before either commits *)
(* would defeat the check.                                                     *)

Settling == Engaged \ {"notify"}
Waiting == {"idle", "running"}

\* An attempt leaves its job waiting unless the job is disabled, ...
AttemptsWait ==
    \A w \in Worker : wk[w].pc \in Settling /\ row[wk[w].job].enabled
                      => row[wk[w].job].status \in Waiting

\* ... and so does one whose job a resume found idle, which leaves the status alone.
ResumesWait ==
    \A c \in Client, w \in Worker :
       /\ cl[c].op = "resume" /\ cl[c].read.status = "idle"
       /\ wk[w].pc \in Settling /\ wk[w].job = cl[c].job
       => row[wk[w].job].status \in Waiting

NoneOther == \A c \in Client : cl[c].op \in {"create", "resume"} => ~Conflict(cl[c].job)

ActiveApart == AttemptsWait /\ ResumesWait /\ NoneOther /\ OneActivePerTenant

LEMMA InitActiveApart ==
    (\A j, k \in InitJobs : TenantOf[j] = TenantOf[k] => j = k) => (Init => ActiveApart)
<1> SUFFICES ASSUME \A j, k \in InitJobs : TenantOf[j] = TenantOf[k] => j = k, Init
             PROVE  ActiveApart
  OBVIOUS
<1>1. /\ \A w \in Worker : wk[w].pc = "poll"
      /\ \A c \in Client : cl[c].op = "none"
      /\ \A j \in Job : row[j].enabled => j \in InitJobs
  BY DEF Init, Sleeping, NoRequest, NoRow
<1> QED BY <1>1 DEF ActiveApart, AttemptsWait, ResumesWait, NoneOther, OneActivePerTenant,
                    Active, Settling, Engaged

LEMMA WorkerActiveApart ==
    ASSUME OneWorker, Typed, Grounded, ActiveApart, NEW w \in Worker, WorkerMoves(w)
    PROVE  ActiveApart'
<1> DEFINE j == wk[w].job
<1>1. /\ \A v \in Worker : v = w
      /\ UNCHANGED cl
      /\ wk[w].pc \notin {"poll", "scan"} => j \in Job
      /\ \A c \in Client : cl[c].op # "none" => cl[c].job \in Job
  BY DEF OneWorker, WorkerMoves, Surveys, StepsBack, SetsAside, Picks, Claims, Advances,
         CallsOut, CountsMachine, Settles, Reports, Quiet, Typed, WorkersTyped, WorkerTyped,
         ClientsTyped
<1>2. ASSUME NEW k \in Job, Active(row'[k]) PROVE Active(row[k])
  <2>1. CASE Surveys(w)
    BY <1>2, <2>1, UnleasedFields DEF Surveys, Active, Typed, RowsTyped
  <2>2. CASE StepsBack(w) \/ Advances(w) \/ CallsOut(w) \/ CountsMachine(w)
    BY <1>2, <2>2 DEF StepsBack, Advances, CallsOut, CountsMachine
  <2>3. CASE \E i \in Job : SetsAside(w, i) \/ Picks(w, i)
    BY <1>2, <2>3 DEF SetsAside, Picks, Elsewhere, Active
  <2>4. CASE Claims(w)
    BY <1>2, <2>4 DEF Claims, Claimable, Elsewhere
  <2>5. CASE Settles(w) \/ Reports(w)
    BY <1>2, <2>5 DEF Settles, Reports, Elsewhere, Active, ActiveApart, AttemptsWait,
                      Settling, Engaged, Waiting
  <2> QED BY <2>1, <2>2, <2>3, <2>4, <2>5 DEF WorkerMoves
<1>3. NoneOther' /\ OneActivePerTenant'
  BY <1>1, <1>2 DEF ActiveApart, NoneOther, OneActivePerTenant, Conflict, Active
<1>4. wk'[w].pc \in Settling =>
         /\ wk'[w].job = j
         /\ \/ row'[j].status = "running"
            \/ row' = row /\ wk[w].pc \in Settling
  BY DEF WorkerMoves, Surveys, StepsBack, SetsAside, Picks, Claims, Advances, CallsOut,
         CountsMachine, Settles, Reports, SameAttempt, Settling, Engaged
<1>5. AttemptsWait' /\ ResumesWait'
  BY <1>1, <1>4 DEF ActiveApart, AttemptsWait, ResumesWait, Waiting
<1> QED BY <1>3, <1>5 DEF ActiveApart

LEMMA ClientActiveApart ==
    ASSUME OneClient, Typed, Grounded, Disabling, ActiveApart, NEW c \in Client,
           ClientMoves(c)
    PROVE  ActiveApart'
<1> DEFINE j == cl[c].job
<1>1. /\ \A d \in Client : d = c
      /\ UNCHANGED wk
      /\ \A v \in Worker : wk[v].pc \in Settling =>
            wk[v].job \in Job /\ row[wk[v].job].status # "none"
      /\ cl[c].op # "none" => j \in Job
  BY DEF OneClient, ClientMoves, Asks, CommitsCreate, CommitsStop, CommitsResume,
         CommitsDelete, Commits, Typed, WorkersTyped, WorkerTyped, ClientsTyped, Grounded,
         Begun, Settling, Engaged
<1>2. ASSUME NEW op \in {"create", "stop", "resume", "delete"}, NEW k \in Job, Asks(c, op, k)
      PROVE  ActiveApart'
  <2>1. AttemptsWait' /\ OneActivePerTenant'
    BY <1>2 DEF Asks, ActiveApart, AttemptsWait, OneActivePerTenant
  <2>2. ResumesWait' /\ NoneOther'
    BY <1>1, <1>2 DEF Asks, ResumesWait, NoneOther, Conflict, Waiting
  <2> QED BY <2>1, <2>2 DEF ActiveApart
\* Once a request has committed, no other is under way.
<1>3. ASSUME j \in Job, cl'[c].op = "none", \A k \in Job \ {j} : row'[k] = row[k],
             Active(row'[j]) => Active(row[j]) \/ ~Conflict(j), AttemptsWait'
      PROVE  ActiveApart'
  <2>1. ResumesWait' /\ NoneOther'
    BY <1>1, <1>3 DEF ResumesWait, NoneOther
  <2>2. OneActivePerTenant'
    BY <1>3 DEF ActiveApart, OneActivePerTenant, Conflict, Active
  <2> QED BY <1>3, <2>1, <2>2 DEF ActiveApart
<1>4. CASE CommitsCreate(c)
  <2>1. /\ j \in Job /\ ~Conflict(j) /\ row[j].status = "none" /\ cl'[c].op = "none"
        /\ \A k \in Job \ {j} : row'[k] = row[k]
    BY <1>1, <1>4 DEF CommitsCreate, Commits, Elsewhere, Grounded, Asked, ActiveApart,
                      NoneOther
  <2>2. AttemptsWait'
    BY <1>1, <2>1 DEF ActiveApart, AttemptsWait
  <2> QED BY <1>3, <2>1, <2>2
<1>5. CASE CommitsStop(c) \/ CommitsDelete(c)
  <2>1. /\ j \in Job /\ ~row'[j].enabled /\ cl'[c].op = "none"
        /\ \A k \in Job \ {j} : row'[k] = row[k]
    BY <1>5, CommitFields DEF CommitsStop, CommitsResume, CommitsDelete
  <2>2. AttemptsWait'
    BY <1>1, <2>1 DEF ActiveApart, AttemptsWait
  <2> QED BY <1>3, <2>1, <2>2 DEF Active
<1>6. CASE CommitsResume(c)
  <2>1. /\ j \in Job /\ ~Conflict(j) /\ cl'[c].op = "none"
        /\ \A k \in Job \ {j} : row'[k] = row[k]
        /\ cl[c].op = "resume"
    BY <1>1, <1>6 DEF CommitsResume, Commits, Elsewhere, ActiveApart, NoneOther
  <2>2. row'[j].status = row[j].status \/ row'[j].status = "idle"
    BY <1>6 DEF CommitsResume, HasResumed, Column
  <2>3. row'[j].status # "idle" => row' = row \/ cl[c].read.status = "idle"
    BY <1>6 DEF CommitsResume, HasResumed, Column
  <2>4. AttemptsWait'
    BY <1>1, <2>1, <2>2, <2>3 DEF ActiveApart, AttemptsWait, ResumesWait, Waiting
  <2> QED BY <1>3, <2>1, <2>4
<1> QED BY <1>2, <1>4, <1>5, <1>6 DEF ClientMoves

LEMMA NextActiveApart ==
    ASSUME OneWorker, OneClient, Typed, Grounded, Disabling, ActiveApart, [Next]_vars
    PROVE  ActiveApart'
<1>1. CASE Unmoved
  BY <1>1 DEF Unmoved, Quiet, ActiveApart, AttemptsWait, ResumesWait, NoneOther, Conflict,
              OneActivePerTenant
<1>2. CASE TimePasses
  <2>1. /\ UNCHANGED cl /\ \A c \in Client : cl[c].op = "none"
        /\ \A k \in Job : row'[k].enabled = row[k].enabled /\ row'[k].status = row[k].status
        /\ \A w \in Worker : wk'[w].pc = wk[w].pc /\ wk'[w].job = wk[w].job
    BY <1>2 DEF TimePasses, Ages, Lasts
  <2>2. \A w \in Worker : wk[w].pc \in Settling => wk[w].job \in Job
    BY DEF Typed, WorkersTyped, WorkerTyped, Settling, Engaged
  <2>3. AttemptsWait' /\ OneActivePerTenant'
    BY <2>1, <2>2 DEF ActiveApart, AttemptsWait, OneActivePerTenant, Active
  <2>4. ResumesWait' /\ NoneOther'
    BY <2>1 DEF ResumesWait, NoneOther
  <2> QED BY <2>3, <2>4 DEF ActiveApart
<1> QED BY <1>1, <1>2, StepMoves, WorkerActiveApart, ClientActiveApart

\* With one worker process and one request at a time a tenant never has two active
\* jobs, if it has no two at the start: the check of create and resume suffices.
THEOREM ActivesApart ==
    /\ OneWorker /\ OneClient
    /\ \A j, k \in InitJobs : TenantOf[j] = TenantOf[k] => j = k
    => (Spec => []OneActivePerTenant)
<1>1. ASSUME OneWorker, OneClient, \A j, k \in InitJobs : TenantOf[j] = TenantOf[k] => j = k
      PROVE  Spec => []OneActivePerTenant
  <2>1. Typed /\ Grounded /\ Disabling /\ ActiveApart /\ [Next]_vars => ActiveApart'
    BY <1>1, NextActiveApart
  <2>2. ActiveApart => OneActivePerTenant
    BY DEF ActiveApart
  <2>3. Spec => []Disabling
    BY <1>1, AlwaysDisabling DEF RequestsApart
  <2>4. Init => ActiveApart
    BY <1>1, InitActiveApart
  <2> QED BY <2>1, <2>2, <2>3, <2>4, AlwaysTyped, AlwaysGrounded, PTL DEF Spec
<1> QED BY <1>1

------------------------------------------------------------------------------
(* The machines of a job.  Any number of worker processes; nobody resumes,     *)
(* passes fit in the lease, and no process, answer or commit is lost.  The     *)
(* machines of a job are then those its row has counted, but for the one a     *)
(* worker carries from Oracle's answer to its commit.                          *)

Machines(j) == Cardinality(MachinesOf(j))

\* What the worker at the job knows of its machines
WantedAt(w) ==
    LET s == wk[w]  r == row[s.job]  m == Machines(s.job) IN
    /\ s.pc \notin {"unsaved", "lost"}
    /\ s.pc \in {"prep", "lock", "quota", "launch", "judge", "recover"} /\ Live(r)
       => r.created_count = s.created
    /\ s.pc \in {"prep", "lock", "quota", "launch"} => s.created < Target /\ m <= s.created
    /\ s.pc = "judge" =>
          s.created < Target /\ m <= s.created + (IF s.said = "ok" THEN 1 ELSE 0)
    /\ s.pc = "commit" =>
          /\ m <= s.created /\ s.created <= Target
          /\ s.created = Target => s.said = "finished"
          /\ Live(r) => r.created_count = s.created - 1
    /\ s.pc \in {"notify", "recover"} /\ Live(r) => m <= r.created_count

WantedOf(j) ==
    /\ IsFiniteSet(MachinesOf(j)) /\ Machines(j) <= Target
    /\ row[j].status = "none" => Machines(j) = 0
    /\ row[j].enabled => row[j].created_count < Target
    /\ Live(row[j]) /\ (\A w \in Worker : AtWork(w) => wk[w].job # j)
       => Machines(j) <= row[j].created_count

Wanted == (\A w \in Worker : WantedAt(w)) /\ (\A j \in Job : WantedOf(j))

LEMMA InitWanted == Init => Wanted
<1> SUFFICES ASSUME Init PROVE Wanted
  OBVIOUS
<1>1. \A j \in Job : MachinesOf(j) = {}
  BY DEF Init, MachinesOf
<1>2. \A j \in Job : IsFiniteSet(MachinesOf(j)) /\ Machines(j) = 0
  BY <1>1, FS_EmptySet DEF Machines
<1>3. \A j \in Job : row[j].created_count = 0
  BY DEF Init, NewRow, NoRow
<1>4. \A w \in Worker : wk[w].pc = "poll"
  BY DEF Init, Sleeping
<1> QED BY <1>2, <1>3, <1>4, ConstantsAssumption DEF Wanted, WantedAt, WantedOf

\* Numbers the invariant compares
LEMMA MachinesTyped ==
    ASSUME Typed, Wanted
    PROVE  /\ \A j \in Job : Machines(j) \in Nat /\ row[j].created_count \in Nat
           /\ \A w \in Worker : /\ wk[w].created \in Nat
                                /\ wk[w].pc \notin {"poll", "scan"} => wk[w].job \in Job
           /\ failures \in Nat /\ Target \in Nat \ {0}
<1>1. \A j \in Job : Machines(j) \in Nat
  BY FS_CardinalityType DEF Wanted, WantedOf, Machines
<1> QED BY <1>1, ConstantsAssumption DEF Typed, RowsTyped, Row, WorkersTyped, WorkerTyped,
           WorkerState, SharedTyped

\* One more token is at most one more machine, and of its own job only.
LEMMA TokenAdded ==
    ASSUME Wanted, NEW j \in Job, NEW n, made' = made \cup {Token(j, n)}
    PROVE  /\ \A k \in Job : IsFiniteSet(MachinesOf(k))'
           /\ \A k \in Job \ {j} : Machines(k)' = Machines(k)
           /\ Machines(j)' <= Machines(j) + 1 /\ Machines(j)' \in Nat
<1>1. Token(j, n)[1] = j
  BY DEF Token
<1>2. \A k \in Job \ {j} : MachinesOf(k)' = MachinesOf(k)
  BY <1>1 DEF MachinesOf
<1>3. MachinesOf(j)' = MachinesOf(j) \cup {Token(j, n)}
  BY <1>1 DEF MachinesOf
<1>4. IsFiniteSet(MachinesOf(j)) /\ Machines(j) \in Nat
  BY FS_CardinalityType DEF Wanted, WantedOf, Machines
<1>5. /\ IsFiniteSet(MachinesOf(j)')
      /\ Cardinality(MachinesOf(j)') \in {Machines(j), Machines(j) + 1}
  BY <1>3, <1>4, FS_AddElement DEF Machines
<1> QED BY <1>2, <1>4, <1>5 DEF Machines, Wanted, WantedOf

\* A step that makes no machine, moves no attempt and changes no count of a live row
LEMMA ElsewhereWanted ==
    ASSUME Typed, Wanted, UNCHANGED made,
           \A w \in Worker : /\ wk'[w].pc = wk[w].pc /\ wk'[w].job = wk[w].job
                             /\ wk'[w].created = wk[w].created /\ wk'[w].said = wk[w].said,
           \A j \in Job :
              /\ Live(row'[j]) => /\ Live(row[j])
                                  /\ row'[j].created_count = row[j].created_count
              /\ row'[j].status = "none" => row[j].status = "none"
              /\ row'[j].enabled => row[j].enabled /\ Live(row'[j])
    PROVE  Wanted'
<1>1. \A j \in Job : Machines(j)' = Machines(j) /\ MachinesOf(j)' = MachinesOf(j)
  BY DEF Machines, MachinesOf
<1>2. ASSUME NEW w \in Worker PROVE WantedAt(w)'
  <2>1. wk[w].pc \notin {"poll", "scan"} => wk[w].job \in Job
    BY MachinesTyped
  <2> QED BY <1>1, <2>1 DEF Wanted, WantedAt
<1>3. ASSUME NEW j \in Job PROVE WantedOf(j)'
  <2>1. \A w \in Worker : AtWork(w)' <=> AtWork(w)
    BY DEF AtWork
  <2> QED BY <1>1, <2>1 DEF Wanted, WantedOf
<1> QED BY <1>2, <1>3 DEF Wanted

LEMMA WorkerWanted ==
    ASSUME PassWithinLease, Calm, Typed, Grounded, Leased, Wanted, NEW w \in Worker,
           WorkerMoves(w)
    PROVE  Wanted'
<1> DEFINE s == wk[w]
           j == s.job
<1>1. /\ \A k \in Job : SameLife(row[k], row'[k])
      /\ \A v \in Worker \ {w} : wk'[v] = wk[v]
      /\ \A v \in Worker : AtWork(v) => wk[v].job \in Job
  BY WorkerRows, MachinesTyped
     DEF WorkerMoves, Surveys, StepsBack, SetsAside, Picks, Claims, Advances, CallsOut,
         CountsMachine, Settles, Reports, Alone, AtWork, Engaged
\* Only the worker at a job changes its counts.
<1>2. ASSUME NEW k \in Job, k # j \/ ~AtWork(w)
      PROVE  /\ row'[k].created_count = row[k].created_count
             /\ MachinesOf(k)' = MachinesOf(k)
  <2>1. CASE CallsOut(w)
    <3>1. AtWork(w) /\ j \in Job
      BY <1>1, <2>1 DEF CallsOut, AtWork, Engaged
    <3>2. UNCHANGED row /\ (made' = made \/ made' = made \cup {Token(j, s.attempts)})
      BY <2>1 DEF CallsOut
    <3>3. Token(j, s.attempts)[1] = j
      BY DEF Token
    <3> QED BY <1>2, <3>1, <3>2, <3>3 DEF MachinesOf
  <2>2. CASE ~CallsOut(w)
    <3>1. UNCHANGED made
      BY <2>2 DEF WorkerMoves, Surveys, StepsBack, SetsAside, Picks, Claims, Advances,
                  CountsMachine, Settles, Reports, Quiet
    <3>2. row'[k].created_count = row[k].created_count
      BY <1>2, <2>2, UnleasedFields
         DEF WorkerMoves, Surveys, StepsBack, SetsAside, Picks, Claims, Advances,
             CountsMachine, Settles, Reports, Elsewhere, AtWork, Engaged, Typed, RowsTyped
    <3> QED BY <3>1, <3>2 DEF MachinesOf
  <2> QED BY <2>1, <2>2
<1>3. ASSUME NEW v \in Worker, v # w PROVE WantedAt(v)'
  <2>1. wk'[v] = wk[v]
    BY <1>1, <1>3
  <2>2. CASE AtWork(v)
    <3>1. wk[v].job \in Job /\ (wk[v].job # j \/ ~AtWork(w))
      BY <1>1, <1>3, <2>2 DEF Leased, OneAtAJob
    <3>2. /\ row'[wk[v].job].created_count = row[wk[v].job].created_count
          /\ Machines(wk[v].job)' = Machines(wk[v].job)
          /\ Live(row'[wk[v].job]) <=> Live(row[wk[v].job])
      BY <1>1, <1>2, <2>1, <3>1 DEF Machines, SameLife
    <3> QED BY <2>1, <3>2 DEF Wanted, WantedAt
  <2>3. CASE ~AtWork(v)
    BY <2>1, <2>3 DEF WantedAt, AtWork, Engaged
  <2> QED BY <2>2, <2>3
<1>4. ASSUME NEW k \in Job, k # j \/ ~AtWork(w) PROVE WantedOf(k)'
  <2>1. WantedOf(k)
    BY DEF Wanted
  <2>2. /\ row'[k].created_count = row[k].created_count
        /\ MachinesOf(k)' = MachinesOf(k) /\ Machines(k)' = Machines(k)
        /\ SameLife(row[k], row'[k])
    BY <1>1, <1>2, <1>4 DEF Machines
  <2>3. (\A v \in Worker : AtWork(v)' => wk'[v].job # k)
        => (\A v \in Worker : AtWork(v) => wk[v].job # k)
    BY <1>1, <1>4 DEF AtWork
  <2> QED BY <2>1, <2>2, <2>3 DEF WantedOf, SameLife
<1>5. WantedAt(w) /\ \A k \in Job : WantedOf(k)
  BY DEF Wanted
<1>6. ~(failures' = failures + 1) \/ CallsOut(w)
  <2>1. Surveys(w) \/ StepsBack(w) \/ Claims(w) \/ Advances(w) => failures' = failures
    BY DEF Surveys, StepsBack, Claims, Advances, Quiet
  <2>2. CountsMachine(w) \/ Settles(w) \/ Reports(w) => failures' = failures
    BY DEF CountsMachine, Settles, Reports, Quiet
  <2>3. \A k \in Job : SetsAside(w, k) \/ Picks(w, k) => failures' = failures
    BY DEF SetsAside, Picks, Quiet
  <2>4. failures \in Nat => failures # failures + 1
    OBVIOUS
  <2> QED BY <2>1, <2>2, <2>3, <2>4, MachinesTyped DEF WorkerMoves
<1>7. SUFFICES WantedAt(w)' /\ \A k \in Job : k = j /\ AtWork(w) => WantedOf(k)'
  BY <1>3, <1>4 DEF Wanted
<1>8. CASE Surveys(w) \/ \E k \in Job : SetsAside(w, k) \/ Picks(w, k)
  BY <1>8 DEF Surveys, SetsAside, Picks, WantedAt, AtWork, Engaged
<1>9. CASE StepsBack(w)
  <2>1. WantedAt(w)'
    BY <1>9 DEF StepsBack, WantedAt
  <2>2. ASSUME NEW k \in Job, k = j, AtWork(w) PROVE WantedOf(k)'
    <3>1. UNCHANGED <<row, made>> /\ ~Live(row[k])
      BY <1>5, <1>6, <1>9, <2>2 DEF StepsBack, Quiet, WantedAt, CallsOut
    <3> QED BY <1>5, <3>1 DEF WantedOf, Machines, MachinesOf
  <2> QED BY <2>1, <2>2
<1>10. CASE Claims(w)
  <2>1. /\ s.pc = "claim" /\ wk'[w].pc = "prep" /\ wk'[w].job = j
        /\ wk'[w].created = row[j].created_count
        /\ row'[j].created_count = row[j].created_count
        /\ row[j].enabled /\ Live(row[j]) /\ Free(row[j]) /\ UNCHANGED made
    BY <1>10 DEF Claims, Claimable, Active, Quiet
  <2>2. j \in Job
    BY <2>1, MachinesTyped
  <2>3. \A v \in Worker : AtWork(v) => wk[v].job # j
    BY <2>1, LeaseRunning, ConstantsAssumption DEF Free
  <2>4. Machines(j) <= row[j].created_count /\ row[j].created_count < Target
    BY <1>5, <2>1, <2>2, <2>3 DEF WantedOf
  <2>5. Machines(j)' = Machines(j)
    BY <2>1 DEF Machines, MachinesOf
  <2>6. WantedAt(w)'
    BY <2>1, <2>4, <2>5 DEF WantedAt
  <2> QED BY <2>1, <2>6 DEF AtWork, Engaged
<1>11. CASE Advances(w)
  <2>1. UNCHANGED <<row, made>> /\ wk'[w].job = j /\ wk'[w].created = s.created
    BY <1>11 DEF Advances, SameAttempt, Quiet
  <2>2. Machines(j)' = Machines(j)
    BY <2>1 DEF Machines, MachinesOf
  <2>3. \/ s.pc = "prep" /\ wk'[w].pc \in {"lock", "recover"}
        \/ s.pc = "lock" /\ wk'[w].pc = "quota"
        \/ s.pc = "quota" /\ wk'[w].pc = "launch"
    BY <1>5, <1>6, <1>11 DEF Advances, WantedAt, CallsOut
  <2>4. WantedAt(w)'
    BY <1>5, <2>1, <2>2, <2>3 DEF WantedAt
  <2>5. ASSUME NEW k \in Job, k = j PROVE WantedOf(k)'
    <3>1. AtWork(w)' /\ wk'[w].job = k
      BY <2>1, <2>3, <2>5 DEF AtWork, Engaged
    <3> QED BY <1>5, <2>1, <3>1 DEF WantedOf, Machines, MachinesOf
  <2> QED BY <2>4, <2>5
<1>12. CASE CallsOut(w)
  <2>1. /\ s.pc = "launch" /\ wk'[w].pc = "judge" /\ UNCHANGED row
        /\ wk'[w].job = j /\ wk'[w].created = s.created /\ j \in Job
    BY <1>5, <1>12, MachinesTyped DEF CallsOut, SameAttempt, WantedAt
  <2>2. /\ IsFiniteSet(MachinesOf(j))' /\ Machines(j)' \in Nat
        /\ Machines(j)' <= Machines(j) + (IF wk'[w].said = "ok" THEN 1 ELSE 0)
    <3>1. CASE made' = made
      <4>1. Machines(j)' = Machines(j) /\ IsFiniteSet(MachinesOf(j))'
        BY <1>5, <2>1, <3>1 DEF Machines, MachinesOf, WantedOf
      <4> QED BY <2>1, <4>1, MachinesTyped
    <3>2. CASE made' # made
      <4>1. made' = made \cup {Token(j, s.attempts)} /\ wk'[w].said = "ok"
        BY <1>12, <3>2 DEF CallsOut
      <4> QED BY <2>1, <4>1, TokenAdded, MachinesTyped
    <3> QED BY <3>1, <3>2
  <2>3. s.created < Target /\ Machines(j) <= s.created
    BY <1>5, <2>1 DEF WantedAt
  <2>4. WantedAt(w)'
    BY <1>5, <2>1, <2>2, <2>3, MachinesTyped DEF WantedAt
  <2>5. ASSUME NEW k \in Job, k = j PROVE WantedOf(k)'
    <3>1. row[k].status # "none"
      BY <2>1, <2>5 DEF Grounded, Begun
    <3>2. AtWork(w)' /\ wk'[w].job = k
      BY <2>1, <2>5 DEF AtWork, Engaged
    <3>3. IsFiniteSet(MachinesOf(k))' /\ Machines(k)' <= Target
      BY <2>1, <2>2, <2>3, <2>5, MachinesTyped
    <3> QED BY <1>5, <2>1, <3>1, <3>2, <3>3 DEF WantedOf
  <2> QED BY <2>4, <2>5
<1>13. CASE CountsMachine(w)
  <2>1. /\ UNCHANGED <<row, made>> /\ wk'[w].job = j /\ wk'[w].created = s.created + 1
        /\ s.pc = "judge" /\ s.said = "ok" /\ wk'[w].pc = "commit"
        /\ wk'[w].said = "finished" <=> s.created + 1 >= Target
    BY <1>13 DEF CountsMachine, SameAttempt, Quiet
  <2>2. Machines(j)' = Machines(j) /\ j \in Job
    BY <2>1, MachinesTyped DEF Machines, MachinesOf
  <2>3. WantedAt(w)'
    BY <1>5, <2>1, <2>2, MachinesTyped DEF WantedAt
  <2>4. ASSUME NEW k \in Job, k = j PROVE WantedOf(k)'
    <3>1. AtWork(w)' /\ wk'[w].job = k
      BY <2>1, <2>4 DEF AtWork, Engaged
    <3> QED BY <1>5, <2>1, <3>1 DEF WantedOf, Machines, MachinesOf
  <2> QED BY <2>3, <2>4
<1>14. CASE Settles(w)
  <2>1. WantedAt(w)'
    BY <1>14 DEF Settles, WantedAt
  <2>2. ASSUME NEW k \in Job, k = j PROVE WantedOf(k)'
    <3>1. /\ UNCHANGED made /\ Live(row[k]) /\ Live(row'[k])
          /\ row'[k].created_count = row[k].created_count
          /\ row'[k].enabled => row[k].enabled
      BY <1>14, <2>2 DEF Settles, Quiet
    <3>2. Machines(k) <= row[k].created_count
      BY <1>5, <1>14, <2>2, <3>1, MachinesTyped DEF Settles, WantedAt
    <3> QED BY <1>5, <3>1, <3>2 DEF WantedOf, Machines, MachinesOf, Live
  <2> QED BY <2>1, <2>2
<1>15. CASE Reports(w)
  <2>1. /\ UNCHANGED made /\ Live(row[j]) /\ Live(row'[j]) /\ wk'[w].job = j
        /\ wk'[w].pc = "notify" /\ j \in Job
        /\ row'[j].created_count = IF s.pc = "commit" THEN s.created ELSE row[j].created_count
        /\ row'[j].enabled => s.pc = "commit" /\ s.said # "finished"
    BY <1>15, MachinesTyped DEF Reports, SameAttempt, Quiet
  <2>2. Machines(j)' = Machines(j)
    BY <2>1 DEF Machines, MachinesOf
  <2>3. Machines(j) <= row'[j].created_count
    BY <1>5, <1>15, <2>1, MachinesTyped DEF Reports, WantedAt
  <2>4. WantedAt(w)'
    BY <2>1, <2>2, <2>3 DEF WantedAt
  <2>5. ASSUME NEW k \in Job, k = j PROVE WantedOf(k)'
    <3>1. row'[k].enabled => row'[k].created_count < Target
      BY <1>5, <2>1, <2>5, MachinesTyped DEF WantedAt
    <3>2. AtWork(w)' /\ wk'[w].job = k
      BY <2>1, <2>5 DEF AtWork, Engaged
    <3> QED BY <1>5, <2>1, <2>5, <3>1, <3>2 DEF WantedOf, Machines, MachinesOf, Live
  <2> QED BY <2>4, <2>5
<1> QED BY <1>8, <1>9, <1>10, <1>11, <1>12, <1>13, <1>14, <1>15 DEF WorkerMoves

LEMMA ClientWanted ==
    ASSUME NoResume, Typed, Grounded, Disabling, Wanted, NEW c \in Client, ClientMoves(c)
    PROVE  Wanted'
<1> DEFINE j == cl[c].job
<1>1. UNCHANGED <<wk, made>>
  BY DEF ClientMoves, Asks, CommitsCreate, CommitsStop, CommitsResume, CommitsDelete, Commits
<1>2. ~CommitsResume(c)
  BY DEF CommitsResume, NoResume, Grounded, Asked
<1>3. CASE \E op \in {"create", "stop", "resume", "delete"}, k \in Job : Asks(c, op, k)
  <2>1. UNCHANGED row
    BY <1>3 DEF Asks
  <2> QED BY <1>1, <2>1 DEF Wanted, WantedAt, WantedOf, Machines, MachinesOf, AtWork
<1>4. CASE CommitsCreate(c)
  <2>1. /\ j \in Job /\ row[j].status = "none" /\ row'[j] = NewRow
        /\ \A k \in Job \ {j} : row'[k] = row[k]
    BY <1>4 DEF CommitsCreate, Commits, Elsewhere, Grounded, Asked, Typed, ClientsTyped
  <2>2. \A w \in Worker : wk[w].pc \notin {"poll", "scan"} => wk[w].job \in Job \ {j}
    BY <2>1, MachinesTyped DEF Grounded, Begun
  <2>3. \A k \in Job : MachinesOf(k)' = MachinesOf(k) /\ Machines(k)' = Machines(k)
    BY <1>1 DEF Machines, MachinesOf
  <2>4. ASSUME NEW w \in Worker PROVE WantedAt(w)'
    BY <1>1, <2>1, <2>2, <2>3 DEF Wanted, WantedAt
  <2>5. ASSUME NEW k \in Job PROVE WantedOf(k)'
    <3>1. CASE k = j
      BY <2>1, <2>3, <3>1, ConstantsAssumption DEF Wanted, WantedOf, NewRow
    <3>2. CASE k # j
      BY <1>1, <2>1, <2>3, <3>2 DEF Wanted, WantedOf, AtWork
    <3> QED BY <3>1, <3>2
  <2> QED BY <2>4, <2>5 DEF Wanted
<1>5. CASE CommitsStop(c) \/ CommitsDelete(c)
  <2>1. /\ j \in Job /\ row[j].status # "none" /\ ~row'[j].enabled
        /\ \A k \in Job \ {j} : row'[k] = row[k]
    BY <1>2, <1>5, CommitFields
  <2>2. Live(row'[j]) => Live(row[j]) /\ row'[j].created_count = row[j].created_count
    BY <1>5 DEF CommitsStop, CommitsDelete, HasStopped, Live
  <2>3. row'[j].status # "none"
    BY <1>5, <2>1 DEF CommitsStop, CommitsDelete, HasStopped, Column, Live
  <2>4. \A k \in Job : row[k].enabled => Live(row[k])
    BY DEF Disabling, GoneDisabled, Grounded, Fresh, Live
  <2> QED BY <1>1, <2>1, <2>2, <2>3, <2>4, ElsewhereWanted
<1> QED BY <1>2, <1>3, <1>4, <1>5 DEF ClientMoves

LEMMA NextWanted ==
    ASSUME NoResume, PassWithinLease, Calm, Typed, Grounded, Disabling, Leased, Wanted,
           [Next]_vars
    PROVE  Wanted'
<1>1. CASE Unmoved
  BY <1>1 DEF Unmoved, Quiet, Wanted, WantedAt, WantedOf, Machines, MachinesOf, AtWork
<1>2. CASE TimePasses
  <2>1. /\ UNCHANGED made
        /\ \A w \in Worker : /\ wk'[w].pc = wk[w].pc /\ wk'[w].job = wk[w].job
                             /\ wk'[w].created = wk[w].created /\ wk'[w].said = wk[w].said
        /\ \A k \in Job : /\ row'[k].status = row[k].status
                          /\ row'[k].enabled = row[k].enabled
                          /\ row'[k].created_count = row[k].created_count
    BY <1>2 DEF TimePasses, Ages, Lasts
  <2>2. \A k \in Job : row[k].enabled => Live(row[k])
    BY DEF Disabling, GoneDisabled, Grounded, Fresh, Live
  <2> QED BY <2>1, <2>2, ElsewhereWanted DEF Live
<1> QED BY <1>1, <1>2, StepMoves, WorkerWanted, ClientWanted

\* A job never makes more machines than it was asked for, for any number of worker
\* processes, jobs and users: nobody resumes it, a pass fits in the lease, and no
\* process, answer or commit is lost.  TLC refutes it with a resume or a lost answer.
THEOREM TargetHolds == NoResume /\ PassWithinLease /\ Calm => (Spec => []TargetKept)
<1>1. Wanted => TargetKept
  BY DEF Wanted, WantedOf, Machines, TargetKept
<1>2. ASSUME NoResume, PassWithinLease, Calm PROVE Spec => []TargetKept
  <2>1. Typed /\ Grounded /\ Disabling /\ Leased /\ Wanted /\ [Next]_vars => Wanted'
    BY <1>2, NextWanted
  <2>2. Spec => []Disabling
    BY <1>2, AlwaysDisabling DEF RequestsApart
  <2>3. Spec => []Leased
    BY <1>2, AlwaysLeased
  <2> QED BY <1>1, <2>1, <2>2, <2>3, InitWanted, AlwaysTyped, AlwaysGrounded, PTL DEF Spec
<1> QED BY <1>2

------------------------------------------------------------------------------
(* The tenant lock as the mutex it is written for: workers and browser         *)
(* launches enter the section from the usage read to Oracle's answer only      *)
(* where nobody is.  Whoever is inside holds the lock (LockHeld).              *)

Inside(w) == wk[w].pc \in Critical
InsideBr(b) == br[b].pc \in {"quota", "launch"}

\* Who is inside at a tenant
WorkersAt(t) == {w \in Worker : Inside(w) /\ TenantOf[wk[w].job] = t}
BrowsersAt(t) == {b \in Browser : InsideBr(b) /\ br[b].tenant = t}

LEMMA LaunchingAt == Launching = [t \in Tenant |-> WorkersAt(t) \cup BrowsersAt(t)]
BY DEF Launching, WorkersAt, BrowsersAt, Inside, InsideBr, Critical, Asking

\* Nobody enters: those inside afterwards were inside before, at the same tenant.
NobodyEnters ==
    /\ \A w \in Worker : Inside(w)' => Inside(w) /\ wk'[w].job = wk[w].job
    /\ \A b \in Browser : InsideBr(b)' => InsideBr(b) /\ br'[b].tenant = br[b].tenant

LEMMA Leaving ==
    ASSUME NobodyEnters
    PROVE  \E gone \in SUBSET (Worker \cup Browser) : Mutex!Leave(gone)
<1> DEFINE gone == {w \in Worker : Inside(w) /\ ~Inside(w)'}
                   \cup {b \in Browser : InsideBr(b) /\ ~InsideBr(b)'}
<1>1. \A t \in Tenant : Launching[t]' = Launching[t] \ gone
  BY ConstantsAssumption
     DEF NobodyEnters, Launching, Inside, InsideBr, Critical, Asking
<1>2. Launching' = [t \in Tenant |-> Launching[t] \ gone]
  BY <1>1 DEF Launching
<1> QED BY <1>2 DEF Mutex!Leave

\* A worker that stands at the lock gets past it only by taking it.
LEMMA PastTheLock ==
    ASSUME LockWorks, Typed, NEW w \in Worker, WorkerNext(w), wk[w].pc = "lock",
           wk'[w].pc = "quota"
    PROVE  WorkerLocks(w)
<1>1. ~LockBroken(w) /\ wk[w] \in WorkerState
  BY DEF LockWorks, LockBroken, Typed, WorkersTyped
<1>2. ~LockBusy(w)
  BY EndsOutside, StepFields DEF LockBusy, Critical
<1>3. ~WorkerCrash(w)
  BY StepFields DEF WorkerCrash, Sleeping
<1>4. ~WorkerScans(w)
  BY DEF WorkerScans, TickBegin, PassEnds, Claim, ClaimLost, CandidateGone, SkipTenant,
         ConsiderExhausted, ConsiderCooling, ConsiderTooSoon, ConsiderDue, Candidate
<1>5. ~WorkerConcludes(w)
  BY DEF WorkerConcludes, JudgeSuccess, CommitSuccess, StoppedDuringAttempt, RateLimited,
         TryAgain, AttemptsUsedUp, PermanentFail, FailedOnDeleted, Failed, Release, Recover,
         SessionLost
<1>6. WorkerTries(w) => WorkerLocks(w)
  BY <1>2 DEF WorkerTries, PrepDone, QuotaAdmits, QuotaBlocks, Launch
<1>7. ~WorkerMishaps(w)
  BY <1>1, <1>3 DEF WorkerMishaps, TenantGone, PasswordLost, PrepRaises, QuotaUnreadable,
         QuotaBlockLost, CommitFails, FlushFails
<1> QED BY <1>4, <1>5, <1>6, <1>7 DEF WorkerNext

LEMMA WorkerMutex ==
    ASSUME LockWorks, Typed, Guarded, NEW w \in Worker, WorkerNext(w)
    PROVE  Mutex!Next
<1> DEFINE t == TenantOf[wk[w].job]
<1>1. WorkerMoves(w) /\ wk[w] \in WorkerState
  BY AllMoves DEF Typed, WorkersTyped
<1>2. UNCHANGED br
  <2>1. WorkerScans(w) => UNCHANGED br
    BY DEF WorkerScans, TickBegin, PassEnds, Claim, ClaimLost, CandidateGone, SkipTenant,
           ConsiderExhausted, ConsiderCooling, ConsiderTooSoon, ConsiderDue
  <2>2. WorkerTries(w) => UNCHANGED br
    BY DEF WorkerTries, PrepDone, WorkerLocks, LockBusy, QuotaAdmits, QuotaBlocks, Launch
  <2>3. WorkerConcludes(w) => UNCHANGED br
    BY DEF WorkerConcludes, JudgeSuccess, CommitSuccess, StoppedDuringAttempt, RateLimited,
           TryAgain, AttemptsUsedUp, PermanentFail, FailedOnDeleted, Release, Recover,
           SessionLost
  <2>4. WorkerMishaps(w) => UNCHANGED br
    BY DEF WorkerMishaps, TenantGone, PasswordLost, PrepRaises, LockBroken, QuotaUnreadable,
           QuotaBlockLost, CommitFails, FlushFails, WorkerCrash
  <2> QED BY <2>1, <2>2, <2>3, <2>4 DEF WorkerNext
<1>3. \A v \in Worker \ {w} : wk'[v] = wk[v]
  BY <1>1 DEF WorkerMoves, Surveys, StepsBack, SetsAside, Picks, Claims, Advances, CallsOut,
              CountsMachine, Settles, Reports, Alone
<1>4. CASE WorkerLocks(w)
  <2>1. /\ wk[w].pc = "lock" /\ lock[t] = NoOne /\ t \in Tenant
        /\ wk'[w].pc = "quota" /\ wk'[w].job = wk[w].job
    BY <1>1, <1>4, StepFields, ConstantsAssumption
       DEF WorkerLocks, WorkerState, Typed, WorkersTyped, WorkerTyped
  <2>2. Launching[t] = {}
    BY <2>1, ConstantsAssumption DEF Guarded, LockHeld, Launching, Critical, Asking
  <2>3. Launching' = [Launching EXCEPT ![t] = {w}]
    <3>1. \A u \in Tenant : BrowsersAt(u)' = BrowsersAt(u)
      BY <1>2 DEF BrowsersAt, InsideBr
    <3>2. ASSUME NEW u \in Tenant, u = t PROVE WorkersAt(u)' = {w}
      BY <1>3, <2>1, <2>2, <3>2, LaunchingAt DEF WorkersAt, Inside, Critical
    <3>3. ASSUME NEW u \in Tenant, u # t PROVE WorkersAt(u)' = WorkersAt(u)
      BY <1>3, <2>1, <3>3 DEF WorkersAt, Inside, Critical, Asking
    <3>4. Launching' = [u \in Tenant |-> WorkersAt(u)' \cup BrowsersAt(u)']
      BY DEF Launching, WorkersAt, BrowsersAt, Inside, InsideBr, Critical, Asking
    <3>5. BrowsersAt(t) = {}
      BY <2>1, <2>2, LaunchingAt
    <3> QED BY <2>1, <3>1, <3>2, <3>3, <3>4, <3>5, LaunchingAt
  <2> QED BY <2>1, <2>2, <2>3 DEF Mutex!Enter, Mutex!Next
<1>5. CASE ~WorkerLocks(w)
  <2>1. Inside(w)' => Inside(w) /\ wk'[w].job = wk[w].job
    <3>1. ~(wk[w].pc = "lock" /\ wk'[w].pc = "quota")
      BY <1>5, PastTheLock
    <3> QED BY <1>1, <3>1
            DEF WorkerMoves, Surveys, StepsBack, SetsAside, Picks, Claims, Advances, CallsOut,
                CountsMachine, Settles, Reports, SameAttempt, Inside, Critical, Asking
  <2>2. NobodyEnters
    BY <1>2, <1>3, <2>1 DEF NobodyEnters, Inside, InsideBr
  <2> QED BY <2>2, Leaving DEF Mutex!Next
<1> QED BY <1>4, <1>5

LEMMA BrowserMutex ==
    ASSUME Typed, Guarded, NEW b \in Browser, BrowserNext(b)
    PROVE  Mutex!Next
<1> DEFINE t == br[b].tenant
<1>1. UNCHANGED wk /\ br[b] \in BrowserState
  BY BrowserMoves DEF Unmoved, Typed, BrowsersTyped
<1>2. \A c \in Browser \ {b} : br'[c] = br[c]
  BY DEF BrowserNext, BrowserAsks, BrowserLocks, BrowserBusy, BrowserAdmitted, BrowserRefused,
         BrowserCreates, BrowserFails, BrowserCrash, BrStep, Typed, BrowsersTyped
<1>3. CASE BrowserLocks(b)
  <2>1. br' = [br EXCEPT ![b] = [br[b] EXCEPT !.pc = "quota"]] /\ br[b].pc = "lock"
    BY <1>3 DEF BrowserLocks, BrStep
  <2>2. /\ lock[t] = NoOne /\ t \in Tenant
        /\ br'[b].pc = "quota" /\ br'[b].tenant = t
    BY <1>1, <1>3, <2>1 DEF BrowserLocks, BrowserState, Typed, BrowsersTyped
  <2>3. Launching[t] = {}
    BY <2>2, ConstantsAssumption DEF Guarded, LockHeld, Launching, Critical, Asking
  <2>4. Launching' = [Launching EXCEPT ![t] = {b}]
    <3>1. \A u \in Tenant : WorkersAt(u)' = WorkersAt(u)
      BY <1>1 DEF WorkersAt, Inside
    <3>2. ASSUME NEW u \in Tenant, u = t PROVE BrowsersAt(u)' = {b}
      BY <1>2, <2>2, <2>3, <3>2, LaunchingAt DEF BrowsersAt, InsideBr
    <3>3. ASSUME NEW u \in Tenant, u # t PROVE BrowsersAt(u)' = BrowsersAt(u)
      BY <1>2, <2>1, <2>2, <3>3 DEF BrowsersAt, InsideBr
    <3>4. Launching' = [u \in Tenant |-> WorkersAt(u)' \cup BrowsersAt(u)']
      BY DEF Launching, WorkersAt, BrowsersAt, Inside, InsideBr, Critical, Asking
    <3>5. WorkersAt(t) = {}
      BY <2>2, <2>3, LaunchingAt
    <3>6. ASSUME NEW u \in Tenant
          PROVE  WorkersAt(u)' \cup BrowsersAt(u)' = [Launching EXCEPT ![t] = {b}][u]
      <4>1. Launching[u] = WorkersAt(u) \cup BrowsersAt(u)
        BY LaunchingAt
      <4>2. u \in DOMAIN Launching
        BY DEF Launching
      <4> QED BY <3>1, <3>2, <3>3, <3>5, <4>1, <4>2
    <3>7. DOMAIN Launching = Tenant /\ Launching = [u \in Tenant |-> Launching[u]]
      BY DEF Launching
    <3> QED BY <2>2, <3>4, <3>6, <3>7
  <2> QED BY <2>2, <2>3, <2>4 DEF Mutex!Enter, Mutex!Next
<1>4. CASE ~BrowserLocks(b)
  <2>1. InsideBr(b)' => InsideBr(b) /\ br'[b].tenant = t
    <3>1. \/ br'[b] = NotLaunching
          \/ \E u \in Tenant, n \in 1..MaxBatch :
                br'[b] = [pc |-> "lock", tenant |-> u, left |-> n]
          \/ br[b].pc = "quota" /\ br'[b] = [br[b] EXCEPT !.pc = "launch"]
          \/ br[b].pc = "launch" /\ br'[b] = [br[b] EXCEPT !.left = @ - 1]
      BY <1>4 DEF BrowserNext, BrowserAsks, BrowserBusy, BrowserAdmitted, BrowserRefused,
             BrowserCreates, BrowserFails, BrowserCrash, BrStep, Typed, BrowsersTyped
    <3>2. /\ \A m : [br[b] EXCEPT !.pc = m].tenant = t /\ [br[b] EXCEPT !.left = m].tenant = t
          /\ \A u, n : [pc |-> "lock", tenant |-> u, left |-> n].pc = "lock"
      BY <1>1 DEF BrowserState
    <3>3. CASE br'[b] = NotLaunching
      BY <3>3 DEF InsideBr, NotLaunching
    <3>4. CASE \E u \in Tenant, n \in 1..MaxBatch :
                  br'[b] = [pc |-> "lock", tenant |-> u, left |-> n]
      BY <3>4 DEF InsideBr
    <3>5. CASE br[b].pc = "quota" /\ br'[b] = [br[b] EXCEPT !.pc = "launch"]
      BY <3>2, <3>5 DEF InsideBr
    <3>6. CASE br[b].pc = "launch" /\ br'[b] = [br[b] EXCEPT !.left = @ - 1]
      BY <3>2, <3>6 DEF InsideBr
    <3> QED BY <3>1, <3>3, <3>4, <3>5, <3>6
  <2>2. NobodyEnters
    BY <1>1, <1>2, <2>1 DEF NobodyEnters, Inside, InsideBr
  <2> QED BY <2>2, Leaving DEF Mutex!Next
<1> QED BY <1>3, <1>4

LEMMA NextMutex ==
    ASSUME LockWorks, Typed, Guarded, [Next]_vars
    PROVE  [Mutex!Next]_Launching
<1>1. CASE \E w \in Worker : WorkerNext(w)
  BY <1>1, WorkerMutex
<1>2. CASE \E b \in Browser : BrowserNext(b)
  BY <1>2, BrowserMutex
<1>3. CASE \E c \in Client : ClientNext(c)
  <2>1. UNCHANGED <<wk, br>>
    BY <1>3 DEF ClientNext, ReadToCreate, ReadToStop, ReadToResume, ReadToDelete, Request,
           CommitCreate, CommitStop, CommitResume, CommitDelete, Answered
  <2> QED BY <2>1 DEF Launching
<1>4. CASE Tick
  <2>1. UNCHANGED br /\ \A w \in Worker : wk'[w].pc = wk[w].pc /\ wk'[w].job = wk[w].job
    BY <1>4, TickMoves DEF Tick, TimePasses, Lasts
  <2>2. NobodyEnters
    BY <2>1 DEF NobodyEnters, Inside, InsideBr
  <2> QED BY <2>2, Leaving DEF Mutex!Next
<1>5. CASE UNCHANGED vars
  BY <1>5 DEF vars, Launching
<1> QED BY <1>1, <1>2, <1>3, <1>4, <1>5 DEF Next

\* Workers and browser launches together implement the mutex of LaunchMutex on every
\* tenant, from the usage read to Oracle's answer, for any number of them, whatever
\* crashes: as long as the lock mechanism works and the guard's verdicts are committed.
THEOREM LaunchesApart == LockWorks => (Spec => Mutex!Spec)
<1>1. ASSUME LockWorks PROVE Spec => Mutex!Spec
  <2>1. Init => Mutex!Init
    BY DEF Init, Mutex!Init, Launching, Sleeping, NotLaunching
  <2>2. Typed /\ Guarded /\ [Next]_vars => Guarded'
    BY <1>1, NextGuarded
  <2>3. Typed /\ Guarded /\ [Next]_vars => [Mutex!Next]_Launching
    BY <1>1, NextMutex
  <2> QED BY <2>1, <2>2, <2>3, InitGuarded, AlwaysTyped, PTL DEF Spec, Mutex!Spec
<1> QED BY <1>1

\* The same of the run LaunchesApart, for any constants of its first part.
THEOREM LaunchesExcluded == LockWorks => (PartSpec => LaunchesExclude)
<1> DEFINE InPart == part = "apart" => Typed /\ Guarded
           Steps == part = "apart" => Mutex!Next \/ UNCHANGED Launching
<1>1. ASSUME LockWorks PROVE PartSpec => LaunchesExclude
  <2>1. PartInit => InPart /\ (part = "apart" => Mutex!Init)
    <3>1. Init => Mutex!Init
      BY DEF Init, Mutex!Init, Launching, Sleeping, NotLaunching
    <3>2. PartInit => (part = "apart" => Init)
      BY DEF PartInit
    <3> QED BY <3>1, <3>2, InitTyped, InitGuarded
  <2>2. ASSUME InPart, [PartNext]_all PROVE InPart' /\ Steps
    <3>1. UNCHANGED part
      BY <2>2 DEF PartNext, all
    <3>2. CASE part = "apart"
      <4>1. [Next]_vars
        BY <2>2, <3>2 DEF PartNext, all, launches, vars
      <4>2. Typed' /\ Guarded'
        BY <1>1, <2>2, <3>2, <4>1, NextTyped, NextGuarded
      <4>3. Mutex!Next \/ UNCHANGED Launching
        BY <1>1, <2>2, <3>2, <4>1, NextMutex
      <4> QED BY <4>2, <4>3
    <3> QED BY <3>1, <3>2
  <2> HIDE DEF InPart, Steps
  <2>3. InPart /\ [PartNext]_all => InPart' /\ [Steps]_all
    BY <2>2
  <2> QED BY <2>1, <2>3, PTL DEF PartSpec, LaunchesExclude, Steps
<1> QED BY <1>1

==============================================================================
