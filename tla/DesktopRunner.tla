--------------------------- MODULE DesktopRunner ---------------------------
(***************************************************************************)
(* The job store and the background runner of the desktop edition          *)
(* (app/scheduler.py): a tick of the user interface fires schedules and    *)
(* capacity retries, each in a thread of its own.  The objects of the jobs *)
(* are shared by all threads; the busy sets are changed by the threads     *)
(* without a lock.  The window and the callbacks are not part of the       *)
(* repository: they are the actions marked external.                       *)
(*                                                                         *)
(* Time is relative: an object has what is left of its cool-down, a job    *)
(* the time since it was fired last, a schedule whether it ran today.      *)
(***************************************************************************)
EXTENDS Naturals, Sequences, FiniteSets

CONSTANTS
    Retries, Schedules, Tenants, None,
    Newest,         \* list_retries: the ids of the retries, newest first
    TenantOf,       \* tenant_id of a retry
    MaxAttempts, Interval, Jitter, Backoff,
    Day, At,        \* length of a day, time_of_day of a schedule
    Ops,            \* what the user does, of "add", "stop", "delete"
    Faults          \* of "restart", "save", "raise"

RunnerAssumption ==
    /\ \A r \in Retries : \E n \in DOMAIN Newest : Newest[n] = r
    /\ TenantOf \in [Retries -> Tenants] /\ At \in [Schedules -> 0..(Day - 1)]
    /\ {MaxAttempts, Interval, Day} \subseteq Nat \ {0} /\ {Jitter, Backoff} \subseteq Nat
    /\ None \notin Retries \cup Schedules /\ IsFiniteSet(Retries) /\ IsFiniteSet(Schedules)

VARIABLES
    hour,           \* the time of the day
    obj,            \* the object of every retry
    retries,        \* JobStore.retries: the ids that are listed
    ran,            \* the schedules whose last_run_date is today
    disk,           \* jobs.json
    pc,             \* the thread of a retry
    since,          \* of _last_retry_fire: time since then, at most Interval + Jitter
    busy,           \* _busy_retries
    busyTenants,    \* _busy_retry_tenants
    busySchedules,  \* _busy_schedules
    tick,           \* the step the tick is at
    todo,           \* what its loop has still to look at
    size,           \* of _busy_retries, when the iteration over it began
    active,         \* active_per_tenant, the tenants whose number is not 0
    fired,          \* how often a schedule was fired today
    erred           \* a tick ended with an exception

vars == <<hour, obj, retries, ran, disk, pc, since, busy, busyTenants, busySchedules,
          tick, todo, size, active, fired, erred>>

Job == [enabled: BOOLEAN, status: {"idle", "running", "success", "stopped", "failed"},
        attempts: 0..MaxAttempts, cool: 0..Backoff]

TypeOK ==
    /\ hour \in 0..(Day - 1) /\ obj \in [Retries -> Job] /\ retries \subseteq Retries
    /\ ran \subseteq Schedules /\ disk.obj \in [Retries -> Job \cup {None}] /\ disk.ran \subseteq Schedules
    /\ pc \in [Retries -> {"none", "started", "checked", "marked", "called", "answered", "ends", "leaves"}]
    /\ since \in [Retries -> 0..(Interval + Jitter)]
    /\ busy \subseteq Retries /\ busyTenants \subseteq Tenants /\ busySchedules \subseteq Schedules
    /\ tick \in {"none", "schedules", "counts", "retries"} /\ size \in 0..Cardinality(Retries)
    /\ active \subseteq Tenants /\ fired \in [Schedules -> 0..3] /\ erred \in BOOLEAN

New == [enabled |-> TRUE, status |-> "idle", attempts |-> 0, cool |-> 0]

\* JobStore.save: every job that is listed, as its object is at this moment.
Saved(o, listed, today) == [obj |-> [r \in Retries |-> IF r \in listed THEN o[r] ELSE None], ran |-> today]

Init ==
    /\ hour \in 0..(Day - 1) /\ obj = [r \in Retries |-> New]
    /\ retries = (IF "add" \in Ops THEN {} ELSE Retries)
    /\ ran = {} /\ disk = Saved(obj, retries, ran)
    /\ pc = [r \in Retries |-> "none"] /\ since = [r \in Retries |-> Interval + Jitter]
    /\ busy = {} /\ busyTenants = {} /\ busySchedules = {}
    /\ tick = "none" /\ todo = <<>> /\ size = 0 /\ active = {}
    /\ fired = [s \in Schedules |-> 0] /\ erred = FALSE

Threads == <<pc, busy, busyTenants>>
Ticking == <<tick, todo, size, active, erred>>
Calendar == <<hour, ran, fired, busySchedules>>

----------------------------------------------------------------------------
\* Time passes.
Left(job) == IF job = None THEN None ELSE [job EXCEPT !.cool = IF @ = 0 THEN 0 ELSE @ - 1]
Elapse ==
    LET midnight == hour = Day - 1 IN
    /\ hour' = (hour + 1) % Day
    /\ obj' = [r \in Retries |-> Left(obj[r])]
    /\ disk' = [obj |-> [r \in Retries |-> Left(disk.obj[r])], ran |-> IF midnight THEN {} ELSE disk.ran]
    /\ ran' = (IF midnight THEN {} ELSE ran)
    /\ fired' = (IF midnight THEN [s \in Schedules |-> 0] ELSE fired)
    /\ since' = [r \in Retries |-> IF since[r] = Interval + Jitter THEN since[r] ELSE since[r] + 1]
    /\ UNCHANGED <<retries, busySchedules, Threads, Ticking>>

LoadedCold(file) == \* mutant: cooldown_until is not kept in the file
    [r \in Retries |-> IF file.obj[r] = None THEN New ELSE [file.obj[r] EXCEPT !.cool = 0]]

\* The program ends and starts again: JobStore.load.
Loaded(file) == [r \in Retries |-> IF file.obj[r] = None THEN New ELSE file.obj[r]]

Restart ==
    /\ "restart" \in Faults
    /\ obj' = Loaded(disk) /\ retries' = {r \in Retries : disk.obj[r] # None} /\ ran' = disk.ran
    /\ pc' = [r \in Retries |-> "none"] /\ since' = [r \in Retries |-> Interval + Jitter]
    /\ busy' = {} /\ busyTenants' = {} /\ busySchedules' = {}
    /\ tick' = "none" /\ todo' = <<>> /\ size' = 0 /\ active' = {} /\ erred' = FALSE
    /\ UNCHANGED <<hour, disk, fired>>

\* External: what the user does, in the thread of the window.
Add(r) ==       \* upsert_retry of a new job
    /\ "add" \in Ops /\ tick = "none" /\ r \notin retries /\ obj[r] = New /\ pc[r] = "none"
    /\ retries' = retries \cup {r} /\ disk' = Saved(obj, retries', ran)
    /\ UNCHANGED <<obj, since, Threads, Ticking, Calendar>>

Stop(r) ==      \* upsert_retry of the job, stopped
    /\ "stop" \in Ops /\ tick = "none" /\ r \in retries
    /\ obj' = [obj EXCEPT ![r].status = "stopped"]
    /\ disk' = Saved(obj', retries, ran)
    /\ UNCHANGED <<retries, since, Threads, Ticking, Calendar>>

Delete(r) ==    \* delete_retry
    /\ "delete" \in Ops /\ tick = "none" /\ r \in retries
    /\ retries' = retries \ {r} /\ disk' = Saved(obj, retries', ran)
    /\ UNCHANGED <<obj, since, Threads, Ticking, Calendar>>

----------------------------------------------------------------------------
\* tick: _check_schedules, then _check_retries.
Tick ==
    /\ tick = "none" /\ tick' = "schedules" /\ erred' = FALSE
    /\ \E order \in [1..Cardinality(Schedules) -> Schedules] :
           {order[n] : n \in DOMAIN order} = Schedules /\ todo' = order
    /\ UNCHANGED <<obj, retries, disk, since, size, active, Threads, Calendar>>

Due(s) == hour = At[s] /\ s \notin ran /\ s \notin busySchedules

\* last_run_date is set and saved before the thread is started.
SavedRun(s) == disk' = Saved(obj, retries, ran')

CheckSchedule ==
    /\ tick = "schedules" /\ todo # <<>>
    /\ LET s == Head(todo) IN
       IF Due(s)
       THEN /\ ran' = ran \cup {s} /\ SavedRun(s)
            /\ busySchedules' = busySchedules \cup {s} /\ fired' = [fired EXCEPT ![s] = @ + 1]
       ELSE UNCHANGED <<ran, disk, busySchedules, fired>>
    /\ todo' = Tail(todo)
    /\ UNCHANGED <<hour, obj, retries, since, tick, size, active, erred, Threads>>

\* The file cannot be written: the exception ends the tick.
ScheduleUnsaved ==
    /\ "save" \in Faults /\ tick = "schedules" /\ todo # <<>> /\ Due(Head(todo))
    /\ ran' = ran \cup {Head(todo)} /\ tick' = "none" /\ todo' = <<>> /\ erred' = TRUE
    /\ UNCHANGED <<hour, obj, retries, disk, since, size, active, busySchedules, fired, Threads>>

\* on_schedule_fire returns or raises, in its thread.
ScheduleEnds(s) ==
    /\ s \in busySchedules /\ busySchedules' = busySchedules \ {s}
    /\ UNCHANGED <<hour, ran, fired, obj, retries, disk, since, Threads, Ticking>>

\* The iteration over _busy_retries begins ...
Count ==
    /\ tick = "schedules" /\ todo = <<>>
    /\ tick' = "counts" /\ size' = Cardinality(busy)
    /\ UNCHANGED <<obj, retries, disk, since, todo, active, erred, Threads, Calendar>>

\* ... and ends; the ids of jobs that were deleted are not counted.
Active == {TenantOf[r] : r \in busy \cap retries}
Newer(q, r) == \E m, n \in DOMAIN Newest : m < n /\ Newest[m] = q /\ Newest[n] = r
Counted ==
    /\ tick = "counts" /\ Cardinality(busy) = size
    /\ active' = Active /\ tick' = "retries"
    /\ \E order \in [1..Cardinality(retries) -> retries] :
           /\ \A m, n \in DOMAIN order : m < n => Newer(order[m], order[n])
           /\ todo' = order
    /\ UNCHANGED <<obj, retries, disk, since, size, erred, Threads, Calendar>>

\* A thread discarded its id meanwhile: "Set changed size during iteration".
CountRaises ==
    /\ tick = "counts" /\ Cardinality(busy) # size
    /\ tick' = "none" /\ erred' = TRUE
    /\ UNCHANGED <<obj, retries, disk, since, todo, size, active, Threads, Calendar>>

Attemptable(job) ==
    /\ job.enabled /\ job.attempts < MaxAttempts /\ job.cool = 0

TenantCounted(r) == TenantOf[r] \notin active \* mutant: only the count of the jobs

\* The two guards of one launch at a time per tenant.
TenantFree(r) == TenantOf[r] \notin active /\ TenantOf[r] \notin busyTenants

Fires(r) ==
    /\ Attemptable(obj[r]) /\ obj[r].status \in {"idle", "running"}
    /\ since[r] >= Interval /\ r \notin busy /\ TenantFree(r)

Fire ==
    /\ tick = "retries" /\ todo # <<>> /\ todo' = Tail(todo)
    /\ LET r == Head(todo) IN
       /\ Fires(r)
       /\ since' = [since EXCEPT ![r] = 0]
       /\ busy' = busy \cup {r} /\ busyTenants' = busyTenants \cup {TenantOf[r]}
       /\ active' = active \cup {TenantOf[r]} /\ pc' = [pc EXCEPT ![r] = "started"]
    /\ UNCHANGED <<obj, retries, disk, tick, size, erred, Calendar>>

Pass ==
    /\ tick = "retries" /\ todo # <<>> /\ todo' = Tail(todo)
    /\ Fires(Head(todo)) => since[Head(todo)] < Interval + Jitter
    /\ UNCHANGED <<obj, retries, disk, since, tick, size, active, erred, Threads, Calendar>>

TickEnds ==
    /\ tick = "retries" /\ todo = <<>> /\ tick' = "none" /\ active' = {} /\ size' = 0
    /\ UNCHANGED <<obj, retries, disk, since, todo, erred, Threads, Calendar>>

----------------------------------------------------------------------------
\* The thread of a retry.
Goes(r, from, to) == pc[r] = from /\ pc' = [pc EXCEPT ![r] = to]
Else == <<since, busy, busyTenants, Ticking, Calendar>>

\* It looks at the job as the store has it now.
Check(r) ==
    /\ IF r \in retries /\ Attemptable(obj[r]) /\ obj[r].status \notin {"success", "stopped"}
       THEN Goes(r, "started", "checked") ELSE Goes(r, "started", "ends")
    /\ UNCHANGED <<obj, retries, disk, Else>>

Mark(r) ==
    /\ Goes(r, "checked", "marked") /\ obj' = [obj EXCEPT ![r].status = "running"]
    /\ UNCHANGED <<retries, disk, Else>>

\* upsert_retry lists the job, whether it was deleted or not.
Call(r) ==
    /\ Goes(r, "marked", "called") /\ retries' = retries \cup {r} /\ disk' = Saved(obj, retries', ran)
    /\ UNCHANGED <<obj, Else>>

CallUnsaved(r) == \* the file cannot be written: no attempt is made
    /\ "save" \in Faults /\ Goes(r, "marked", "ends") /\ retries' = retries \cup {r}
    /\ UNCHANGED <<obj, disk, Else>>

\* External: on_retry_tick makes one attempt and writes the answer to the object ...
Answer(r) ==
    /\ Goes(r, "called", "answered")
    /\ \E s \in {obj[r].status, "success", "failed"}, c \in {0, Backoff} :
           /\ s \in {"success", "failed"} => c = 0
           /\ obj' = [obj EXCEPT ![r] =
                         [obj[r] EXCEPT !.status = s, !.cool = c, !.attempts = obj[r].attempts + 1]]
    /\ UNCHANGED <<retries, disk, Else>>

\* ... and to the store;
Record(r) ==
    /\ Goes(r, "answered", "ends") /\ retries' = retries \cup {r} /\ disk' = Saved(obj, retries', ran)
    /\ UNCHANGED <<obj, Else>>

\* or raises.
AnswerRaises(r) ==
    /\ "raise" \in Faults /\ Goes(r, "called", "ends") /\ UNCHANGED <<obj, retries, disk, Else>>

\* finally: first the id, then the tenant.
Discard(r) ==
    /\ Goes(r, "ends", "leaves") /\ busy' = busy \ {r}
    /\ UNCHANGED <<obj, retries, disk, since, busyTenants, Ticking, Calendar>>

Leave(r) ==
    /\ Goes(r, "leaves", "none") /\ busyTenants' = busyTenants \ {TenantOf[r]}
    /\ UNCHANGED <<obj, retries, disk, since, busy, Ticking, Calendar>>

Thread(r) ==
    \/ Check(r) \/ Mark(r) \/ Call(r) \/ CallUnsaved(r) \/ Answer(r) \/ Record(r) \/ AnswerRaises(r)
    \/ Discard(r) \/ Leave(r)

Window ==
    \/ Tick \/ CheckSchedule \/ ScheduleUnsaved \/ Count \/ Counted \/ CountRaises
    \/ Fire \/ Pass \/ TickEnds

Next ==
    \/ Elapse \/ Restart \/ Window
    \/ \E r \in Retries : Add(r) \/ Stop(r) \/ Delete(r) \/ Thread(r)
    \/ \E s \in Schedules : ScheduleEnds(s)

Spec == Init /\ [][Next]_vars

\* The window ticks for ever (after), threads run and callbacks return, time passes.
FairSpec ==
    /\ Spec /\ WF_vars(Elapse) /\ WF_vars(Window)
    /\ \A r \in Retries : WF_vars(Thread(r))
    /\ \A s \in Schedules : WF_vars(ScheduleEnds(s))

----------------------------------------------------------------------------
InFlight(r) == pc[r] \in {"checked", "marked", "called", "answered"}

\* One launch at a time per tenant, "serialise" (app/scheduler.py:33), although a job
\* that is deleted while it runs is not counted any more.
Serial == \A r, q \in Retries : InFlight(r) /\ InFlight(q) /\ TenantOf[r] = TenantOf[q] => r = q

\* No attempt begins while the cool-down that the file knows of lasts, across restarts;
\* nor after the last attempt was recorded.
CooldownKept ==
    \A r \in Retries : pc[r] = "marked" /\ pc'[r] = "called" =>
          disk.obj[r] = None \/ (disk.obj[r].cool = 0 /\ disk.obj[r].attempts < MaxAttempts)

\* A schedule is fired at most once a day ("prevent double fire", app/scheduler.py:111),
\* whatever crashes or cannot be written.
OnceADay == \A s \in Schedules : fired[s] <= 1

\* What is busy is being worked on: a name that stayed in a set would block its job or
\* its tenant until the program is started again.
NothingStuck ==
    /\ \A r \in busy : pc[r] \notin {"none", "leaves"}
    /\ \A t \in busyTenants : \E r \in Retries : TenantOf[r] = t /\ pc[r] # "none"

Waiting(r) == r \in retries /\ obj[r].enabled /\ obj[r].status \in {"idle", "running"}

\* The newer job of a tenant comes first in every tick; still every job that waits ends
\* or is tried, because the attempts of every job are bounded. (NobodyWaits of MCEnds.)
Untried(r) == Waiting(r) /\ obj[r].attempts = 0
EveryoneIsTried == \A r \in Retries : Untried(r) ~> ~Untried(r)

\* "Tick every second from the UI thread via after(), but execute work in threads"
\* (app/scheduler.py:343): a tick is not ended by what its threads do. TLC refutes it.
TickCompletes == ~erred
=============================================================================
