----------------------------- MODULE SelfUpdate -----------------------------
(***************************************************************************)
(* The in-panel update of OCIBot (web/backend/self_update.py): requests of *)
(* administrators in the API processes, the thread that start_update       *)
(* leaves behind, the status row they share and the detached container     *)
(* that rebuilds and restarts the stack, the API processes included.       *)
(*                                                                         *)
(* The row is one JSON value: whoever writes it writes all of it.  A       *)
(* request keeps the copy it read (st) across its docker and network calls *)
(* and writes that copy; save() of the update thread reads and writes in   *)
(* one go.  Time is the age of started_at against the 20 and 45 minutes of *)
(* the stale sweeps; neither limit passes in the middle of a request, nor  *)
(* while a thread is at the commands before the helper is detached, whose  *)
(* timeouts add up to less (the recovery compose run excepted).            *)
(***************************************************************************)
EXTENDS Integers, FiniteSets

CONSTANTS
    Process,    \* API processes (OCIBOT_API_WORKERS), in one container
    Request,    \* threads that serve administrators
    ProcessOf,  \* the process of each of them
    MaxRuns,    \* bound: updates started
    MaxCrashes, \* bound: deaths of an API process
    Pg,         \* PostgreSQL, else SQLite
    NoOne,
    Kinds,      \* what administrators ask: "apply", "status", "check"
    FirstRow,   \* states the row may be found in
    Faults      \* the failures this instance lets happen

ASSUME UpdateAssumption ==
    /\ ProcessOf \in [Request -> Process] /\ IsFiniteSet(Request)
    /\ MaxRuns \in Nat /\ MaxCrashes \in Nat /\ Pg \in BOOLEAN
    /\ NoOne \notin Request
    /\ Kinds \subseteq {"apply", "status", "check"}
    /\ FirstRow \subseteq {"absent", "settled", "unreported"}
    /\ Faults \subseteq {"prepare", "detach", "late", "created", "unknown", "prune"}

Run == 1..MaxRuns
NoRun == 0
Box == {"helper", "recovery"}     \* HELPER_CONTAINER, RECOVERY_CONTAINER
Build == {"old", "new"}

VARIABLES
    row,      \* the JSON under KEY_UPDATE_STATUS
    req,      \* [pc, st] of each request
    job,      \* [pc, proc, box, try] of each update thread
    worker,   \* _worker of each process
    locked,   \* holder of _lock of each process
    box,      \* what docker inspect would say of the two containers
    code,     \* commit of the checkout on the host
    build,    \* commit the API processes report (OCIBOT_GIT_SHA)
    crashes   \* deaths so far

vars == <<row, req, job, worker, locked, box, code, build, crashes>>
host == <<box, code, build, crashes>>

Row == [state: {"absent", "idle", "running", "success", "error"},
        helper: Box \cup {"none"}, age: {"fresh", "old", "older"},
        sha: Build \cup {"none"}]

EmptyRow == [state |-> "absent", helper |-> "none", age |-> "fresh", sha |-> "none"]

ApplyPc == {"assert", "lock", "settle", "sweep", "mark", "insert"}
StatusPc == {"read", "recheck", "follow", "judge", "stale"}
CheckPc == {"peek", "fetch"}

\* From the hand-over of start_update to the container that has a name.
WorkPc == {"begin", "prepare", "reset", "handoff", "detach", "rm", "run",
           "recover", "recovering", "named"}

TypeOK ==
    /\ row \in Row
    /\ req \in [Request -> [pc: {"idle"} \cup ApplyPc \cup StatusPc \cup CheckPc, st: Row]]
    /\ job \in [Run -> [pc: {"none", "wait", "last", "done", "gone"} \cup WorkPc,
                        proc: Process, box: Box, try: 1..2]]
    /\ worker \in [Process -> Run \cup {NoRun}]
    /\ locked \in [Process -> Request \cup {NoOne}]
    /\ box \in [Box -> {"missing", "created", "live", "ok", "failed"}]
    /\ code \in Build /\ build \in Build /\ crashes \in 0..MaxCrashes

------------------------------------------------------------------------------
(* Docker, and what is made of its answers *)

LiveContainerStates == {"created", "live"}

\* _container_state: an inspect that fails says "unknown".
Looks(b) == {box[b]} \cup (IF "unknown" \in Faults THEN {"unknown"} ELSE {})

\* What ends the watch: "created", a live helper or a failed inspect do not.
Settles(answer) == answer \notin LiveContainerStates \cup {"unknown"}

\* Mutant: the exit code is not looked at.
SettledAnyhow(st, answer) ==
    [st EXCEPT !.state = IF answer = "missing" THEN "error" ELSE "success"]

\* _settle_from_helper: a container that is gone leaves only the running
\* commit to judge by.
Settled(st, answer) ==
    [st EXCEPT !.state = IF \/ answer = "ok"
                            \/ answer = "missing" /\ st.sha = build
                         THEN "success" ELSE "error"]

Failed(st) == [st EXCEPT !.state = "error"]

\* What start_update and _apply_job write before anything is done.
Marked(st) ==
    [st EXCEPT !.state = "running", !.age = "fresh", !.helper = "none"]

FindsLive == \E b \in Box : Looks(b) \cap LiveContainerStates # {}
FindsNone == \A b \in Box : Looks(b) \ LiveContainerStates # {}

Alive(p) == worker[p] # NoRun
Quiet == \A r \in Request : req[r].pc = "idle"

------------------------------------------------------------------------------
(* Requests *)

Go(r, pc) == req' = [req EXCEPT ![r].pc = pc]
Holding(r, pc, st) == req' = [req EXCEPT ![r] = [pc |-> pc, st |-> st]]
Unlock(r) == locked' = [locked EXCEPT ![ProcessOf[r]] = NoOne]

Unused == {n \in Run : job[n].pc = "none"}
Applying == {r \in Request : req[r].pc \in ApplyPc}

AskApply(r) ==
    /\ "apply" \in Kinds /\ req[r].pc = "idle"
    /\ Cardinality(Applying) < Cardinality(Unused)
    /\ Go(r, "assert")
    /\ UNCHANGED <<row, job, worker, locked, host>>

AskStatus(r) ==
    /\ "status" \in Kinds /\ req[r].pc = "idle" /\ Go(r, "read")
    /\ UNCHANGED <<row, job, worker, locked, host>>

AskCheck(r) ==
    /\ "check" \in Kinds /\ req[r].pc = "idle" /\ Go(r, "peek")
    /\ UNCHANGED <<row, job, worker, locked, host>>

\* _assert_no_live_helper at the door of start_update
ApplyRefused(r) ==
    /\ req[r].pc = "assert" /\ FindsLive /\ Go(r, "idle")
    /\ UNCHANGED <<row, job, worker, locked, host>>

ApplyClear(r) ==
    /\ req[r].pc = "assert" /\ FindsNone /\ Go(r, "lock")
    /\ UNCHANGED <<row, job, worker, locked, host>>

TakeLock(r) ==
    /\ req[r].pc = "lock" /\ locked[ProcessOf[r]] = NoOne
    /\ locked' = [locked EXCEPT ![ProcessOf[r]] = r]
    /\ Holding(r, "settle", row)
    /\ UNCHANGED <<row, job, worker, host>>

\* The row names a helper and the thread that waited for it is gone.
Orphan(r) ==
    LET st == req[r].st IN
    st.state = "running" /\ st.helper # "none" /\ ~Alive(ProcessOf[r])

SettleFirst(r) ==
    /\ req[r].pc = "settle" /\ Orphan(r)
    /\ \E answer \in Looks(req[r].st.helper) :
          IF Settles(answer)
          THEN LET st == Settled(req[r].st, answer) IN
               row' = st /\ Holding(r, "sweep", st)
          ELSE Go(r, "sweep") /\ UNCHANGED row
    /\ UNCHANGED <<job, worker, locked, host>>

NothingToSettle(r) ==
    /\ req[r].pc = "settle" /\ ~Orphan(r) /\ Go(r, "sweep")
    /\ UNCHANGED <<row, job, worker, locked, host>>

\* Mutant: only the row is asked, not this process's own thread.
PassesByRow(r) ==
    /\ req[r].pc = "sweep" /\ req[r].st.state # "running" /\ Go(r, "mark")
    /\ UNCHANGED <<row, job, worker, locked, host>>

AlreadyRunning(r) ==
    /\ req[r].pc = "sweep"
    /\ \/ Alive(ProcessOf[r])
       \/ req[r].st.state = "running" /\ req[r].st.age = "fresh"
    /\ Go(r, "idle") /\ Unlock(r)
    /\ UNCHANGED <<row, job, worker, host>>

\* _recover_stale_running with the 20 minutes of start_update
SweepAbandoned(r) ==
    /\ req[r].pc = "sweep" /\ ~Alive(ProcessOf[r])
    /\ req[r].st.state = "running" /\ req[r].st.age # "fresh"
    /\ row' = Failed(req[r].st) /\ Holding(r, "mark", Failed(req[r].st))
    /\ UNCHANGED <<job, worker, locked, host>>

NothingRunning(r) ==
    /\ req[r].pc = "sweep" /\ ~Alive(ProcessOf[r]) /\ req[r].st.state # "running"
    /\ Go(r, "mark")
    /\ UNCHANGED <<row, job, worker, locked, host>>

StartJob(r) ==
    LET p == ProcessOf[r] IN
    /\ \E n \in Unused :
          /\ \A m \in Unused : n <= m
          /\ job' = [job EXCEPT ![n] = [pc |-> "begin", proc |-> p, box |-> "helper", try |-> 1]]
          /\ worker' = [worker EXCEPT ![p] = n]
    /\ row' = Marked(req[r].st)
    /\ Go(r, "read") /\ Unlock(r)
    /\ UNCHANGED host

\* SELECT ... FOR UPDATE finds that another process was faster.
RowTaken(r) ==
    /\ Pg /\ req[r].pc = "mark" /\ row.state = "running"
    /\ Go(r, "idle") /\ Unlock(r)
    /\ UNCHANGED <<row, job, worker, host>>

\* The row stays locked from the second reading to the commit; SQLite has no
\* row lock and no second reading.
Mark(r) ==
    /\ req[r].pc = "mark"
    /\ Pg => row.state \notin {"absent", "running"}
    /\ StartJob(r)

\* No row yet, nothing to lock.
RowAbsent(r) ==
    /\ Pg /\ req[r].pc = "mark" /\ row.state = "absent" /\ Go(r, "insert")
    /\ UNCHANGED <<row, job, worker, locked, host>>

Insert(r) == req[r].pc = "insert" /\ StartJob(r)

\* Two INSERTs of one primary key
InsertCollides(r) ==
    /\ req[r].pc = "insert" /\ row.state # "absent"
    /\ Go(r, "idle") /\ Unlock(r)
    /\ UNCHANGED <<row, job, worker, host>>

\* get_status reads the row and sees what there is to reconcile.
Read(r) ==
    /\ req[r].pc = "read"
    /\ Holding(r, IF row.state = "success" /\ row.sha \notin {"none", build} THEN "recheck"
                  ELSE IF row.state # "running" THEN "idle"
                  ELSE IF row.helper # "none" THEN "follow" ELSE "stale", row)
    /\ UNCHANGED <<row, job, worker, locked, host>>

\* "success", but another commit is running and the helper failed.
Recheck(r) ==
    /\ req[r].pc = "recheck" /\ Go(r, "idle")
    /\ \E answer \in Looks("helper") :
          row' = IF answer = "failed" THEN Failed(req[r].st) ELSE row
    /\ UNCHANGED <<job, worker, locked, host>>

\* The thread that waited for the helper is looked for under _lock, ...
Follow(r) ==
    /\ req[r].pc = "follow" /\ locked[ProcessOf[r]] = NoOne
    /\ Go(r, IF Orphan(r) THEN "judge" ELSE "idle")
    /\ UNCHANGED <<row, job, worker, locked, host>>

\* ... the helper is inspected, and the row written, after it was let go.
Judge(r) ==
    /\ req[r].pc = "judge" /\ Go(r, "idle")
    /\ \E answer \in Looks(req[r].st.helper) :
          row' = IF Settles(answer) THEN Settled(req[r].st, answer) ELSE row
    /\ UNCHANGED <<job, worker, locked, host>>

\* Mutant: nobody sweeps.
SweepNever(r) ==
    /\ req[r].pc = "stale" /\ locked[ProcessOf[r]] = NoOne /\ Go(r, "idle")
    /\ UNCHANGED <<row, job, worker, locked, host>>

\* _recover_stale_running with the 45 minutes of get_status
SweepStale(r) ==
    /\ req[r].pc = "stale" /\ locked[ProcessOf[r]] = NoOne /\ Go(r, "idle")
    /\ row' = IF ~Alive(ProcessOf[r]) /\ req[r].st.age = "older"
              THEN Failed(req[r].st) ELSE row
    /\ UNCHANGED <<job, worker, locked, host>>

\* check_for_update reads the row, asks GitHub, writes the row.
Peek(r) ==
    /\ req[r].pc = "peek"
    /\ Holding(r, IF row.state = "running" THEN "read" ELSE "fetch", row)
    /\ UNCHANGED <<row, job, worker, locked, host>>

Fetched(r) ==
    /\ req[r].pc = "fetch"
    /\ \/ row' = [req[r].st EXCEPT !.state = "idle"] /\ Go(r, "read")
       \/ row' = Failed(req[r].st) /\ Go(r, "idle")
    /\ UNCHANGED <<job, worker, locked, host>>

------------------------------------------------------------------------------
(* The update thread, _apply_job *)

At(n, pc) == job[n].pc = pc
Step(n, pc) == job' = [job EXCEPT ![n].pc = pc]
Save(state) == row' = [row EXCEPT !.state = state]

\* save("error"), from an early return or from the handler at the end
Fails(n) == Save("error") /\ Step(n, "last")

Begin(n) ==
    /\ At(n, "begin") /\ row' = Marked(row) /\ Step(n, "prepare")
    /\ UNCHANGED <<req, worker, locked, host>>

\* Disk, capabilities and git fetch
Prepare(n) ==
    /\ At(n, "prepare")
    /\ \/ Save("running") /\ Step(n, "reset")
       \/ "prepare" \in Faults /\ Fails(n)
    /\ UNCHANGED <<req, worker, locked, host>>

\* git checkout -B, git reset --hard
Reset(n) ==
    /\ At(n, "reset")
    /\ \/ code' = "new" /\ Step(n, "handoff") /\ UNCHANGED row
       \/ "prepare" \in Faults /\ code' \in {code, "new"} /\ Fails(n)
    /\ UNCHANGED <<req, worker, locked, box, build, crashes>>

HandOff(n) ==
    /\ At(n, "handoff") /\ Step(n, "detach")
    /\ row' = [row EXCEPT !.state = "running", !.sha = code]
    /\ UNCHANGED <<req, worker, locked, host>>

\* _assert_no_live_helper again, before docker rm -f
Detach(n) ==
    /\ At(n, "detach")
    /\ \/ FindsLive /\ Fails(n)
       \/ FindsNone /\ Step(n, "rm") /\ UNCHANGED row
    /\ UNCHANGED <<req, worker, locked, host>>

\* docker rm -f of the last helper; with the daemon away nothing happens.
Remove(n) ==
    /\ At(n, "rm") /\ Step(n, "run")
    /\ \/ box' = [box EXCEPT !["helper"] = "missing"]
       \/ "unknown" \in Faults /\ UNCHANGED box
    /\ UNCHANGED <<row, req, worker, locked, code, build, crashes>>

\* docker run -d: first install.sh through nsenter, then the compose script
RunHelper(n) ==
    /\ At(n, "run") /\ box["helper"] = "missing"
    /\ box' = [box EXCEPT !["helper"] = "live"] /\ Step(n, "named")
    /\ UNCHANGED <<row, req, worker, locked, code, build, crashes>>

\* The name is taken or the daemon refuses; the CLI is reaped after a minute,
\* which no request spends on its way to the mark, and the container starts all
\* the same; or the container is created and cannot be started.
RunFails(n) ==
    /\ At(n, "run") /\ (box["helper"] # "missing" \/ "detach" \in Faults)
    /\ \/ UNCHANGED box
       \/ /\ box["helper"] = "missing"
          /\ \E b \in {"live", "created"} :
                /\ b = "live" => "late" \in Faults /\ Applying = {}
                /\ b = "created" => "created" \in Faults
                /\ box' = [box EXCEPT !["helper"] = b]
    /\ job' = [job EXCEPT ![n] = [@ EXCEPT !.pc = IF job[n].try = 1 THEN "detach" ELSE "recover",
                                           !.try = 2]]
    /\ UNCHANGED <<row, req, worker, locked, code, build, crashes>>

Name(n) ==
    /\ At(n, "named") /\ Step(n, "wait")
    /\ row' = [row EXCEPT !.state = "running", !.sha = code, !.helper = "helper"]
    /\ UNCHANGED <<req, worker, locked, host>>

\* compose up -d in the foreground, the last resort
Recover(n) ==
    /\ At(n, "recover")
    /\ \/ /\ box["recovery"] = "missing" /\ box' = [box EXCEPT !["recovery"] = "live"]
          /\ Step(n, "recovering") /\ UNCHANGED row
       \/ Fails(n) /\ UNCHANGED box
    /\ UNCHANGED <<req, worker, locked, code, build, crashes>>

Recovered(n) ==
    /\ At(n, "recovering") /\ box["recovery"] = "missing"
    /\ \/ row' = [row EXCEPT !.state = "success", !.sha = code] /\ Step(n, "last")
       \/ Fails(n)
    /\ UNCHANGED <<req, worker, locked, host>>

\* The docker CLI is reaped after its timeout, the container is not.
RecoveryTimesOut(n) ==
    /\ At(n, "recovering") /\ box["recovery"] = "live"
    /\ \E answer \in Looks("recovery") :
          IF answer = "live"
          THEN /\ row' = [row EXCEPT !.state = "running", !.sha = code, !.helper = "recovery"]
               /\ job' = [job EXCEPT ![n] = [@ EXCEPT !.pc = "wait", !.box = "recovery"]]
          ELSE Fails(n)
    /\ UNCHANGED <<req, worker, locked, host>>

\* _wait_for_helper, then the outcome is saved.
Waited(n) ==
    /\ At(n, "wait") /\ Step(n, "last")
    /\ \E answer \in Looks(job[n].box) :
          Settles(answer) /\ row' = Settled([row EXCEPT !.sha = code], answer)
    /\ UNCHANGED <<req, worker, locked, host>>

\* helper_timeout after 40 minutes: the container is left alone.
WaitTimesOut(n) ==
    /\ At(n, "wait") /\ Quiet /\ row.age # "fresh"
    /\ \E answer \in Looks(job[n].box) : ~Settles(answer)
    /\ Fails(n)
    /\ UNCHANGED <<req, worker, locked, host>>

\* The finally block forgets the thread.
Last(n) ==
    LET p == job[n].proc IN
    /\ At(n, "last") /\ locked[p] = NoOne
    /\ worker' = [worker EXCEPT ![p] = NoRun] /\ Step(n, "done")
    /\ UNCHANGED <<row, req, locked, host>>

------------------------------------------------------------------------------
(* Containers, crashes, time *)

\* Processes die: their threads, requests and locks go with them.
Die(dead) ==
    /\ req' = [r \in Request |-> IF ProcessOf[r] \in dead
                                 THEN [pc |-> "idle", st |-> EmptyRow] ELSE req[r]]
    /\ job' = [n \in Run |-> IF job[n].proc \in dead /\ job[n].pc \notin {"none", "done"}
                             THEN [job[n] EXCEPT !.pc = "gone"] ELSE job[n]]
    /\ worker' = [p \in Process |-> IF p \in dead THEN NoRun ELSE worker[p]]
    /\ locked' = [p \in Process |-> IF p \in dead THEN NoOne ELSE locked[p]]

\* compose up -d replaces the API container by one built from the checkout.
Recreate ==
    /\ "live" \in {box[b] : b \in Box} /\ build # code
    /\ build' = code /\ Die(Process)
    /\ UNCHANGED <<row, box, code, crashes>>

HelperExits ==
    /\ box["helper"] = "live"
    /\ \/ build = code /\ box' = [box EXCEPT !["helper"] = "ok"]
       \/ box' = [box EXCEPT !["helper"] = "failed"]
    /\ UNCHANGED <<row, req, job, worker, locked, code, build, crashes>>

\* docker run --rm leaves nothing behind.
RecoveryExits ==
    /\ box["recovery"] = "live" /\ box' = [box EXCEPT !["recovery"] = "missing"]
    /\ UNCHANGED <<row, req, job, worker, locked, code, build, crashes>>

\* Somebody removes stopped containers.
Prune ==
    /\ "prune" \in Faults /\ box["helper"] \in {"ok", "failed"}
    /\ box' = [box EXCEPT !["helper"] = "missing"]
    /\ UNCHANGED <<row, req, job, worker, locked, code, build, crashes>>

Crash(p) ==
    /\ crashes < MaxCrashes /\ crashes' = crashes + 1 /\ Die({p})
    /\ UNCHANGED <<row, box, code, build>>

\* started_at grows older than 20, then than 45 minutes.
Age ==
    /\ Quiet /\ row.state = "running" /\ row.age # "older"
    /\ \A n \in Run : job[n].pc \notin WorkPc \ {"recovering"}
    /\ row' = [row EXCEPT !.age = IF @ = "fresh" THEN "old" ELSE "older"]
    /\ UNCHANGED <<req, job, worker, locked, host>>

------------------------------------------------------------------------------

\* "unreported": the last update replaced the API; nobody has asked since.
Init ==
    /\ \E how \in FirstRow :
          /\ row = CASE how = "absent" -> EmptyRow
                     [] how = "settled" -> [EmptyRow EXCEPT !.state = "idle"]
                     [] how = "unreported" -> [EmptyRow EXCEPT !.state = "running",
                                                  !.helper = "helper", !.sha = "old"]
          /\ box = [b \in Box |-> IF how = "unreported" /\ b = "helper"
                                  THEN "ok" ELSE "missing"]
    /\ req = [r \in Request |-> [pc |-> "idle", st |-> EmptyRow]]
    /\ \E p \in Process :
          job = [n \in Run |-> [pc |-> "none", proc |-> p, box |-> "helper", try |-> 1]]
    /\ worker = [p \in Process |-> NoRun]
    /\ locked = [p \in Process |-> NoOne]
    /\ code = "old" /\ build = "old" /\ crashes = 0

ApplyNext(r) ==
    \/ ApplyRefused(r) \/ ApplyClear(r) \/ TakeLock(r)
    \/ SettleFirst(r) \/ NothingToSettle(r)
    \/ AlreadyRunning(r) \/ SweepAbandoned(r) \/ NothingRunning(r)
    \/ RowTaken(r) \/ Mark(r) \/ RowAbsent(r) \/ Insert(r) \/ InsertCollides(r)

StatusNext(r) ==
    \/ Read(r) \/ Recheck(r) \/ Follow(r) \/ Judge(r) \/ SweepStale(r) \/ Peek(r) \/ Fetched(r)

JobNext(n) ==
    \/ Begin(n) \/ Prepare(n) \/ Reset(n) \/ HandOff(n) \/ Detach(n) \/ Remove(n)
    \/ RunHelper(n) \/ RunFails(n) \/ Name(n) \/ Recover(n) \/ Recovered(n)
    \/ RecoveryTimesOut(n) \/ Waited(n) \/ WaitTimesOut(n) \/ Last(n)

Next ==
    \/ \E r \in Request : \/ AskApply(r) \/ AskStatus(r) \/ AskCheck(r)
                          \/ ApplyNext(r) \/ StatusNext(r)
    \/ \E n \in Run : JobNext(n)
    \/ Recreate \/ HelperExits \/ RecoveryExits \/ Prune \/ Age
    \/ \E p \in Process : Crash(p)

Spec == Init /\ [][Next]_vars

Serves(r) == ApplyNext(r) \/ StatusNext(r)
Polls(r) == row.state = "running" /\ AskStatus(r)

\* Threads are scheduled and their commands time out, containers end, time
\* passes, and the page of an administrator polls while the row says running.
FairSpec ==
    /\ Spec
    /\ \A r \in Request : WF_vars(Serves(r)) /\ SF_vars(Polls(r))
    /\ \A n \in Run : WF_vars(JobNext(n))
    /\ WF_vars(HelperExits) /\ WF_vars(RecoveryExits) /\ SF_vars(Age)

------------------------------------------------------------------------------
(* Properties *)

Updating == [s \in {"stack"} |-> {n \in Run : job[n].pc \in WorkPc}]

Mutex == INSTANCE LaunchMutex WITH
            Caller <- Run, Resource <- {"stack"}, inside <- Updating

\* No update resets the checkout or removes the helper's container while a
\* helper is at work: it would be killed in the middle of compose up.
HelperUndisturbed ==
    \A n \in Run : /\ job[n].pc \in {"reset", "rm"}
                   /\ job'[n].pc \notin {job[n].pc, "gone"}
                   => \A b \in Box : box[b] # "live"

\* "Update finished" is only ever said of a helper when the API runs the commit
\* that was applied.
SuccessIsTrue ==
    row.state = "success" /\ row.helper = "helper" => build = row.sha

\* For its first 20 minutes a helper at work can be told from the row: "the
\* status row must not go terminal while the helper container is alive"
\* (tests/test_self_update_mutex.py).
HelperShown ==
    box["helper"] = "live" => row.state = "running" \/ row.age # "fresh"

\* An update thread is known to its process until it has saved its outcome: the
\* finally block clears _worker without asking whose it is.
WorkerKnown ==
    \A n \in Run : job[n].pc \in WorkPc \cup {"wait", "last"} => worker[job[n].proc] = n

\* An update that runs is reported on in the end, whoever survives it.
\* (NobodyWaits of MCEnds.)
Unreported == row.state = "running"
Reported == Unreported ~> ~Unreported

\* A helper that refuses further updates ends: the next update can start. TLC refutes it
\* with the faults "detach" and "created": a container that cannot start stays.
HelperEnds ==
    box["helper"] \in LiveContainerStates ~> box["helper"] \notin LiveContainerStates
==============================================================================
