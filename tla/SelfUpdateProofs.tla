-------------------------- MODULE SelfUpdateProofs --------------------------
(***************************************************************************)
(* Theorems about the in-panel update, for any administrators, number of   *)
(* updates and crashes.  What the threads and the locks of a process do is *)
(* proved for any number of processes; that updates exclude each other is  *)
(* proved for the single API process that both installers start            *)
(* (OneProcess), whatever fails.                                           *)
(***************************************************************************)
EXTENDS MCUpdate, TLAPS

OneProcess == \A p, q \in Process : p = q

------------------------------------------------------------------------------
(* Types, and what a process knows of its threads *)

\* The states of an apply request under _lock.
Past == {"settle", "sweep", "mark", "insert"}

\* TypeOK, with the domains the prover needs named.
ReqState == [pc: {"idle"} \cup ApplyPc \cup StatusPc \cup CheckPc, st: Row]
JobState == [pc: {"none", "wait", "last", "done", "gone"} \cup WorkPc,
             proc: Process, box: Box, try: 1..2]

LockOwned == \A r \in Request : req[r].pc \in Past => locked[ProcessOf[r]] = r

\* Whoever is about to start an update has seen, under _lock, that none runs.
MarkFree ==
    \A r \in Request : req[r].pc \in {"mark", "insert"} => worker[ProcessOf[r]] = NoRun

\* An update thread has the helper's name for its container until it recovers.
BoxNamed == \A n \in Run : job[n].pc \in WorkPc => job[n].box = "helper"

Known == TypeOK /\ LockOwned /\ MarkFree /\ WorkerKnown /\ BoxNamed

Pcs == {"idle"} \cup ApplyPc \cup StatusPc \cup CheckPc

\* What the changes of a request's record are.
LEMMA GoTypes ==
    ASSUME TypeOK, NEW r \in Request, NEW pc \in Pcs, Go(r, pc)
    PROVE  /\ req' \in [Request -> ReqState]
           /\ req'[r].pc = pc /\ req'[r].st = req[r].st
           /\ \A s \in Request \ {r} : req'[s] = req[s]
BY DEF TypeOK, Go, ReqState, Pcs

LEMMA HoldingTypes ==
    ASSUME TypeOK, NEW r \in Request, NEW pc \in Pcs, NEW st \in Row, Holding(r, pc, st)
    PROVE  /\ req' \in [Request -> ReqState]
           /\ req'[r].pc = pc /\ req'[r].st = st
           /\ \A s \in Request \ {r} : req'[s] = req[s]
BY DEF TypeOK, Holding, ReqState, Pcs

LEMMA UnlockTypes ==
    ASSUME TypeOK, NEW r \in Request, Unlock(r)
    PROVE  /\ locked' \in [Process -> Request \cup {NoOne}]
           /\ \A p \in Process : locked'[p] = IF p = ProcessOf[r] THEN NoOne ELSE locked[p]
BY UpdateAssumption DEF TypeOK, Unlock

\* What is made of the row stays a row.
LEMMA RowTypes ==
    ASSUME NEW st \in Row
    PROVE  /\ \A answer : Settled(st, answer) \in Row
           /\ Failed(st) \in Row /\ Marked(st) \in Row
           /\ \A s \in {"absent", "idle", "running", "success", "error"} :
                 [st EXCEPT !.state = s] \in Row
           /\ \A c \in Build : \A b \in Box :
                 /\ [st EXCEPT !.state = "running", !.sha = c] \in Row
                 /\ [st EXCEPT !.state = "success", !.sha = c] \in Row
                 /\ [st EXCEPT !.sha = c] \in Row
                 /\ [st EXCEPT !.state = "running", !.sha = c, !.helper = b] \in Row
           /\ [st EXCEPT !.age = IF @ = "fresh" THEN "old" ELSE "older"] \in Row
BY DEF Row, Settled, Failed, Marked

LEMMA InitKnown == Init => Known
<1> SUFFICES ASSUME Init PROVE Known
  OBVIOUS
<1>1. EmptyRow \in Row /\ "helper" \in Box /\ "old" \in Build
  BY DEF EmptyRow, Row, Box, Build
<1>2. row \in Row
  <2>1. PICK how \in FirstRow :
           row = CASE how = "absent" -> EmptyRow
                   [] how = "settled" -> [EmptyRow EXCEPT !.state = "idle"]
                   [] how = "unreported" -> [EmptyRow EXCEPT !.state = "running",
                                                !.helper = "helper", !.sha = "old"]
    BY DEF Init
  <2>2. how \in {"absent", "settled", "unreported"}
    BY UpdateAssumption
  <2> QED BY <1>1, <2>1, <2>2, RowTypes
<1>3. /\ req \in [Request -> ReqState] /\ \A r \in Request : req[r].pc = "idle"
  BY <1>1 DEF Init, ReqState
<1>4. job \in [Run -> JobState] /\ \A n \in Run : job[n].pc = "none"
  BY <1>1 DEF Init, JobState
<1>5. /\ worker \in [Process -> Run \cup {NoRun}] /\ locked \in [Process -> Request \cup {NoOne}]
      /\ box \in [Box -> {"missing", "created", "live", "ok", "failed"}]
      /\ code \in Build /\ build \in Build /\ crashes \in 0..MaxCrashes
  BY <1>1, UpdateAssumption DEF Init
<1>6. TypeOK
  BY <1>2, <1>3, <1>4, <1>5 DEF TypeOK, ReqState, JobState
<1> QED BY <1>3, <1>4, <1>6 DEF Known, LockOwned, MarkFree, WorkerKnown, BoxNamed, Past, WorkPc

------------------------------------------------------------------------------
(* What a request does, but for the start of an update *)

\* _lock stays as it is, is taken, or is given back by the request that has it.
LockMoves(r) ==
    \/ UNCHANGED locked /\ (req'[r].pc \in Past => req[r].pc \in Past)
    \/ /\ locked[ProcessOf[r]] = NoOne /\ locked' = [locked EXCEPT ![ProcessOf[r]] = r]
    \/ req[r].pc \in Past /\ Unlock(r) /\ req'[r].pc \notin Past

RequestMoves(r) ==
    /\ UNCHANGED <<job, worker, host>> /\ row' \in Row /\ req' \in [Request -> ReqState]
    /\ \A s \in Request \ {r} : req'[s] = req[s]
    /\ req'[r].pc \in {"mark", "insert"} => worker[ProcessOf[r]] = NoRun
    /\ req'[r].pc \in {"lock"} \cup Past => req[r].pc \in {"lock"} \cup Past \/ FindsNone
    /\ LockMoves(r)

LEMMA AsksMoves ==
    ASSUME Known, NEW r \in Request, AskApply(r) \/ AskStatus(r) \/ AskCheck(r)
    PROVE  RequestMoves(r)
<1>1. PICK pc \in {"assert", "read", "peek"} :
         Go(r, pc) /\ UNCHANGED <<row, job, worker, locked, host>>
  BY DEF AskApply, AskStatus, AskCheck
<1>2. pc \in Pcs /\ TypeOK
  BY DEF Pcs, ApplyPc, StatusPc, CheckPc, Known
<1> QED BY <1>1, <1>2, GoTypes DEF RequestMoves, LockMoves, Past, TypeOK

LEMMA ApplyMoves ==
    ASSUME Known, NEW r \in Request, ApplyNext(r), ~Mark(r), ~Insert(r)
    PROVE  RequestMoves(r)
<1> DEFINE p == ProcessOf[r]
<1> USE DEF Known
<1>0. /\ {"idle", "lock", "settle", "sweep", "mark", "insert"} \subseteq Pcs
      /\ req[r] \in ReqState /\ row \in Row /\ TypeOK
  BY DEF Pcs, ApplyPc, TypeOK, ReqState
<1>1. CASE ApplyRefused(r) \/ ApplyClear(r)
  BY <1>0, <1>1, GoTypes DEF ApplyRefused, ApplyClear, RequestMoves, LockMoves, Past
<1>2. CASE TakeLock(r)
  BY <1>0, <1>2, HoldingTypes DEF TakeLock, RequestMoves, LockMoves, Past
<1>3. CASE SettleFirst(r)
  <2>1. CASE \E answer \in Looks(req[r].st.helper) :
                row' = Settled(req[r].st, answer) /\ Holding(r, "sweep", Settled(req[r].st, answer))
    <3> PICK answer : row' = Settled(req[r].st, answer)
                      /\ Holding(r, "sweep", Settled(req[r].st, answer))
      BY <2>1
    <3>1. Settled(req[r].st, answer) \in Row
      BY <1>0, RowTypes DEF ReqState
    <3> QED BY <1>0, <1>3, <3>1, HoldingTypes
            DEF SettleFirst, RequestMoves, LockMoves, Past
  <2>2. CASE Go(r, "sweep") /\ UNCHANGED row
    BY <1>0, <1>3, <2>2, GoTypes DEF SettleFirst, RequestMoves, LockMoves, Past
  <2> QED BY <1>3, <2>1, <2>2 DEF SettleFirst
<1>4. CASE NothingToSettle(r)
  BY <1>0, <1>4, GoTypes DEF NothingToSettle, RequestMoves, LockMoves, Past
<1>5. CASE AlreadyRunning(r) \/ RowTaken(r) \/ InsertCollides(r)
  BY <1>0, <1>5, GoTypes
  DEF AlreadyRunning, RowTaken, InsertCollides, RequestMoves, LockMoves, Past
<1>6. CASE SweepAbandoned(r)
  <2>1. Failed(req[r].st) \in Row
    BY <1>0, RowTypes DEF ReqState
  <2> QED BY <1>0, <1>6, <2>1, HoldingTypes
          DEF SweepAbandoned, Alive, RequestMoves, LockMoves, Past
<1>7. CASE NothingRunning(r)
  BY <1>0, <1>7, GoTypes DEF NothingRunning, Alive, RequestMoves, LockMoves, Past
<1>8. CASE RowAbsent(r)
  BY <1>0, <1>8, GoTypes DEF RowAbsent, MarkFree, RequestMoves, LockMoves, Past
<1> QED BY <1>1, <1>2, <1>3, <1>4, <1>5, <1>6, <1>7, <1>8 DEF ApplyNext

LEMMA StatusMoves ==
    ASSUME Known, NEW r \in Request, StatusNext(r)
    PROVE  RequestMoves(r)
<1> USE DEF Known
<1>0. /\ {"idle", "read", "fetch", "recheck", "follow", "judge", "stale"} \subseteq Pcs
      /\ req[r] \in ReqState /\ row \in Row /\ TypeOK
  BY DEF Pcs, StatusPc, CheckPc, TypeOK, ReqState
<1>1. PICK pc \in {"idle", "read", "fetch", "recheck", "follow", "judge", "stale"} :
         Go(r, pc) \/ Holding(r, pc, row)
  BY DEF StatusNext, Read, Recheck, Follow, Judge, SweepStale, Peek, Fetched
<1>2. row' \in Row
  BY <1>0, RowTypes
  DEF StatusNext, Read, Recheck, Follow, Judge, SweepStale, Peek, Fetched, ReqState
<1>3. UNCHANGED <<job, worker, locked, host>>
  BY DEF StatusNext, Read, Recheck, Follow, Judge, SweepStale, Peek, Fetched
<1> QED BY <1>0, <1>1, <1>2, <1>3, GoTypes, HoldingTypes DEF RequestMoves, LockMoves, Past


------------------------------------------------------------------------------
(* The start of an update *)

\* The thread that begins, and its request.
Starts(r, n) ==
    LET p == ProcessOf[r] IN
    /\ req[r].pc \in {"mark", "insert"} /\ job[n].pc = "none"
    /\ job' = [job EXCEPT ![n] = [pc |-> "begin", proc |-> p, box |-> "helper", try |-> 1]]
    /\ worker' = [worker EXCEPT ![p] = n]
    /\ row' = Marked(req[r].st)
    /\ Go(r, "read") /\ Unlock(r) /\ UNCHANGED host

LEMMA StartStarts ==
    ASSUME NEW r \in Request, Mark(r) \/ Insert(r)
    PROVE  \E n \in Run : Starts(r, n)
BY DEF Mark, Insert, StartJob, Starts, Unused

LEMMA StartKnown ==
    ASSUME Known, NEW r \in Request, NEW n \in Run, Starts(r, n)
    PROVE  Known'
<1> DEFINE p == ProcessOf[r]
<1> USE DEF Known
<1>1. /\ req[r] \in ReqState /\ TypeOK /\ "read" \in Pcs /\ p \in Process
      /\ \A s \in Request : ProcessOf[s] \in Process
  BY UpdateAssumption DEF TypeOK, ReqState, Pcs, StatusPc
<1>2. /\ req' \in [Request -> ReqState] /\ req'[r].pc = "read"
      /\ \A s \in Request \ {r} : req'[s] = req[s]
  BY <1>1, GoTypes DEF Starts
<1>3. locked' \in [Process -> Request \cup {NoOne}]
      /\ \A q \in Process : locked'[q] = IF q = p THEN NoOne ELSE locked[q]
  BY <1>1, UnlockTypes DEF Starts
<1>4. [pc |-> "begin", proc |-> p, box |-> "helper", try |-> 1] \in JobState
  BY <1>1 DEF JobState, Box, WorkPc
<1>5. /\ job' \in [Run -> JobState] /\ job'[n].pc = "begin" /\ job'[n].proc = p
      /\ job'[n].box = "helper" /\ \A m \in Run \ {n} : job'[m] = job[m]
  BY <1>4 DEF Starts, TypeOK, JobState
<1>6. /\ worker' \in [Process -> Run \cup {NoRun}] /\ worker'[p] = n
      /\ \A q \in Process \ {p} : worker'[q] = worker[q]
  BY <1>1 DEF Starts, TypeOK
<1>7. row' \in Row
  BY <1>1, RowTypes DEF Starts, ReqState
<1>8. locked[p] = r /\ worker[p] = NoRun
  BY DEF Starts, LockOwned, MarkFree, Past
<1>9. TypeOK'
  BY <1>2, <1>3, <1>5, <1>6, <1>7 DEF Starts, host, TypeOK, ReqState, JobState
<1>10. LockOwned' /\ MarkFree'
  \* No other request of the process is under its lock.
  <2>1. ASSUME NEW s \in Request, s # r, req[s].pc \in Past PROVE ProcessOf[s] # p
    BY <1>8, <2>1 DEF LockOwned
  <2> QED BY <1>1, <1>2, <1>3, <1>6, <2>1 DEF LockOwned, MarkFree, Past
<1>11. WorkerKnown'
  <2> SUFFICES ASSUME NEW m \in Run, job'[m].pc \in WorkPc \cup {"wait", "last"}
               PROVE  worker'[job'[m].proc] = m
    BY DEF WorkerKnown
  <2>1. CASE m = n
    BY <1>5, <1>6, <2>1
  <2>2. CASE m # n
    <3>1. job'[m] = job[m] /\ worker[job[m].proc] = m /\ job[m].proc \in Process
      BY <1>5, <2>2 DEF WorkerKnown, TypeOK
    <3>2. m # NoRun
      BY UpdateAssumption DEF Run, NoRun
    <3> QED BY <1>6, <1>8, <3>1, <3>2
  <2> QED BY <2>1, <2>2
<1>12. BoxNamed'
  BY <1>5 DEF BoxNamed
<1> QED BY <1>9, <1>10, <1>11, <1>12

LEMMA RequestKnown ==
    ASSUME Known, NEW r \in Request, RequestMoves(r)
    PROVE  Known'
<1> DEFINE p == ProcessOf[r]
<1> USE DEF Known
<1>1. /\ p \in Process /\ r # NoOne
      /\ \A s \in Request : ProcessOf[s] \in Process /\ s # NoOne
  BY UpdateAssumption
<1>2. locked' \in [Process -> Request \cup {NoOne}]
  BY <1>1, UnlockTypes DEF RequestMoves, LockMoves, TypeOK
<1>3. TypeOK'
  BY <1>2 DEF RequestMoves, host, TypeOK, ReqState
<1>4. LockOwned'
  <2> SUFFICES ASSUME NEW s \in Request, req'[s].pc \in Past PROVE locked'[ProcessOf[s]] = s
    BY DEF LockOwned
  <2>1. CASE UNCHANGED locked /\ (req'[r].pc \in Past => req[r].pc \in Past)
    BY <2>1 DEF RequestMoves, LockOwned
  <2>2. CASE locked[p] = NoOne /\ locked' = [locked EXCEPT ![p] = r]
    <3>1. s # r => ProcessOf[s] # p
      BY <1>1, <2>2 DEF RequestMoves, LockOwned
    <3> QED BY <1>1, <2>2, <3>1 DEF RequestMoves, LockOwned, TypeOK
  <2>3. CASE req[r].pc \in Past /\ Unlock(r) /\ req'[r].pc \notin Past
    <3>1. s # r /\ locked[ProcessOf[s]] = s /\ locked[p] = r
      BY <2>3 DEF RequestMoves, LockOwned
    <3> QED BY <1>1, <2>3, <3>1, UnlockTypes
  <2> QED BY <2>1, <2>2, <2>3 DEF RequestMoves, LockMoves
<1>5. MarkFree' /\ WorkerKnown' /\ BoxNamed'
  BY DEF RequestMoves, MarkFree, WorkerKnown, BoxNamed
<1> QED BY <1>3, <1>4, <1>5

------------------------------------------------------------------------------
(* What an update thread does *)

BoxStates == {"missing", "created", "live", "ok", "failed"}

\* It works on, waits for its container, saves its outcome, or ends.
ThreadMoves(n) ==
    \/ /\ UNCHANGED worker
       /\ \/ job[n].pc \in WorkPc /\ job'[n].pc \in WorkPc /\ job'[n].box = job[n].box
          \/ job[n].pc \in WorkPc /\ job'[n].pc = "wait"
          \/ job[n].pc \in WorkPc \cup {"wait"} /\ job'[n].pc = "last"
    \/ /\ job[n].pc = "last" /\ job'[n].pc = "done" /\ locked[job[n].proc] = NoOne
       /\ worker' = [worker EXCEPT ![job[n].proc] = NoRun]

JobMoves(n) ==
    /\ UNCHANGED <<req, locked, build, crashes>>
    /\ row' \in Row /\ box' \in [Box -> BoxStates] /\ code' \in Build
    /\ job' \in [Run -> JobState] /\ job'[n].proc = job[n].proc
    /\ \A m \in Run \ {n} : job'[m] = job[m]
    /\ ThreadMoves(n)

LEMMA StepTypes ==
    ASSUME TypeOK, NEW n \in Run, Step(n, "last") \/ Step(n, "wait") \/ Step(n, "done")
                                  \/ \E w \in WorkPc : Step(n, w)
    PROVE  /\ job' \in [Run -> JobState] /\ job'[n].proc = job[n].proc
           /\ job'[n].box = job[n].box /\ job'[n].try = job[n].try
           /\ \A m \in Run \ {n} : job'[m] = job[m]
           /\ \A pc : Step(n, pc) => job'[n].pc = pc
<1>1. PICK pc \in {"last", "wait", "done"} \cup WorkPc : job' = [job EXCEPT ![n].pc = pc]
  BY DEF Step
<1>2. job \in [Run -> JobState]
  BY DEF TypeOK, JobState
<1>3. [job[n] EXCEPT !.pc = pc] \in JobState /\ [job[n] EXCEPT !.pc = pc].pc = pc
  BY <1>1, <1>2 DEF JobState
<1>4. \A q : Step(n, q) => job'[n].pc = q
  BY <1>2 DEF Step, JobState
<1> QED BY <1>1, <1>2, <1>3, <1>4 DEF JobState

LEMMA SaveTypes ==
    ASSUME TypeOK
    PROVE  /\ \A s \in {"idle", "running", "success", "error"} : Save(s) => row' \in Row
           /\ \A c \in Build : \A b \in Box :
                 /\ [row EXCEPT !.state = "running", !.sha = c] \in Row
                 /\ [row EXCEPT !.state = "success", !.sha = c] \in Row
                 /\ [row EXCEPT !.sha = c] \in Row
                 /\ [row EXCEPT !.state = "running", !.sha = c, !.helper = b] \in Row
           /\ Marked(row) \in Row
<1>1. row \in Row
  BY DEF TypeOK
<1>2. ASSUME NEW s \in {"idle", "running", "success", "error"}, Save(s) PROVE row' \in Row
  BY <1>1, <1>2, RowTypes DEF Save
<1> QED BY <1>1, <1>2, RowTypes

LEMMA JobNextMoves ==
    ASSUME Known, NEW n \in Run, JobNext(n)
    PROVE  JobMoves(n)
<1> USE DEF Known
<1>0. /\ TypeOK /\ code \in Build /\ build \in Build /\ {"helper", "recovery"} \subseteq Box
      /\ job \in [Run -> JobState] /\ box \in [Box -> BoxStates] /\ "new" \in Build
      /\ row \in Row
  BY DEF TypeOK, JobState, BoxStates, Box, Build
<1>1. CASE Begin(n) \/ Prepare(n) \/ Reset(n) \/ HandOff(n) \/ Detach(n)
  BY <1>0, <1>1, StepTypes, SaveTypes
  DEF Begin, Prepare, Reset, HandOff, Detach, Fails, At, host, JobMoves, ThreadMoves, WorkPc
<1>2. CASE Remove(n) \/ RunHelper(n)
  <2>1. box' \in [Box -> BoxStates]
    BY <1>0, <1>2 DEF Remove, RunHelper, BoxStates
  <2> QED BY <1>0, <1>2, <2>1, StepTypes
          DEF Remove, RunHelper, At, JobMoves, ThreadMoves, WorkPc
<1>3. CASE RunFails(n)
  <2>1. box' \in [Box -> BoxStates]
    BY <1>0, <1>3 DEF RunFails, BoxStates
  <2>2. PICK pc \in {"detach", "recover"} :
           job' = [job EXCEPT ![n] = [job[n] EXCEPT !.pc = pc, !.try = 2]]
    BY <1>3 DEF RunFails
  <2>3. job[n] \in JobState /\ pc \in WorkPc /\ 2 \in 1..2
    BY <1>0 DEF WorkPc
  <2>4. /\ [job[n] EXCEPT !.pc = pc, !.try = 2] \in JobState
        /\ [job[n] EXCEPT !.pc = pc, !.try = 2].pc = pc
        /\ [job[n] EXCEPT !.pc = pc, !.try = 2].proc = job[n].proc
        /\ [job[n] EXCEPT !.pc = pc, !.try = 2].box = job[n].box
    BY <2>3 DEF JobState
  <2>5. /\ job' \in [Run -> JobState] /\ job'[n] = [job[n] EXCEPT !.pc = pc, !.try = 2]
        /\ \A m \in Run \ {n} : job'[m] = job[m]
    BY <1>0, <2>2, <2>4
  <2>6. job[n].pc = "run" /\ "run" \in WorkPc
    BY <1>3 DEF RunFails, At, WorkPc
  <2>7. UNCHANGED <<row, req, worker, locked, code, build, crashes>>
    BY <1>3 DEF RunFails
  <2> QED BY <1>0, <2>1, <2>3, <2>4, <2>5, <2>6, <2>7 DEF JobMoves, ThreadMoves
<1>4. CASE Name(n)
  BY <1>0, <1>4, StepTypes, SaveTypes
  DEF Name, Fails, At, host, JobMoves, ThreadMoves, WorkPc
<1>5. CASE Recover(n)
  <2>1. box' \in [Box -> BoxStates]
    BY <1>0, <1>5 DEF Recover, BoxStates
  <2> QED BY <1>0, <1>5, <2>1, StepTypes, SaveTypes
          DEF Recover, Fails, At, host, JobMoves, ThreadMoves, WorkPc
<1>6. CASE Recovered(n)
  <2>1. box' \in [Box -> BoxStates]
    BY <1>0, <1>6 DEF Recovered, host, BoxStates
  <2> QED BY <1>0, <1>6, <2>1, StepTypes, SaveTypes
          DEF Recovered, Fails, At, host, JobMoves, ThreadMoves, WorkPc
<1>7. CASE RecoveryTimesOut(n)
  <2>1. CASE job' = [job EXCEPT ![n] = [job[n] EXCEPT !.pc = "wait", !.box = "recovery"]]
    <3>1. [job[n] EXCEPT !.pc = "wait", !.box = "recovery"] \in JobState
      BY <1>0 DEF JobState
    <3>2. row' \in Row
      <4>1. CASE Save("error")
        BY <1>0, <4>1, SaveTypes
      <4>2. CASE row' = [row EXCEPT !.state = "running", !.sha = code, !.helper = "recovery"]
        BY <1>0, <4>2, SaveTypes
      <4> QED BY <1>7, <4>1, <4>2 DEF RecoveryTimesOut, Fails
    <3> QED BY <1>0, <1>7, <2>1, <3>1, <3>2
            DEF RecoveryTimesOut, At, host, JobMoves, ThreadMoves, WorkPc, JobState
  <2>2. CASE Fails(n)
    BY <1>0, <1>7, <2>2, StepTypes, SaveTypes
    DEF RecoveryTimesOut, Fails, At, host, JobMoves, ThreadMoves, WorkPc
  <2> QED BY <1>7, <2>1, <2>2 DEF RecoveryTimesOut
<1>8. CASE Waited(n)
  <2>1. row' \in Row
    <3>1. [row EXCEPT !.sha = code] \in Row
      BY <1>0, RowTypes
    <3> QED BY <1>8, <3>1, RowTypes DEF Waited
  <2> QED BY <1>0, <1>8, <2>1, StepTypes DEF Waited, At, host, JobMoves, ThreadMoves
<1>9. CASE WaitTimesOut(n)
  BY <1>0, <1>9, StepTypes, SaveTypes
  DEF WaitTimesOut, Fails, At, host, JobMoves, ThreadMoves
<1>10. CASE Last(n)
  BY <1>0, <1>10, StepTypes DEF Last, At, host, JobMoves, ThreadMoves
<1> QED BY <1>1, <1>2, <1>3, <1>4, <1>5, <1>6, <1>7, <1>8, <1>9, <1>10 DEF JobNext

LEMMA JobKnown ==
    ASSUME Known, NEW n \in Run, JobMoves(n)
    PROVE  Known'
<1> USE DEF Known
<1>1. n # NoRun /\ job[n].proc \in Process
  BY UpdateAssumption DEF Run, NoRun, TypeOK
<1>2. worker' \in [Process -> Run \cup {NoRun}]
  BY <1>1 DEF JobMoves, ThreadMoves, TypeOK
<1>3. TypeOK'
  BY <1>2 DEF JobMoves, TypeOK, JobState, BoxStates
<1>4. LockOwned'
  BY DEF JobMoves, LockOwned
<1>5. MarkFree'
  <2> SUFFICES ASSUME NEW r \in Request, req'[r].pc \in {"mark", "insert"}
               PROVE  worker'[ProcessOf[r]] = NoRun
    BY DEF MarkFree
  <2>1. worker[ProcessOf[r]] = NoRun /\ ProcessOf[r] \in Process
    BY UpdateAssumption DEF JobMoves, MarkFree
  <2> QED BY <1>1, <2>1 DEF JobMoves, ThreadMoves, TypeOK
<1>7. BoxNamed'
  <2> SUFFICES ASSUME NEW m \in Run, job'[m].pc \in WorkPc PROVE job'[m].box = "helper"
    BY DEF BoxNamed
  <2>1. CASE m = n
    BY <2>1 DEF JobMoves, ThreadMoves, BoxNamed, WorkPc
  <2>2. CASE m # n
    BY <2>2 DEF JobMoves, BoxNamed
  <2> QED BY <2>1, <2>2
<1>6. WorkerKnown'
  <2> SUFFICES ASSUME NEW m \in Run, job'[m].pc \in WorkPc \cup {"wait", "last"}
               PROVE  worker'[job'[m].proc] = m
    BY DEF WorkerKnown
  <2>1. CASE m = n
    BY <2>1 DEF JobMoves, ThreadMoves, WorkerKnown, WorkPc
  <2>2. CASE m # n
    <3>1. job'[m] = job[m] /\ worker[job[m].proc] = m /\ job[m].proc \in Process
      BY <2>2 DEF JobMoves, WorkerKnown, TypeOK
    <3>2. job[n].pc = "last" => job[m].proc # job[n].proc
      BY <2>2, <3>1 DEF WorkerKnown
    <3> QED BY <1>1, <3>1, <3>2 DEF JobMoves, ThreadMoves, TypeOK
  <2> QED BY <2>1, <2>2
<1> QED BY <1>3, <1>4, <1>5, <1>6, <1>7

------------------------------------------------------------------------------
(* Processes die, containers end, time passes *)

\* Those of dead processes are as at the start, or gone; the others stay as they are.
Dead(dead) ==
    /\ \A r \in Request : IF ProcessOf[r] \in dead THEN req'[r].pc = "idle" ELSE req'[r] = req[r]
    /\ \A n \in Run : IF job[n].proc \in dead THEN job'[n].pc \in {"none", "done", "gone"}
                                               ELSE job'[n] = job[n]

LEMMA DieKnown ==
    ASSUME Known, NEW dead \in SUBSET Process, Die(dead), row' \in Row,
           UNCHANGED <<box, code>>, build' \in Build, crashes' \in 0..MaxCrashes
    PROVE  Known' /\ Dead(dead)
<1> USE DEF Known
<1>1. /\ EmptyRow \in Row /\ \A r \in Request : ProcessOf[r] \in Process
      /\ \A n \in Run : n # NoRun
  BY UpdateAssumption DEF EmptyRow, Row, Run, NoRun
<1>2. req' \in [Request -> ReqState]
  <2>1. [pc |-> "idle", st |-> EmptyRow] \in ReqState /\ \A r \in Request : req[r] \in ReqState
    BY <1>1 DEF ReqState, TypeOK
  <2> QED BY <2>1 DEF Die
<1>3. job' \in [Run -> JobState] /\ \A n \in Run : job'[n].proc = job[n].proc /\ job'[n].box = job[n].box
  <2>1. ASSUME NEW n \in Run
        PROVE  /\ job[n] \in JobState /\ [job[n] EXCEPT !.pc = "gone"] \in JobState
               /\ [job[n] EXCEPT !.pc = "gone"].proc = job[n].proc
               /\ [job[n] EXCEPT !.pc = "gone"].box = job[n].box
    BY DEF JobState, TypeOK
  <2> QED BY <2>1 DEF Die
<1>4. Dead(dead)
  <2>1. ASSUME NEW n \in Run, job[n].proc \in dead PROVE job'[n].pc \in {"none", "done", "gone"}
    BY <2>1 DEF Die, TypeOK
  <2> QED BY <2>1 DEF Die, Dead
<1>5. /\ worker' \in [Process -> Run \cup {NoRun}]
      /\ locked' \in [Process -> Request \cup {NoOne}]
      /\ \A p \in Process : /\ worker'[p] = IF p \in dead THEN NoRun ELSE worker[p]
                            /\ locked'[p] = IF p \in dead THEN NoOne ELSE locked[p]
  BY DEF Die, TypeOK
<1>6. TypeOK'
  BY <1>2, <1>3, <1>5 DEF TypeOK, ReqState, JobState
<1>7. LockOwned' /\ MarkFree'
  BY <1>1, <1>4, <1>5 DEF Dead, LockOwned, MarkFree, Past
<1>8. WorkerKnown' /\ BoxNamed'
  <2>1. \A n \in Run : job[n].proc \in Process
    BY DEF TypeOK
  <2> QED BY <1>3, <1>4, <1>5, <2>1 DEF Dead, WorkerKnown, BoxNamed, WorkPc
<1> QED BY <1>4, <1>6, <1>7, <1>8

\* Docker and the clock change neither threads nor locks.
OutsideMoves ==
    /\ UNCHANGED <<req, job, worker, locked, code, build, crashes>>
    /\ row' \in Row /\ box' \in [Box -> BoxStates]
    /\ \A b \in Box : box'[b] = "live" => box[b] = "live"

LEMMA OutsideActs ==
    ASSUME Known, HelperExits \/ RecoveryExits \/ Prune \/ Age
    PROVE  OutsideMoves
<1>1. row \in Row /\ box \in [Box -> BoxStates]
  BY DEF Known, TypeOK, BoxStates
<1>2. row' \in Row
  BY <1>1, RowTypes DEF HelperExits, RecoveryExits, Prune, Age
<1>3. box' \in [Box -> BoxStates] /\ \A b \in Box : box'[b] = "live" => box[b] = "live"
  BY <1>1 DEF HelperExits, RecoveryExits, Prune, Age, host, BoxStates
<1> QED BY <1>2, <1>3 DEF OutsideMoves, HelperExits, RecoveryExits, Prune, Age, host

\* Every step is one of these moves.
LEMMA Moves ==
    ASSUME Known, [Next]_vars
    PROVE  \/ \E r \in Request : RequestMoves(r) \/ \E n \in Run : Starts(r, n)
           \/ \E n \in Run : JobNext(n) /\ JobMoves(n)
           \/ Recreate
           \/ \E p \in Process : Crash(p)
           \/ OutsideMoves
           \/ UNCHANGED vars
<1>1. ASSUME NEW r \in Request, AskApply(r) \/ AskStatus(r) \/ AskCheck(r)
      PROVE  RequestMoves(r)
  BY <1>1, AsksMoves
<1>2. ASSUME NEW r \in Request, ApplyNext(r) PROVE RequestMoves(r) \/ \E n \in Run : Starts(r, n)
  BY <1>2, ApplyMoves, StartStarts
<1>3. ASSUME NEW r \in Request, StatusNext(r) PROVE RequestMoves(r)
  BY <1>3, StatusMoves
<1> QED BY <1>1, <1>2, <1>3, JobNextMoves, OutsideActs DEF Next

LEMMA NextKnown == ASSUME Known, [Next]_vars PROVE Known'
<1>1. ASSUME Recreate PROVE Known'
  <2>1. build' \in Build /\ row' \in Row /\ crashes' \in 0..MaxCrashes /\ Die(Process)
    BY <1>1 DEF Recreate, Known, TypeOK
  <2> QED BY <1>1, <2>1, DieKnown DEF Recreate
<1>2. ASSUME NEW p \in Process, Crash(p) PROVE Known'
  <2>1. crashes' \in 0..MaxCrashes
    BY <1>2, UpdateAssumption DEF Crash, Known, TypeOK
  <2> QED BY <1>2, <2>1, DieKnown DEF Crash, Known, TypeOK
<1>3. ASSUME OutsideMoves PROVE Known'
  BY <1>3 DEF OutsideMoves, Known, TypeOK, LockOwned, MarkFree, WorkerKnown, BoxNamed, BoxStates
<1>4. ASSUME UNCHANGED vars PROVE Known'
  BY <1>4 DEF vars, host, Known, TypeOK, LockOwned, MarkFree, WorkerKnown, BoxNamed
<1> QED BY <1>1, <1>2, <1>3, <1>4, Moves, RequestKnown, StartKnown, JobKnown

LEMMA AlwaysKnown == Spec => []Known
BY InitKnown, NextKnown, PTL DEF Spec

\* Every state of the update is well typed.
THEOREM UpdateTypes == Spec => []TypeOK
<1>1. Known => TypeOK
  BY DEF Known
<1> QED BY <1>1, AlwaysKnown, PTL

\* The thread of an update is known to its process until its outcome is saved, for any
\* processes and administrators: clearing _worker never forgets a thread that works.
THEOREM WorkersKnown == Spec => []WorkerKnown
<1>1. Known => WorkerKnown
  BY DEF Known
<1> QED BY <1>1, AlwaysKnown, PTL

------------------------------------------------------------------------------
(* One update at a time *)

Working == {n \in Run : job[n].pc \in WorkPc}

\* In one process at most one thread is at work or waits, and none while a request is about
\* to start the next.
LEMMA OnlyOne ==
    ASSUME OneProcess, Known
    PROVE  /\ \A m, n \in Run : /\ job[m].pc \in WorkPc \cup {"wait", "last"}
                                /\ job[n].pc \in WorkPc \cup {"wait", "last"}
                                => m = n
           /\ \A r \in Request, n \in Run :
                 req[r].pc \in {"mark", "insert"} => job[n].pc \notin WorkPc \cup {"wait", "last"}
<1>1. \A n \in Run : job[n].proc \in Process /\ n # NoRun
  BY UpdateAssumption DEF Known, TypeOK, Run, NoRun
<1>2. \A r \in Request : ProcessOf[r] \in Process
  BY UpdateAssumption
<1> QED BY <1>1, <1>2 DEF OneProcess, Known, WorkerKnown, MarkFree

LEMMA Leaves ==
    ASSUME Working' \subseteq Working
    PROVE  Mutex!Next
<1> DEFINE gone == Working \ Working'
<1>1. Updating = [k \in {"stack"} |-> Working] /\ Updating' = [k \in {"stack"} |-> Working']
  BY DEF Updating, Working
<1>2. gone \in SUBSET Run /\ Working' = Working \ gone
  BY DEF Working
<1>3. Mutex!Leave(gone)
  BY <1>1, <1>2 DEF Mutex!Leave
<1> QED BY <1>2, <1>3 DEF Mutex!Next

LEMMA NextUpdating ==
    ASSUME OneProcess, Known, [Next]_vars
    PROVE  [Mutex!Next]_Updating
<1>1. ASSUME NEW r \in Request, NEW n \in Run, Starts(r, n) PROVE Mutex!Next
  <2>1. Working = {}
    BY <1>1, OnlyOne DEF Starts, Working
  <2>2. Working' = {n}
    <3>1. job'[n].pc = "begin" /\ \A m \in Run \ {n} : job'[m] = job[m]
      BY <1>1 DEF Starts, Known, TypeOK
    <3> QED BY <2>1, <3>1 DEF Working, WorkPc
  <2>3. Updating = [k \in {"stack"} |-> Working] /\ Updating' = [k \in {"stack"} |-> Working']
    BY DEF Updating, Working
  <2>4. Mutex!Enter(n, "stack")
    BY <2>1, <2>2, <2>3 DEF Mutex!Enter
  <2> QED BY <2>4 DEF Mutex!Next
<1>2. ASSUME NEW dead \in SUBSET Process, Die(dead), row' \in Row, UNCHANGED <<box, code>>,
             build' \in Build, crashes' \in 0..MaxCrashes
      PROVE  Mutex!Next
  <2>1. Dead(dead)
    BY <1>2, DieKnown
  <2> QED BY <2>1, Leaves DEF Dead, Working, WorkPc
<1>3. ASSUME Recreate PROVE Mutex!Next
  <2>1. build' \in Build /\ row' \in Row /\ crashes' \in 0..MaxCrashes /\ Die(Process)
    BY <1>3 DEF Recreate, Known, TypeOK
  <2> QED BY <1>2, <1>3, <2>1 DEF Recreate
<1>4. ASSUME NEW p \in Process, Crash(p) PROVE Mutex!Next
  <2>1. crashes' \in 0..MaxCrashes
    BY <1>4, UpdateAssumption DEF Crash, Known, TypeOK
  <2> QED BY <1>2, <1>4, <2>1 DEF Crash, Known, TypeOK
<1>5. ASSUME NEW n \in Run, JobMoves(n) PROVE Mutex!Next
  BY <1>5, Leaves DEF JobMoves, ThreadMoves, Working, WorkPc
<1>6. ASSUME UNCHANGED job PROVE UNCHANGED Updating
  BY <1>6 DEF Updating
<1> QED BY <1>1, <1>3, <1>4, <1>5, <1>6, Moves DEF RequestMoves, OutsideMoves, vars

\* With one API process at most one update at a time is between its start and the detached
\* container, whatever fails, however many administrators ask and whatever crashes.
THEOREM UpdatesApart == OneProcess => (Spec => Mutex!Spec)
<1>1. ASSUME OneProcess PROVE Spec => Mutex!Spec
  <2>1. Init => Mutex!Init
    BY DEF Init, Mutex!Init, Updating, WorkPc
  <2>2. Known /\ [Next]_vars => [Mutex!Next]_Updating
    BY <1>1, NextUpdating
  <2> QED BY <2>1, <2>2, AlwaysKnown, PTL DEF Spec, Mutex!Spec
<1> QED BY <1>1

------------------------------------------------------------------------------
(* A helper at work is left alone *)

\* docker is there to say what runs, and a container is named when the CLI returns.
DockerAnswers == Faults \cap {"unknown", "late"} = {}

\* The thread that started a container waits for it, ...
Attended(b) ==
    \E n \in Run : \/ job[n].pc = "named" /\ b = "helper"
                   \/ job[n].pc = "recovering" /\ b = "recovery"
                   \/ job[n].pc = "wait" /\ job[n].box = b

\* ... or nobody has got past the door of start_update.
Unattended ==
    /\ \A r \in Request : req[r].pc \notin {"lock"} \cup Past
    /\ \A n \in Run : job[n].pc \notin WorkPc \cup {"wait"}

Watched == \A b \in Box : box[b] = "live" => Attended(b) \/ Unattended

LEMMA InitWatched == Init => Watched
BY DEF Init, Watched, Unattended, Past, WorkPc

\* Where a container is live, no thread is at a step before it.
LEMMA NothingLive ==
    ASSUME OneProcess, Known, Watched, NEW n \in Run,
           job[n].pc \in WorkPc \ {"named", "recovering"}, NEW b \in Box
    PROVE  box[b] # "live"
BY OnlyOne DEF Watched, Attended, Unattended, WorkPc

\* Without the "unknown" answer docker says what is there.
LEMMA SaysSo ==
    ASSUME DockerAnswers, FindsNone, NEW b \in Box
    PROVE  box[b] # "live"
BY DEF DockerAnswers, FindsNone, Looks, LiveContainerStates

\* After the death of the one process nobody is left.
LEMMA DieUnattended ==
    ASSUME OneProcess, Known, NEW dead \in SUBSET Process, dead # {}, Dead(dead)
    PROVE  Unattended'
<1>1. /\ \A r \in Request : ProcessOf[r] \in dead
      /\ \A n \in Run : job[n].proc \in dead
  BY UpdateAssumption DEF OneProcess, Known, TypeOK
<1> QED BY <1>1 DEF Dead, Unattended, Past, WorkPc

\* The steps of a thread: it works on before its container, hands it over, waits, or stops
\* waiting for one that has ended, or that nobody asks for any more.
LEMMA JobWatched ==
    ASSUME OneProcess, DockerAnswers, Known, Watched, NEW n \in Run, JobNext(n), JobMoves(n)
    PROVE  Watched'
<1> DEFINE early == WorkPc \ {"named", "recovering"}
<1>0. /\ box \in [Box -> BoxStates] /\ \A m \in Run \ {n} : job'[m] = job[m]
      /\ job \in [Run -> JobState] /\ Box = {"helper", "recovery"}
  BY DEF Known, TypeOK, JobMoves, JobState, BoxStates, Box
<1>1. ASSUME \A b \in Box : box'[b] # "live" PROVE Watched'
  BY <1>1 DEF Watched
<1>2. CASE job[n].pc \in early /\ ~RunHelper(n) /\ ~Recover(n)
  <2>1. \A b \in Box : box[b] # "live"
    BY <1>2, NothingLive
  <2>2. \A b \in Box : box'[b] # "live"
    BY <1>0, <1>2, <2>1
    DEF JobNext, Begin, Prepare, Reset, HandOff, Detach, Remove, RunFails, Name, Recovered,
        RecoveryTimesOut, Waited, WaitTimesOut, Last, host, DockerAnswers, At
  <2> QED BY <1>1, <2>2
<1>3. CASE RunHelper(n)
  <2>1. job[n].pc \in early
    BY <1>3 DEF RunHelper, At, WorkPc
  <2>2. box'["recovery"] # "live"
    BY <1>0, <1>3, <2>1, NothingLive DEF RunHelper
  <2>3. job'[n].pc = "named"
    BY <1>0, <1>3, StepTypes DEF RunHelper, WorkPc, Known
  <2> QED BY <1>0, <2>2, <2>3 DEF Watched, Attended
<1>4. CASE Recover(n)
  <2>1. job[n].pc \in early
    BY <1>4 DEF Recover, At, WorkPc
  <2>2. box'["helper"] # "live"
    BY <1>0, <1>4, <2>1, NothingLive DEF Recover
  <2>3. box'["recovery"] = "live" => job'[n].pc = "recovering"
    BY <1>0, <1>4, <2>1, StepTypes, NothingLive DEF Recover, WorkPc, Known
  <2> QED BY <1>0, <2>2, <2>3 DEF Watched, Attended
<1>5. CASE Name(n) \/ RecoveryTimesOut(n)
  <2>1. UNCHANGED box /\ job[n].pc \in {"named", "recovering"}
    BY <1>5 DEF Name, RecoveryTimesOut, host, At
  <2>2. ASSUME NEW b \in Box, box[b] = "live" PROVE Attended(b)'
    <3>1. Attended(b) /\ (b = "helper" <=> job[n].pc = "named")
      BY <1>0, <2>1, <2>2, OnlyOne DEF Watched, Unattended, Attended, WorkPc
    <3>2. job'[n].pc = "wait" /\ job'[n].box = b
      <4>1. CASE Name(n)
        <5>1. b = "helper" /\ job[n].box = "helper"
          BY <1>0, <3>1, <4>1 DEF Name, At, Known, BoxNamed, WorkPc
        <5> QED BY <4>1, <5>1, StepTypes DEF Name, Known
      <4>2. CASE RecoveryTimesOut(n)
        <5>1. b = "recovery"
          BY <1>0, <3>1, <4>2 DEF RecoveryTimesOut, At
        <5>2. job' = [job EXCEPT ![n] = [job[n] EXCEPT !.pc = "wait", !.box = "recovery"]]
          BY <2>2, <4>2, <5>1 DEF RecoveryTimesOut, Looks, DockerAnswers
        <5>3. /\ job[n] \in JobState
              /\ [job[n] EXCEPT !.pc = "wait", !.box = "recovery"].pc = "wait"
              /\ [job[n] EXCEPT !.pc = "wait", !.box = "recovery"].box = "recovery"
          BY <1>0 DEF JobState
        <5> QED BY <1>0, <5>1, <5>2, <5>3
      <4> QED BY <1>5, <4>1, <4>2
    <3> QED BY <3>2 DEF Attended
  <2> QED BY <2>1, <2>2 DEF Watched
<1>6. CASE Recovered(n)
  <2>1. \A b \in Box : box[b] # "live"
    BY <1>0, <1>6, OnlyOne
    DEF Recovered, At, Watched, Unattended, Attended, WorkPc
  <2> QED BY <1>1, <1>6, <2>1 DEF Recovered, host
<1>7. CASE Waited(n)
  <2>1. \A b \in Box : box[b] # "live"
    <3>1. box[job[n].box] # "live"
      BY <1>7 DEF Waited, Looks, Settles, LiveContainerStates, DockerAnswers
    <3> QED BY <1>7, <3>1, OnlyOne
            DEF Waited, At, Watched, Unattended, Attended, WorkPc
  <2> QED BY <1>1, <1>7, <2>1 DEF Waited, host
<1>8. CASE WaitTimesOut(n)
  <2>1. Unattended'
    <3>1. job'[n].pc = "last"
      BY <1>8, StepTypes DEF WaitTimesOut, Fails, Known
    <3>2. \A m \in Run \ {n} : job[m].pc \notin WorkPc \cup {"wait"}
      BY <1>8, OnlyOne DEF WaitTimesOut, At
    <3> QED BY <1>0, <1>8, <3>1, <3>2 DEF WaitTimesOut, Quiet, Unattended, Past, WorkPc
  <2> QED BY <2>1 DEF Watched
<1>9. CASE Last(n)
  <2>1. ASSUME NEW b \in Box, box[b] = "live" PROVE Attended(b)' \/ Unattended'
    BY <1>0, <1>9, <2>1, StepTypes
    DEF Last, At, Known, Watched, Unattended, Attended, WorkPc
  <2> QED BY <1>9, <2>1 DEF Last, host, Watched
<1> QED BY <1>2, <1>3, <1>4, <1>5, <1>6, <1>7, <1>8, <1>9
        DEF JobNext, Begin, Prepare, Reset, HandOff, Detach, Remove, RunFails, At, WorkPc

LEMMA NextWatched ==
    ASSUME OneProcess, DockerAnswers, Known, Watched, [Next]_vars
    PROVE  Watched'
<1>1. ASSUME NEW r \in Request, RequestMoves(r) PROVE Watched'
  <2>1. ASSUME NEW b \in Box, box[b] = "live" PROVE Attended(b)' \/ Unattended'
    <3>1. Attended(b) => Attended(b)'
      BY <1>1 DEF RequestMoves, Attended
    <3>2. Unattended => Unattended'
      BY <1>1, <2>1, SaysSo DEF RequestMoves, Unattended
    <3> QED BY <2>1, <3>1, <3>2 DEF Watched
  <2> QED BY <1>1, <2>1 DEF RequestMoves, host, Watched
<1>2. ASSUME NEW r \in Request, NEW n \in Run, Starts(r, n) PROVE Watched'
  <2>1. \A b \in Box : box[b] # "live"
    BY <1>2, OnlyOne DEF Starts, Watched, Attended, Unattended, Past, WorkPc
  <2> QED BY <1>2, <2>1 DEF Starts, host, Watched
<1>3. ASSUME Recreate PROVE Watched'
  <2>1. build' \in Build /\ row' \in Row /\ crashes' \in 0..MaxCrashes /\ Die(Process)
    BY <1>3 DEF Recreate, Known, TypeOK
  <2>2. Dead(Process)
    BY <1>3, <2>1, DieKnown DEF Recreate
  <2>3. CASE Process # {}
    BY <1>3, <2>2, <2>3, DieUnattended DEF Watched
  <2>4. CASE Process = {}
    <3>1. Request = {} /\ Run = {}
      BY <2>4, UpdateAssumption DEF Known, TypeOK
    <3> QED BY <3>1 DEF Watched, Unattended
  <2> QED BY <2>3, <2>4
<1>4. ASSUME NEW p \in Process, Crash(p) PROVE Watched'
  <2>1. crashes' \in 0..MaxCrashes
    BY <1>4, UpdateAssumption DEF Crash, Known, TypeOK
  <2>2. Dead({p})
    BY <1>4, <2>1, DieKnown DEF Crash, Known, TypeOK
  <2> QED BY <2>2, DieUnattended DEF Watched
<1>5. ASSUME OutsideMoves PROVE Watched'
  BY <1>5 DEF OutsideMoves, Watched, Attended, Unattended
<1>6. ASSUME UNCHANGED vars PROVE Watched'
  BY <1>6 DEF vars, host, Watched, Attended, Unattended
<1> QED BY <1>1, <1>2, <1>3, <1>4, <1>5, <1>6, JobWatched, Moves

LEMMA NextUndisturbed ==
    ASSUME OneProcess, Known, Watched, [Next]_vars
    PROVE  HelperUndisturbed
BY NothingLive DEF HelperUndisturbed, WorkPc

\* With one API process, and a docker that answers, no update resets the checkout or
\* removes the helper's container while a helper is at work.
THEOREM HelperLeftAlone ==
    OneProcess /\ DockerAnswers => (Spec => [][HelperUndisturbed]_vars)
<1>1. ASSUME OneProcess, DockerAnswers PROVE Spec => [][HelperUndisturbed]_vars
  <2>1. Known /\ Watched /\ [Next]_vars => Watched'
    BY <1>1, NextWatched
  <2>2. Known /\ Watched /\ [Next]_vars => HelperUndisturbed
    BY <1>1, NextUndisturbed
  <2> QED BY <2>1, <2>2, InitWatched, AlwaysKnown, PTL DEF Spec
<1> QED BY <1>1

\* The same of the run Update, for any constants of its first part.
THEOREM OneUpdateAtATime == OneProcess /\ DockerAnswers => (PartSpec => OneUpdate)
<1> DEFINE InPart == part = "together" => Known /\ Watched
           Steps == part = "together" =>
                       (Mutex!Next \/ UNCHANGED Updating) /\ HelperUndisturbed
<1>1. ASSUME OneProcess, DockerAnswers PROVE PartSpec => OneUpdate
  <2>1. PartInit => InPart /\ (part = "together" => Mutex!Init)
    <3>1. Init => Mutex!Init
      BY DEF Init, Mutex!Init, Updating, WorkPc
    <3>2. PartInit => (part = "together" => Init)
      BY DEF PartInit
    <3> QED BY <3>1, <3>2, InitKnown, InitWatched
  <2>2. ASSUME InPart, [PartNext]_all PROVE InPart' /\ Steps
    <3>1. UNCHANGED part
      BY <2>2 DEF PartNext, all
    <3>2. CASE part = "together"
      <4>1. [Next]_vars
        BY <2>2, <3>2 DEF PartNext, all, update, vars
      <4>2. Known' /\ Watched'
        BY <1>1, <2>2, <3>2, <4>1, NextKnown, NextWatched
      <4>3. (Mutex!Next \/ UNCHANGED Updating) /\ HelperUndisturbed
        BY <1>1, <2>2, <3>2, <4>1, NextUpdating, NextUndisturbed
      <4> QED BY <3>1, <3>2, <4>2, <4>3
    <3> QED BY <3>1, <3>2
  <2> HIDE DEF InPart, Steps
  <2>3. InPart /\ [PartNext]_all => InPart' /\ [Steps]_all
    BY <2>2
  <2> QED BY <2>1, <2>3, PTL DEF PartSpec, OneUpdate, Steps
<1> QED BY <1>1

------------------------------------------------------------------------------
(* What is said of an update *)

\* One administrator at a time has the page of the update open.
OneRequest == \A r, s \in Request : r = s

\* The copies of the row that may still be looked at or written back, and the row.
Held == {"settle", "sweep", "mark", "insert", "recheck", "follow", "judge", "stale", "fetch"}
Says == {row} \cup {req[r].st : r \in {s \in Request : req[s].pc \in Held}}

\* Why a request has gone where it is.
CopyKinds ==
    \A r \in Request :
       /\ req[r].pc = "recheck" => req[r].st.state = "success"
       /\ req[r].pc \in {"follow", "judge"} =>
             req[r].st.state = "running" /\ req[r].st.helper # "none"
       /\ req[r].pc = "fetch" => req[r].st.state # "running"

JudgeFree == \A r \in Request : req[r].pc = "judge" => worker[ProcessOf[r]] = NoRun

Busy(n) == job[n].pc \in WorkPc \cup {"wait"}

\* While a thread is at work the row says "running", and names no container before it has one.
RowRunning ==
    \A n \in Run : Busy(n) =>
       \A x \in Says : x.state = "running" /\ (job[n].pc \in WorkPc => x.helper = "none")

\* What may be said while container b is live: no success, no other container's name, and
\* for 20 minutes that the update is running.
FitsLive(x, b) ==
    x.state # "success" /\ x.helper \in {"none", b} /\ (x.state = "running" \/ x.age # "fresh")

Fits == \A b \in Box : box[b] = "live" => \A x \in Says : FitsLive(x, b)

\* A running update whose helper is named is of the commit in the checkout, and a helper
\* that ended well has rebuilt the API from it.
NamedRight(x) ==
    x.state = "running" /\ x.helper = "helper" =>
       x.sha = code /\ (box["helper"] = "ok" => build = code)

Named ==
    /\ \A x \in Says : NamedRight(x)
    /\ \A n \in Run : job[n].pc = "named" /\ box["helper"] = "ok" => build = code
    /\ box["recovery"] \in {"missing", "live"}

Told == CopyKinds /\ JudgeFree /\ RowRunning /\ Fits /\ Named /\ SuccessIsTrue

LEMMA InitTold == Init => Told
<1> SUFFICES ASSUME Init PROVE Told
  OBVIOUS
<1>1. /\ \A r \in Request : req[r].pc = "idle"
      /\ \A n \in Run : job[n].pc = "none"
      /\ Says = {row}
  <2>1. \A r \in Request : req[r].pc = "idle" /\ req[r].pc \notin Held
    BY DEF Init, Held
  <2>2. \A n \in Run : job[n].pc = "none"
    BY DEF Init
  <2>3. {s \in Request : req[s].pc \in Held} = {}
    BY <2>1
  <2> QED BY <2>1, <2>2, <2>3 DEF Says
<1>2. /\ row.state # "success" /\ (row.helper = "helper" => row.sha = "old")
      /\ \A b \in Box : box[b] # "live"
      /\ box["recovery"] = "missing"
  <2>1. PICK how \in FirstRow :
           /\ row = CASE how = "absent" -> EmptyRow
                      [] how = "settled" -> [EmptyRow EXCEPT !.state = "idle"]
                      [] how = "unreported" -> [EmptyRow EXCEPT !.state = "running",
                                                   !.helper = "helper", !.sha = "old"]
           /\ box = [b \in Box |-> IF how = "unreported" /\ b = "helper"
                                   THEN "ok" ELSE "missing"]
    BY DEF Init
  <2>2. how \in {"absent", "settled", "unreported"}
    BY UpdateAssumption
  <2>3. CASE how = "unreported"
    BY <2>1, <2>3 DEF EmptyRow, Box
  <2>4. CASE how \in {"absent", "settled"}
    BY <2>1, <2>4 DEF EmptyRow, Box
  <2> QED BY <2>2, <2>3, <2>4
<1>3. build = "old" /\ code = "old"
  BY DEF Init
<1>4. CopyKinds /\ JudgeFree
  BY <1>1 DEF CopyKinds, JudgeFree
<1>5. RowRunning /\ Fits /\ SuccessIsTrue
  BY <1>1, <1>2 DEF RowRunning, Busy, WorkPc, Fits, SuccessIsTrue
<1>6. Named
  BY <1>1, <1>2, <1>3 DEF Named, NamedRight
<1> QED BY <1>4, <1>5, <1>6 DEF Told

\* With one request the copies are its own.
LEMMA SaysOne ==
    ASSUME OneRequest, NEW r \in Request
    PROVE  /\ row \in Says /\ (req[r].pc \in Held => req[r].st \in Says)
           /\ \A x \in Says : x = row \/ (req[r].pc \in Held /\ x = req[r].st)
           /\ row' \in Says' /\ (req'[r].pc \in Held => req'[r].st \in Says')
           /\ \A x \in Says' : x = row' \/ (req'[r].pc \in Held /\ x = req'[r].st)
<1>1. \A s \in Request : s = r
  BY DEF OneRequest
<1>2. /\ row \in Says /\ row' \in Says'
  BY DEF Says
<1>3. req[r].pc \in Held => req[r].st \in Says
  BY DEF Says
<1>4. req'[r].pc \in Held => req'[r].st \in Says'
  BY DEF Says
<1>5. ASSUME NEW x \in Says, x # row PROVE req[r].pc \in Held /\ x = req[r].st
  <2>1. PICK s \in {s \in Request : req[s].pc \in Held} : x = req[s].st
    BY <1>5 DEF Says
  <2> QED BY <1>1, <2>1
<1>6. ASSUME NEW x \in Says', x # row' PROVE req'[r].pc \in Held /\ x = req'[r].st
  <2>1. PICK s \in {s \in Request : req'[s].pc \in Held} : x = req'[s].st
    BY <1>6 DEF Says
  <2> QED BY <1>1, <2>1
<1> QED BY <1>2, <1>3, <1>4, <1>5, <1>6

NoneBusy == \A n \in Run : ~Busy(n)

\* What a request makes of x, when no update is at work: it ends it, or judges it by its
\* container.
Ends(x, w) ==
    /\ w.state \in {"idle", "error"} /\ w.helper = x.helper
    /\ \A b \in Box : box[b] = "live" => w.age # "fresh"

Judged(x, w) ==
    /\ x.state = "running" /\ x.helper # "none" /\ Settles(box[x.helper])
    /\ w = Settled(x, box[x.helper])

Rewrites ==
    \/ row' = row /\ Says' \subseteq Says
    \/ /\ NoneBusy
       /\ \E x \in Says, w \in Row : /\ Ends(x, w) \/ Judged(x, w)
                                     /\ row' \in {row, w} /\ Says' \subseteq Says \cup {w}

LEMMA AliveBusy ==
    ASSUME OneProcess, Known, NEW r \in Request, worker[ProcessOf[r]] = NoRun
    PROVE  NoneBusy
<1>1. \A n \in Run : job[n].proc \in Process /\ n # NoRun
  BY UpdateAssumption DEF Known, TypeOK, Run, NoRun
<1> QED BY <1>1, UpdateAssumption DEF OneProcess, Known, WorkerKnown, NoneBusy, Busy

\* Where somebody is past the door and nobody at work, no container is live.
LEMMA DoorShut ==
    ASSUME Watched, NoneBusy, NEW r \in Request, req[r].pc \in Past, NEW b \in Box
    PROVE  box[b] # "live"
BY DEF Watched, NoneBusy, Busy, Attended, Unattended, WorkPc

\* The row is left alone; what is copied of it is the row.
LEMMA OnlyReads ==
    ASSUME OneRequest, NEW r \in Request, row' = row,
           req'[r].pc \in Held => req'[r].st = row \/ (req[r].pc \in Held /\ req'[r].st = req[r].st)
    PROVE  Rewrites
BY SaysOne DEF Rewrites

\* The row and the copy become w, or stay.
LEMMA OnlyRewrites ==
    ASSUME OneRequest, NEW r \in Request, req[r].pc \in Held, NoneBusy, NEW w \in Row,
           Ends(req[r].st, w) \/ Judged(req[r].st, w), row' \in {row, w},
           req'[r].pc \in Held => req'[r].st \in {w, req[r].st}
    PROVE  Rewrites
<1>1. req[r].st \in Says /\ Says' \subseteq Says \cup {w}
  BY SaysOne
<1> QED BY <1>1 DEF Rewrites

\* A copy is put an end to, unless it is of the first 20 minutes of a live container.
LEMMA EndsCopy ==
    ASSUME NEW x \in Row, \A b \in Box : box[b] = "live" => x.age # "fresh"
    PROVE  /\ Failed(x) \in Row /\ Ends(x, Failed(x))
           /\ [x EXCEPT !.state = "idle"] \in Row /\ Ends(x, [x EXCEPT !.state = "idle"])
<1>1. Failed(x) \in Row /\ [x EXCEPT !.state = "idle"] \in Row
  BY RowTypes
<1>2. /\ Failed(x).state = "error" /\ Failed(x).helper = x.helper /\ Failed(x).age = x.age
      /\ [x EXCEPT !.state = "idle"].state = "idle"
      /\ [x EXCEPT !.state = "idle"].helper = x.helper
      /\ [x EXCEPT !.state = "idle"].age = x.age
  BY DEF Failed, Row
<1> QED BY <1>1, <1>2 DEF Ends

\* What is kept of why a request is where it is.
RequestTells(r) ==
    /\ Rewrites
    /\ req'[r].pc = "recheck" => req'[r].st.state = "success"
    /\ req'[r].pc \in {"follow", "judge"} => req'[r].st.state = "running" /\ req'[r].st.helper # "none"
    /\ req'[r].pc = "fetch" => req'[r].st.state # "running"
    /\ req'[r].pc = "judge" => worker[ProcessOf[r]] = NoRun

LEMMA AskTells ==
    ASSUME OneRequest, Known, NEW r \in Request, AskApply(r) \/ AskStatus(r) \/ AskCheck(r)
    PROVE  RequestTells(r)
<1>1. row' = row /\ req'[r].pc \in {"assert", "read", "peek"}
  BY DEF AskApply, AskStatus, AskCheck, Go, Known, TypeOK
<1> QED BY <1>1, OnlyReads DEF RequestTells, Held

LEMMA ApplyTells ==
    ASSUME OneProcess, OneRequest, DockerAnswers, Known, Watched, Told, NEW r \in Request,
           ApplyNext(r), ~Mark(r), ~Insert(r)
    PROVE  RequestTells(r)
<1> DEFINE st == req[r].st
<1> USE DEF Known
<1>0. /\ {"idle", "lock", "settle", "sweep", "mark", "insert"} \subseteq Pcs
      /\ req[r] \in ReqState /\ st \in Row /\ row \in Row /\ TypeOK
  BY DEF Pcs, ApplyPc, TypeOK, ReqState
<1>1. \/ req'[r].pc \in {"idle", "lock", "mark", "insert", "sweep"}
      \/ TakeLock(r)
  BY <1>0, GoTypes, HoldingTypes
  DEF ApplyNext, ApplyRefused, ApplyClear, SettleFirst, NothingToSettle, AlreadyRunning,
      SweepAbandoned, NothingRunning, RowTaken, RowAbsent, InsertCollides, Go, Holding, ReqState
<1>2. CASE ApplyRefused(r) \/ ApplyClear(r) \/ AlreadyRunning(r) \/ RowTaken(r) \/ InsertCollides(r)
  <2>1. row' = row /\ req'[r].pc \in {"idle", "lock"}
    BY <1>0, <1>2, GoTypes
    DEF ApplyRefused, ApplyClear, AlreadyRunning, RowTaken, InsertCollides, host
  <2> QED BY <2>1, OnlyReads DEF RequestTells, Held
<1>3. CASE TakeLock(r)
  <2>1. row' = row /\ req'[r].pc = "settle" /\ req'[r].st = row
    BY <1>0, <1>3, HoldingTypes DEF TakeLock
  <2> QED BY <2>1, OnlyReads DEF RequestTells
<1>4. CASE NothingToSettle(r) \/ NothingRunning(r) \/ RowAbsent(r)
  <2>1. /\ row' = row /\ req'[r].pc \in {"sweep", "mark", "insert"} /\ req'[r].st = st
        /\ req[r].pc \in Held
    BY <1>0, <1>4, GoTypes DEF NothingToSettle, NothingRunning, RowAbsent, Held
  <2> QED BY <2>1, OnlyReads DEF RequestTells
<1>5. CASE SettleFirst(r)
  <2>1. /\ req[r].pc = "settle" /\ st.state = "running" /\ st.helper # "none"
        /\ worker[ProcessOf[r]] = NoRun /\ st.helper \in Box
    BY <1>0, <1>5 DEF SettleFirst, Orphan, Alive, Row
  <2>2. CASE Go(r, "sweep") /\ UNCHANGED row
    <3>1. req'[r].pc = "sweep" /\ req'[r].st = st /\ req[r].pc \in Held
      BY <1>0, <2>1, <2>2, GoTypes DEF Held
    <3> QED BY <2>2, <3>1, OnlyReads DEF RequestTells
  <2>3. CASE \E answer \in Looks(st.helper) :
               /\ Settles(answer) /\ row' = Settled(st, answer)
               /\ Holding(r, "sweep", Settled(st, answer))
    <3> DEFINE w == Settled(st, box[st.helper])
    <3>1. Settles(box[st.helper]) /\ row' = w /\ Holding(r, "sweep", w)
      BY <2>1, <2>3 DEF Looks, DockerAnswers
    <3>2. w \in Row
      BY <1>0, RowTypes
    <3>3. req'[r].pc = "sweep" /\ req'[r].st = w
      BY <1>0, <3>1, <3>2, HoldingTypes
    <3>4. Judged(st, w)
      BY <2>1, <3>1 DEF Judged
    <3>5. NoneBusy
      BY <2>1, AliveBusy
    <3>6. req[r].pc \in Held
      BY <2>1 DEF Held
    <3>7. Rewrites
      BY <3>1, <3>2, <3>3, <3>4, <3>5, <3>6, OnlyRewrites
    <3> QED BY <3>3, <3>7 DEF RequestTells
  <2> QED BY <1>5, <2>2, <2>3 DEF SettleFirst
<1>6. CASE SweepAbandoned(r)
  <2>1. /\ req[r].pc = "sweep" /\ worker[ProcessOf[r]] = NoRun
        /\ row' = Failed(st) /\ Holding(r, "mark", Failed(st))
    BY <1>6 DEF SweepAbandoned, Alive
  <2>2. Failed(st) \in Row
    BY <1>0, RowTypes
  <2>3. req'[r].pc = "mark" /\ req'[r].st = Failed(st)
    BY <1>0, <2>1, <2>2, HoldingTypes
  <2>4. NoneBusy
    BY <2>1, AliveBusy
  <2>5. Ends(st, Failed(st))
    BY <1>0, <2>1, <2>4, DoorShut DEF Ends, Failed, Past, Row
  <2>6. req[r].pc \in Held
    BY <2>1 DEF Held
  <2>7. Rewrites
    BY <2>1, <2>2, <2>3, <2>4, <2>5, <2>6, OnlyRewrites
  <2> QED BY <2>3, <2>7 DEF RequestTells
<1> QED BY <1>2, <1>3, <1>4, <1>5, <1>6 DEF ApplyNext

LEMMA StatusTells ==
    ASSUME OneProcess, OneRequest, DockerAnswers, Known, Watched, Told, NEW r \in Request,
           StatusNext(r)
    PROVE  RequestTells(r)
<1> DEFINE st == req[r].st
<1> USE DEF Known
<1>0. /\ {"idle", "read", "fetch", "recheck", "follow", "judge", "stale"} \subseteq Pcs
      /\ req[r] \in ReqState /\ st \in Row /\ row \in Row /\ TypeOK
  BY DEF Pcs, StatusPc, CheckPc, TypeOK, ReqState
<1>1. req[r].pc \in Held => st \in Says
  BY SaysOne
<1>2. CASE Read(r) \/ Peek(r)
  <2>1. PICK pc \in {"idle", "read", "fetch", "recheck", "follow", "stale"} :
           /\ Holding(r, pc, row) /\ row' = row
           /\ pc = "recheck" => row.state = "success"
           /\ pc = "follow" => row.state = "running" /\ row.helper # "none"
           /\ pc = "fetch" => row.state # "running"
    BY <1>2 DEF Read, Peek
  <2>2. req'[r].pc = pc /\ req'[r].st = row
    BY <1>0, <2>1, HoldingTypes
  <2> QED BY <2>1, <2>2, OnlyReads DEF RequestTells
<1>3. CASE Follow(r)
  <2>1. /\ row' = row /\ req'[r].pc \in {"judge", "idle"} /\ req'[r].st = st
        /\ req[r].pc = "follow" /\ req[r].pc \in Held
        /\ req'[r].pc = "judge" => Orphan(r)
    BY <1>0, <1>3, GoTypes DEF Follow, Held
  <2> QED BY <2>1, OnlyReads DEF RequestTells, Orphan, Alive
<1>4. ASSUME NEW w \in Row, row' \in {row, w}, req[r].pc \in Held, Go(r, "idle") \/ Go(r, "read"),
             row' = row \/ (NoneBusy /\ (Ends(st, w) \/ Judged(st, w)))
      PROVE  RequestTells(r)
  <2>1. req'[r].pc \in {"idle", "read"} /\ req'[r].st = st
    BY <1>0, <1>4, GoTypes
  <2>2. CASE row' = row
    BY <2>1, <2>2, OnlyReads DEF RequestTells, Held
  <2>3. CASE NoneBusy /\ (Ends(st, w) \/ Judged(st, w))
    BY <1>4, <2>1, <2>3, OnlyRewrites DEF RequestTells, Held
  <2> QED BY <1>4, <2>2, <2>3
<1>5. CASE Recheck(r)
  <2>1. /\ req[r].pc = "recheck" /\ st \in Says /\ st.state = "success" /\ Go(r, "idle")
        /\ row' \in {row, Failed(st)} /\ req[r].pc \in Held
    BY <1>1, <1>5 DEF Recheck, Told, CopyKinds, Held
  <2>2. NoneBusy
    BY <2>1 DEF NoneBusy, Told, RowRunning
  <2>3. \A b \in Box : box[b] # "live"
    BY <2>1 DEF Told, Fits, FitsLive
  <2>4. Failed(st) \in Row /\ Ends(st, Failed(st))
    BY <1>0, <2>3, EndsCopy
  <2> QED BY <1>4, <2>1, <2>2, <2>4
<1>6. CASE Judge(r)
  <2>1. /\ req[r].pc = "judge" /\ st.state = "running" /\ st.helper # "none"
        /\ worker[ProcessOf[r]] = NoRun /\ Go(r, "idle") /\ req[r].pc \in Held
    BY <1>6 DEF Judge, Told, CopyKinds, JudgeFree, Held
  <2>2. row' = row \/ (Settles(box[st.helper]) /\ row' = Settled(st, box[st.helper]))
    BY <1>6 DEF Judge, Looks, DockerAnswers
  <2>3. NoneBusy
    BY <2>1, AliveBusy
  <2>4. Settled(st, box[st.helper]) \in Row
    BY <1>0, RowTypes
  <2> QED BY <1>4, <2>1, <2>2, <2>3, <2>4 DEF Judged
<1>7. CASE SweepStale(r)
  <2>1. /\ req[r].pc = "stale" /\ Go(r, "idle") /\ req[r].pc \in Held
        /\ \/ row' = row
           \/ row' = Failed(st) /\ worker[ProcessOf[r]] = NoRun /\ st.age = "older"
    BY <1>7 DEF SweepStale, Alive, Held
  <2>2. worker[ProcessOf[r]] = NoRun => NoneBusy
    BY AliveBusy
  <2>3. Failed(st) \in Row /\ (st.age = "older" => Ends(st, Failed(st)))
    BY <1>0, RowTypes, EndsCopy
  <2> QED BY <1>4, <2>1, <2>2, <2>3
<1>8. CASE Fetched(r)
  <2>1. /\ req[r].pc = "fetch" /\ st \in Says /\ st.state # "running" /\ req[r].pc \in Held
        /\ Go(r, "idle") \/ Go(r, "read")
        /\ row' \in {[st EXCEPT !.state = "idle"], Failed(st)}
    BY <1>1, <1>8 DEF Fetched, Told, CopyKinds, Held
  <2>2. NoneBusy
    BY <2>1 DEF NoneBusy, Told, RowRunning
  <2>3. \A b \in Box : box[b] = "live" => st.age # "fresh"
    BY <2>1 DEF Told, Fits, FitsLive
  <2>4. /\ Failed(st) \in Row /\ Ends(st, Failed(st))
        /\ [st EXCEPT !.state = "idle"] \in Row /\ Ends(st, [st EXCEPT !.state = "idle"])
    BY <1>0, <2>3, EndsCopy
  <2> QED BY <1>4, <2>1, <2>2, <2>4
<1> QED BY <1>2, <1>3, <1>5, <1>6, <1>7, <1>8 DEF StatusNext

LEMMA RequestTold ==
    ASSUME OneRequest, Known, Told, NEW r \in Request, RequestMoves(r), RequestTells(r)
    PROVE  Told'
<1>1. \A s \in Request : s = r
  BY DEF OneRequest
<1>2. CopyKinds' /\ JudgeFree'
  BY <1>1 DEF RequestTells, RequestMoves, CopyKinds, JudgeFree
<1>3. UNCHANGED <<job, worker, box, code, build>>
  BY DEF RequestMoves, host
<1>4. CASE row' = row /\ Says' \subseteq Says
  BY <1>2, <1>3, <1>4
  DEF Told, RowRunning, Busy, Fits, FitsLive, Named, NamedRight, SuccessIsTrue
<1>5. ASSUME NoneBusy, NEW x \in Says, NEW w \in Row, Ends(x, w) \/ Judged(x, w),
             row' \in {row, w}, Says' \subseteq Says \cup {w}
      PROVE  Told'
  <2>1. RowRunning'
    BY <1>3, <1>5 DEF NoneBusy, RowRunning, Busy
  <2>2. w.state # "running" /\ w.helper = x.helper
    BY <1>5 DEF Ends, Judged, Settled, Row
  <2>3. ASSUME NEW b \in Box, box[b] = "live" PROVE FitsLive(w, b)
    <3>1. FitsLive(x, b)
      BY <1>5, <2>3 DEF Told, Fits
    <3>2. ~Judged(x, w)
      BY <2>3, <3>1 DEF FitsLive, Judged, Settles, LiveContainerStates
    <3> QED BY <1>5, <2>2, <2>3, <3>1, <3>2 DEF FitsLive, Ends
  <2>4. Fits'
    BY <1>3, <1>5, <2>3 DEF Told, Fits, FitsLive
  <2>5. Named'
    BY <1>3, <1>5, <2>2 DEF Told, Named, NamedRight
  <2>6. SuccessIsTrue'
    <3>1. CASE Ends(x, w)
      BY <1>3, <1>5, <3>1 DEF Ends, Told, SuccessIsTrue
    <3>2. CASE Judged(x, w)
      <4>1. w.sha = x.sha
        BY <1>5, <3>2 DEF Judged, Settled, Row
      <4>2. w.state = "success" /\ w.helper = "helper" =>
               \/ box["helper"] = "ok"
               \/ x.sha = build
        BY <1>5, <2>2, <3>2 DEF Judged, Settled, Row
      <4>3. box["helper"] = "ok" /\ x.helper = "helper" => build = x.sha
        BY <1>5, <3>2 DEF Judged, Told, Named, NamedRight
      <4> QED BY <1>3, <1>5, <2>2, <4>1, <4>2, <4>3 DEF Told, SuccessIsTrue
    <3> QED BY <1>5, <3>1, <3>2
  <2> QED BY <1>2, <2>1, <2>4, <2>5, <2>6 DEF Told
<1> QED BY <1>4, <1>5 DEF RequestTells, Rewrites

\* The facts that only the threads, the containers and what is said have to keep.
Kept == RowRunning /\ Fits /\ Named /\ SuccessIsTrue

LEMMA StartTold ==
    ASSUME OneProcess, OneRequest, Known, Watched, Told, NEW r \in Request, NEW n \in Run,
           Starts(r, n)
    PROVE  Told'
<1>1. /\ req[r] \in ReqState /\ TypeOK /\ "read" \in Pcs /\ \A s \in Request : s = r
  BY DEF Known, TypeOK, ReqState, Pcs, StatusPc, OneRequest
<1>2. req'[r].pc = "read"
  BY <1>1, GoTypes DEF Starts
<1>3. row' = Marked(req[r].st) /\ \A x \in Says' : x = row'
  BY <1>2, SaysOne DEF Starts, Held
<1>4. row'.state = "running" /\ row'.helper = "none"
  BY <1>1, <1>3 DEF Marked, ReqState, Row
<1>5. /\ job'[n].pc = "begin" /\ \A m \in Run \ {n} : job'[m] = job[m]
      /\ UNCHANGED <<box, code, build>>
  BY DEF Starts, Known, TypeOK, host
<1>6. CopyKinds' /\ JudgeFree'
  BY <1>1, <1>2 DEF CopyKinds, JudgeFree
<1>7. RowRunning' /\ SuccessIsTrue'
  BY <1>3, <1>4 DEF RowRunning, SuccessIsTrue
<1>8. \A b \in Box : box[b] # "live"
  BY OnlyOne DEF Starts, Watched, Attended, Unattended, Past, WorkPc
<1>9. Fits' /\ Named'
  BY <1>3, <1>4, <1>5, <1>8 DEF Fits, Told, Named, NamedRight
<1> QED BY <1>6, <1>7, <1>9 DEF Told

\* A thread changes no copy.
LEMMA JobSays ==
    ASSUME NEW n \in Run, JobMoves(n)
    PROVE  \A x \in Says' : x = row' \/ x \in Says
BY DEF JobMoves, Says

\* It works on: the row still says "running" and names no container.
LEMMA WorksTold ==
    ASSUME OneProcess, Known, Told, NEW n \in Run, JobMoves(n), UNCHANGED build,
           job[n].pc \in WorkPc, job'[n].pc \in WorkPc,
           row'.state = "running", row'.helper = "none",
           box'["recovery"] \in {"missing", "live"},
           job'[n].pc = "named" => box'["helper"] = "live"
    PROVE  Kept'
<1>1. \A x \in Says' : x.state = "running" /\ x.helper = "none"
  BY JobSays DEF Told, RowRunning, Busy
<1>2. \A m \in Run \ {n} : job'[m].pc \notin WorkPc \cup {"wait"}
  BY OnlyOne DEF JobMoves
<1>3. RowRunning'
  BY <1>1 DEF RowRunning, Busy
<1>4. Fits' /\ SuccessIsTrue'
  BY <1>1 DEF Fits, FitsLive, SuccessIsTrue
<1>5. Named'
  BY <1>1, <1>2 DEF Named, NamedRight, WorkPc
<1> QED BY <1>3, <1>4, <1>5 DEF Kept

\* It stops at work: no container is live, and the row names none.
LEMMA FailsTold ==
    ASSUME OneProcess, Known, Told, NEW n \in Run, JobMoves(n), UNCHANGED <<box, build>>,
           job[n].pc \in WorkPc, job'[n].pc = "last",
           \A b \in Box : box[b] # "live", row'.helper = "none"
    PROVE  Kept'
<1>1. \A x \in Says' : x.helper = "none"
  BY JobSays DEF Told, RowRunning, Busy
<1>2. \A m \in Run \ {n} : job'[m].pc \notin WorkPc \cup {"wait"}
  BY OnlyOne DEF JobMoves
<1>3. \A m \in Run : job'[m].pc \notin WorkPc \cup {"wait"}
  BY <1>2 DEF WorkPc
<1>4. RowRunning' /\ Fits' /\ SuccessIsTrue'
  BY <1>1, <1>3 DEF RowRunning, Busy, Fits, SuccessIsTrue
<1>5. Named'
  BY <1>1, <1>3 DEF Told, Named, NamedRight, WorkPc
<1> QED BY <1>4, <1>5 DEF Kept

\* What becomes of the row's fields.
LEMMA RowFields ==
    ASSUME row \in Row
    PROVE  /\ \A s \in {"running", "error"} :
                 Save(s) => row'.state = s /\ row'.helper = row.helper /\ row'.age = row.age
           /\ Marked(row).state = "running" /\ Marked(row).helper = "none"
           /\ [row EXCEPT !.state = "running", !.sha = code].state = "running"
           /\ [row EXCEPT !.state = "running", !.sha = code].helper = row.helper
           /\ [row EXCEPT !.state = "success", !.sha = code].helper = row.helper
           /\ [row EXCEPT !.sha = code].sha = code /\ [row EXCEPT !.sha = code].helper = row.helper
           /\ \A b \in Box :
                 /\ [row EXCEPT !.state = "running", !.sha = code, !.helper = b].state = "running"
                 /\ [row EXCEPT !.state = "running", !.sha = code, !.helper = b].sha = code
                 /\ [row EXCEPT !.state = "running", !.sha = code, !.helper = b].helper = b
BY DEF Row, Marked, Save

LEMMA WorkTold ==
    ASSUME OneProcess, DockerAnswers, Known, Watched, Told, NEW n \in Run,
           JobNext(n), JobMoves(n), job[n].pc \in WorkPc, job'[n].pc # "wait"
    PROVE  Kept'
<1>0. /\ row \in Row /\ row.state = "running" /\ row.helper = "none" /\ row \in Says
      /\ box \in [Box -> BoxStates] /\ Box = {"helper", "recovery"} /\ TypeOK
      /\ UNCHANGED build /\ box["recovery"] \in {"missing", "live"}
  BY DEF Known, Told, RowRunning, Busy, Named, Says, TypeOK, BoxStates, Box, JobMoves
<1>1. ASSUME Fails(n), UNCHANGED box, \A b \in Box : box[b] # "live" PROVE Kept'
  <2>1. job'[n].pc = "last" /\ row'.helper = "none"
    BY <1>0, <1>1, StepTypes, RowFields DEF Fails, Save
  <2> QED BY <1>0, <1>1, <2>1, FailsTold
<1>2. job[n].pc \notin {"named", "recovering"} => \A b \in Box : box[b] # "live"
  BY NothingLive
<1>3. CASE Begin(n) \/ HandOff(n)
  <2>1. /\ job'[n].pc \in {"prepare", "detach"} /\ row'.state = "running" /\ row'.helper = "none"
        /\ UNCHANGED box
    BY <1>0, <1>3, StepTypes, RowFields DEF Begin, HandOff, host, WorkPc
  <2> QED BY <1>0, <2>1, WorksTold DEF WorkPc
<1>4. CASE Prepare(n) \/ Reset(n) \/ Detach(n)
  <2>1. CASE Fails(n)
    BY <1>1, <1>2, <1>4, <2>1 DEF Prepare, Reset, Detach, At, host
  <2>2. CASE ~Fails(n)
    <3>1. PICK pc \in {"reset", "handoff", "rm"} :
             Step(n, pc) /\ UNCHANGED box /\ (row' = row \/ Save("running"))
      BY <1>4, <2>2 DEF Prepare, Reset, Detach, host
    <3>2. /\ job'[n].pc \in {"reset", "handoff", "rm"} /\ UNCHANGED box
          /\ row'.state = "running" /\ row'.helper = "none"
      BY <1>0, <3>1, StepTypes, RowFields DEF WorkPc
    <3> QED BY <1>0, <3>2, WorksTold DEF WorkPc
  <2> QED BY <2>1, <2>2
<1>5. CASE Remove(n) \/ RunHelper(n)
  <2>1. /\ job'[n].pc \in {"run", "named"} /\ row' = row
        /\ job'[n].pc = "named" => box'["helper"] = "live"
        /\ box'["recovery"] = box["recovery"]
    BY <1>0, <1>5, StepTypes DEF Remove, RunHelper, WorkPc
  <2> QED BY <1>0, <2>1, WorksTold DEF WorkPc
<1>6. CASE RunFails(n)
  <2>1. job'[n].pc \in {"detach", "recover"} /\ row' = row /\ box'["recovery"] = box["recovery"]
    BY <1>0, <1>6 DEF RunFails, TypeOK
  <2> QED BY <1>0, <2>1, WorksTold DEF WorkPc
<1>7. CASE Recover(n)
  <2>1. CASE Fails(n) /\ UNCHANGED box
    BY <1>1, <1>2, <1>7, <2>1 DEF Recover, At
  <2>2. CASE box' = [box EXCEPT !["recovery"] = "live"] /\ Step(n, "recovering") /\ UNCHANGED row
    <3>1. job'[n].pc = "recovering" /\ row' = row /\ box'["recovery"] = "live"
      BY <1>0, <2>2, StepTypes DEF WorkPc
    <3> QED BY <1>0, <3>1, WorksTold DEF WorkPc
  <2> QED BY <1>7, <2>1, <2>2 DEF Recover
<1>8. CASE Recovered(n)
  <2>1. \A b \in Box : box[b] # "live"
    BY <1>0, <1>8, OnlyOne DEF Recovered, At, Watched, Unattended, Attended, WorkPc
  <2>2. /\ UNCHANGED box /\ job'[n].pc = "last" /\ row'.helper = "none"
    BY <1>0, <1>8, StepTypes, RowFields DEF Recovered, Fails, Save, host
  <2> QED BY <1>0, <2>1, <2>2, FailsTold
<1>9. CASE Name(n)
  BY <1>9, StepTypes DEF Name, Known
<1>10. CASE RecoveryTimesOut(n)
  <2>1. job' = [job EXCEPT ![n] = [job[n] EXCEPT !.pc = "wait", !.box = "recovery"]]
    BY <1>10 DEF RecoveryTimesOut, Looks, DockerAnswers
  <2>2. job'[n].pc = "wait"
    BY <2>1 DEF Known, TypeOK
  <2> QED BY <2>2
<1>11. CASE Waited(n) \/ WaitTimesOut(n) \/ Last(n)
  BY <1>11 DEF Waited, WaitTimesOut, Last, At, WorkPc
<1> QED BY <1>3, <1>4, <1>5, <1>6, <1>7, <1>8, <1>9, <1>10, <1>11 DEF JobNext

LEMMA WaitTold ==
    ASSUME OneProcess, OneRequest, DockerAnswers, Known, Watched, Told, NEW n \in Run,
           JobNext(n), JobMoves(n), job'[n].pc = "wait" \/ job[n].pc \notin WorkPc
    PROVE  Kept'
<1>0. /\ row \in Row /\ box \in [Box -> BoxStates] /\ Box = {"helper", "recovery"} /\ TypeOK
      /\ row \in Says /\ box["recovery"] \in {"missing", "live"} /\ UNCHANGED build
  BY DEF Known, TypeOK, BoxStates, Box, Says, Told, Named, JobMoves
<1>1. \A m \in Run \ {n} : job'[m] = job[m]
  BY DEF JobMoves
<1>2. CASE Name(n)
  <2>1. /\ job[n].pc = "named" /\ job'[n].pc = "wait" /\ UNCHANGED <<box, code>>
        /\ row'.state = "running" /\ row'.sha = code /\ row'.helper = "helper"
    BY <1>0, <1>2, StepTypes, RowFields DEF Name, At, host
  <2>2. \A x \in Says : x.state = "running" /\ x.helper = "none"
    BY <2>1 DEF Told, RowRunning, Busy, WorkPc
  <2>3. \A m \in Run \ {n} : job'[m].pc \notin WorkPc \cup {"wait"}
    BY <1>1, <2>1, OnlyOne DEF WorkPc
  <2>4. \A b \in Box : box[b] = "live" => b = "helper"
    BY <1>0, <2>1, OnlyOne DEF Watched, Unattended, Attended, WorkPc
  <2>5. \A x \in Says' : x = row' \/ x \in Says
    BY JobSays
  <2>6. RowRunning'
    BY <2>1, <2>2, <2>3, <2>5 DEF RowRunning, Busy, WorkPc
  <2>7. Fits' /\ SuccessIsTrue'
    BY <2>1, <2>2, <2>4, <2>5 DEF Fits, FitsLive, SuccessIsTrue
  <2>8. Named'
    BY <1>0, <2>1, <2>2, <2>3, <2>5 DEF Told, Named, NamedRight, WorkPc
  <2> QED BY <2>6, <2>7, <2>8 DEF Kept
<1>3. CASE RecoveryTimesOut(n)
  <2>1. /\ job[n].pc = "recovering" /\ UNCHANGED <<box, code>>
        /\ row'.state = "running" /\ row'.helper = "recovery"
    BY <1>0, <1>3, RowFields DEF RecoveryTimesOut, Looks, DockerAnswers, At, host
  <2>2. job' = [job EXCEPT ![n] = [job[n] EXCEPT !.pc = "wait", !.box = "recovery"]]
    BY <1>3 DEF RecoveryTimesOut, Looks, DockerAnswers
  <2>3. job'[n].pc = "wait"
    BY <1>0, <2>2 DEF TypeOK
  <2>4. \A x \in Says : x.state = "running" /\ x.helper = "none"
    BY <2>1 DEF Told, RowRunning, Busy, WorkPc
  <2>5. \A m \in Run \ {n} : job'[m].pc \notin WorkPc \cup {"wait"}
    BY <1>1, <2>1, OnlyOne DEF WorkPc
  <2>6. \A b \in Box : box[b] = "live" => b = "recovery"
    BY <1>0, <2>1, OnlyOne DEF Watched, Unattended, Attended, WorkPc
  <2>7. \A x \in Says' : x = row' \/ x \in Says
    BY JobSays
  <2>8. RowRunning'
    BY <2>1, <2>3, <2>4, <2>5, <2>7 DEF RowRunning, Busy, WorkPc
  <2>9. Fits' /\ SuccessIsTrue'
    BY <2>1, <2>4, <2>6, <2>7 DEF Fits, FitsLive, SuccessIsTrue
  <2>10. Named'
    BY <1>0, <2>1, <2>3, <2>4, <2>5, <2>7 DEF Told, Named, NamedRight, WorkPc
  <2> QED BY <2>8, <2>9, <2>10 DEF Kept
<1>4. ASSUME job[n].pc = "wait", job'[n].pc = "last", UNCHANGED <<box, code>>,
             row'.state # "running",
             \A b \in Box : box[b] = "live" => \A x \in Says' : FitsLive(x, b),
             SuccessIsTrue'
      PROVE  Kept'
  <2>1. \A m \in Run : job'[m].pc \notin WorkPc \cup {"wait"}
    BY <1>1, <1>4, OnlyOne DEF WorkPc
  <2>2. RowRunning' /\ Fits'
    BY <1>4, <2>1 DEF RowRunning, Busy, Fits, FitsLive
  <2>3. Named'
    BY <1>0, <1>4, <2>1, JobSays DEF Told, Named, NamedRight, WorkPc
  <2> QED BY <1>4, <2>2, <2>3 DEF Kept
<1>5. CASE Waited(n)
  <2> DEFINE done == [row EXCEPT !.sha = code]
             answer == box[job[n].box]
  <2>1. /\ job[n].pc = "wait" /\ job'[n].pc = "last" /\ UNCHANGED <<box, code>>
        /\ Settles(answer) /\ row' = Settled(done, answer) /\ job[n].box \in Box
    BY <1>0, <1>5, StepTypes DEF Waited, At, host, Looks, DockerAnswers, TypeOK
  <2>2. row.state = "running" /\ NamedRight(row)
    BY <1>0, <2>1 DEF Told, RowRunning, Busy, Named
  <2>3. \A b \in Box : box[b] # "live"
    BY <2>1, OnlyOne
    DEF Settles, LiveContainerStates, Watched, Unattended, Attended, WorkPc
  <2>4. done \in Row /\ done.helper = row.helper /\ done.sha = code
    <3>1. code \in Build
      BY <1>0 DEF TypeOK
    <3> QED BY <1>0, <3>1, RowTypes, RowFields
  <2>5. /\ row'.state # "running" /\ row'.helper = row.helper /\ row'.sha = code
        /\ row'.state = "success" => answer = "ok" \/ code = build
    BY <2>1, <2>4 DEF Settled, Row
  <2>6. answer = "ok" => box["helper"] = "ok"
    BY <1>0, <2>1
  <2>7. SuccessIsTrue'
    BY <1>0, <2>2, <2>5, <2>6 DEF NamedRight, SuccessIsTrue
  <2> QED BY <1>4, <2>1, <2>3, <2>5, <2>7
<1>6. CASE WaitTimesOut(n)
  <2>1. /\ job[n].pc = "wait" /\ job'[n].pc = "last" /\ UNCHANGED <<box, code>>
        /\ row' = [row EXCEPT !.state = "error"] /\ row.age # "fresh"
        /\ \A r \in Request : req[r].pc = "idle"
    BY <1>0, <1>6, StepTypes DEF WaitTimesOut, Fails, Save, At, host, Quiet
  <2>2. row'.state = "error" /\ row'.helper = row.helper /\ row'.age = row.age
    BY <1>0, <2>1, RowFields
  <2>3. \A x \in Says' : x = row'
    <3>1. \A r \in Request : req'[r].pc \notin Held
      BY <2>1 DEF JobMoves, Held
    <3> QED BY <3>1 DEF Says
  <2>4. \A b \in Box : box[b] = "live" => \A x \in Says' : FitsLive(x, b)
    BY <1>0, <2>1, <2>2, <2>3 DEF Told, Fits, FitsLive
  <2> QED BY <1>4, <2>1, <2>2, <2>4 DEF SuccessIsTrue
<1>7. CASE Last(n)
  <2>1. /\ job'[n].pc = "done" /\ row' = row /\ UNCHANGED <<box, code>>
    BY <1>0, <1>7, StepTypes DEF Last, host
  <2>2. Says' \subseteq Says
    BY <1>0, <2>1, JobSays
  <2>3. \A m \in Run : job'[m].pc \in WorkPc \cup {"wait"} => job'[m] = job[m]
    BY <1>1, <2>1 DEF WorkPc
  <2>4. RowRunning'
    BY <2>2, <2>3 DEF Told, RowRunning, Busy
  <2>5. Fits' /\ SuccessIsTrue'
    BY <1>0, <2>1, <2>2 DEF Told, Fits, FitsLive, SuccessIsTrue
  <2>6. Named'
    BY <1>0, <2>1, <2>2, <2>3 DEF Told, Named, NamedRight, WorkPc
  <2> QED BY <2>4, <2>5, <2>6 DEF Kept
<1>8. CASE job'[n].pc # "wait" /\ ~Name(n) /\ ~RecoveryTimesOut(n) /\ ~Waited(n)
           /\ ~WaitTimesOut(n) /\ ~Last(n)
  BY <1>8 DEF JobNext, Begin, Prepare, Reset, HandOff, Detach, Remove, RunHelper, RunFails,
              Recover, Recovered, At, WorkPc
<1>9. ASSUME Begin(n) \/ Prepare(n) \/ Reset(n) \/ HandOff(n) \/ Detach(n) \/ Remove(n)
                \/ RunHelper(n) \/ RunFails(n) \/ Recover(n) \/ Recovered(n)
      PROVE  job'[n].pc # "wait"
  <2>1. CASE RunFails(n)
    BY <1>0, <2>1 DEF RunFails, TypeOK
  <2>2. CASE \E pc \in (WorkPc \cup {"last"}) : Step(n, pc)
    BY <1>0, <2>2, StepTypes DEF WorkPc
  <2> QED BY <1>9, <2>1, <2>2
          DEF Begin, Prepare, Reset, HandOff, Detach, Remove, RunHelper, Recover, Recovered,
              Fails, WorkPc
<1> QED BY <1>2, <1>3, <1>5, <1>6, <1>7, <1>8, <1>9 DEF JobNext

LEMMA JobTold ==
    ASSUME OneProcess, OneRequest, DockerAnswers, Known, Watched, Told, NEW n \in Run,
           JobNext(n), JobMoves(n)
    PROVE  Told'
<1>1. \A r \in Request : worker[ProcessOf[r]] = NoRun => worker'[ProcessOf[r]] = NoRun
  BY UpdateAssumption DEF JobMoves, ThreadMoves, Known, TypeOK
<1>2. CopyKinds' /\ JudgeFree'
  BY <1>1 DEF JobMoves, Told, CopyKinds, JudgeFree
<1>3. Kept'
  BY WorkTold, WaitTold
<1> QED BY <1>2, <1>3 DEF Told, Kept

\* After the death of the one process only the row is left.
LEMMA DieTold ==
    ASSUME OneProcess, Known, Told, NEW dead \in SUBSET Process, dead # {} \/ Process = {},
           Dead(dead), UNCHANGED <<row, box, code>>,
           build' = build \/ (build' = code /\ \E b \in Box : box[b] = "live")
    PROVE  Told'
<1>1. /\ \A r \in Request : req'[r].pc = "idle"
      /\ \A n \in Run : job'[n].pc \in {"none", "done", "gone"}
  <2>1. /\ \A r \in Request : ProcessOf[r] \in Process
        /\ \A n \in Run : job[n].proc \in Process
    BY UpdateAssumption DEF Known, TypeOK
  <2> QED BY <2>1 DEF OneProcess, Dead
<1>2. Says' = {row'} /\ row \in Says
  <2>1. \A r \in Request : req'[r].pc \notin Held
    BY <1>1 DEF Held
  <2> QED BY <2>1 DEF Says
<1>3. CopyKinds' /\ JudgeFree'
  BY <1>1 DEF CopyKinds, JudgeFree
<1>4. RowRunning'
  BY <1>1 DEF RowRunning, Busy, WorkPc
<1>5. Fits'
  BY <1>2 DEF Told, Fits, FitsLive
<1>6. Named'
  BY <1>1, <1>2 DEF Told, Named, NamedRight
<1>7. SuccessIsTrue'
  BY <1>2 DEF Told, SuccessIsTrue, Fits, FitsLive
<1> QED BY <1>3, <1>4, <1>5, <1>6, <1>7 DEF Told

LEMMA OutsideTold ==
    ASSUME Known, Told, HelperExits \/ RecoveryExits \/ Prune \/ Age
    PROVE  Told'
<1>1. /\ UNCHANGED <<req, job, worker, code, build>> /\ box \in [Box -> BoxStates]
      /\ row \in Row /\ Box = {"helper", "recovery"}
  BY DEF HelperExits, RecoveryExits, Prune, Age, host, Known, TypeOK, BoxStates, Box
<1>2. CASE HelperExits \/ RecoveryExits \/ Prune
  <2>1. /\ row' = row /\ Says' = Says
        /\ \A b \in Box : box'[b] = "live" => box[b] = "live"
        /\ box'["helper"] = "ok" => box["helper"] = "ok" \/ build = code
        /\ box["recovery"] \in {"missing", "live"} => box'["recovery"] \in {"missing", "live"}
    BY <1>1, <1>2 DEF HelperExits, RecoveryExits, Prune, Says
  <2>2. Named'
    BY <1>1, <2>1 DEF Told, Named, NamedRight
  <2> QED BY <1>1, <2>1, <2>2
          DEF Told, CopyKinds, JudgeFree, RowRunning, Busy, Fits, FitsLive, SuccessIsTrue
<1>3. CASE Age
  <2>1. /\ row'.state = row.state /\ row'.helper = row.helper /\ row'.sha = row.sha
        /\ row.age # "fresh" => row'.age # "fresh"
        /\ UNCHANGED box /\ \A r \in Request : req[r].pc = "idle"
    BY <1>1, <1>3 DEF Age, Row, Quiet, host
  <2>2. Says' = {row'} /\ row \in Says
    <3>1. \A r \in Request : req'[r].pc \notin Held
      BY <1>1, <2>1 DEF Held
    <3> QED BY <3>1 DEF Says
  <2>3. CopyKinds' /\ JudgeFree'
    BY <1>1, <2>1 DEF CopyKinds, JudgeFree
  <2>4. RowRunning' /\ Fits' /\ SuccessIsTrue'
    BY <1>1, <2>1, <2>2 DEF Told, RowRunning, Busy, Fits, FitsLive, SuccessIsTrue
  <2>5. Named'
    BY <1>1, <2>1, <2>2 DEF Told, Named, NamedRight
  <2> QED BY <2>3, <2>4, <2>5 DEF Told
<1> QED BY <1>2, <1>3

LEMMA NextTold ==
    ASSUME OneProcess, OneRequest, DockerAnswers, Known, Watched, Told, [Next]_vars
    PROVE  Told'
<1>1. ASSUME NEW r \in Request, AskApply(r) \/ AskStatus(r) \/ AskCheck(r) PROVE Told'
  BY <1>1, AsksMoves, AskTells, RequestTold
<1>2. ASSUME NEW r \in Request, ApplyNext(r) PROVE Told'
  <2>1. CASE Mark(r) \/ Insert(r)
    BY <2>1, StartStarts, StartTold
  <2> QED BY <1>2, <2>1, ApplyMoves, ApplyTells, RequestTold
<1>3. ASSUME NEW r \in Request, StatusNext(r) PROVE Told'
  BY <1>3, StatusMoves, StatusTells, RequestTold
<1>4. ASSUME NEW n \in Run, JobNext(n) PROVE Told'
  BY <1>4, JobNextMoves, JobTold
<1>5. ASSUME Recreate PROVE Told'
  <2>1. /\ build' \in Build /\ row' \in Row /\ crashes' \in 0..MaxCrashes /\ Die(Process)
        /\ UNCHANGED <<row, box, code>> /\ build' = code /\ \E b \in Box : box[b] = "live"
    BY <1>5 DEF Recreate, Known, TypeOK
  <2>2. Dead(Process)
    BY <2>1, DieKnown
  <2> QED BY <2>1, <2>2, DieTold
<1>6. ASSUME NEW p \in Process, Crash(p) PROVE Told'
  <2>1. /\ crashes' \in 0..MaxCrashes /\ row' \in Row /\ build' \in Build
        /\ UNCHANGED <<row, box, code, build>> /\ Die({p})
    BY <1>6, UpdateAssumption DEF Crash, Known, TypeOK
  <2>2. Dead({p})
    BY <2>1, DieKnown
  <2> QED BY <2>1, <2>2, DieTold
<1>7. ASSUME UNCHANGED vars PROVE Told'
  BY <1>7 DEF vars, host, Told, CopyKinds, JudgeFree, RowRunning, Busy, Fits, FitsLive, Named,
              NamedRight, SuccessIsTrue, Says
<1> QED BY <1>1, <1>2, <1>3, <1>4, <1>5, <1>6, <1>7, OutsideTold DEF Next

\* With one process and one administrator at a time "update finished" is only ever said
\* when the API runs the commit that was applied, and for its first 20 minutes a helper
\* at work can be told from the row, whatever crashes, fails, is removed or takes long.
THEOREM FinishedIsTrue ==
    OneProcess /\ OneRequest /\ DockerAnswers => (Spec => [](SuccessIsTrue /\ HelperShown))
<1>1. ASSUME OneProcess, OneRequest, DockerAnswers
      PROVE  Spec => [](SuccessIsTrue /\ HelperShown)
  <2>1. Known /\ Watched /\ [Next]_vars => Watched'
    BY <1>1, NextWatched
  <2>2. Known /\ Watched /\ Told /\ [Next]_vars => Told'
    BY <1>1, NextTold
  <2>3. Told => SuccessIsTrue /\ HelperShown
    BY DEF Told, Fits, FitsLive, Says, HelperShown, Box
  <2> QED BY <2>1, <2>2, <2>3, InitWatched, InitTold, AlwaysKnown, PTL DEF Spec
<1> QED BY <1>1

==============================================================================
