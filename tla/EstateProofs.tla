---------------------------- MODULE EstateProofs -----------------------------
(***************************************************************************)
(* Theorems about what is kept: the scheduler of the desktop program       *)
(* (OneAtATime, CooldownLasts), a restore (RestoredWell), the rows of the  *)
(* tenants and what is kept for them (RowsBelong), and what may go         *)
(* (NothingGoesSilently), for any jobs, archives, rows, requests, files    *)
(* and lengths of time.  One section states the inductive invariant of     *)
(* each component; the last one puts them together.                        *)
(***************************************************************************)
EXTENDS MCEstate, FiniteSetTheorems, TLAPS

------------------------------------------------------------------------------
(* One launch at a time for a tenant *)

Pcs == {"none", "started", "checked", "marked", "called", "answered", "ends", "leaves"}
Working == {r \in Retries : pc[r] # "none"}

\* The busy sets are those of the threads: an id until it is discarded, the tenant of every
\* thread, of which there is one.
Ticking ==
    /\ pc \in [Retries -> Pcs] /\ retries \subseteq Retries
    /\ tick = "retries" => todo \in Seq(Retries)
    /\ busy = {r \in Working : pc[r] # "leaves"}
    /\ busyTenants = {TenantOf[r] : r \in Working}
    /\ \A q, r \in Working : TenantOf[q] = TenantOf[r] => q = r

LEMMA JobConstants ==
    /\ TenantOf \in [Retries -> Tenants] /\ IsFiniteSet(Retries)
    /\ LaterBackoff \in Nat /\ MaxAttempts \in Nat
    /\ \A S : Ticks!Cardinality(S) = Cardinality(S)
<1>1. Ticks!RunnerAssumption /\ Again!RunnerAssumption
  BY PartsAssumption
<1>2. TenantOf \in [Retries -> Tenants] /\ Ticks!IsFiniteSet(Retries) /\ MaxAttempts \in Nat
  BY <1>1 DEF Ticks!RunnerAssumption
<1>3. LaterBackoff \in Nat
  BY <1>1 DEF Again!RunnerAssumption
<1>4. Ticks!IsFiniteSet(Retries) => IsFiniteSet(Retries)
  BY DEF IsFiniteSet, Ticks!IsFiniteSet
<1>5. \A S : Ticks!Cardinality(S) = Cardinality(S)
  BY DEF Cardinality, Ticks!Cardinality
<1> QED BY <1>2, <1>3, <1>4, <1>5

LEMMA InitTicking == Ticks!Init => Ticking
BY DEF Ticks!Init, Ticking, Working, Pcs

\* A thread goes on, the busy sets stay.
LEMMA GoesTicking ==
    ASSUME Ticking, NEW r \in Retries, NEW from \in Pcs \ {"none", "leaves"},
           NEW to \in Pcs \ {"none", "leaves"}, Ticks!Goes(r, from, to),
           retries' \subseteq Retries, UNCHANGED <<busy, busyTenants, tick, todo>>
    PROVE  Ticking'
<1>1. /\ pc' \in [Retries -> Pcs] /\ pc[r] = from /\ pc'[r] = to
      /\ \A q \in Retries \ {r} : pc'[q] = pc[q]
  BY DEF Ticking, Ticks!Goes
<1>2. Working' = Working
  BY <1>1 DEF Working
<1> QED BY <1>1, <1>2 DEF Ticking, Working

LEMMA ThreadTicking ==
    ASSUME Ticking, NEW r \in Retries, Ticks!Thread(r)
    PROVE  Ticking'
<1>1. CASE \/ Ticks!Check(r) \/ Ticks!Mark(r) \/ Ticks!Call(r) \/ Ticks!CallUnsaved(r)
           \/ Ticks!Answer(r) \/ Ticks!Record(r) \/ Ticks!AnswerRaises(r)
  <2>1. PICK from \in Pcs \ {"none", "leaves"}, to \in Pcs \ {"none", "leaves"} :
           Ticks!Goes(r, from, to)
    BY <1>1
    DEF Ticks!Check, Ticks!Mark, Ticks!Call, Ticks!CallUnsaved, Ticks!Answer, Ticks!Record,
        Ticks!AnswerRaises, Pcs
  <2>2. retries' \subseteq Retries /\ UNCHANGED <<busy, busyTenants, tick, todo>>
    BY <1>1
    DEF Ticks!Check, Ticks!Mark, Ticks!Call, Ticks!CallUnsaved, Ticks!Answer, Ticks!Record,
        Ticks!AnswerRaises, Ticks!Else, Ticks!Ticking, Ticking
  <2> QED BY <2>1, <2>2, GoesTicking
<1>2. CASE Ticks!Discard(r)
  <2>1. /\ pc[r] = "ends" /\ pc' = [pc EXCEPT ![r] = "leaves"] /\ busy' = busy \ {r}
        /\ UNCHANGED <<retries, busyTenants, tick, todo>>
    BY <1>2 DEF Ticks!Discard, Ticks!Goes, Ticks!Ticking
  <2>2. /\ pc' \in [Retries -> Pcs] /\ pc'[r] = "leaves"
        /\ \A q \in Retries \ {r} : pc'[q] = pc[q]
    BY <2>1 DEF Ticking, Pcs
  <2>3. Working' = Working
    BY <2>1, <2>2 DEF Working
  <2>4. busy' = {q \in Working' : pc'[q] # "leaves"}
    BY <2>1, <2>2, <2>3 DEF Ticking, Working
  <2> QED BY <2>1, <2>2, <2>3, <2>4 DEF Ticking
<1>3. CASE Ticks!Leave(r)
  <2>1. /\ pc[r] = "leaves" /\ pc' = [pc EXCEPT ![r] = "none"]
        /\ busyTenants' = busyTenants \ {TenantOf[r]} /\ UNCHANGED <<retries, busy, tick, todo>>
    BY <1>3 DEF Ticks!Leave, Ticks!Goes, Ticks!Ticking
  <2>2. /\ pc' \in [Retries -> Pcs] /\ pc'[r] = "none"
        /\ \A q \in Retries \ {r} : pc'[q] = pc[q]
    BY <2>1 DEF Ticking, Pcs
  <2>3. Working' = Working \ {r} /\ r \in Working
    BY <2>1, <2>2 DEF Working
  <2>4. busy' = {q \in Working' : pc'[q] # "leaves"}
    BY <2>1, <2>2, <2>3 DEF Ticking, Working
  <2>5. busyTenants' = {TenantOf[q] : q \in Working'}
    BY <2>1, <2>3 DEF Ticking
  <2> QED BY <2>1, <2>2, <2>3, <2>4, <2>5 DEF Ticking
<1> QED BY <1>1, <1>2, <1>3 DEF Ticks!Thread

LEMMA FireTicking == ASSUME Ticking, Ticks!Fire PROVE Ticking'
<1>1. PICK r : r = Head(todo)
  OBVIOUS
<1>2. r \in Retries /\ Tail(todo) \in Seq(Retries)
  BY <1>1 DEF Ticking, Ticks!Fire
<1>3. /\ TenantOf[r] \notin busyTenants /\ UNCHANGED <<retries, tick>> /\ todo' = Tail(todo)
      /\ busy' = busy \cup {r} /\ busyTenants' = busyTenants \cup {TenantOf[r]}
      /\ pc' = [pc EXCEPT ![r] = "started"]
  BY <1>1 DEF Ticks!Fire, Ticks!Fires, Ticks!TenantFree
<1>4. /\ pc' \in [Retries -> Pcs] /\ pc'[r] = "started"
      /\ \A q \in Retries \ {r} : pc'[q] = pc[q]
  BY <1>2, <1>3 DEF Ticking, Pcs
<1>5. Working' = Working \cup {r} /\ \A q \in Working : TenantOf[q] # TenantOf[r]
  BY <1>2, <1>3, <1>4 DEF Ticking, Working
<1>6. busy' = {q \in Working' : pc'[q] # "leaves"}
  BY <1>2, <1>3, <1>4, <1>5 DEF Ticking, Working
<1>7. busyTenants' = {TenantOf[q] : q \in Working'}
  BY <1>3, <1>5 DEF Ticking
<1> QED BY <1>2, <1>3, <1>4, <1>5, <1>6, <1>7 DEF Ticking

LEMMA CountedTicking == ASSUME Ticking, Ticks!Counted PROVE Ticking'
<1>1. PICK order \in [1..Cardinality(retries) -> retries] : todo' = order
  BY JobConstants DEF Ticks!Counted
<1>2. Cardinality(retries) \in Nat
  BY JobConstants, FS_Subset, FS_CardinalityType DEF Ticking
<1>3. todo' \in Seq(Retries)
  BY <1>1, <1>2 DEF Ticking
<1>4. UNCHANGED <<retries, pc, busy, busyTenants>>
  BY DEF Ticks!Counted, Ticks!Threads
<1> QED BY <1>3, <1>4 DEF Ticking, Working

LEMMA NextTicking == ASSUME Ticking, [Ticks!Next]_runner PROVE Ticking'
<1>1. CASE \/ Ticks!Elapse \/ Ticks!Tick \/ Ticks!CheckSchedule \/ Ticks!ScheduleUnsaved
           \/ Ticks!Count \/ Ticks!CountRaises \/ Ticks!Pass \/ Ticks!TickEnds
  <2>1. UNCHANGED <<retries, pc, busy, busyTenants>>
    BY <1>1
    DEF Ticks!Elapse, Ticks!Tick, Ticks!CheckSchedule, Ticks!ScheduleUnsaved, Ticks!Count,
        Ticks!CountRaises, Ticks!Pass, Ticks!TickEnds, Ticks!Threads
  <2>2. tick' # "retries" \/ (tick = "retries" /\ todo' \in {todo, Tail(todo)}
                              /\ (todo' # todo => todo # <<>>))
    BY <1>1
    DEF Ticks!Elapse, Ticks!Tick, Ticks!CheckSchedule, Ticks!ScheduleUnsaved, Ticks!Count,
        Ticks!CountRaises, Ticks!Pass, Ticks!TickEnds, Ticks!Ticking
  <2>3. tick' = "retries" => todo' \in Seq(Retries)
    BY <2>2 DEF Ticking
  <2> QED BY <2>1, <2>3 DEF Ticking, Working
<1>2. CASE Ticks!Restart
  BY <1>2 DEF Ticks!Restart, Ticking, Working, Pcs
<1>3. ASSUME NEW r \in Retries, Ticks!Add(r) \/ Ticks!Stop(r) \/ Ticks!Delete(r) PROVE Ticking'
  <2>1. UNCHANGED <<pc, busy, busyTenants, tick, todo>> /\ retries' \subseteq Retries
    BY <1>3 DEF Ticks!Add, Ticks!Stop, Ticks!Delete, Ticks!Threads, Ticks!Ticking, Ticking
  <2> QED BY <2>1 DEF Ticking, Working
<1>4. CASE UNCHANGED runner
  BY <1>4 DEF runner, Ticking, Working
<1> QED BY <1>1, <1>2, <1>3, <1>4, ThreadTicking, FireTicking, CountedTicking
        DEF Ticks!Next, Ticks!Window

LEMMA TickingHolds == ASSUME Ticking PROVE Ticks!Serial /\ Ticks!NothingStuck
<1>1. Ticks!Serial
  BY DEF Ticking, Working, Ticks!Serial, Ticks!InFlight
<1>2. Ticks!NothingStuck
  BY DEF Ticking, Working, Ticks!NothingStuck
<1> QED BY <1>1, <1>2

------------------------------------------------------------------------------
(* What the file keeps across restarts *)

Jobs == [enabled: BOOLEAN, status: {"idle", "running", "success", "stopped", "failed"},
         attempts: Nat, cool: Nat]

\* What the file knows of a job is what its object is, or an earlier state of it: the
\* cool-down of an answer that was not written yet is missing, nothing else.
Behind(r) ==
    \/ disk.obj[r] = None
    \/ /\ disk.obj[r] \in Jobs
       /\ disk.obj[r].cool <= obj[r].cool /\ disk.obj[r].attempts <= obj[r].attempts

\* A thread has seen that its job may be tried; nobody else puts it off or tries it.
Clear(r) ==
    /\ pc[r] \in {"checked", "marked", "called"} => obj[r].cool = 0
    /\ pc[r] \in {"checked", "marked"} => obj[r].attempts < MaxAttempts

\* A schedule that was fired today is on file as such, and is not fired again.
Recorded ==
    \A s \in Schedules :
       fired[s] # 0 => fired[s] = 1 /\ s \in ran /\ s \in disk.ran

OnFile ==
    /\ obj \in [LaterRetries -> Jobs] /\ DOMAIN pc = LaterRetries
    /\ \A r \in LaterRetries : Behind(r) /\ Clear(r)
    /\ DOMAIN fired = Schedules /\ Recorded

LEMMA InitOnFile == Again!Init => OnFile
<1> SUFFICES ASSUME Again!Init PROVE OnFile
  OBVIOUS
<1>1. obj = [r \in LaterRetries |-> Again!New] /\ Again!New \in Jobs
  BY DEF Again!Init, Again!New, Jobs
<1>2. /\ disk = Again!Saved(obj, retries, ran) /\ pc = [r \in LaterRetries |-> "none"]
      /\ fired = [s \in Schedules |-> 0]
  BY DEF Again!Init
<1>3. \A r \in LaterRetries : disk.obj[r] \in {obj[r], None}
  BY <1>2 DEF Again!Saved
<1>4. \A r \in LaterRetries : Behind(r) /\ Clear(r)
  BY <1>1, <1>2, <1>3 DEF Behind, Clear, Jobs
<1> QED BY <1>1, <1>2, <1>4 DEF OnFile, Recorded

\* A save writes the objects as they are.
LEMMA SavedBehind ==
    ASSUME NEW o \in [LaterRetries -> Jobs], NEW listed, NEW today, obj' = o,
           disk' = Again!Saved(o, listed, today)
    PROVE  \A r \in LaterRetries : Behind(r)'
<1>1. \A r \in LaterRetries : disk'.obj[r] \in {o[r], None}
  BY DEF Again!Saved
<1> QED BY <1>1 DEF Behind, Jobs

\* Whoever changes an object but lets its attempts and its cool-down be.
LEMMA SameObject ==
    ASSUME OnFile, NEW r \in LaterRetries, NEW s \in {"running", "stopped"},
           obj' = [obj EXCEPT ![r].status = s]
    PROVE  /\ obj' \in [LaterRetries -> Jobs]
           /\ \A q \in LaterRetries : obj'[q].cool = obj[q].cool /\ obj'[q].attempts = obj[q].attempts
BY DEF OnFile, Jobs

LEMMA ElapseOnFile == ASSUME OnFile, Again!Elapse PROVE OnFile'
<1> DEFINE Less(n) == IF n = 0 THEN 0 ELSE n - 1
<1>1. \A j \in Jobs : /\ Again!Left(j) \in Jobs /\ Again!Left(j).attempts = j.attempts
                      /\ Again!Left(j).cool \in {j.cool, Less(j.cool)}
                      /\ j # None => Again!Left(j).cool = Less(j.cool)
  BY DEF Again!Left, Jobs
<1>2. /\ obj' = [r \in LaterRetries |-> Again!Left(obj[r])] /\ UNCHANGED pc
      /\ disk'.obj = [r \in LaterRetries |-> Again!Left(disk.obj[r])]
  BY DEF Again!Elapse, Again!Threads
<1>3. ASSUME NEW r \in LaterRetries PROVE Behind(r)' /\ Clear(r)'
  <2>1. /\ obj[r] \in Jobs /\ obj[r].cool \in Nat /\ obj'[r] = Again!Left(obj[r])
        /\ disk'.obj[r] = Again!Left(disk.obj[r]) /\ Behind(r) /\ Clear(r)
    BY <1>2 DEF OnFile, Jobs
  <2>2. CASE disk.obj[r] = None
    BY <1>1, <1>2, <2>1, <2>2 DEF Behind, Clear, Again!Left
  <2>3. CASE disk.obj[r] # None
    <3>1. /\ disk.obj[r] \in Jobs /\ disk.obj[r].cool \in Nat
          /\ disk.obj[r].cool <= obj[r].cool /\ disk.obj[r].attempts <= obj[r].attempts
      BY <2>1, <2>3 DEF Behind, Jobs
    <3>2. /\ disk'.obj[r] \in Jobs /\ disk'.obj[r].cool = Less(disk.obj[r].cool)
          /\ disk'.obj[r].attempts = disk.obj[r].attempts
          /\ obj'[r].cool \in {obj[r].cool, Less(obj[r].cool)}
          /\ obj'[r].attempts = obj[r].attempts
      BY <1>1, <2>1, <2>3, <3>1
    <3>3. disk'.obj[r].cool <= obj'[r].cool
      BY <2>1, <3>1, <3>2
    <3> QED BY <1>2, <2>1, <3>1, <3>2, <3>3 DEF Behind, Clear
  <2> QED BY <2>2, <2>3
<1>4. obj' \in [LaterRetries -> Jobs]
  BY <1>1, <1>2 DEF OnFile
<1>5. DOMAIN fired' = Schedules /\ Recorded'
  BY DEF Again!Elapse, OnFile, Recorded
<1> QED BY <1>2, <1>3, <1>4, <1>5 DEF OnFile

LEMMA RestartOnFile == ASSUME OnFile, Again!Restart PROVE OnFile'
<1>1. /\ obj' = Again!Loaded(disk) /\ pc' = [r \in LaterRetries |-> "none"]
      /\ ran' = disk.ran /\ UNCHANGED <<disk, fired>>
  BY DEF Again!Restart
<1>2. Again!New \in Jobs
  BY DEF Again!New, Jobs
<1>3. \A r \in LaterRetries :
         /\ obj'[r] \in Jobs /\ (disk.obj[r] # None => obj'[r] = disk.obj[r])
  BY <1>1, <1>2 DEF Again!Loaded, OnFile, Behind
<1>4. obj' \in [LaterRetries -> Jobs]
  BY <1>1, <1>3 DEF Again!Loaded
<1>5. \A r \in LaterRetries : Behind(r)' /\ Clear(r)'
  BY <1>1, <1>3 DEF OnFile, Behind, Clear, Jobs
<1>6. DOMAIN fired' = Schedules /\ Recorded'
  BY <1>1 DEF OnFile, Recorded
<1> QED BY <1>1, <1>4, <1>5, <1>6 DEF OnFile

LEMMA ThreadOnFile ==
    ASSUME OnFile, NEW r \in LaterRetries, Again!Thread(r)
    PROVE  OnFile'
<1>0. /\ UNCHANGED <<ran, fired>> /\ DOMAIN pc' = LaterRetries
      /\ \A q \in LaterRetries \ {r} : pc'[q] = pc[q]
  BY DEF OnFile, Again!Thread, Again!Check, Again!Mark, Again!Call, Again!CallUnsaved,
         Again!Answer, Again!Record, Again!AnswerRaises, Again!Discard, Again!Leave,
         Again!Goes, Again!Else, Again!Calendar
<1>1. CASE Again!Check(r) \/ Again!CallUnsaved(r) \/ Again!AnswerRaises(r)
           \/ Again!Discard(r) \/ Again!Leave(r)
  <2>1. UNCHANGED <<obj, disk>>
    BY <1>1 DEF Again!Check, Again!CallUnsaved, Again!AnswerRaises, Again!Discard, Again!Leave
  <2>2. pc'[r] \in {"checked", "marked", "called"} =>
           obj[r].cool = 0 /\ obj[r].attempts < MaxAttempts
    BY <1>1 DEF Again!Check, Again!CallUnsaved, Again!AnswerRaises, Again!Discard, Again!Leave,
                Again!Goes, Again!Attemptable, OnFile
  <2> QED BY <1>0, <2>1, <2>2 DEF OnFile, Behind, Clear, Recorded
<1>2. CASE Again!Mark(r)
  <2>1. /\ pc[r] = "checked" /\ pc'[r] = "marked" /\ UNCHANGED disk
        /\ obj' = [obj EXCEPT ![r].status = "running"]
    BY <1>2 DEF Again!Mark, Again!Goes, OnFile
  <2>2. /\ obj' \in [LaterRetries -> Jobs]
        /\ \A q \in LaterRetries : obj'[q].cool = obj[q].cool /\ obj'[q].attempts = obj[q].attempts
    BY <2>1, SameObject
  <2> QED BY <1>0, <2>1, <2>2 DEF OnFile, Behind, Clear, Recorded
<1>3. CASE Again!Call(r) \/ Again!Record(r)
  <2>1. /\ UNCHANGED obj /\ disk' = Again!Saved(obj, retries', ran)
        /\ pc'[r] \in {"called", "ends"} /\ (pc'[r] = "called" => pc[r] = "marked")
    BY <1>3 DEF Again!Call, Again!Record, Again!Goes, OnFile
  <2>2. \A q \in LaterRetries : Behind(q)'
    BY <2>1, SavedBehind DEF OnFile
  <2>3. disk'.ran = ran
    BY <2>1 DEF Again!Saved
  <2> QED BY <1>0, <2>1, <2>2, <2>3 DEF OnFile, Clear, Recorded
<1>4. CASE Again!Answer(r)
  <2>1. PICK s \in {obj[r].status, "success", "failed"}, c \in {0, LaterBackoff} :
           obj' = [obj EXCEPT ![r] =
              [obj[r] EXCEPT !.status = s, !.cool = c, !.attempts = obj[r].attempts + 1]]
    BY <1>4 DEF Again!Answer
  <2>2. /\ pc[r] = "called" /\ pc'[r] = "answered" /\ UNCHANGED disk
    BY <1>4 DEF Again!Answer, Again!Goes, OnFile
  <2>3. obj[r] \in Jobs /\ c \in Nat
    BY JobConstants DEF OnFile
  <2> DEFINE j == [obj[r] EXCEPT !.status = s, !.cool = c, !.attempts = obj[r].attempts + 1]
  <2>4. j \in Jobs /\ j.cool = c /\ j.attempts = obj[r].attempts + 1
    <3>1. /\ DOMAIN obj[r] = {"enabled", "status", "attempts", "cool"}
          /\ obj[r].enabled \in BOOLEAN /\ obj[r].attempts + 1 \in Nat
          /\ obj[r].status \in {"idle", "running", "success", "stopped", "failed"}
      BY <2>3 DEF Jobs
    <3>2. s \in {"idle", "running", "success", "stopped", "failed"}
      BY <3>1
    <3>3. obj[r] \in [enabled: {obj[r].enabled}, status: {obj[r].status},
                       attempts: {obj[r].attempts}, cool: {obj[r].cool}]
      BY <2>3 DEF Jobs
    <3>4. j \in [enabled: {obj[r].enabled}, status: {s}, attempts: {obj[r].attempts + 1}, cool: {c}]
      BY <3>3
    <3> HIDE DEF j
    <3> QED BY <2>3, <3>1, <3>2, <3>4 DEF Jobs
  <2>5. /\ obj' = [obj EXCEPT ![r] = j] /\ obj \in [LaterRetries -> Jobs]
    BY <2>1 DEF OnFile
  <2> HIDE DEF j
  <2>8. /\ obj' \in [LaterRetries -> Jobs] /\ obj'[r].cool = c
        /\ obj'[r].attempts = obj[r].attempts + 1
        /\ \A q \in LaterRetries \ {r} : obj'[q] = obj[q]
    BY <2>4, <2>5
  \* The file was written when the attempt began: it has no cool-down.
  <2>6. disk.obj[r] = None \/ (disk.obj[r] \in Jobs /\ disk.obj[r].cool = 0
                               /\ disk.obj[r].attempts <= obj[r].attempts)
    BY <2>2, <2>3 DEF OnFile, Behind, Clear, Jobs
  <2>7. Behind(r)'
    BY <2>2, <2>3, <2>8, <2>6 DEF Behind, Jobs
  <2> QED BY <1>0, <2>2, <2>8, <2>7 DEF OnFile, Behind, Clear, Recorded
<1> QED BY <1>1, <1>2, <1>3, <1>4 DEF Again!Thread

LEMMA WindowOnFile == ASSUME OnFile, Again!Window PROVE OnFile'
<1>1. UNCHANGED obj
  BY DEF Again!Window, Again!Tick, Again!CheckSchedule, Again!ScheduleUnsaved, Again!Count,
         Again!Counted, Again!CountRaises, Again!Fire, Again!Pass, Again!TickEnds
<1>2. /\ DOMAIN pc' = LaterRetries
      /\ \A r \in LaterRetries : pc'[r] \in {pc[r], "started"}
  BY DEF OnFile, Again!Window, Again!Tick, Again!CheckSchedule, Again!ScheduleUnsaved,
         Again!Count, Again!Counted, Again!CountRaises, Again!Fire, Again!Pass,
         Again!TickEnds, Again!Threads
<1>3. CASE UNCHANGED disk /\ UNCHANGED fired /\ ran \subseteq ran'
  BY <1>1, <1>2, <1>3 DEF OnFile, Behind, Clear, Recorded
<1>4. CASE Again!CheckSchedule /\ Again!Due(Head(todo))
  <2> DEFINE s == Head(todo)
  <2>1. /\ s \notin ran /\ ran' = ran \cup {s} /\ disk' = Again!Saved(obj, retries, ran')
        /\ fired' = [fired EXCEPT ![s] = @ + 1]
    BY <1>4 DEF Again!CheckSchedule, Again!Due, Again!SavedRun
  <2> HIDE DEF s
  <2>2. \A r \in LaterRetries : Behind(r)'
    BY <1>1, <2>1, SavedBehind DEF OnFile
  <2>3. disk'.ran = ran'
    BY <2>1 DEF Again!Saved
  <2>4. DOMAIN fired' = Schedules /\ Recorded'
    BY <2>1, <2>3 DEF OnFile, Recorded
  <2> QED BY <1>1, <1>2, <2>2, <2>4 DEF OnFile, Clear
<1>5. CASE Again!CheckSchedule /\ ~Again!Due(Head(todo))
  BY <1>3, <1>5 DEF Again!CheckSchedule
<1> QED BY <1>3, <1>4, <1>5
        DEF Again!Window, Again!Tick, Again!ScheduleUnsaved, Again!Count, Again!Counted,
            Again!CountRaises, Again!Fire, Again!Pass, Again!TickEnds, Again!Calendar

LEMMA NextOnFile == ASSUME OnFile, [Again!Next]_runner PROVE OnFile'
<1>1. ASSUME NEW r \in LaterRetries, Again!Add(r) \/ Again!Delete(r) PROVE OnFile'
  <2>1. /\ UNCHANGED <<obj, pc, ran, fired>> /\ disk' = Again!Saved(obj, retries', ran)
    BY <1>1 DEF Again!Add, Again!Delete, Again!Threads, Again!Calendar
  <2>2. \A q \in LaterRetries : Behind(q)'
    BY <2>1, SavedBehind DEF OnFile
  <2>3. disk'.ran = ran
    BY <2>1 DEF Again!Saved
  <2> QED BY <2>1, <2>2, <2>3 DEF OnFile, Clear, Recorded
<1>2. ASSUME NEW r \in LaterRetries, Again!Stop(r) PROVE OnFile'
  <2>1. /\ obj' = [obj EXCEPT ![r].status = "stopped"] /\ UNCHANGED <<pc, ran, fired>>
        /\ disk' = Again!Saved(obj', retries, ran)
    BY <1>2 DEF Again!Stop, Again!Threads, Again!Calendar
  <2>2. /\ obj' \in [LaterRetries -> Jobs]
        /\ \A q \in LaterRetries : obj'[q].cool = obj[q].cool /\ obj'[q].attempts = obj[q].attempts
    BY <2>1, SameObject
  <2>3. \A q \in LaterRetries : Behind(q)'
    BY <2>1, <2>2, SavedBehind
  <2>4. disk'.ran = ran
    BY <2>1 DEF Again!Saved
  <2> QED BY <2>1, <2>2, <2>3, <2>4 DEF OnFile, Clear, Recorded
<1>3. ASSUME NEW s \in Schedules, Again!ScheduleEnds(s) PROVE OnFile'
  BY <1>3 DEF Again!ScheduleEnds, Again!Threads, OnFile, Behind, Clear, Recorded
<1>4. CASE UNCHANGED runner
  BY <1>4 DEF runner, OnFile, Behind, Clear, Recorded
<1> QED BY <1>1, <1>2, <1>3, <1>4, ElapseOnFile, RestartOnFile, ThreadOnFile, WindowOnFile
        DEF Again!Next

\* An attempt begins at the step from "marked" to "called", of one thread.
LEMMA CallCool == ASSUME OnFile, [Again!Next]_runner PROVE Again!CooldownKept
<1> SUFFICES ASSUME NEW r \in LaterRetries, pc[r] = "marked"
             PROVE  disk.obj[r] = None \/ (disk.obj[r].cool = 0 /\ disk.obj[r].attempts < MaxAttempts)
  BY DEF Again!CooldownKept
<1>1. obj[r].cool = 0 /\ obj[r].attempts < MaxAttempts /\ obj[r] \in Jobs /\ Behind(r)
  BY DEF OnFile, Clear
<1> QED BY <1>1, JobConstants DEF Behind, Jobs

------------------------------------------------------------------------------
(* What a restore leaves *)

\* What has been read of the archive: which item became which row.
ReadWell ==
    /\ archive \in Seq(Own!Item) /\ fresh \in Seq(ArchiveIds \cup {None})
    /\ Len(fresh) <= Len(archive) /\ user \in Users
    /\ \A i \in DOMAIN inserted :
          /\ i \in ArchiveIds \ restoredUnused /\ inserted[i] \in Own!Row
          /\ inserted[i].owner = user /\ \E n \in DOMAIN fresh : fresh[n] = i
    /\ \A n \in DOMAIN fresh : fresh[n] # None =>
          /\ fresh[n] \in DOMAIN inserted
          /\ inserted[fresh[n]].protected = archive[n].protected
          /\ inserted[fresh[n]].free = Own!FreeOnly(archive[n])
    /\ \A n, m \in DOMAIN fresh : fresh[n] # None /\ fresh[n] = fresh[m] => n = m

\* The two dictionaries by which the rows are linked.
Unlike == \A n, m \in DOMAIN archive : archive[n].id = archive[m].id => n = m
Noted ==
    /\ \A k \in DOMAIN idMap : idMap[k] \in DOMAIN inserted
    /\ \A m \in DOMAIN fresh : fresh[m] # None /\ archive[m].parent # None =>
          fresh[m] \in DOMAIN parentOf /\ parentOf[fresh[m]] = archive[m].parent
    /\ Unlike => \A n \in DOMAIN fresh : fresh[n] # None /\ archive[n].id # None =>
          archive[n].id \in DOMAIN idMap /\ idMap[archive[n].id] = fresh[n]

\* Every item that was read is a row or counted.
Tallied ==
    /\ IsFiniteSet(DOMAIN inserted) /\ skipped \in Nat
    /\ Cardinality(DOMAIN inserted) + skipped = Len(fresh)

\* The second pass was made over all of them.
Staged ==
    /\ step \in {"none", "reads", "linked", "told"} /\ (step = "none" => fresh = <<>>)
    /\ step \in {"linked", "told"} =>
          /\ Len(fresh) = Len(archive)
          /\ \A i \in DOMAIN inserted : inserted[i].parent = Own!Parent(i)

\* A row that was there before hangs off a primary row that was; a row that came with the
\* archive hangs off another that did, and if that one is primary they go together.
Kin(i, S) ==
    restoredRow[i].parent # None =>
       LET p == restoredRow[i].parent IN
       /\ p \in S /\ restoredRow[p].owner = restoredRow[i].owner
       /\ restoredRow[p].parent = None
Table ==
    /\ restoredRow \in [ArchiveIds -> Own!Row \cup {None}] /\ restoredUnused \subseteq ArchiveIds
    /\ Own!Here \cap restoredUnused = {}
    /\ step # "told" => Own!Here \cap DOMAIN inserted = {}
    /\ \A i \in Own!Here \ DOMAIN inserted : Kin(i, Own!Here \ DOMAIN inserted)
    /\ \A i \in Own!Here \cap DOMAIN inserted :
          /\ restoredRow[i] = inserted[i]
          /\ inserted[i].parent # None /\ ~Own!Chained(i) => inserted[i].parent \in Own!Here

Restoring == ReadWell /\ Noted /\ Tallied /\ Staged /\ Table

LEMMA RowConstants ==
    /\ IsFiniteSet(ArchiveIds) /\ FirstRows \subseteq ArchiveIds
    /\ None \notin ArchiveIds /\ None \notin Own!Row /\ Foreign \subseteq Seq(Own!Item)
    /\ \A S : Own!Cardinality(S) = Cardinality(S)
<1>1. Own!RestoreAssumption /\ Other!RestoreAssumption
  BY PartsAssumption
<1>2. Other!Item = Own!Item
  BY DEF Other!Item, Own!Item
<1>3. /\ Own!IsFiniteSet(ArchiveIds) /\ FirstRows \subseteq ArchiveIds
      /\ None \notin ArchiveIds /\ None \notin Own!Row
  BY <1>1 DEF Own!RestoreAssumption
<1>4. Foreign \subseteq Seq(Own!Item)
  BY <1>1, <1>2 DEF Other!RestoreAssumption
<1>5. \A S : Own!Cardinality(S) = Cardinality(S)
  BY DEF Own!Cardinality, Cardinality, Own!IsFiniteSet, IsFiniteSet
<1>6. Own!IsFiniteSet(ArchiveIds) <=> IsFiniteSet(ArchiveIds)
  BY DEF Own!IsFiniteSet, IsFiniteSet
<1> QED BY <1>3, <1>4, <1>5, <1>6

\* Nothing has been read yet, and the families are proper.
LEMMA NothingRead ==
    ASSUME archive = <<>>, user \in Users, inserted = <<>>, fresh = <<>>, idMap = <<>>,
           parentOf = <<>>, skipped = 0, step = "none"
    PROVE  ReadWell /\ Noted /\ Tallied /\ Staged
<1>1. DOMAIN inserted = {} /\ DOMAIN fresh = {} /\ DOMAIN idMap = {} /\ Len(fresh) = 0
      /\ Len(archive) = 0 /\ archive \in Seq(Own!Item) /\ fresh \in Seq(ArchiveIds \cup {None})
  OBVIOUS
<1>2. IsFiniteSet({}) /\ Cardinality({}) = 0
  BY FS_EmptySet
<1> QED BY <1>1, <1>2 DEF ReadWell, Noted, Tallied, Staged

LEMMA InitOwn == Own!Init => Restoring
<1> SUFFICES ASSUME Own!Init PROVE Restoring
  OBVIOUS
<1>1. ReadWell /\ Noted /\ Tallied /\ Staged
  BY NothingRead DEF Own!Init
<1>2. /\ restoredRow \in [ArchiveIds -> Own!Row \cup {None}]
      /\ restoredUnused = ArchiveIds \ FirstRows
      /\ \A i \in ArchiveIds \ FirstRows : restoredRow[i] = None
      /\ DOMAIN inserted = {}
  BY RowConstants DEF Own!Init
<1>3. Own!Proper(restoredRow)
  BY DEF Own!Init
<1>4. \A i \in Own!Here : Kin(i, Own!Here)
  <2> SUFFICES ASSUME NEW i \in Own!Here, restoredRow[i].parent # None
               PROVE  LET p == restoredRow[i].parent IN
                      /\ p \in Own!Here /\ restoredRow[p].owner = restoredRow[i].owner
                      /\ restoredRow[p].parent = None
    BY DEF Kin
  <2>1. i \in ArchiveIds /\ restoredRow[i] \in Own!Row
    BY <1>2 DEF Own!Here
  <2>2. restoredRow[i].parent \in ArchiveIds
    BY <2>1 DEF Own!Row
  <2> QED BY <1>3, <2>1, <2>2 DEF Own!Proper, Own!Here
<1> QED BY <1>1, <1>2, <1>4 DEF Restoring, Table, Own!Here

LEMMA InitOther == Other!Init => Restoring
<1> SUFFICES ASSUME Other!Init PROVE Restoring
  OBVIOUS
<1>1. ReadWell /\ Noted /\ Tallied /\ Staged
  BY NothingRead DEF Other!Init
<1>2. /\ restoredRow = [i \in ArchiveIds |-> None] /\ restoredUnused = ArchiveIds
      /\ DOMAIN inserted = {}
  BY DEF Other!Init
<1>3. Own!Here = {}
  BY <1>2 DEF Own!Here
<1> QED BY <1>1, <1>2, <1>3 DEF Restoring, Table

LEMMA NewArchive ==
    ASSUME Restoring, step = "none", archive' \in Seq(Own!Item), user' \in Users,
           UNCHANGED <<restoredRow, restoredUnused, step, inserted, fresh, idMap, parentOf, skipped>>
    PROVE  Restoring'
<1>0. fresh = <<>> /\ DOMAIN fresh = {}
  BY DEF Restoring, Staged
<1>1. fresh = <<>> /\ DOMAIN inserted = {} /\ DOMAIN idMap = {}
  <2>1. DOMAIN inserted = {}
    BY <1>0 DEF Restoring, ReadWell
  <2> QED BY <1>0, <2>1 DEF Restoring, Noted
<1>2. fresh' = <<>> /\ DOMAIN fresh' = {} /\ Len(fresh') = 0 /\ Len(archive') \in Nat
  BY <1>1
<1>3. ReadWell'
  BY <1>1, <1>2 DEF Restoring, ReadWell
<1>4. Noted' /\ Tallied' /\ Staged'
  BY <1>1, <1>2 DEF Restoring, Noted, Tallied, Staged
<1>5. Table'
  BY <1>1 DEF Restoring, Table, Own!Here, Kin
<1> QED BY <1>3, <1>4, <1>5 DEF Restoring

LEMMA ExportKept == ASSUME Restoring, NEW u \in Users, Own!Export(u) PROVE Restoring'
<1> DEFINE S == Own!Owned(u) \ {i \in Own!Owned(u) : restoredRow[i].key = "lost"}
<1>1. PICK order \in Own!SetToSeqs(S) : archive' = [n \in DOMAIN order |-> Own!ItemOf(order[n])]
  BY DEF Own!Export
<1>2. S \subseteq Own!Here /\ S \subseteq ArchiveIds
  BY DEF Own!Owned, Own!Here
<1>3. IsFiniteSet(S)
  BY <1>2, RowConstants, FS_Subset
<1> HIDE DEF S
<1>4. Own!Cardinality(S) \in Nat
  BY <1>3, RowConstants, FS_CardinalityType
<1>5. order \in [1..Own!Cardinality(S) -> S]
  BY <1>1 DEF Own!SetToSeqs
<1>6. \A i \in S : Own!ItemOf(i) \in Own!Item
  <2> SUFFICES ASSUME NEW i \in S PROVE Own!ItemOf(i) \in Own!Item
    OBVIOUS
  <2>1. i \in ArchiveIds /\ restoredRow[i] \in Own!Row
    BY <1>2 DEF Own!Here, Restoring, Table
  <2> QED BY <2>1 DEF Own!ItemOf, Own!Item, Own!Row
<1>7. archive' \in [1..Own!Cardinality(S) -> Own!Item]
  BY <1>1, <1>5, <1>6
<1>8. archive' \in Seq(Own!Item)
  BY <1>4, <1>7
<1>9. /\ step = "none" /\ user' = u
      /\ UNCHANGED <<restoredRow, restoredUnused, step, inserted, fresh, idMap, parentOf, skipped>>
  BY DEF Own!Export
<1> QED BY <1>8, <1>9, NewArchive

LEMMA UploadKept == ASSUME Restoring, NEW a \in Foreign, Other!Upload(a) PROVE Restoring'
<1>1. /\ step = "none" /\ archive' = a /\ UNCHANGED <<restoredRow, restoredUnused>>
      /\ UNCHANGED <<step, user, inserted, fresh, idMap, parentOf, skipped>>
  BY DEF Other!Upload, Other!Import
<1>2. archive' \in Seq(Own!Item) /\ user' \in Users
  BY <1>1, RowConstants DEF Restoring, ReadWell
<1> QED BY <1>1, <1>2, NewArchive

\* A restore begins, or is undone.
LEMMA AfreshKept ==
    ASSUME Restoring, Own!Crash \/ \E u \in Users : Own!Begin(u)
    PROVE  Restoring'
<1>1. /\ step # "told" /\ step' \in {"none", "reads"} /\ user' \in Users
      /\ UNCHANGED <<restoredRow, restoredUnused, archive>>
      /\ inserted' = <<>> /\ fresh' = <<>> /\ idMap' = <<>> /\ parentOf' = <<>> /\ skipped' = 0
  BY DEF Own!Crash, Own!Begin, Restoring, ReadWell
<1>2. /\ DOMAIN inserted' = {} /\ DOMAIN fresh' = {} /\ DOMAIN idMap' = {} /\ Len(fresh') = 0
      /\ Len(archive) \in Nat /\ fresh' \in Seq(ArchiveIds \cup {None})
  BY <1>1 DEF Restoring, ReadWell
<1>3. ReadWell'
  BY <1>1, <1>2 DEF Restoring, ReadWell
<1>4. IsFiniteSet({}) /\ Cardinality({}) = 0
  BY FS_EmptySet
<1>5. Tallied'
  BY <1>1, <1>2, <1>4 DEF Tallied
<1>6. Noted' /\ Staged'
  BY <1>1, <1>2 DEF Noted, Staged
<1>7. Own!Here \ DOMAIN inserted = Own!Here /\ Own!Here' = Own!Here
  BY <1>1 DEF Restoring, Table, Own!Here
<1>8. Own!Here' \ DOMAIN inserted' = Own!Here \ DOMAIN inserted /\ Own!Here' \cap DOMAIN inserted' = {}
  BY <1>2, <1>7
<1>9. Table'
  BY <1>1, <1>7, <1>8 DEF Restoring, Table, Kin
<1> QED BY <1>3, <1>5, <1>6, <1>9 DEF Restoring

\* An item gives no row: it is no good, or the database refuses it.
LEMMA SkipKept == ASSUME Restoring, Own!NoGood \/ Own!Refused PROVE Restoring'
<1>1. /\ step = "reads" /\ Len(fresh) + 1 <= Len(archive)
      /\ skipped' = skipped + 1 /\ fresh' = Append(fresh, None)
      /\ UNCHANGED <<restoredRow, restoredUnused, archive, step, user, inserted, idMap, parentOf>>
  BY DEF Own!NoGood, Own!Refused, Own!At, Own!Skip, Own!Next1
<1>2. /\ fresh' \in Seq(ArchiveIds \cup {None}) /\ Len(fresh') = Len(fresh) + 1
      /\ Len(fresh) \in Nat /\ fresh'[Len(fresh) + 1] = None
      /\ DOMAIN fresh' = DOMAIN fresh \cup {Len(fresh) + 1}
      /\ \A n \in DOMAIN fresh : fresh'[n] = fresh[n]
  BY <1>1 DEF Restoring, ReadWell
<1>3. ReadWell'
  BY <1>1, <1>2 DEF Restoring, ReadWell, Own!FreeOnly
<1>4. Noted'
  BY <1>1, <1>2 DEF Restoring, Noted, Unlike
<1>5. Tallied'
  <2>1. Cardinality(DOMAIN inserted) \in Nat
    BY FS_CardinalityType DEF Restoring, Tallied
  <2> QED BY <1>1, <1>2, <2>1 DEF Restoring, Tallied
<1>6. Staged'
  BY <1>1 DEF Staged
<1>7. Table'
  BY <1>1 DEF Restoring, Table, Own!Here, Kin, Own!Chained
<1> QED BY <1>3, <1>4, <1>5, <1>6, <1>7 DEF Restoring

\* An item becomes a row of the open transaction.
LEMMA InsertKept == ASSUME Restoring, Own!Insert PROVE Restoring'
<1> DEFINE n0 == Len(fresh) + 1
           item == archive[n0]
<1>1. /\ step = "reads" /\ n0 <= Len(archive)
      /\ UNCHANGED <<restoredRow, archive, step, user, skipped>>
  BY DEF Own!Insert, Own!At, Own!Next1
<1>2. PICK i \in restoredUnused :
         /\ inserted' = Own!With(inserted, i, Own!NewRow(item))
         /\ restoredUnused' = restoredUnused \ {i} /\ fresh' = Append(fresh, i)
         /\ idMap' = IF item.id # None THEN Own!With(idMap, item.id, i) ELSE idMap
         /\ parentOf' = IF item.parent # None THEN Own!With(parentOf, i, item.parent) ELSE parentOf
  BY DEF Own!Insert, Own!Next1
<1>3. /\ i \in ArchiveIds /\ i # None /\ i \notin DOMAIN inserted /\ i \notin Own!Here
      /\ Len(fresh) \in Nat /\ n0 \in DOMAIN archive /\ item \in Own!Item
      /\ \A n \in DOMAIN fresh : fresh[n] # i
  BY <1>1, RowConstants DEF Restoring, ReadWell, Table
<1>4. /\ fresh' \in Seq(ArchiveIds \cup {None}) /\ Len(fresh') = n0 /\ fresh'[n0] = i
      /\ DOMAIN fresh' = DOMAIN fresh \cup {n0} /\ n0 \notin DOMAIN fresh
      /\ \A n \in DOMAIN fresh : fresh'[n] = fresh[n]
  BY <1>2, <1>3 DEF Restoring, ReadWell
<1>5. /\ Own!NewRow(item) \in Own!Row /\ Own!NewRow(item).owner = user
      /\ Own!NewRow(item).protected = item.protected /\ Own!NewRow(item).free = Own!FreeOnly(item)
  BY <1>3 DEF Own!NewRow, Own!Row, Own!Item, Own!FreeOnly, Restoring, ReadWell
<1>6. /\ DOMAIN inserted' = DOMAIN inserted \cup {i} /\ inserted'[i] = Own!NewRow(item)
      /\ \A j \in DOMAIN inserted : inserted'[j] = inserted[j]
  BY <1>2, <1>3 DEF Own!With
<1> HIDE DEF n0, item
<1>7. ReadWell'
  <2>1. \A j \in DOMAIN inserted' :
           /\ j \in ArchiveIds \ restoredUnused' /\ inserted'[j] \in Own!Row
           /\ inserted'[j].owner = user /\ \E n \in DOMAIN fresh' : fresh'[n] = j
    BY <1>2, <1>3, <1>4, <1>5, <1>6 DEF Restoring, ReadWell
  <2>2. \A n \in DOMAIN fresh' : fresh'[n] # None =>
           /\ fresh'[n] \in DOMAIN inserted'
           /\ inserted'[fresh'[n]].protected = archive[n].protected
           /\ inserted'[fresh'[n]].free = Own!FreeOnly(archive[n])
    BY <1>4, <1>5, <1>6 DEF Restoring, ReadWell, item
  <2>3. \A n, m \in DOMAIN fresh' : fresh'[n] # None /\ fresh'[n] = fresh'[m] => n = m
    BY <1>3, <1>4 DEF Restoring, ReadWell
  <2> QED BY <1>1, <1>4, <2>1, <2>2, <2>3 DEF Restoring, ReadWell, Own!FreeOnly, n0
<1>8. Noted'
  <2>1. \A k \in DOMAIN idMap' : idMap'[k] \in DOMAIN inserted'
    BY <1>2, <1>6 DEF Restoring, Noted, Own!With
  <2>2. ASSUME NEW m \in DOMAIN fresh', fresh'[m] # None, archive[m].parent # None
        PROVE  fresh'[m] \in DOMAIN parentOf' /\ parentOf'[fresh'[m]] = archive[m].parent
    <3>1. CASE m = n0
      BY <1>2, <1>4, <2>2, <3>1 DEF Own!With, item
    <3>2. CASE m # n0
      BY <1>2, <1>3, <1>4, <2>2, <3>2 DEF Restoring, Noted, Own!With
    <3> QED BY <3>1, <3>2
  <2>3. ASSUME Unlike, NEW n \in DOMAIN fresh', fresh'[n] # None, archive[n].id # None
        PROVE  archive[n].id \in DOMAIN idMap' /\ idMap'[archive[n].id] = fresh'[n]
    <3>1. CASE n = n0
      BY <1>2, <1>4, <2>3, <3>1 DEF Own!With, item
    <3>2. CASE n # n0
      <4>1. n \in DOMAIN fresh /\ n \in DOMAIN archive /\ n0 \in DOMAIN archive
        BY <1>3, <1>4, <3>2 DEF Restoring, ReadWell
      <4>2. archive[n].id # item.id
        BY <2>3, <3>2, <4>1 DEF Unlike, item
      <4> QED BY <1>2, <1>4, <2>3, <4>1, <4>2 DEF Restoring, Noted, Own!With
    <3> QED BY <3>1, <3>2
  <2> QED BY <1>1, <2>1, <2>2, <2>3 DEF Noted, Unlike
<1>9. Tallied'
  <2>1. IsFiniteSet(DOMAIN inserted') /\ Cardinality(DOMAIN inserted') = Cardinality(DOMAIN inserted) + 1
    BY <1>3, <1>6, FS_AddElement DEF Restoring, Tallied
  <2>2. Cardinality(DOMAIN inserted) \in Nat
    BY FS_CardinalityType DEF Restoring, Tallied
  <2> QED BY <1>1, <1>3, <1>4, <2>1, <2>2 DEF Restoring, Tallied, n0
<1>10. Staged'
  BY <1>1 DEF Staged
<1>11. Table'
  <2>1. Own!Here' = Own!Here /\ Own!Here \cap DOMAIN inserted = {}
    BY <1>1 DEF Own!Here, Restoring, Table
  <2>2. Own!Here \ DOMAIN inserted' = Own!Here /\ Own!Here \cap DOMAIN inserted' = {}
    BY <1>3, <1>6, <2>1
  <2>3. Own!Here \ DOMAIN inserted = Own!Here
    BY <2>1
  <2>4. \A j \in Own!Here : Kin(j, Own!Here)'
    BY <1>1, <2>1, <2>3 DEF Kin, Restoring, Table
  <2> QED BY <1>1, <1>2, <2>1, <2>2, <2>4 DEF Restoring, Table, Kin
<1> QED BY <1>7, <1>8, <1>9, <1>10, <1>11 DEF Restoring

\* The second pass.
LEMMA LinkKept == ASSUME Restoring, Own!Link PROVE Restoring'
<1>1. /\ step = "reads" /\ step' = "linked" /\ Len(fresh) = Len(archive)
      /\ inserted' = [i \in DOMAIN inserted |-> [inserted[i] EXCEPT !.parent = Own!Parent(i)]]
      /\ UNCHANGED <<restoredRow, restoredUnused, archive, user, fresh, idMap, parentOf, skipped>>
  BY DEF Own!Link
<1>2. \A i \in DOMAIN inserted : inserted[i] \in Own!Row /\ Own!Parent(i) \in ArchiveIds \cup {None}
  BY DEF Restoring, ReadWell, Noted, Own!Parent
<1>3. DOMAIN inserted' = DOMAIN inserted
  BY <1>1
<1>4. \A i \in DOMAIN inserted :
         /\ inserted'[i] \in Own!Row /\ inserted'[i].parent = Own!Parent(i)
         /\ inserted'[i].owner = inserted[i].owner /\ inserted'[i].free = inserted[i].free
         /\ inserted'[i].protected = inserted[i].protected
  BY <1>1, <1>2 DEF Own!Row
<1>5. ReadWell'
  <2>1. \A i \in DOMAIN inserted' :
           /\ i \in ArchiveIds \ restoredUnused' /\ inserted'[i] \in Own!Row
           /\ inserted'[i].owner = user' /\ \E n \in DOMAIN fresh' : fresh'[n] = i
    BY <1>1, <1>3, <1>4 DEF Restoring, ReadWell
  <2>2. \A n \in DOMAIN fresh' : fresh'[n] # None =>
           /\ fresh'[n] \in DOMAIN inserted'
           /\ inserted'[fresh'[n]].protected = archive'[n].protected
           /\ inserted'[fresh'[n]].free = Own!FreeOnly(archive'[n])
    BY <1>1, <1>3, <1>4 DEF Restoring, ReadWell
  <2>3. \A n, m \in DOMAIN fresh' : fresh'[n] # None /\ fresh'[n] = fresh'[m] => n = m
    BY <1>1 DEF Restoring, ReadWell
  <2> QED BY <1>1, <2>1, <2>2, <2>3 DEF Restoring, ReadWell
<1>6. Noted' /\ Tallied'
  BY <1>1, <1>3 DEF Restoring, Noted, Unlike, Tallied
<1>7. \A i : Own!Parent(i)' = Own!Parent(i)
  BY <1>1 DEF Own!Parent
<1>8. Staged'
  BY <1>1, <1>3, <1>4, <1>7 DEF Staged
<1>9. Table'
  <2>1. Own!Here' = Own!Here /\ Own!Here \cap DOMAIN inserted = {}
    BY <1>1 DEF Own!Here, Restoring, Table
  <2>2. Own!Here \ DOMAIN inserted = Own!Here /\ Own!Here \ DOMAIN inserted' = Own!Here
    BY <1>3, <2>1
  <2>3. \A j \in Own!Here : Kin(j, Own!Here)'
    BY <1>1, <2>1, <2>2 DEF Kin, Restoring, Table
  <2> QED BY <1>1, <1>3, <2>1, <2>2, <2>3 DEF Restoring, Table, Kin
<1> QED BY <1>5, <1>6, <1>8, <1>9 DEF Restoring

\* The commit.
LEMMA CommitKept == ASSUME Restoring, Own!Commit PROVE Restoring'
<1>1. /\ step = "linked" /\ step' = "told"
      /\ restoredRow' = [i \in ArchiveIds |-> IF i \in DOMAIN inserted THEN inserted[i] ELSE restoredRow[i]]
      /\ UNCHANGED <<restoredUnused, archive, user, inserted, fresh, idMap, parentOf, skipped>>
  BY DEF Own!Commit
<1>2. ReadWell' /\ Noted' /\ Tallied'
  BY <1>1 DEF Restoring, ReadWell, Noted, Unlike, Tallied, Own!FreeOnly
<1>3. \A i : Own!Parent(i)' = Own!Parent(i)
  BY <1>1 DEF Own!Parent
<1>4. Staged'
  BY <1>1, <1>3 DEF Restoring, Staged
<1>5. \A i \in DOMAIN inserted :
         /\ i \in ArchiveIds \ restoredUnused /\ inserted[i] \in Own!Row /\ inserted[i] # None
  BY RowConstants DEF Restoring, ReadWell
<1>6. /\ Own!Here \cap DOMAIN inserted = {} /\ Own!Here' = Own!Here \cup DOMAIN inserted
      /\ Own!Here' \ DOMAIN inserted = Own!Here
  BY <1>1, <1>5 DEF Own!Here, Restoring, Table
<1>7. restoredRow' \in [ArchiveIds -> Own!Row \cup {None}]
  BY <1>1, <1>5 DEF Restoring, Table
<1>8. ASSUME NEW i \in Own!Here PROVE Kin(i, Own!Here)'
  <2>1. Own!Here \ DOMAIN inserted = Own!Here /\ Own!Here \subseteq ArchiveIds
    BY <1>6 DEF Own!Here
  <2>2. Kin(i, Own!Here)
    BY <2>1 DEF Restoring, Table
  <2>3. \A j \in Own!Here : restoredRow'[j] = restoredRow[j]
    BY <1>1, <1>6, <2>1
  <2>4. Own!Here \subseteq Own!Here'
    BY <1>6
  <2> QED BY <1>6, <2>2, <2>3 DEF Kin
<1>9. ASSUME NEW i \in DOMAIN inserted
      PROVE  /\ restoredRow'[i] = inserted[i]
             /\ inserted[i].parent # None => inserted[i].parent \in Own!Here'
  <2>1. inserted[i].parent = Own!Parent(i)
    BY <1>1 DEF Restoring, Staged
  <2>2. Own!Parent(i) # None => Own!Parent(i) \in DOMAIN inserted
    BY DEF Own!Parent, Restoring, Noted
  <2> QED BY <1>1, <1>5, <1>6, <2>1, <2>2
<1>10. \A i \in Own!Here' \ DOMAIN inserted' : Kin(i, Own!Here \ DOMAIN inserted)'
  <2>1. DOMAIN inserted' = DOMAIN inserted
    BY <1>1
  <2>2. (Own!Here \ DOMAIN inserted)' = Own!Here /\ Own!Here' \ DOMAIN inserted' = Own!Here
    BY <1>6, <2>1
  <2>3. \A i \in Own!Here : restoredRow'[i].parent # None =>
           LET p == restoredRow'[i].parent IN
           /\ p \in Own!Here' \ DOMAIN inserted' /\ restoredRow'[p].owner = restoredRow'[i].owner
           /\ restoredRow'[p].parent = None
    <3>1. ASSUME NEW i \in Own!Here PROVE Kin(i, Own!Here) /\ restoredRow'[i] = restoredRow[i]
      BY <1>1, <1>6 DEF Restoring, Table, Own!Here
    <3> QED BY <2>2, <3>1 DEF Kin
  <2> QED BY <2>2, <2>3 DEF Kin
<1>11. Own!Here' \cap restoredUnused' = {}
  BY <1>1, <1>5, <1>6 DEF Restoring, Table
<1>12. Table'
  BY <1>1, <1>7, <1>9, <1>10, <1>11 DEF Restoring, Table
<1> QED BY <1>2, <1>4, <1>12 DEF Restoring

\* A row is deleted, with those that hang off it.
LEMMA DeleteKept == ASSUME Restoring, NEW i \in ArchiveIds, Own!Delete(i) PROVE Restoring'
<1> DEFINE Gone(j) == j = i \/ restoredRow[j].parent = i
<1>1. /\ i \in Own!Here /\ step \in {"none", "told"}
      /\ restoredRow' = [j \in ArchiveIds |-> IF j = i \/ (restoredRow[j] # None /\ restoredRow[j].parent = i)
                                              THEN None ELSE restoredRow[j]]
      /\ UNCHANGED <<restoredUnused, archive, step, user, inserted, fresh, idMap, parentOf, skipped>>
  BY DEF Own!Delete, Own!Import
<1>2. ReadWell' /\ Noted' /\ Tallied' /\ Staged'
  BY <1>1 DEF Restoring, ReadWell, Noted, Unlike, Tallied, Staged, Own!FreeOnly, Own!Parent
<1>3. \A j : j \in Own!Here' <=> j \in Own!Here /\ ~Gone(j)
  BY <1>1 DEF Own!Here
<1>4. \A j \in Own!Here' : restoredRow'[j] = restoredRow[j]
  BY <1>1, <1>3 DEF Own!Here
<1>5. i # None /\ i \in ArchiveIds
  BY RowConstants
<1> HIDE DEF Gone
<1>6. restoredRow' \in [ArchiveIds -> Own!Row \cup {None}]
  BY <1>1 DEF Restoring, Table
<1>7. ASSUME NEW j \in Own!Here' \ DOMAIN inserted, restoredRow'[j].parent # None
      PROVE  LET p == restoredRow'[j].parent IN
             /\ p \in Own!Here' \ DOMAIN inserted /\ restoredRow'[p].owner = restoredRow'[j].owner
             /\ restoredRow'[p].parent = None
  <2> DEFINE p == restoredRow[j].parent
  <2>1. j \in Own!Here \ DOMAIN inserted /\ ~Gone(j) /\ restoredRow'[j] = restoredRow[j]
    BY <1>3, <1>4
  <2>2. /\ p \in Own!Here \ DOMAIN inserted /\ restoredRow[p].owner = restoredRow[j].owner
        /\ restoredRow[p].parent = None
    BY <1>7, <2>1 DEF Restoring, Table, Kin
  <2>3. ~Gone(p)
    BY <1>5, <2>1, <2>2 DEF Gone
  <2> QED BY <1>3, <1>4, <2>1, <2>2, <2>3
<1>8. ASSUME NEW j \in Own!Here' \cap DOMAIN inserted
      PROVE  /\ restoredRow'[j] = inserted[j]
             /\ inserted[j].parent # None /\ ~Own!Chained(j) => inserted[j].parent \in Own!Here'
  <2>1. j \in Own!Here /\ ~Gone(j) /\ restoredRow'[j] = restoredRow[j] /\ restoredRow[j] = inserted[j]
    BY <1>3, <1>4 DEF Restoring, Table
  <2> SUFFICES ASSUME inserted[j].parent # None, ~Own!Chained(j)
               PROVE  inserted[j].parent \in Own!Here'
    BY <2>1
  <2> DEFINE p == inserted[j].parent
  <2>2. p \in Own!Here
    BY <2>1 DEF Restoring, Table
  <2>3. step = "told"
    BY <1>1, <2>1 DEF Restoring, Table
  <2>4. p \in DOMAIN inserted
    <3>1. p = Own!Parent(j)
      BY <2>3 DEF Restoring, Staged
    <3> QED BY <3>1 DEF Own!Parent, Restoring, Noted
  <2>5. inserted[p].parent = None
    BY <2>4 DEF Own!Chained
  <2>6. restoredRow[p] = inserted[p]
    BY <2>2, <2>4 DEF Restoring, Table
  <2>7. ~Gone(p)
    BY <1>5, <2>1, <2>5, <2>6 DEF Gone
  <2> QED BY <1>3, <2>2, <2>7
<1>9. DOMAIN inserted' = DOMAIN inserted /\ \A j : Own!Chained(j)' <=> Own!Chained(j)
  BY <1>1 DEF Own!Chained
<1>10. \A j \in Own!Here' \ DOMAIN inserted' : Kin(j, Own!Here \ DOMAIN inserted)'
  BY <1>7, <1>9 DEF Kin
<1>11. Own!Here' \cap restoredUnused' = {} /\ (step' # "told" => Own!Here' \cap DOMAIN inserted' = {})
  BY <1>1, <1>3, <1>9 DEF Restoring, Table
<1>12. \A j \in Own!Here' \cap DOMAIN inserted' :
         /\ restoredRow'[j] = inserted'[j]
         /\ inserted'[j].parent # None /\ ~Own!Chained(j)' => inserted'[j].parent \in Own!Here'
  BY <1>1, <1>8, <1>9
<1>13. Table'
  BY <1>1, <1>6, <1>10, <1>11, <1>12 DEF Restoring, Table
<1> QED BY <1>2, <1>13 DEF Restoring

\* An archive of any make is read by the same code as one of this panel.
LEMMA SameMoves == ASSUME Other!Next PROVE Own!Next \/ \E a \in Foreign : Other!Upload(a)
<1>1. ASSUME NEW u \in Users, Other!Export(u) PROVE Own!Export(u)
  BY <1>1 DEF Other!Export, Own!Export, Other!Owned, Own!Owned, Other!Here, Own!Here,
              Other!SetToSeqs, Own!SetToSeqs, Other!Cardinality, Own!Cardinality,
              Other!IsFiniteSet, Own!IsFiniteSet, Other!ItemOf, Own!ItemOf, Other!Named, Own!Named
<1>2. ASSUME NEW u \in Users, Other!Begin(u) PROVE Own!Begin(u)
  BY <1>2 DEF Other!Begin, Own!Begin
<1>3. ASSUME NEW i \in ArchiveIds, Other!Delete(i) PROVE Own!Delete(i)
  BY <1>3 DEF Other!Delete, Own!Delete, Other!Here, Own!Here, Other!Import, Own!Import
<1>4. (Other!NoGood => Own!NoGood) /\ (Other!Refused => Own!Refused)
  BY DEF Other!NoGood, Own!NoGood, Other!Refused, Own!Refused, Other!At, Own!At, Other!Next1,
         Own!Next1, Other!Skip, Own!Skip
<1>5. Other!Insert => Own!Insert
  BY DEF Other!Insert, Own!Insert, Other!At, Own!At, Other!Next1, Own!Next1, Other!With,
         Own!With, Other!NewRow, Own!NewRow, Other!FreeOnly, Own!FreeOnly
<1>6. (Other!Link => Own!Link) /\ (Other!Commit => Own!Commit) /\ (Other!Crash => Own!Crash)
  BY DEF Other!Link, Own!Link, Other!Parent, Own!Parent, Other!Commit, Own!Commit, Other!Crash,
         Own!Crash
<1> QED BY <1>1, <1>2, <1>3, <1>4, <1>5, <1>6 DEF Other!Next, Own!Next

LEMMA NextRestoring ==
    ASSUME Restoring, [Own!Next \/ \E a \in Foreign : Other!Upload(a)]_restored
    PROVE  Restoring'
<1>1. CASE UNCHANGED restored
  BY <1>1 DEF restored, Restoring, ReadWell, Noted, Unlike, Tallied, Staged, Table, Kin,
              Own!Here, Own!Chained, Own!FreeOnly, Own!Parent
<1>2. CASE Own!Next
  <2>1. ~\E a \in {} : Own!Upload(a)
    OBVIOUS
  <2> QED BY <1>2, <2>1, ExportKept, AfreshKept, SkipKept, InsertKept, LinkKept, CommitKept,
             DeleteKept DEF Own!Next
<1> QED BY <1>1, <1>2, UploadKept

LEMMA RestoringHolds ==
    ASSUME Restoring
    PROVE  Own!Faithful /\ Other!Accounted /\ Other!LinksStay /\ Other!StaysGuarded
<1>1. \A n \in DOMAIN fresh : n \in DOMAIN archive /\ archive[n] \in Own!Item
  BY DEF Restoring, ReadWell
<1>2. Own!Faithful
  <2> SUFFICES ASSUME step = "linked", Unlike, NEW n \in DOMAIN archive, NEW m \in DOMAIN archive,
                      fresh[n] # None, fresh[m] # None, m # n, archive[n].id # None,
                      archive[m].parent = archive[n].id
               PROVE  inserted[fresh[m]].parent = fresh[n]
    BY DEF Own!Faithful, Unlike
  <2>1. n \in DOMAIN fresh /\ m \in DOMAIN fresh
    BY DEF Restoring, ReadWell, Staged
  <2>2. fresh[m] \in DOMAIN inserted /\ fresh[m] # fresh[n]
    BY <2>1 DEF Restoring, ReadWell
  <2>3. inserted[fresh[m]].parent = Own!Parent(fresh[m])
    BY <2>2 DEF Restoring, Staged
  <2>4. fresh[m] \in DOMAIN parentOf /\ parentOf[fresh[m]] = archive[n].id
    BY <2>1 DEF Restoring, Noted
  <2>5. archive[n].id \in DOMAIN idMap /\ idMap[archive[n].id] = fresh[n]
    <3>1. Unlike => \A k \in DOMAIN fresh : fresh[k] # None /\ archive[k].id # None =>
             archive[k].id \in DOMAIN idMap /\ idMap[archive[k].id] = fresh[k]
      BY DEF Restoring, Noted
    <3> QED BY <2>1, <3>1
  <2> QED BY <2>2, <2>3, <2>4, <2>5 DEF Own!Parent
<1>3. Other!Accounted
  <2>1. DOMAIN inserted = {fresh[n] : n \in DOMAIN fresh} \ {None}
    <3>1. \A i \in DOMAIN inserted : i # None /\ \E n \in DOMAIN fresh : fresh[n] = i
      BY RowConstants DEF Restoring, ReadWell
    <3>2. \A n \in DOMAIN fresh : fresh[n] # None => fresh[n] \in DOMAIN inserted
      BY DEF Restoring, ReadWell
    <3> QED BY <3>1, <3>2
  <2>2. \A S : Other!Cardinality(S) = Cardinality(S)
    BY DEF Other!Cardinality, Cardinality, Other!IsFiniteSet, IsFiniteSet
  <2> QED BY <2>1, <2>2 DEF Other!Accounted, Restoring, Tallied, Staged
<1>4. Other!LinksStay
  <2> SUFFICES ASSUME NEW i \in Own!Here, restoredRow[i].parent # None
               PROVE  LET p == restoredRow[i].parent IN
                      /\ p # i /\ (p \in Own!Here => restoredRow[p].owner = restoredRow[i].owner)
                      /\ (p \notin Own!Here => Own!Chained(i))
    BY DEF Other!LinksStay, Other!Here, Own!Here, Other!Chained, Own!Chained
  <2>1. CASE i \notin DOMAIN inserted
    <3>1. Kin(i, Own!Here \ DOMAIN inserted)
      BY <2>1 DEF Restoring, Table
    <3> QED BY <3>1 DEF Kin
  <2>2. CASE i \in DOMAIN inserted
    <3> DEFINE p == inserted[i].parent
    <3>1. restoredRow[i] = inserted[i] /\ (~Own!Chained(i) => p \in Own!Here)
      BY <2>2 DEF Restoring, Table
    <3>2. step = "told"
      BY <2>2 DEF Restoring, Table
    <3>3. p = Own!Parent(i)
      BY <2>2, <3>2 DEF Restoring, Staged
    <3>4. p # i /\ p \in DOMAIN inserted
      BY <3>1, <3>3 DEF Own!Parent, Restoring, Noted
    <3>5. p \in Own!Here => restoredRow[p] = inserted[p]
      BY <3>4 DEF Restoring, Table
    <3>6. inserted[p].owner = inserted[i].owner
      BY <2>2, <3>4 DEF Restoring, ReadWell
    <3> QED BY <3>1, <3>4, <3>5, <3>6
  <2> QED BY <2>1, <2>2
<1>5. Other!StaysGuarded
  BY <1>1 DEF Restoring, ReadWell, Other!StaysGuarded, Own!FreeOnly, Own!Item
<1> QED BY <1>2, <1>3, <1>4, <1>5

------------------------------------------------------------------------------
(* Rows that belong together *)

\* The rows of the table: a secondary row hangs off a primary one, with its account and key.
Grown ==
    /\ row \in [TenantIds -> Rows!Row \cup {None}] /\ unused \subseteq TenantIds
    /\ Rows!Here \cap unused = {} /\ default \in Rows!Here \cup {None}
    /\ \A i \in Rows!Here : row[i].parent # None =>
          LET p == row[i].parent IN
          p \in Rows!Here /\ row[p].parent = None /\ row[i].acct = row[p].acct /\ row[i].key = row[p].key

Ats == {"idle", "oracle", "write", "drop"}
Asked == /\ at \in [Requests -> Ats] /\ op \in [Requests -> Rows!Ops]
         /\ DOMAIN id = Requests /\ DOMAIN seen = Requests /\ DOMAIN kids = Requests
         /\ DOMAIN wish = Requests /\ DOMAIN used = Requests

\* An edit or a deletion has the table for itself.
ByItself(o) == \A r, q \in Requests : at[r] # "idle" /\ op[r] \in o /\ at[q] # "idle" => q = r

\* What a request knows of its row is true of it still, apart from its protection and facts.
Alike(w, v) == w.acct = v.acct /\ w.key = v.key /\ w.region = v.region /\ w.parent = v.parent
Looks(r) ==
    at[r] # "idle" /\ op[r] \in {"use", "query", "subscribe"} =>
       /\ at[r] # "drop" /\ (at[r] = "write" => op[r] = "subscribe")
       /\ id[r] \in Rows!Here /\ seen[r] \in Rows!Row /\ Alike(seen[r], row[id[r]])
       /\ used[r] # None => used[r] = Rows!ConfigOf(seen[r])
       /\ op[r] = "subscribe" =>
             wish[r] \in Regions /\ (at[r] = "write" => used[r] # None)

Rewrites(r) ==
    at[r] \in {"oracle", "write"} /\ op[r] = "edit" =>
       /\ id[r] \in Rows!Here /\ seen[r] = row[id[r]] /\ row[id[r]].parent = None
       /\ wish[r] \in [acct: Accounts, key: Keys, region: Regions, moved: BOOLEAN]
       /\ wish[r].moved = (wish[r].acct # row[id[r]].acct)
       /\ at[r] = "oracle" => kids[r] = [k \in Rows!ChildrenOf(id[r]) |-> row[k]]

Dooms(r) ==
    at[r] # "idle" /\ op[r] = "delete" =>
       /\ at[r] # "oracle"
       /\ at[r] = "write" =>
             /\ wish[r].default = default
             /\ \A i \in wish[r].ids :
                   i \in Rows!Here /\ row[i].protected = FALSE /\ Rows!ChildrenOf(i) \subseteq wish[r].ids

\* A session is of a row there is, or is about to be dropped.
KeptOfRows ==
    /\ kept \in [TenantIds -> Rows!Config \cup {None}]
    /\ \A i \in TenantIds : kept[i] # None =>
          \/ i \in Rows!Here
          \/ \E r \in Requests : at[r] = "drop" /\ op[r] = "delete" /\ i \in wish[r].ids

Belonging ==
    /\ Grown /\ Asked /\ ByItself({"edit", "delete"}) /\ KeptOfRows
    /\ \A r \in Requests : /\ Looks(r) /\ Rewrites(r) /\ Dooms(r)
                           /\ at[r] = "idle" => used[r] = None

LEMMA TenantConstants ==
    /\ HomeOf \in [Accounts -> Regions] /\ None \notin TenantIds /\ None \notin Accounts
    /\ None \notin Rows!Row
<1>1. Rows!TenantsAssumption
  BY PartsAssumption
<1> QED BY <1>1 DEF Rows!TenantsAssumption

LEMMA InitBelonging == Rows!Init => Belonging
<1> SUFFICES ASSUME Rows!Init PROVE Belonging
  OBVIOUS
<1>1. PICK p \in TenantIds, first \in Rows!Row :
         /\ first.parent = None /\ row = [i \in TenantIds |-> IF i = p THEN first ELSE None]
         /\ unused = TenantIds \ {p}
  BY DEF Rows!Init
<1>2. Rows!Here = {p}
  BY <1>1, TenantConstants DEF Rows!Here
<1>3. /\ default = None /\ kept = [i \in TenantIds |-> None]
      /\ at = [r \in Requests |-> "idle"] /\ op = [r \in Requests |-> "use"]
      /\ id = [r \in Requests |-> None] /\ seen = [r \in Requests |-> None]
      /\ kids = [r \in Requests |-> <<>>] /\ wish = [r \in Requests |-> None]
      /\ used = [r \in Requests |-> None]
  BY DEF Rows!Init
<1>4. Grown
  BY <1>1, <1>2, <1>3 DEF Grown
<1>5. Asked /\ ByItself({"edit", "delete"}) /\ KeptOfRows
  BY <1>3 DEF Asked, Ats, Rows!Ops, ByItself, KeptOfRows
<1> QED BY <1>3, <1>4, <1>5 DEF Belonging, Looks, Rewrites, Dooms

Fine(r) == Looks(r) /\ Rewrites(r) /\ Dooms(r) /\ (at[r] = "idle" => used[r] = None)
Stays(q) == /\ at'[q] = at[q] /\ op'[q] = op[q] /\ id'[q] = id[q] /\ seen'[q] = seen[q]
            /\ kids'[q] = kids[q] /\ wish'[q] = wish[q] /\ used'[q] = used[q]

LEMMA BelongingParts ==
    ASSUME Belonging
    PROVE  /\ Grown /\ Asked /\ ByItself({"edit", "delete"}) /\ KeptOfRows
           /\ \A r \in Requests : Fine(r)
BY DEF Belonging, Fine

LEMMA BelongingWhole ==
    ASSUME Grown', Asked', ByItself({"edit", "delete"})', KeptOfRows', \A r \in Requests : Fine(r)'
    PROVE  Belonging'
BY DEF Belonging, Fine

\* What the other requests know stays true while the rows keep what they are made of ...
LEMMA LookerStays ==
    ASSUME Belonging, NEW q \in Requests, Stays(q),
           at[q] # "idle" => op[q] \notin {"edit", "delete"},
           \A i \in Rows!Here : i \in Rows!Here' /\ Alike(row'[i], row[i])
    PROVE  Fine(q)'
<1>1. Fine(q)
  BY BelongingParts
<1>2. Looks(q)'
  <2> SUFFICES ASSUME at[q] # "idle", op[q] \in {"use", "query", "subscribe"} PROVE Looks(q)'
    BY DEF Looks, Stays
  <2>1. /\ at[q] # "drop" /\ (at[q] = "write" => op[q] = "subscribe")
        /\ id[q] \in Rows!Here /\ seen[q] \in Rows!Row /\ Alike(seen[q], row[id[q]])
        /\ used[q] # None => used[q] = Rows!ConfigOf(seen[q])
        /\ op[q] = "subscribe" => wish[q] \in Regions /\ (at[q] = "write" => used[q] # None)
    BY <1>1 DEF Fine, Looks
  <2>2. Alike(seen[q], row'[id[q]]) /\ id[q] \in Rows!Here'
    BY <2>1 DEF Alike
  <2> QED BY <2>1, <2>2 DEF Looks, Stays, Alike, Rows!ConfigOf
<1>3. Rewrites(q)' /\ Dooms(q)'
  BY <1>1 DEF Fine, Rewrites, Dooms, Stays
<1> QED BY <1>1, <1>2, <1>3 DEF Fine, Stays

\* ... and there is nothing that an idle one could know.
LEMMA IdleFine == ASSUME NEW q, at'[q] = "idle", used'[q] = None PROVE Fine(q)'
BY DEF Fine, Looks, Rewrites, Dooms

LEMMA ByItselfStays ==
    ASSUME NEW o, ByItself(o),
           \A q \in Requests : at'[q] # "idle" => at[q] # "idle" /\ op'[q] = op[q]
    PROVE  ByItself(o)'
BY DEF ByItself

LEMMA KeptStays ==
    ASSUME KeptOfRows, UNCHANGED kept, Rows!Here \subseteq Rows!Here',
           \A q \in Requests : at[q] = "drop" /\ op[q] = "delete" =>
                                  at'[q] = at[q] /\ op'[q] = op[q] /\ wish'[q] = wish[q]
    PROVE  KeptOfRows'
BY DEF KeptOfRows

LEMMA EndsWell ==
    ASSUME Asked, NEW r \in Requests, Rows!Ends(r)
    PROVE  /\ Asked' /\ at'[r] = "idle" /\ used'[r] = None
           /\ \A q \in Requests \ {r} : Stays(q)
BY DEF Asked, Rows!Ends, Ats, Rows!Ops, Stays

LEMMA SameTable == ASSUME Grown, UNCHANGED <<row, unused, default>> PROVE Grown' /\ Rows!Here' = Rows!Here
BY DEF Grown, Rows!Here

\* Who is at work when one more request comes, or when one that does not edit takes a step.
LEMMA NobodyRewrites ==
    ASSUME Rows!Comes, NEW q \in Requests, at[q] # "idle"
    PROVE  op[q] \notin {"edit", "delete"}
BY DEF Rows!Comes

LEMMA AlikeHere == \A i \in Rows!Here : UNCHANGED row => i \in Rows!Here' /\ Alike(row'[i], row[i])
BY DEF Rows!Here, Alike

\* Rows change and no request does.
LEMMA TableKept ==
    ASSUME Belonging, Rows!Comes, UNCHANGED <<kept, Rows!Request>>, Grown',
           \A i \in Rows!Here : i \in Rows!Here' /\ Alike(row'[i], row[i])
    PROVE  Belonging'
<1>1. \A q \in Requests : Stays(q)
  BY DEF Rows!Request, Stays
<1>2. \A q \in Requests : Fine(q)'
  BY <1>1, NobodyRewrites, LookerStays
<1>3. Asked' /\ ByItself({"edit", "delete"})'
  BY BelongingParts DEF Asked, ByItself, Rows!Request
<1>4. KeptOfRows'
  BY BelongingParts, KeptStays DEF Rows!Request
<1> QED BY <1>2, <1>3, <1>4, BelongingWhole

LEMMA CreateBelongs == ASSUME Belonging, Rows!Create PROVE Belonging'
<1>1. PICK i \in unused, w \in Rows!Row :
         /\ Rows!Comes /\ w.parent = None /\ row' = [row EXCEPT ![i] = w] /\ unused' = unused \ {i}
         /\ UNCHANGED <<default, kept, Rows!Request>>
  BY DEF Rows!Create
<1>2. i \in TenantIds /\ i \notin Rows!Here /\ Grown
  BY BelongingParts DEF Grown
<1>3. /\ Rows!Here' = Rows!Here \cup {i} /\ row'[i] = w
      /\ \A j \in Rows!Here : row'[j] = row[j]
  BY <1>1, <1>2, TenantConstants DEF Grown, Rows!Here
<1>4. Grown'
  BY <1>1, <1>2, <1>3 DEF Grown
<1>5. \A j \in Rows!Here : j \in Rows!Here' /\ Alike(row'[j], row[j])
  BY <1>3 DEF Alike
<1> QED BY <1>1, <1>4, <1>5, TableKept

LEMMA ProtectBelongs == ASSUME Belonging, NEW i \in TenantIds, Rows!Protect(i) PROVE Belonging'
<1>1. /\ Rows!Comes /\ i \in Rows!Here /\ row' = [row EXCEPT ![i].protected = ~@]
      /\ UNCHANGED <<unused, default, kept, Rows!Request>> /\ Grown
  BY BelongingParts DEF Rows!Protect
<1>2. row[i] \in Rows!Row
  BY <1>1 DEF Grown, Rows!Here
<1>3. row'[i] \in Rows!Row /\ row' \in [TenantIds -> Rows!Row \cup {None}]
  BY <1>1, <1>2 DEF Grown, Rows!Row
<1>4. \A j \in TenantIds : row'[j] # row[j] => j = i
  BY <1>1 DEF Grown
<1>5. Alike(row'[i], row[i])
  BY <1>1, <1>2 DEF Alike, Rows!Row, Grown
<1>6. Rows!Here' = Rows!Here
  BY <1>1, <1>2, <1>3, <1>4, TenantConstants DEF Rows!Here
<1>7. \A j \in Rows!Here : Alike(row'[j], row[j])
  BY <1>4, <1>5 DEF Alike, Rows!Here
<1>8. Grown'
  BY <1>1, <1>3, <1>6, <1>7 DEF Grown, Alike
<1> QED BY <1>1, <1>6, <1>7, <1>8, TableKept

LEMMA DefaultBelongs ==
    ASSUME Belonging, NEW i \in TenantIds \cup {None}, Rows!SetDefault(i)
    PROVE  Belonging'
<1>1. /\ Rows!Comes /\ i \in Rows!Here \cup {None} /\ default' = i
      /\ UNCHANGED <<row, unused, kept, Rows!Request>> /\ Grown
  BY BelongingParts DEF Rows!SetDefault
<1>2. Grown' /\ Rows!Here' = Rows!Here
  BY <1>1 DEF Grown, Rows!Here
<1> QED BY <1>1, <1>2, AlikeHere, TableKept

\* A request begins.
LEMMA BeginsWell ==
    ASSUME Belonging, NEW r \in Requests, NEW o, NEW i, Rows!Begins(r, o, i),
           Asked', \A q \in Requests \ {r} : Stays(q), UNCHANGED <<row, unused, default, kept, used>>
    PROVE  /\ i \in Rows!Here /\ id'[r] = i /\ seen'[r] = row[i] /\ op'[r] = o
           /\ used'[r] = None /\ seen'[r] \in Rows!Row /\ Alike(seen'[r], row'[i])
           /\ Rows!Here' = Rows!Here
           /\ Fine(r)' => Belonging'
<1>1. /\ Rows!Comes /\ at[r] = "idle" /\ i \in Rows!Here
      /\ o \in {"edit", "delete"} => \A q \in Requests : at[q] = "idle"
      /\ op' = [op EXCEPT ![r] = o] /\ id' = [id EXCEPT ![r] = i] /\ seen' = [seen EXCEPT ![r] = row[i]]
  BY DEF Rows!Begins
<1>2. Asked /\ Grown /\ Fine(r) /\ ByItself({"edit", "delete"}) /\ KeptOfRows
  BY BelongingParts
<1>4. /\ id'[r] = i /\ seen'[r] = row[i] /\ op'[r] = o /\ used'[r] = None
      /\ row[i] \in Rows!Row
  BY <1>1, <1>2 DEF Asked, Fine, Grown, Rows!Here
<1>5. ByItself({"edit", "delete"})'
  <2> SUFFICES ASSUME NEW p \in Requests, NEW q \in Requests, at'[p] # "idle", at'[q] # "idle",
                      op'[p] \in {"edit", "delete"}
               PROVE  p = q
    BY DEF ByItself
  <2>1. CASE p = r
    BY <1>1, <1>4, <2>1 DEF Stays
  <2>2. CASE p # r
    BY <1>1, <2>2, NobodyRewrites DEF Stays
  <2> QED BY <2>1, <2>2
<1>6. Grown' /\ Rows!Here' = Rows!Here
  BY <1>2, SameTable
<1>7. KeptOfRows'
  BY <1>1, <1>2, <1>6, KeptStays DEF Stays
<1>8. \A q \in Requests \ {r} : Fine(q)'
  BY <1>1, NobodyRewrites, LookerStays, AlikeHere
<1> QED BY <1>1, <1>4, <1>5, <1>6, <1>7, <1>8, BelongingWhole DEF Alike

\* The other requests, when one begins.
LEMMA BeginsAsked ==
    ASSUME Asked, NEW r \in Requests, NEW o, NEW i, Rows!Begins(r, o, i), o \in Rows!Ops,
           NEW a \in Ats, at' = [at EXCEPT ![r] = a],
           DOMAIN wish' = Requests, \A q \in Requests \ {r} : wish'[q] = wish[q],
           UNCHANGED <<kids, used>>
    PROVE  Asked' /\ at'[r] = a /\ \A q \in Requests \ {r} : Stays(q)
BY DEF Asked, Rows!Begins, Stays

LEMMA UseBelongs == ASSUME Belonging, NEW r \in Requests, Rows!Use(r) PROVE Belonging'
<1>1. PICK i \in Rows!Here, o \in {"use", "query"} :
         /\ Rows!Begins(r, o, i) /\ at' = [at EXCEPT ![r] = "oracle"]
         /\ UNCHANGED <<row, unused, default, kept, kids, wish, used>>
  BY DEF Rows!Use
<1>0. Rows!Begins(r, o, i) /\ o \in Rows!Ops
  BY <1>1 DEF Rows!Ops
<1>2. DOMAIN wish' = Requests /\ \A q \in Requests \ {r} : wish'[q] = wish[q]
  BY <1>1, BelongingParts DEF Asked
<1>7. Asked' /\ at'[r] = "oracle" /\ \A q \in Requests \ {r} : Stays(q)
  BY <1>0, <1>1, <1>2, BeginsAsked, BelongingParts DEF Ats
<1>4. /\ i \in Rows!Here /\ id'[r] = i /\ seen'[r] = row[i] /\ op'[r] = o
      /\ used'[r] = None /\ seen'[r] \in Rows!Row /\ Alike(seen'[r], row'[i])
      /\ Rows!Here' = Rows!Here
      /\ Fine(r)' => Belonging'
  BY <1>0, <1>1, <1>7, BeginsWell
<1>5. Fine(r)'
  BY <1>7, <1>0, <1>4 DEF Fine, Looks, Rewrites, Dooms, Alike
<1> QED BY <1>4, <1>5

LEMMA SubscribeBelongs == ASSUME Belonging, NEW r \in Requests, Rows!Subscribe(r) PROVE Belonging'
<1>1. PICK i \in Rows!Here, g \in Regions :
         /\ Rows!Begins(r, "subscribe", i) /\ at' = [at EXCEPT ![r] = "oracle"]
         /\ wish' = [wish EXCEPT ![r] = g]
         /\ UNCHANGED <<row, unused, default, kept, kids, used>>
  BY DEF Rows!Subscribe
<1>0. PICK o \in {"subscribe"} : Rows!Begins(r, o, i) /\ o \in Rows!Ops
  BY <1>1 DEF Rows!Ops
<1>2. /\ wish'[r] = g
      /\ DOMAIN wish' = Requests /\ \A q \in Requests \ {r} : wish'[q] = wish[q]
  BY <1>1, BelongingParts DEF Rows!Ops, Asked
<1>7. Asked' /\ at'[r] = "oracle" /\ \A q \in Requests \ {r} : Stays(q)
  BY <1>0, <1>1, <1>2, BeginsAsked, BelongingParts DEF Ats
<1>3. /\ i \in Rows!Here /\ id'[r] = i /\ seen'[r] = row[i]
      /\ op'[r] = o /\ used'[r] = None /\ seen'[r] \in Rows!Row
      /\ Alike(seen'[r], row'[i]) /\ Rows!Here' = Rows!Here
      /\ Fine(r)' => Belonging'
  BY <1>0, <1>1, <1>7, BeginsWell
<1>4. Fine(r)'
  BY <1>7, <1>0, <1>2, <1>3 DEF Fine, Looks, Rewrites, Dooms, Alike
<1> QED BY <1>3, <1>4

LEMMA EditBelongs == ASSUME Belonging, NEW r \in Requests, Rows!Edit(r) PROVE Belonging'
<1>1. PICK i \in Rows!Here, a \in Accounts, k \in Keys, g \in Regions :
         /\ Rows!Begins(r, "edit", i) /\ at' = [at EXCEPT ![r] = "write"]
         /\ FALSE \/ row[i].parent = None
         /\ wish' = [wish EXCEPT ![r] = [acct |-> a, key |-> k, region |-> g, moved |-> a # row[i].acct]]
         /\ a # row[i].acct \/ k # row[i].key \/ g # row[i].region
         /\ UNCHANGED <<row, unused, default, kept, kids, used>>
  BY DEF Rows!Edit
<1>0. PICK o \in {"edit"} : Rows!Begins(r, o, i) /\ o \in Rows!Ops
  BY <1>1 DEF Rows!Ops
<1>2. /\ DOMAIN wish' = Requests /\ \A q \in Requests \ {r} : wish'[q] = wish[q]
      /\ wish'[r] = [acct |-> a, key |-> k, region |-> g, moved |-> a # row[i].acct]
  BY <1>1, BelongingParts DEF Rows!Ops, Asked
<1>7. Asked' /\ at'[r] = "write" /\ \A q \in Requests \ {r} : Stays(q)
  BY <1>0, <1>1, <1>2, BeginsAsked, BelongingParts DEF Ats
<1>3. /\ i \in Rows!Here /\ id'[r] = i /\ seen'[r] = row[i]
      /\ op'[r] = o /\ used'[r] = None /\ Rows!Here' = Rows!Here
      /\ Fine(r)' => Belonging'
  BY <1>0, <1>1, <1>7, BeginsWell
<1>4. Fine(r)'
  BY <1>7, <1>0, <1>1, <1>2, <1>3 DEF Fine, Looks, Rewrites, Dooms
<1> QED BY <1>3, <1>4

\* What is doomed is not protected, and no child is left behind.
LEMMA DoomedClosed ==
    ASSUME Grown, NEW W, NEW i \in Rows!Doomed(W)
    PROVE  i \in Rows!Here /\ row[i].protected = FALSE /\ Rows!ChildrenOf(i) \subseteq Rows!Doomed(W)
<1> DEFINE may == {j \in W \cap Rows!Here : ~Rows!Blocked(j)}
<1>1. \A j \in may : /\ j \in Rows!Here /\ ~row[j].protected
                     /\ \A k \in Rows!ChildrenOf(j) : ~row[k].protected
  BY DEF Rows!Blocked
<1>2. i \in may \/ \E j \in may : i \in Rows!ChildrenOf(j)
  BY DEF Rows!Doomed
<1>3. \A j \in may : Rows!ChildrenOf(j) \subseteq Rows!Doomed(W)
  BY DEF Rows!Doomed
<1> HIDE DEF may
<1>4. i \in Rows!Here /\ ~row[i].protected
  BY <1>1, <1>2 DEF Rows!ChildrenOf
<1>5. row[i].protected \in BOOLEAN
  BY <1>4 DEF Grown, Rows!Here, Rows!Row
<1>6. Rows!ChildrenOf(i) \subseteq Rows!Doomed(W)
  <2>1. CASE i \in may
    BY <1>3, <2>1
  <2>2. CASE \E j \in may : i \in Rows!ChildrenOf(j)
    <3>1. row[i].parent # None
      BY <1>1, <2>2, TenantConstants DEF Rows!ChildrenOf, Rows!Here
    <3>2. Rows!ChildrenOf(i) = {}
      BY <3>1, <1>4, TenantConstants DEF Grown, Rows!ChildrenOf, Rows!Here
    <3> QED BY <3>2
  <2> QED BY <1>2, <2>1, <2>2
<1> QED BY <1>4, <1>5, <1>6

LEMMA DeleteBelongs == ASSUME Belonging, NEW r \in Requests, Rows!Delete(r) PROVE Belonging'
<1>1. PICK W \in SUBSET Rows!Here, i \in Rows!Here :
         /\ Rows!Begins(r, "delete", i) /\ at' = [at EXCEPT ![r] = "write"]
         /\ wish' = [wish EXCEPT ![r] = [ids |-> Rows!Doomed(W), default |-> default]]
         /\ UNCHANGED <<row, unused, default, kept, kids, used>>
  BY DEF Rows!Delete
<1>0. PICK o \in {"delete"} : Rows!Begins(r, o, i) /\ o \in Rows!Ops
  BY <1>1 DEF Rows!Ops
<1>2. /\ DOMAIN wish' = Requests /\ \A q \in Requests \ {r} : wish'[q] = wish[q]
      /\ wish'[r] = [ids |-> Rows!Doomed(W), default |-> default]
  BY <1>1, BelongingParts DEF Rows!Ops, Asked
<1>7. Asked' /\ at'[r] = "write" /\ \A q \in Requests \ {r} : Stays(q)
  BY <1>0, <1>1, <1>2, BeginsAsked, BelongingParts DEF Ats
<1>3. /\ op'[r] = o /\ used'[r] = None /\ Rows!Here' = Rows!Here
      /\ Fine(r)' => Belonging'
  BY <1>0, <1>1, <1>7, BeginsWell
<1>4. \A j \in wish'[r].ids :
         /\ j \in Rows!Here' /\ row'[j].protected = FALSE
         /\ Rows!ChildrenOf(j)' \subseteq wish'[r].ids
  BY <1>1, <1>2, <1>3, DoomedClosed, BelongingParts DEF Rows!ChildrenOf
<1>5. wish'[r].default = default'
  BY <1>1, <1>2
<1>6. Fine(r)'
  BY <1>7, <1>0, <1>3, <1>4, <1>5 DEF Fine, Looks, Rewrites, Dooms
<1> QED BY <1>3, <1>6

\* The session that a request gets is one of the row it read.
LEMMA SessionOfRow ==
    ASSUME NEW i, NEW w \in Rows!Row, kept[i] \in Rows!Config \cup {None}
    PROVE  Rows!GetSession(i, w) = Rows!ConfigOf(w) /\ Rows!ConfigOf(w) \in Rows!Config
<1>1. Rows!ConfigOf(w) \in Rows!Config
  BY DEF Rows!ConfigOf, Rows!Config, Rows!Row
<1>2. ASSUME kept[i] # None, Rows!Fingerprint(kept[i]) = Rows!Fingerprint(w)
      PROVE  kept[i] = Rows!ConfigOf(w)
  <2>1. kept[i] \in Rows!Config
    BY <1>2
  <2>2. kept[i] = [acct |-> kept[i].acct, key |-> kept[i].key, region |-> kept[i].region,
                   facts |-> kept[i].facts]
    BY <2>1 DEF Rows!Config
  <2> QED BY <1>2, <2>2 DEF Rows!Fingerprint, Rows!ConfigOf
<1> QED BY <1>1, <1>2 DEF Rows!GetSession

\* Nobody else is at work while an edit or a deletion is.
LEMMA AloneStep ==
    ASSUME Belonging, NEW r \in Requests, at[r] # "idle", op[r] \in {"edit", "delete"},
           \A q \in Requests \ {r} : Stays(q), op'[r] = op[r] \/ at'[r] = "idle"
    PROVE  /\ \A q \in Requests \ {r} : at[q] = "idle" /\ Fine(q)'
           /\ ByItself({"edit", "delete"})'
<1>1. ByItself({"edit", "delete"}) /\ \A q \in Requests : Fine(q)
  BY BelongingParts
<1>2. \A q \in Requests \ {r} : at[q] = "idle"
  BY <1>1 DEF ByItself
<1>3. \A q \in Requests \ {r} : Fine(q)'
  BY <1>1, <1>2, IdleFine DEF Fine, Stays
<1>4. ByItself({"edit", "delete"})'
  BY <1>1, ByItselfStays DEF Stays
<1> QED BY <1>2, <1>3, <1>4

\* A request that reads takes a step while the table stays.
LEMMA ReaderBelongs ==
    ASSUME Belonging, NEW r \in Requests, at[r] # "idle", op[r] \in {"use", "query", "subscribe"},
           UNCHANGED <<row, unused, default>>, Asked', \A q \in Requests \ {r} : Stays(q),
           op'[r] = op[r] \/ at'[r] = "idle", Fine(r)', KeptOfRows'
    PROVE  Belonging'
<1>1. Grown /\ ByItself({"edit", "delete"})
  BY BelongingParts
<1>2. \A q \in Requests \ {r} : at[q] # "idle" => op[q] \notin {"edit", "delete"}
  BY <1>1 DEF ByItself
<1>3. \A q \in Requests \ {r} : Fine(q)'
  BY <1>2, LookerStays, AlikeHere
<1>4. ByItself({"edit", "delete"})'
  BY <1>1, ByItselfStays DEF Stays
<1>5. Grown'
  BY <1>1, SameTable
<1> QED BY <1>3, <1>4, <1>5, BelongingWhole

LEMMA UseSessionBelongs == ASSUME Belonging, NEW r \in Requests, Rows!UseSession(r) PROVE Belonging'
<1> DEFINE c == Rows!GetSession(id[r], seen[r])
<1>1. /\ at[r] = "oracle" /\ op[r] \in {"use", "query", "subscribe"}
      /\ kept' = [kept EXCEPT ![id[r]] = c] /\ used' = [used EXCEPT ![r] = c]
      /\ UNCHANGED <<row, unused, default, at, op, id, seen, kids, wish>>
  BY DEF Rows!UseSession, Rows!WithSession
<1>2. Asked /\ KeptOfRows /\ Looks(r) /\ Grown
  BY BelongingParts DEF Fine
<1>3. id[r] \in Rows!Here /\ id[r] \in TenantIds /\ seen[r] \in Rows!Row /\ Alike(seen[r], row[id[r]])
      /\ (op[r] = "subscribe" => wish[r] \in Regions)
  BY <1>1, <1>2 DEF Looks, Rows!Here
<1>4. c = Rows!ConfigOf(seen[r]) /\ c \in Rows!Config
  <2>1. kept[id[r]] \in Rows!Config \cup {None}
    BY <1>2, <1>3 DEF KeptOfRows
  <2> QED BY <1>3, <2>1, SessionOfRow
<1> HIDE DEF c
<1>5. Asked' /\ used'[r] = c /\ \A q \in Requests \ {r} : Stays(q)
  BY <1>1, <1>2 DEF Asked, Stays
<1>6. Fine(r)'
  BY <1>1, <1>3, <1>4, <1>5 DEF Fine, Looks, Rewrites, Dooms, Alike, Rows!Here, Rows!ConfigOf
<1>7. KeptOfRows'
  <2>1. Rows!Here' = Rows!Here
    BY <1>1 DEF Rows!Here
  <2> QED BY <1>1, <1>2, <1>3, <1>4, <2>1 DEF KeptOfRows
<1> QED BY <1>1, <1>5, <1>6, <1>7, ReaderBelongs

LEMMA UsedBelongs == ASSUME Belonging, NEW r \in Requests, Rows!Used(r) PROVE Belonging'
<1>1. at[r] = "oracle" /\ Rows!Ends(r) /\ UNCHANGED <<row, unused, default, kept>>
  BY DEF Rows!Used
<1>2. Asked /\ KeptOfRows /\ Grown /\ ByItself({"edit", "delete"})
  BY BelongingParts
<1>3. Asked' /\ at'[r] = "idle" /\ used'[r] = None /\ \A q \in Requests \ {r} : Stays(q)
  BY <1>1, <1>2, EndsWell
<1>4. Rows!Here' = Rows!Here /\ Grown'
  BY <1>1, <1>2, SameTable
<1>5. KeptOfRows'
  BY <1>1, <1>2, <1>3, <1>4, KeptStays DEF Stays
<1>6. Fine(r)'
  BY <1>3, IdleFine
<1>7. CASE op[r] \in {"use", "query", "subscribe"}
  BY <1>1, <1>3, <1>5, <1>6, <1>7, ReaderBelongs
<1>8. CASE op[r] \in {"edit", "delete"}
  BY <1>1, <1>3, <1>4, <1>5, <1>6, <1>8, AloneStep, BelongingWhole
<1> QED BY <1>2, <1>7, <1>8 DEF Asked, Rows!Ops

\* What an account remembers is written on rows that keep what they are made of.
LEMMA QueryBelongs == ASSUME Belonging, NEW r \in Requests, Rows!Query(r) PROVE Belonging'
<1>1. /\ at[r] = "oracle" /\ op[r] = "query" /\ used[r] # None /\ Rows!Ends(r)
      /\ UNCHANGED <<unused, default, kept>>
  BY DEF Rows!Query
<1>2. /\ Asked /\ KeptOfRows /\ Grown /\ Looks(r) /\ ByItself({"edit", "delete"})
  BY BelongingParts DEF Fine
<1> DEFINE answer == used[r].acct
<1>3. PICK written \in SUBSET Rows!Here :
         row' = [i \in TenantIds |-> IF i \in written THEN [row[i] EXCEPT !.facts = answer] ELSE row[i]]
  BY DEF Rows!Query, Rows!FamilyOf
<1>4. answer \in Accounts
  BY <1>1, <1>2 DEF Looks, Rows!ConfigOf, Rows!Row
<1> HIDE DEF answer
<1>5. \A i \in Rows!Here : row[i] \in Rows!Row
  BY <1>2 DEF Grown, Rows!Here
<1>6. \A i \in Rows!Here : row'[i] \in Rows!Row /\ Alike(row'[i], row[i])
  BY <1>3, <1>4, <1>5 DEF Alike, Rows!Row, Rows!Here
<1>7. row' \in [TenantIds -> Rows!Row \cup {None}]
  BY <1>2, <1>3, <1>6 DEF Grown, Rows!Here
<1>8. Rows!Here' = Rows!Here
  BY <1>3, <1>6, TenantConstants DEF Rows!Here
<1>9. Grown'
  BY <1>1, <1>2, <1>6, <1>7, <1>8 DEF Grown, Alike
<1>10. Asked' /\ at'[r] = "idle" /\ used'[r] = None /\ \A q \in Requests \ {r} : Stays(q)
  BY <1>1, <1>2, EndsWell
<1>11. \A q \in Requests \ {r} : at[q] # "idle" => op[q] \notin {"edit", "delete"}
  BY <1>1, <1>2 DEF ByItself
<1>12. \A q \in Requests \ {r} : Fine(q)'
  BY <1>6, <1>8, <1>10, <1>11, LookerStays
<1>13. ByItself({"edit", "delete"})'
  BY <1>2, <1>10, ByItselfStays DEF Stays
<1>14. KeptOfRows'
  BY <1>1, <1>2, <1>8, <1>10, KeptStays DEF Stays
<1>15. Fine(r)'
  BY <1>10, IdleFine
<1> QED BY <1>9, <1>10, <1>12, <1>13, <1>14, <1>15, BelongingWhole

LEMMA EditKidsBelongs == ASSUME Belonging, NEW r \in Requests, Rows!EditKids(r) PROVE Belonging'
<1>1. /\ at[r] = "write" /\ op[r] = "edit" /\ at' = [at EXCEPT ![r] = "oracle"]
      /\ kids' = [kids EXCEPT ![r] = [k \in Rows!ChildrenOf(id[r]) |-> row[k]]]
      /\ UNCHANGED <<row, unused, default, kept, op, id, seen, wish, used>>
  BY DEF Rows!EditKids
<1>2. Asked /\ Grown /\ KeptOfRows /\ Rewrites(r)
  BY BelongingParts DEF Fine
<1>3. /\ Asked' /\ at'[r] = "oracle" /\ kids'[r] = [k \in Rows!ChildrenOf(id[r]) |-> row[k]]
      /\ \A q \in Requests \ {r} : Stays(q)
  BY <1>1, <1>2 DEF Asked, Ats, Stays
<1>4. Grown' /\ Rows!Here' = Rows!Here
  BY <1>1, <1>2, SameTable
<1>5. KeptOfRows'
  BY <1>1, <1>2, <1>3, <1>4, KeptStays DEF Stays
<1>6. Fine(r)'
  <2>1. Rewrites(r)'
    BY <1>1, <1>2, <1>3, <1>4 DEF Rewrites, Rows!ChildrenOf
  <2> QED BY <1>1, <1>3, <2>1 DEF Fine, Looks, Dooms
<1> QED BY <1>1, <1>3, <1>4, <1>5, <1>6, AloneStep, BelongingWhole

\* An UPDATE of a row that is as it was read.
Edits == [acct: Accounts, key: Keys, region: Regions, moved: BOOLEAN]
LEMMA WrittenRow ==
    ASSUME NEW v \in Rows!Row, NEW new \in Edits
    PROVE  LET w == Rows!Written(v, v, new) IN
           /\ w \in Rows!Row /\ w.acct = new.acct /\ w.key = new.key /\ w.region = new.region
           /\ w.parent = v.parent /\ w.protected = v.protected
           /\ w.facts = IF new.moved THEN None ELSE v.facts
<1>1. \A x, y : Rows!Changed(x, x, y) = y
  BY DEF Rows!Changed
<1>2. v.acct \in Accounts /\ v.key \in Keys /\ v.region \in Regions /\ v.facts \in Accounts \cup {None}
  BY DEF Rows!Row
<1>3. Rows!Written(v, v, new) =
         [v EXCEPT !.acct = new.acct, !.key = new.key, !.region = new.region,
                   !.facts = IF new.moved THEN None ELSE v.facts]
  BY <1>1 DEF Rows!Written
<1>4. new.acct \in Accounts /\ new.key \in Keys /\ new.region \in Regions
  BY DEF Edits
<1> QED BY <1>2, <1>3, <1>4 DEF Rows!Row

\* The rows after an edit: the row, and its children with it.
LEMMA SavedRows ==
    ASSUME Belonging, NEW r \in Requests, at[r] = "oracle", op[r] = "edit"
    PROVE  LET kin == Rows!ChildrenOf(id[r]) \cup {id[r]} IN
           /\ id[r] \in Rows!Here /\ row[id[r]].parent = None /\ kin \subseteq Rows!Here
           /\ wish[r].acct \in Accounts /\ wish[r].moved = (wish[r].acct # row[id[r]].acct)
           /\ Rows!Saved(r) \in [TenantIds -> Rows!Row \cup {None}]
           /\ \A i \in TenantIds \ kin : Rows!Saved(r)[i] = row[i]
           /\ \A i \in kin :
                 /\ Rows!Saved(r)[i] \in Rows!Row /\ Rows!Saved(r)[i].parent = row[i].parent
                 /\ Rows!Saved(r)[i].acct = wish[r].acct /\ Rows!Saved(r)[i].key = wish[r].key
                 /\ Rows!Saved(r)[i].protected = row[i].protected
                 /\ Rows!Saved(r)[i].facts = IF wish[r].moved THEN None ELSE row[i].facts
<1>1. /\ id[r] \in Rows!Here /\ seen[r] = row[id[r]] /\ row[id[r]].parent = None
      /\ wish[r] \in Edits /\ wish[r].moved = (wish[r].acct # row[id[r]].acct)
      /\ kids[r] = [k \in Rows!ChildrenOf(id[r]) |-> row[k]]
  BY BelongingParts DEF Fine, Rewrites, Edits
<1>2. /\ DOMAIN kids[r] = Rows!ChildrenOf(id[r]) /\ id[r] \notin Rows!ChildrenOf(id[r])
      /\ Rows!ChildrenOf(id[r]) \subseteq Rows!Here /\ id[r] \in TenantIds
      /\ \A i \in Rows!Here : i \in TenantIds /\ row[i] \in Rows!Row
  BY <1>1, TenantConstants, BelongingParts DEF Rows!ChildrenOf, Rows!Here, Grown
<1>3. Rows!Saved(r)[id[r]] = Rows!Written(row[id[r]], row[id[r]], wish[r])
  BY <1>1, <1>2 DEF Rows!Saved
<1>4. ASSUME NEW i \in Rows!ChildrenOf(id[r])
      PROVE  Rows!Saved(r)[i] = Rows!Written(row[i], row[i], [wish[r] EXCEPT !.region = row[i].region])
  BY <1>1, <1>2 DEF Rows!Saved
<1>5. ASSUME NEW i \in TenantIds, i # id[r], i \notin Rows!ChildrenOf(id[r])
      PROVE  Rows!Saved(r)[i] = row[i]
  BY <1>2, <1>5 DEF Rows!Saved
<1>6. ASSUME NEW i \in Rows!ChildrenOf(id[r])
      PROVE  LET e == [wish[r] EXCEPT !.region = row[i].region] IN
             /\ e \in Edits /\ e.acct = wish[r].acct /\ e.key = wish[r].key /\ e.moved = wish[r].moved
  <2>1. row[i].region \in Regions
    BY <1>2 DEF Rows!Row
  <2> QED BY <1>1, <2>1 DEF Edits
<1>7. \A i \in Rows!ChildrenOf(id[r]) \cup {id[r]} :
         /\ Rows!Saved(r)[i] \in Rows!Row /\ Rows!Saved(r)[i].parent = row[i].parent
         /\ Rows!Saved(r)[i].acct = wish[r].acct /\ Rows!Saved(r)[i].key = wish[r].key
         /\ Rows!Saved(r)[i].protected = row[i].protected
         /\ Rows!Saved(r)[i].facts = IF wish[r].moved THEN None ELSE row[i].facts
  <2>1. ASSUME NEW i \in Rows!ChildrenOf(id[r])
        PROVE  /\ Rows!Saved(r)[i] \in Rows!Row /\ Rows!Saved(r)[i].parent = row[i].parent
               /\ Rows!Saved(r)[i].acct = wish[r].acct /\ Rows!Saved(r)[i].key = wish[r].key
               /\ Rows!Saved(r)[i].protected = row[i].protected
               /\ Rows!Saved(r)[i].facts = IF wish[r].moved THEN None ELSE row[i].facts
    <3> DEFINE e == [wish[r] EXCEPT !.region = row[i].region]
    <3>1. /\ e \in Edits /\ e.acct = wish[r].acct /\ e.key = wish[r].key /\ e.moved = wish[r].moved
          /\ Rows!Saved(r)[i] = Rows!Written(row[i], row[i], e) /\ row[i] \in Rows!Row
      BY <1>2, <1>4, <1>6
    <3> HIDE DEF e
    <3> QED BY <3>1, WrittenRow
  <2>2. /\ Rows!Saved(r)[id[r]] \in Rows!Row /\ Rows!Saved(r)[id[r]].parent = row[id[r]].parent
        /\ Rows!Saved(r)[id[r]].acct = wish[r].acct /\ Rows!Saved(r)[id[r]].key = wish[r].key
        /\ Rows!Saved(r)[id[r]].protected = row[id[r]].protected
        /\ Rows!Saved(r)[id[r]].facts = IF wish[r].moved THEN None ELSE row[id[r]].facts
    BY <1>1, <1>2, <1>3, WrittenRow
  <2> QED BY <2>1, <2>2
<1>8. DOMAIN Rows!Saved(r) = TenantIds /\ Rows!Saved(r) = [i \in TenantIds |-> Rows!Saved(r)[i]]
  BY DEF Rows!Saved
<1>9. \A i \in TenantIds : Rows!Saved(r)[i] \in Rows!Row \cup {None}
  BY <1>5, <1>7, BelongingParts DEF Grown
<1>10. Rows!Saved(r) \in [TenantIds -> Rows!Row \cup {None}]
  BY <1>8, <1>9
<1>11. wish[r].acct \in Accounts
  BY <1>1 DEF Edits
<1> QED BY <1>1, <1>2, <1>5, <1>7, <1>10, <1>11

LEMMA EditCommitBelongs == ASSUME Belonging, NEW r \in Requests, Rows!EditCommit(r) PROVE Belonging'
<1> DEFINE kin == Rows!ChildrenOf(id[r]) \cup {id[r]}
<1>1. at[r] = "oracle" /\ op[r] = "edit"
  BY DEF Rows!EditCommit
<1>2. Asked /\ Grown /\ KeptOfRows /\ Rewrites(r)
  BY BelongingParts DEF Fine
<1>3. CASE Rows!Ends(r) /\ UNCHANGED <<row, unused, default, kept>>
  <2>1. Asked' /\ at'[r] = "idle" /\ used'[r] = None /\ \A q \in Requests \ {r} : Stays(q)
    BY <1>2, <1>3, EndsWell
  <2>2. Grown' /\ Rows!Here' = Rows!Here
    BY <1>2, <1>3, SameTable
  <2>3. KeptOfRows'
    BY <1>1, <1>2, <1>3, <2>1, <2>2, KeptStays DEF Stays
  <2> QED BY <1>1, <2>1, <2>2, <2>3, IdleFine, AloneStep, BelongingWhole
<1>4. CASE /\ row' = Rows!Saved(r) /\ at' = [at EXCEPT ![r] = "drop"]
           /\ UNCHANGED <<unused, default, kept, op, id, seen, kids, wish, used>>
  <2>1. Asked' /\ at'[r] = "drop" /\ op'[r] = "edit" /\ \A q \in Requests \ {r} : Stays(q)
    BY <1>1, <1>2, <1>4 DEF Asked, Ats, Stays
  <2>2. /\ id[r] \in Rows!Here /\ row[id[r]].parent = None /\ kin \subseteq Rows!Here
        /\ row' \in [TenantIds -> Rows!Row \cup {None}]
        /\ \A i \in TenantIds \ kin : row'[i] = row[i]
        /\ \A i \in kin : /\ row'[i] \in Rows!Row /\ row'[i].parent = row[i].parent
                          /\ row'[i].acct = wish[r].acct /\ row'[i].key = wish[r].key
    BY <1>1, <1>4, SavedRows
  <2>3. Rows!Here' = Rows!Here
    BY <2>2, TenantConstants DEF Rows!Here
  <2>4. ASSUME NEW i \in Rows!Here, row'[i].parent # None
        PROVE  LET p == row'[i].parent IN
               /\ p \in Rows!Here /\ row'[p].parent = None
               /\ row'[i].acct = row'[p].acct /\ row'[i].key = row'[p].key
    <3> DEFINE p == row[i].parent
    <3>1. i \in TenantIds /\ row'[i].parent = p
      BY <2>2 DEF Rows!Here
    <3>2. p \in Rows!Here /\ row[p].parent = None /\ row[i].acct = row[p].acct /\ row[i].key = row[p].key
      BY <1>2, <2>4, <3>1 DEF Grown
    <3>3. p \in TenantIds /\ p # None
      BY <3>2, TenantConstants DEF Rows!Here
    <3>4. CASE p = id[r]
      <4>1. i \in kin
        BY <3>4 DEF Rows!ChildrenOf
      <4>2. id[r] \in kin
        OBVIOUS
      <4> HIDE DEF kin
      <4> QED BY <2>2, <3>1, <3>2, <3>4, <4>1, <4>2
    <3>5. CASE p # id[r]
      <4>1. i \notin kin
        BY <2>2, <2>4, <3>1, <3>5 DEF Rows!ChildrenOf
      <4>2. p \notin kin
        BY <2>2, <3>2, <3>5, TenantConstants DEF Rows!ChildrenOf, Rows!Here
      <4> HIDE DEF kin
      <4> QED BY <2>2, <3>1, <3>2, <3>3, <4>1, <4>2
    <3> QED BY <3>4, <3>5
  <2>5. Grown'
    BY <1>2, <1>4, <2>2, <2>3, <2>4 DEF Grown
  <2>6. KeptOfRows'
    BY <1>1, <1>2, <1>4, <2>1, <2>3, KeptStays DEF Stays
  <2>7. Fine(r)'
    BY <2>1 DEF Fine, Looks, Rewrites, Dooms
  <2> QED BY <1>1, <1>4, <2>1, <2>5, <2>6, <2>7, AloneStep, BelongingWhole
<1> QED BY <1>3, <1>4 DEF Rows!EditCommit

LEMMA DropBelongs == ASSUME Belonging, NEW r \in Requests, Rows!Drop(r) PROVE Belonging'
<1>1. /\ at[r] = "drop" /\ Rows!Ends(r) /\ UNCHANGED <<row, unused, default>>
      /\ kept' = [i \in TenantIds |-> IF i \in Rows!Targets(r) THEN None ELSE kept[i]]
  BY DEF Rows!Drop
<1>2. Asked /\ Grown /\ KeptOfRows /\ Looks(r)
  BY BelongingParts DEF Fine
<1>3. op[r] \in {"edit", "delete"}
  BY <1>1, <1>2 DEF Asked, Looks, Rows!Ops
<1>4. Asked' /\ at'[r] = "idle" /\ used'[r] = None /\ \A q \in Requests \ {r} : Stays(q)
  BY <1>1, <1>2, EndsWell
<1>5. Grown' /\ Rows!Here' = Rows!Here
  BY <1>1, <1>2, SameTable
<1>6. \A q \in Requests \ {r} : at[q] = "idle"
  BY <1>1, <1>3, <1>4, AloneStep
<1>7. KeptOfRows'
  <2>1. kept' \in [TenantIds -> Rows!Config \cup {None}]
    BY <1>1, <1>2 DEF KeptOfRows
  <2>2. ASSUME NEW i \in TenantIds, kept'[i] # None PROVE i \in Rows!Here
    <3>1. i \notin Rows!Targets(r) /\ kept[i] # None
      BY <1>1, <2>2
    <3>2. op[r] = "delete" => i \notin wish[r].ids
      BY <3>1 DEF Rows!Targets
    <3> QED BY <1>2, <1>6, <3>1, <3>2 DEF KeptOfRows
  <2> QED BY <1>5, <2>1, <2>2 DEF KeptOfRows
<1> QED BY <1>1, <1>3, <1>4, <1>5, <1>7, AloneStep, IdleFine, BelongingWhole

LEMMA SubscribedBelongs == ASSUME Belonging, NEW r \in Requests, Rows!Subscribed(r) PROVE Belonging'
<1>1. /\ at[r] = "oracle" /\ op[r] = "subscribe" /\ used[r] # None /\ at' = [at EXCEPT ![r] = "write"]
      /\ UNCHANGED <<row, unused, default, kept, op, id, seen, kids, wish, used>>
  BY DEF Rows!Subscribed
<1>2. Asked /\ KeptOfRows /\ Fine(r) /\ Grown
  BY BelongingParts
<1>3. Asked' /\ at'[r] = "write" /\ \A q \in Requests \ {r} : Stays(q)
  BY <1>1, <1>2 DEF Asked, Ats, Stays
<1>4. Rows!Here' = Rows!Here
  BY <1>1, <1>2, SameTable
<1>5. Fine(r)'
  BY <1>1, <1>2, <1>3, <1>4 DEF Fine, Looks, Rewrites, Dooms, Alike, Rows!ConfigOf
<1>6. KeptOfRows'
  BY <1>1, <1>2, <1>3, <1>4, KeptStays DEF Stays
<1> QED BY <1>1, <1>3, <1>5, <1>6, ReaderBelongs

\* The primary row that a new one is hung off.
LEMMA RootOf ==
    ASSUME Grown, NEW r \in Requests, Looks(r), at[r] = "write", op[r] = "subscribe"
    PROVE  /\ Rows!Root(r).id \in Rows!Here /\ row[Rows!Root(r).id].parent = None
           /\ Rows!Root(r).row \in Rows!Row /\ Rows!Root(r).row.acct = row[Rows!Root(r).id].acct
           /\ Rows!Root(r).row.key = row[Rows!Root(r).id].key
           /\ Rows!Root(r).row.acct = seen[r].acct
           /\ \/ Rows!Root(r).id = id[r] /\ Rows!Root(r).row = seen[r]
              \/ Rows!Root(r).id = row[id[r]].parent /\ Rows!Root(r).row = row[Rows!Root(r).id]
<1> DEFINE p == seen[r].parent
<1>1. /\ id[r] \in Rows!Here /\ seen[r] \in Rows!Row /\ p = row[id[r]].parent
      /\ seen[r].acct = row[id[r]].acct /\ seen[r].key = row[id[r]].key
  BY DEF Looks, Alike
<1>2. CASE p = None
  <2>1. Rows!Root(r) = [id |-> id[r], row |-> seen[r]]
    BY <1>2 DEF Rows!Root
  <2>2. Rows!Root(r).id = id[r] /\ Rows!Root(r).row = seen[r]
    BY <2>1
  <2>3. row[id[r]].parent = None
    BY <1>1, <1>2
  <2> HIDE DEF p
  <2> QED BY <1>1, <2>2, <2>3
<1>3. CASE p # None
  <2>1. /\ p \in Rows!Here /\ row[p].parent = None
        /\ row[id[r]].acct = row[p].acct /\ row[id[r]].key = row[p].key
    BY <1>1, <1>3 DEF Grown
  <2>2. Rows!Root(r) = [id |-> p, row |-> row[p]]
    BY <1>3, <2>1 DEF Rows!Root
  <2>3. row[p] \in Rows!Row
    BY <2>1 DEF Grown, Rows!Here
  <2> QED BY <1>1, <2>1, <2>2, <2>3
<1> QED BY <1>2, <1>3

\* The row that subscribe_tenant_region adds, if it does.
LEMMA AddedRow ==
    ASSUME Belonging, NEW r \in Requests, Rows!AddRegion(r)
    PROVE  \/ UNCHANGED <<row, unused>>
           \/ \E i \in unused, w \in Rows!Row :
                 /\ row' = [row EXCEPT ![i] = w] /\ unused' = unused \ {i}
                 /\ w.acct = Rows!Root(r).row.acct /\ w.key = Rows!Root(r).row.key
                 /\ w.parent = Rows!Root(r).id /\ w.facts = Rows!Root(r).row.facts
                 /\ w.region # HomeOf[w.acct]
<1>1. at[r] = "write" /\ op[r] = "subscribe"
  BY DEF Rows!AddRegion
<1>2. Grown /\ Looks(r)
  BY BelongingParts DEF Fine
<1>3. /\ wish[r] \in Regions /\ used[r] = Rows!ConfigOf(seen[r])
      /\ Rows!Root(r).id \in TenantIds /\ Rows!Root(r).row \in Rows!Row
      /\ Rows!Root(r).row.acct = seen[r].acct
  BY <1>1, <1>2, RootOf DEF Looks, Rows!Here
<1>4. used[r].acct = seen[r].acct
  BY <1>3 DEF Rows!ConfigOf
<1>5. CASE /\ Rows!NotHome(r)
           /\ \E i \in unused :
                 /\ row' = [row EXCEPT ![i] =
                        [acct |-> Rows!Root(r).row.acct, key |-> Rows!Root(r).row.key, region |-> wish[r],
                         parent |-> Rows!Root(r).id, protected |-> FALSE, facts |-> Rows!Root(r).row.facts]]
                 /\ unused' = unused \ {i}
  <2> DEFINE w == [acct |-> Rows!Root(r).row.acct, key |-> Rows!Root(r).row.key, region |-> wish[r],
                   parent |-> Rows!Root(r).id, protected |-> FALSE, facts |-> Rows!Root(r).row.facts]
  <2>1. w \in Rows!Row
    BY <1>3 DEF Rows!Row
  <2>2. w.region # HomeOf[w.acct]
    BY <1>3, <1>4, <1>5 DEF Rows!NotHome
  <2> QED BY <1>5, <2>1, <2>2
<1> QED BY <1>5 DEF Rows!AddRegion

LEMMA AddRegionBelongs == ASSUME Belonging, NEW r \in Requests, Rows!AddRegion(r) PROVE Belonging'
<1>1. /\ at[r] = "write" /\ op[r] = "subscribe" /\ Rows!Ends(r) /\ UNCHANGED <<default, kept>>
  BY DEF Rows!AddRegion
<1>2. Asked /\ KeptOfRows /\ Fine(r) /\ Grown /\ Looks(r) /\ ByItself({"edit", "delete"})
  BY BelongingParts DEF Fine
<1>3. Asked' /\ at'[r] = "idle" /\ used'[r] = None /\ \A q \in Requests \ {r} : Stays(q)
  BY <1>1, <1>2, EndsWell
<1>4. CASE UNCHANGED <<row, unused>>
  <2>1. Rows!Here' = Rows!Here
    BY <1>4 DEF Rows!Here
  <2>2. KeptOfRows'
    BY <1>1, <1>2, <1>3, <2>1, KeptStays DEF Stays
  <2> QED BY <1>1, <1>3, <1>4, <2>2, IdleFine, ReaderBelongs
<1>5. CASE ~UNCHANGED <<row, unused>>
  <2>1. PICK i \in unused, w \in Rows!Row :
           /\ row' = [row EXCEPT ![i] = w] /\ unused' = unused \ {i}
           /\ w.acct = Rows!Root(r).row.acct /\ w.key = Rows!Root(r).row.key
           /\ w.parent = Rows!Root(r).id
    BY <1>5, AddedRow
  <2>2. /\ w.parent \in Rows!Here /\ row[w.parent].parent = None
        /\ w.acct = row[w.parent].acct /\ w.key = row[w.parent].key
    BY <1>1, <1>2, <2>1, RootOf
  <2>3. i \in TenantIds /\ i \notin Rows!Here
    BY <1>2 DEF Grown
  <2>4. /\ Rows!Here' = Rows!Here \cup {i} /\ row'[i] = w
        /\ \A j \in Rows!Here : row'[j] = row[j]
    BY <1>2, <2>1, <2>3, TenantConstants DEF Grown, Rows!Here
  <2>5. Grown'
    BY <1>1, <1>2, <2>1, <2>2, <2>3, <2>4 DEF Grown
  <2>6. \A j \in Rows!Here : j \in Rows!Here' /\ Alike(row'[j], row[j])
    BY <2>4 DEF Alike
  <2>7. \A q \in Requests \ {r} : at[q] # "idle" => op[q] \notin {"edit", "delete"}
    BY <1>1, <1>2 DEF ByItself
  <2>8. \A q \in Requests \ {r} : Fine(q)'
    BY <1>3, <2>6, <2>7, LookerStays
  <2>9. ByItself({"edit", "delete"})'
    BY <1>2, <1>3, ByItselfStays DEF Stays
  <2>10. KeptOfRows'
    BY <1>1, <1>2, <1>3, <2>4, KeptStays DEF Stays
  <2> QED BY <1>3, <2>5, <2>8, <2>9, <2>10, IdleFine, BelongingWhole
<1> QED BY <1>4, <1>5

LEMMA PurgeBelongs == ASSUME Belonging, NEW r \in Requests, Rows!Purge(r) PROVE Belonging'
<1>1. /\ at[r] = "write" /\ op[r] = "delete" /\ at' = [at EXCEPT ![r] = "drop"]
      /\ row' = [i \in TenantIds |-> IF i \in wish[r].ids THEN None ELSE row[i]]
      /\ default' = IF wish[r].default \in wish[r].ids THEN None ELSE default
      /\ UNCHANGED <<unused, kept, op, id, seen, kids, wish, used>>
  BY DEF Rows!Purge, Rows!DefaultAfter
<1>2. Asked /\ KeptOfRows /\ Fine(r) /\ Grown
  BY BelongingParts
<1>3. /\ wish[r].default = default
      /\ \A i \in wish[r].ids : Rows!ChildrenOf(i) \subseteq wish[r].ids
  BY <1>1, <1>2 DEF Fine, Dooms
<1>4. Asked' /\ at'[r] = "drop" /\ \A q \in Requests \ {r} : Stays(q)
  BY <1>1, <1>2 DEF Asked, Ats, Stays
<1>5. /\ Rows!Here' = Rows!Here \ wish[r].ids
      /\ \A i \in Rows!Here' : row'[i] = row[i]
  BY <1>1 DEF Rows!Here
<1>6. ASSUME NEW i \in Rows!Here', row'[i].parent # None
      PROVE  LET p == row'[i].parent IN
             /\ p \in Rows!Here' /\ row'[p].parent = None
             /\ row'[i].acct = row'[p].acct /\ row'[i].key = row'[p].key
  <2> DEFINE p == row[i].parent
  <2>1. /\ i \in Rows!Here /\ i \notin wish[r].ids /\ row'[i] = row[i]
        /\ p \in Rows!Here /\ row[p].parent = None /\ row[i].acct = row[p].acct /\ row[i].key = row[p].key
    BY <1>2, <1>5, <1>6 DEF Grown
  <2>2. p \notin wish[r].ids
    BY <1>3, <2>1 DEF Rows!ChildrenOf
  <2> QED BY <1>5, <2>1, <2>2
<1>7. Grown'
  <2>1. default' \in Rows!Here' \cup {None}
    BY <1>1, <1>2, <1>3, <1>5 DEF Grown
  <2>2. row' \in [TenantIds -> Rows!Row \cup {None}]
    BY <1>1, <1>2 DEF Grown
  <2> QED BY <1>1, <1>2, <1>5, <1>6, <2>1, <2>2 DEF Grown
<1>8. KeptOfRows'
  <2>1. ASSUME NEW i \in TenantIds, kept[i] # None
        PROVE  i \in Rows!Here' \/ i \in wish[r].ids
    <3>1. \A q \in Requests : at[q] # "drop"
      BY <1>1, <1>4, AloneStep
    <3> QED BY <1>2, <1>5, <2>1, <3>1 DEF KeptOfRows
  <2> QED BY <1>1, <1>2, <1>4, <2>1 DEF KeptOfRows
<1>9. Fine(r)'
  BY <1>1, <1>4 DEF Fine, Looks, Rewrites, Dooms
<1> QED BY <1>1, <1>4, <1>7, <1>8, <1>9, AloneStep, BelongingWhole

LEMMA NextBelonging == ASSUME Belonging, [Rows!Next]_tenantRows PROVE Belonging'
<1>1. CASE UNCHANGED tenantRows
  <2>1. /\ UNCHANGED <<row, unused, default, kept>> /\ \A q \in Requests : Stays(q)
        /\ UNCHANGED <<at, op, id, seen, kids, wish, used>>
    BY <1>1 DEF tenantRows, Stays
  <2>2. Grown' /\ Rows!Here' = Rows!Here /\ KeptOfRows'
    BY <2>1, SameTable, KeptStays, BelongingParts DEF Stays
  <2>3. Asked' /\ ByItself({"edit", "delete"})'
    BY <2>1, BelongingParts DEF Asked, ByItself
  <2>4. \A q \in Requests : Fine(q)'
    <3>1. \A q \in Requests : Fine(q)
      BY BelongingParts
    <3>2. \A q \in Requests : Looks(q)'
      BY <2>1, <2>2, <3>1 DEF Fine, Looks, Alike, Rows!ConfigOf
    <3>3. \A q \in Requests : Rewrites(q)' /\ Dooms(q)'
      BY <2>1, <2>2, <3>1 DEF Fine, Rewrites, Dooms, Rows!ChildrenOf
    <3> QED BY <2>1, <3>1, <3>2, <3>3 DEF Fine
  <2> QED BY <2>2, <2>3, <2>4, BelongingWhole
<1>2. CASE \E r \in Requests : Rows!Step(r)
  BY <1>2, UseBelongs, EditBelongs, SubscribeBelongs, DeleteBelongs, UseSessionBelongs, UsedBelongs,
     QueryBelongs, EditKidsBelongs, EditCommitBelongs, DropBelongs, SubscribedBelongs,
     AddRegionBelongs, PurgeBelongs DEF Rows!Step
<1> QED BY <1>1, <1>2, CreateBelongs, ProtectBelongs, DefaultBelongs DEF Rows!Next

LEMMA BelongingHolds ==
    ASSUME Belonging
    PROVE  Rows!OneKey /\ Rows!NoOrphans /\ Rows!DefaultExists /\ Rows!Forgotten
<1>1. Grown /\ KeptOfRows
  BY BelongingParts
<1>2. None \notin Rows!Here
  BY TenantConstants DEF Rows!Here
<1>3. Rows!OneKey /\ Rows!NoOrphans /\ Rows!DefaultExists
  BY <1>1, <1>2 DEF Grown, Rows!OneKey, Rows!NoOrphans, Rows!DefaultExists
<1>4. Rows!Forgotten
  BY <1>1 DEF KeptOfRows, Rows!Forgotten
<1> QED BY <1>3, <1>4

------------------------------------------------------------------------------
(* What is remembered of an account *)

\* Facts are those of the account of the row, and the same as on its primary row.
Truthful ==
    \A i \in Rows!Here :
       /\ row[i].facts \in {None, row[i].acct}
       /\ row[i].parent # None => row[i].facts = row[row[i].parent].facts

\* A request knows no other facts than the row has by now, one that adds a row knows them all.
Recalls(r) ==
    at[r] # "idle" /\ op[r] \in {"use", "query", "subscribe"} =>
       /\ seen[r].facts \in {None, row[id[r]].facts}
       /\ op[r] = "subscribe" => seen[r].facts = row[id[r]].facts

Remembered == Truthful /\ ByItself({"subscribe"}) /\ \A r \in Requests : Recalls(r)

\* To subscribe alone only leaves fewer moves.
LEMMA FewerMoves == ASSUME Facts!Next PROVE Rows!Next
<1>1. Facts!Comes => Rows!Comes
  BY DEF Facts!Comes, Rows!Comes
<1>2. \A r \in Requests : \A o, i : Facts!Begins(r, o, i) => Rows!Begins(r, o, i)
  BY <1>1 DEF Facts!Begins, Rows!Begins, Facts!Here, Rows!Here
<1>3. Facts!Create => Rows!Create
  BY <1>1 DEF Facts!Create, Rows!Create, Facts!Row, Rows!Row, Facts!Request, Rows!Request
<1>4. \A i : Facts!Protect(i) => Rows!Protect(i)
  BY <1>1 DEF Facts!Protect, Rows!Protect, Facts!Here, Rows!Here, Facts!Request, Rows!Request
<1>5. \A i : Facts!SetDefault(i) => Rows!SetDefault(i)
  BY <1>1 DEF Facts!SetDefault, Rows!SetDefault, Facts!Here, Rows!Here, Facts!Request, Rows!Request
<1>0. Facts!Here = Rows!Here
  BY DEF Facts!Here, Rows!Here
<1>6. \A r \in Requests : Facts!Use(r) => Rows!Use(r)
  BY <1>2 DEF Facts!Use, Rows!Use, Facts!Here, Rows!Here
<1>7. \A r \in Requests : Facts!Edit(r) => Rows!Edit(r)
  <2> SUFFICES ASSUME NEW r \in Requests, Facts!Edit(r) PROVE Rows!Edit(r)
    OBVIOUS
  <2>1. PICK i \in Facts!Here, a \in Accounts, k \in Keys, g \in Regions :
           /\ Facts!Begins(r, "edit", i) /\ at' = [at EXCEPT ![r] = "write"]
           /\ FALSE \/ row[i].parent = None
           /\ wish' = [wish EXCEPT ![r] =
                  [acct |-> a, key |-> k, region |-> g, moved |-> a # row[i].acct]]
           /\ a # row[i].acct \/ k # row[i].key \/ g # row[i].region
           /\ UNCHANGED <<row, unused, default, kept, kids, used>>
    BY DEF Facts!Edit
  <2>2. i \in Rows!Here /\ Rows!Begins(r, "edit", i)
    BY <1>0, <1>2, <2>1
  <2> QED BY <2>1, <2>2 DEF Rows!Edit
<1>8. \A r \in Requests : Facts!Subscribe(r) => Rows!Subscribe(r)
  <2>1. \A w, g : Facts!Linked(w, g) <=> Rows!Linked(w, g)
    BY <1>0 DEF Facts!Linked, Rows!Linked
  <2> QED BY <1>0, <1>2, <2>1 DEF Facts!Subscribe, Rows!Subscribe
<1>9. \A r \in Requests : Facts!Delete(r) => Rows!Delete(r)
  <2>1. \A W : Facts!Doomed(W) = Rows!Doomed(W)
    BY DEF Facts!Doomed, Rows!Doomed, Facts!Blocked, Rows!Blocked, Facts!ChildrenOf, Rows!ChildrenOf,
           Facts!Here, Rows!Here
  <2>2. Facts!Here = Rows!Here
    BY DEF Facts!Here, Rows!Here
  <2> QED BY <1>2, <2>1, <2>2 DEF Facts!Delete, Rows!Delete
<1>10. \A r \in Requests :
          /\ Facts!UseSession(r) => Rows!UseSession(r)
          /\ Facts!Used(r) => Rows!Used(r)
          /\ Facts!EditKids(r) => Rows!EditKids(r)
          /\ Facts!Drop(r) => Rows!Drop(r)
          /\ Facts!Subscribed(r) => Rows!Subscribed(r)
  BY DEF Facts!UseSession, Rows!UseSession, Facts!WithSession, Rows!WithSession, Facts!GetSession,
         Rows!GetSession, Facts!Fingerprint, Rows!Fingerprint, Facts!ConfigOf, Rows!ConfigOf,
         Facts!Used, Rows!Used, Facts!Ends, Rows!Ends, Facts!EditKids, Rows!EditKids,
         Facts!ChildrenOf, Rows!ChildrenOf, Facts!Here, Rows!Here, Facts!Drop, Rows!Drop,
         Facts!Targets, Rows!Targets, Facts!Subscribed, Rows!Subscribed
<1>11. \A r \in Requests : Facts!Query(r) => Rows!Query(r)
  BY DEF Facts!Query, Rows!Query, Facts!FamilyOf, Rows!FamilyOf, Facts!Family, Rows!Family,
         Facts!ChildrenOf, Rows!ChildrenOf, Facts!Here, Rows!Here, Facts!Ends, Rows!Ends
<1>12. \A r \in Requests : Facts!EditCommit(r) => Rows!EditCommit(r)
  <2>1. \A r \in Requests : Facts!Saved(r) = Rows!Saved(r)
    BY DEF Facts!Saved, Rows!Saved, Facts!Written, Rows!Written, Facts!Changed, Rows!Changed
  <2> QED BY <2>1 DEF Facts!EditCommit, Rows!EditCommit, Facts!Here, Rows!Here, Facts!Ends, Rows!Ends
<1>13. \A r \in Requests : Facts!AddRegion(r) => Rows!AddRegion(r)
  BY DEF Facts!AddRegion, Rows!AddRegion, Facts!Root, Rows!Root, Facts!NotHome, Rows!NotHome,
         Facts!Here, Rows!Here, Facts!Ends, Rows!Ends
<1>14. \A r \in Requests : Facts!Purge(r) => Rows!Purge(r)
  BY DEF Facts!Purge, Rows!Purge, Facts!DefaultAfter, Rows!DefaultAfter
<1>15. \A r \in Requests : Facts!Step(r) => Rows!Step(r)
  BY <1>6, <1>7, <1>8, <1>9, <1>10, <1>11, <1>12, <1>13, <1>14 DEF Facts!Step, Rows!Step
<1> QED BY <1>3, <1>4, <1>5, <1>15 DEF Facts!Next, Rows!Next

LEMMA InitRemembered == Facts!Init => Belonging /\ Remembered
<1> SUFFICES ASSUME Facts!Init PROVE Belonging /\ Remembered
  OBVIOUS
<1>1. Rows!Init
  BY DEF Facts!Init, Rows!Init, Facts!Row, Rows!Row
<1>2. PICK p \in TenantIds, first \in Rows!Row :
         /\ first.parent = None /\ first.facts = None
         /\ row = [i \in TenantIds |-> IF i = p THEN first ELSE None]
  BY <1>1 DEF Rows!Init
<1>3. Rows!Here = {p} /\ row[p] = first
  BY <1>2, TenantConstants DEF Rows!Here
<1>4. \A r \in Requests : at[r] = "idle"
  BY <1>1 DEF Rows!Init
<1> QED BY <1>1, <1>2, <1>3, <1>4, InitBelonging DEF Remembered, Truthful, ByItself, Recalls

\* Facts stay what they are, and nobody begins.
LEMMA FactsStay ==
    ASSUME Belonging, Remembered, Truthful',
           \A i \in Rows!Here : row'[i].facts = row[i].facts,
           \A q \in Requests : at'[q] # "idle" =>
              at[q] # "idle" /\ op'[q] = op[q] /\ id'[q] = id[q] /\ seen'[q] = seen[q]
    PROVE  Remembered'
<1>1. ByItself({"subscribe"})'
  BY ByItselfStays DEF Remembered
<1>2. ASSUME NEW q \in Requests PROVE Recalls(q)'
  <2> SUFFICES ASSUME at'[q] # "idle", op'[q] \in {"use", "query", "subscribe"} PROVE Recalls(q)'
    BY DEF Recalls
  <2>1. at[q] # "idle" /\ op'[q] = op[q] /\ id'[q] = id[q] /\ seen'[q] = seen[q]
    OBVIOUS
  <2>2. id[q] \in Rows!Here
    BY <2>1, BelongingParts DEF Fine, Looks
  <2>3. Recalls(q)
    BY DEF Remembered
  <2> QED BY <2>1, <2>2, <2>3 DEF Recalls
<1> QED BY <1>1, <1>2 DEF Remembered

LEMMA RowsStay ==
    ASSUME Belonging, Remembered, UNCHANGED row,
           \A q \in Requests : at'[q] # "idle" =>
              at[q] # "idle" /\ op'[q] = op[q] /\ id'[q] = id[q] /\ seen'[q] = seen[q]
    PROVE  Remembered'
<1>1. Truthful'
  BY DEF Remembered, Truthful, Rows!Here
<1> QED BY <1>1, FactsStay

\* One begins with the row as it is.
LEMMA BeginsRemembered ==
    ASSUME Belonging, Remembered, NEW r \in Requests, NEW o, NEW i, Facts!Begins(r, o, i),
           \A q \in Requests \ {r} : at'[q] = at[q], UNCHANGED row
    PROVE  Remembered'
<1>1. /\ Facts!Comes /\ op' = [op EXCEPT ![r] = o] /\ id' = [id EXCEPT ![r] = i]
      /\ seen' = [seen EXCEPT ![r] = row[i]]
      /\ o \in {"edit", "delete", "subscribe"} => \A q \in Requests : at[q] = "idle"
  BY DEF Facts!Begins
<1>2. Asked
  BY BelongingParts
<1>3. /\ op'[r] = o /\ id'[r] = i /\ seen'[r] = row[i]
      /\ \A q \in Requests \ {r} : op'[q] = op[q] /\ id'[q] = id[q] /\ seen'[q] = seen[q]
  BY <1>1, <1>2 DEF Asked
<1>4. \A q \in Requests : at[q] # "idle" => op[q] # "subscribe"
  BY <1>1 DEF Facts!Comes
<1>5. ByItself({"subscribe"})'
  BY <1>1, <1>3, <1>4 DEF ByItself
<1>6. Truthful'
  BY DEF Remembered, Truthful, Rows!Here
<1>7. \A q \in Requests : Recalls(q)'
  BY <1>3 DEF Remembered, Recalls
<1> QED BY <1>5, <1>6, <1>7 DEF Remembered

LEMMA BegunRemembered ==
    ASSUME Belonging, Remembered, NEW r \in Requests,
           Facts!Use(r) \/ Facts!Edit(r) \/ Facts!Subscribe(r) \/ Facts!Delete(r)
    PROVE  Remembered'
<1>1. PICK o, i, a : Facts!Begins(r, o, i) /\ at' = [at EXCEPT ![r] = a] /\ UNCHANGED row
  BY DEF Facts!Use, Facts!Edit, Facts!Subscribe, Facts!Delete
<1>2. Facts!Begins(r, o, i) /\ \A q \in Requests \ {r} : at'[q] = at[q]
  BY <1>1, BelongingParts DEF Asked
<1> QED BY <1>1, <1>2, BeginsRemembered

LEMMA CreateRemembered ==
    ASSUME Belonging, Remembered, Facts!Create PROVE Remembered'
<1>1. PICK i \in unused, w \in Rows!Row :
         /\ w.parent = None /\ w.facts = None /\ row' = [row EXCEPT ![i] = w]
         /\ UNCHANGED <<at, op, id, seen>>
  BY DEF Facts!Create, Facts!Row, Rows!Row, Facts!Request
<1>2. i \in TenantIds /\ i \notin Rows!Here /\ Grown
  BY BelongingParts DEF Grown
<1>3. /\ Rows!Here' = Rows!Here \cup {i} /\ row'[i] = w
      /\ \A j \in Rows!Here : row'[j] = row[j]
  BY <1>1, <1>2, TenantConstants DEF Grown, Rows!Here
<1>4. Truthful'
  BY <1>1, <1>2, <1>3 DEF Remembered, Truthful, Grown
<1> QED BY <1>1, <1>3, <1>4, FactsStay

LEMMA ProtectRemembered ==
    ASSUME Belonging, Remembered, NEW i \in TenantIds, Facts!Protect(i) PROVE Remembered'
<1>1. /\ i \in Rows!Here /\ row' = [row EXCEPT ![i].protected = ~@]
      /\ UNCHANGED <<at, op, id, seen>> /\ Grown
  BY BelongingParts DEF Facts!Protect, Facts!Here, Rows!Here, Facts!Request
<1>2. row[i] \in Rows!Row
  BY <1>1 DEF Grown, Rows!Here
<1>3. \A j \in TenantIds : j # i => row'[j] = row[j]
  BY <1>1 DEF Grown
<1>4. /\ row'[i].facts = row[i].facts /\ row'[i].acct = row[i].acct
      /\ row'[i].parent = row[i].parent /\ row'[i] # None
  BY <1>1, <1>2, TenantConstants DEF Rows!Row, Grown
<1>5. Rows!Here' = Rows!Here
  BY <1>1, <1>3, <1>4 DEF Rows!Here
<1>6. \A j \in Rows!Here : /\ row'[j].facts = row[j].facts /\ row'[j].acct = row[j].acct
                           /\ row'[j].parent = row[j].parent
  BY <1>3, <1>4 DEF Rows!Here
<1>7. Truthful'
  BY <1>1, <1>5, <1>6 DEF Remembered, Truthful, Grown
<1> QED BY <1>1, <1>6, <1>7, FactsStay

\* The answer of a query goes to every row of the account that belongs to the family.
LEMMA QueryRemembered ==
    ASSUME Belonging, Remembered, NEW r \in Requests, Facts!Query(r) PROVE Remembered'
<1> DEFINE answer == used[r].acct
           root == IF seen[r].parent = None THEN id[r] ELSE seen[r].parent
           family == ({root} \cup Rows!ChildrenOf(root)) \cap Rows!Here
<1>1. /\ at[r] = "oracle" /\ op[r] = "query" /\ used[r] # None /\ Rows!Ends(r)
  BY DEF Facts!Query, Facts!Ends, Rows!Ends
<1>2. Asked /\ Grown /\ Looks(r) /\ Recalls(r) /\ Truthful /\ ByItself({"subscribe"})
  BY BelongingParts DEF Fine, Remembered
<1>3. /\ id[r] \in Rows!Here /\ seen[r] \in Rows!Row /\ Alike(seen[r], row[id[r]])
      /\ used[r] = Rows!ConfigOf(seen[r])
  BY <1>1, <1>2 DEF Looks
<1>4. answer = row[id[r]].acct /\ answer \in Accounts
  BY <1>3 DEF Rows!ConfigOf, Rows!Row, Alike
<1>5. PICK written \in SUBSET Rows!Here :
         /\ row' = [i \in TenantIds |-> IF i \in written THEN [row[i] EXCEPT !.facts = answer] ELSE row[i]]
         /\ written \subseteq family
         /\ \A i \in family \ written : (IF i = id[r] THEN seen[r].facts ELSE row[i].facts) = answer
  <2> DEFINE W == {i \in Facts!FamilyOf(seen[r], id[r]) :
                     IF i = id[r] THEN seen[r].facts # answer ELSE row[i].facts # answer}
  <2>1. Facts!FamilyOf(seen[r], id[r]) = family
    BY DEF Facts!FamilyOf, Facts!Family, Facts!ChildrenOf, Rows!ChildrenOf, Facts!Here, Rows!Here
  <2>2. row' = [i \in TenantIds |-> IF i \in W THEN [row[i] EXCEPT !.facts = answer] ELSE row[i]]
    BY DEF Facts!Query
  <2>3. W \subseteq family /\ \A i \in family \ W : (IF i = id[r] THEN seen[r].facts ELSE row[i].facts) = answer
    BY <2>1
  <2> HIDE DEF answer, W, root
  <2> QED BY <2>2, <2>3
<1> HIDE DEF answer
<1>6. \A i \in Rows!Here : i \in TenantIds /\ row[i] \in Rows!Row
  BY <1>2 DEF Grown, Rows!Here
<1>7. \A i \in Rows!Here : /\ row'[i] \in Rows!Row /\ row'[i].acct = row[i].acct
                           /\ row'[i].parent = row[i].parent
  BY <1>4, <1>5, <1>6 DEF Rows!Row
<1>8. Rows!Here' = Rows!Here
  BY <1>5, <1>6, <1>7, TenantConstants DEF Rows!Here
<1>9. \A i \in family : row'[i].facts = answer
  <2>1. ASSUME NEW i \in family PROVE row'[i].facts = answer
    <3>1. i \in Rows!Here /\ i \in TenantIds /\ row[i] \in Rows!Row
      BY <1>6
    <3>2. CASE i \in written
      BY <1>5, <3>1, <3>2 DEF Rows!Row
    <3>3. CASE i \notin written
      <4>1. row'[i] = row[i] /\ (IF i = id[r] THEN seen[r].facts ELSE row[i].facts) = answer
        BY <1>5, <3>1, <3>3
      <4>2. i = id[r] => seen[r].facts = row[i].facts
        BY <1>1, <1>2, <1>4, <4>1, TenantConstants DEF Recalls
      <4> QED BY <4>1, <4>2
    <3> QED BY <3>2, <3>3
  <2> QED BY <2>1
<1>10. \A i \in Rows!Here \ family : row'[i].facts = row[i].facts
  BY <1>5, <1>6
<1>11. /\ root \in Rows!Here /\ row[root].parent = None /\ row[root].acct = answer
       /\ id[r] \in family
  <2>1. CASE seen[r].parent = None
    BY <1>3, <1>4, <2>1 DEF Alike
  <2>2. CASE seen[r].parent # None
    <3>1. seen[r].parent = row[id[r]].parent
      BY <1>3 DEF Alike
    <3>2. root = row[id[r]].parent
      BY <2>2, <3>1
    <3>3. id[r] \in Rows!ChildrenOf(root)
      BY <1>3, <3>2 DEF Rows!ChildrenOf
    <3> HIDE DEF root
    <3> QED BY <1>2, <1>3, <1>4, <2>2, <3>1, <3>2, <3>3 DEF Grown
  <2> QED BY <2>1, <2>2
<1> HIDE DEF root
<1>12. \A i \in family : row[i].acct = answer
  <2>1. \A i \in Rows!ChildrenOf(root) : i \in Rows!Here /\ row[i].parent = root /\ root # None
    BY <1>6, <1>11, TenantConstants DEF Rows!ChildrenOf
  <2> QED BY <1>2, <1>11, <2>1 DEF Grown
<1>13. \A i \in Rows!Here : row[i].parent # None => (i \in family <=> row[i].parent \in family)
  <2>1. ASSUME NEW i \in Rows!Here, row[i].parent # None
        PROVE  i \in family <=> row[i].parent \in family
    <3>1. row[i].parent \in Rows!Here /\ row[row[i].parent].parent = None
      BY <1>2, <2>1 DEF Grown
    <3>2. \A j \in Rows!Here : j \in Rows!ChildrenOf(root) <=> row[j].parent = root
      BY DEF Rows!ChildrenOf
    <3>3. root # None
      BY <1>6, <1>11, TenantConstants
    <3> QED BY <1>11, <2>1, <3>1, <3>2, <3>3
  <2> QED BY <2>1
<1> HIDE DEF family
<1>14. Truthful'
  <2>1. ASSUME NEW i \in Rows!Here
        PROVE  row'[i].facts \in {None, row'[i].acct}
    BY <1>2, <1>7, <1>9, <1>10, <1>12 DEF Truthful
  <2>2. ASSUME NEW i \in Rows!Here, row'[i].parent # None
        PROVE  row'[i].facts = row'[row'[i].parent].facts
    <3>1. row'[i].parent = row[i].parent /\ row[i].parent \in Rows!Here
      BY <1>2, <1>7, <2>2 DEF Grown
    <3>2. row[i].facts = row[row[i].parent].facts
      BY <1>2, <2>2, <3>1 DEF Truthful
    <3> QED BY <1>9, <1>10, <1>13, <2>2, <3>1, <3>2
  <2> QED BY <1>8, <2>1, <2>2 DEF Truthful
<1>15. at'[r] = "idle" /\ \A q \in Requests \ {r} : Stays(q)
  BY <1>1, <1>2, EndsWell
<1>16. ByItself({"subscribe"})'
  BY <1>2, <1>15, ByItselfStays DEF Stays
<1>17. ASSUME NEW q \in Requests PROVE Recalls(q)'
  <2> SUFFICES ASSUME q # r, at[q] # "idle", op[q] \in {"use", "query", "subscribe"} PROVE Recalls(q)'
    BY <1>15 DEF Recalls, Stays
  <2>1. op[q] # "subscribe" /\ Stays(q)
    BY <1>1, <1>2, <1>15 DEF ByItself
  <2>2. id[q] \in Rows!Here /\ seen[q].facts \in {None, row[id[q]].facts}
    BY BelongingParts DEF Fine, Looks, Remembered, Recalls
  <2>3. id[q] \in family => row[id[q]].facts \in {None, answer}
    BY <1>2, <1>12, <2>2 DEF Truthful
  <2>4. seen[q].facts \in {None, row'[id[q]].facts}
    BY <1>9, <1>10, <2>2, <2>3
  <2> QED BY <2>1, <2>4 DEF Recalls, Stays
<1> QED BY <1>14, <1>16, <1>17 DEF Remembered

LEMMA EditCommitRemembered ==
    ASSUME Belonging, Remembered, NEW r \in Requests, Rows!EditCommit(r) PROVE Remembered'
<1> DEFINE kin == Rows!ChildrenOf(id[r]) \cup {id[r]}
<1>1. at[r] = "oracle" /\ op[r] = "edit"
  BY DEF Rows!EditCommit
<1>2. Asked /\ Grown /\ Truthful
  BY BelongingParts DEF Remembered
<1>3. CASE Rows!Ends(r) /\ UNCHANGED <<row, unused, default, kept>>
  <2>1. at'[r] = "idle" /\ \A q \in Requests \ {r} : Stays(q)
    BY <1>2, <1>3, EndsWell
  <2> QED BY <1>3, <2>1, RowsStay DEF Stays
<1>4. CASE /\ row' = Rows!Saved(r) /\ at' = [at EXCEPT ![r] = "drop"]
           /\ UNCHANGED <<unused, default, kept, op, id, seen, kids, wish, used>>
  <2>1. /\ at'[r] = "drop" /\ op'[r] = "edit"
        /\ \A q \in Requests \ {r} : Stays(q) /\ at[q] = "idle"
    <3>1. /\ at'[r] = "drop" /\ op'[r] = "edit" /\ \A q \in Requests \ {r} : Stays(q)
      BY <1>1, <1>2, <1>4 DEF Asked, Stays
    <3> QED BY <1>1, <3>1, AloneStep
  <2>2. /\ id[r] \in Rows!Here /\ row[id[r]].parent = None /\ kin \subseteq Rows!Here
        /\ wish[r].acct \in Accounts /\ wish[r].moved = (wish[r].acct # row[id[r]].acct)
        /\ \A i \in TenantIds \ kin : row'[i] = row[i]
        /\ \A i \in kin : /\ row'[i] \in Rows!Row /\ row'[i].parent = row[i].parent
                          /\ row'[i].acct = wish[r].acct
                          /\ row'[i].facts = IF wish[r].moved THEN None ELSE row[i].facts
    BY <1>1, <1>4, SavedRows
  <2>3. Rows!Here' = Rows!Here
    BY <2>2, TenantConstants DEF Rows!Here
  <2>4. \A i \in kin : row[i].acct = row[id[r]].acct
    <3>1. \A i \in Rows!ChildrenOf(id[r]) : i \in Rows!Here /\ row[i].parent = id[r] /\ id[r] # None
      BY <2>2, TenantConstants DEF Rows!ChildrenOf, Rows!Here
    <3> QED BY <1>2, <3>1 DEF Grown
  <2>5. \A i \in Rows!Here : row[i].parent # None => (i \in kin <=> row[i].parent \in kin)
    <3>1. ASSUME NEW i \in Rows!Here, row[i].parent # None
          PROVE  i \in kin <=> row[i].parent \in kin
      <4>1. row[i].parent \in Rows!Here /\ row[row[i].parent].parent = None
        BY <1>2, <3>1 DEF Grown
      <4>2. \A j \in Rows!Here : j \in Rows!ChildrenOf(id[r]) <=> row[j].parent = id[r]
        BY DEF Rows!ChildrenOf
      <4>3. id[r] # None
        BY <2>2, TenantConstants DEF Rows!Here
      <4> QED BY <2>2, <3>1, <4>1, <4>2, <4>3
    <3> QED BY <3>1
  <2> HIDE DEF kin
  <2>6. ASSUME NEW i \in Rows!Here
        PROVE  row'[i].facts \in {None, row'[i].acct}
    <3>1. i \in TenantIds /\ row[i].facts \in {None, row[i].acct}
      BY <1>2 DEF Truthful, Rows!Here
    <3> QED BY <2>2, <2>4, <3>1
  <2>7. ASSUME NEW i \in Rows!Here, row'[i].parent # None
        PROVE  row'[i].facts = row'[row'[i].parent].facts
    <3>1. i \in TenantIds /\ row'[i].parent = row[i].parent
      BY <2>2 DEF Rows!Here
    <3>2. row[i].parent \in Rows!Here /\ row[i].parent \in TenantIds /\ row[i].facts = row[row[i].parent].facts
      BY <1>2, <2>7, <3>1 DEF Grown, Truthful, Rows!Here
    <3> QED BY <2>2, <2>5, <2>7, <3>1, <3>2
  <2>8. Truthful'
    BY <2>3, <2>6, <2>7 DEF Truthful
  <2>9. ByItself({"subscribe"})' /\ \A q \in Requests : Recalls(q)'
    BY <2>1 DEF ByItself, Recalls, Stays
  <2> QED BY <2>8, <2>9 DEF Remembered
<1> QED BY <1>3, <1>4 DEF Rows!EditCommit

LEMMA AddRegionRemembered ==
    ASSUME Belonging, Remembered, NEW r \in Requests, Rows!AddRegion(r) PROVE Remembered'
<1>1. at[r] = "write" /\ op[r] = "subscribe" /\ Rows!Ends(r)
  BY DEF Rows!AddRegion
<1>2. Asked /\ Grown /\ Looks(r) /\ Truthful /\ Recalls(r)
  BY BelongingParts DEF Fine, Remembered
<1>3. at'[r] = "idle" /\ \A q \in Requests \ {r} : Stays(q)
  BY <1>1, <1>2, EndsWell
<1>4. CASE UNCHANGED <<row, unused>>
  BY <1>3, <1>4, RowsStay DEF Stays
<1>5. CASE ~UNCHANGED <<row, unused>>
  <2>1. PICK i \in unused, w \in Rows!Row :
           /\ row' = [row EXCEPT ![i] = w] /\ unused' = unused \ {i}
           /\ w.acct = Rows!Root(r).row.acct
           /\ w.parent = Rows!Root(r).id /\ w.facts = Rows!Root(r).row.facts
    BY <1>5, AddedRow
  <2>2. i \in TenantIds /\ i \notin Rows!Here
    BY <1>2 DEF Grown
  <2>3. /\ Rows!Here' = Rows!Here \cup {i} /\ row'[i] = w
        /\ \A j \in Rows!Here : row'[j] = row[j]
    BY <1>2, <2>1, <2>2, TenantConstants DEF Grown, Rows!Here
  <2>4. w.parent \in Rows!Here /\ w.acct = row[w.parent].acct /\ w.facts = row[w.parent].facts
    BY <1>1, <1>2, <2>1, RootOf DEF Recalls
  <2>5. w.facts \in {None, w.acct}
    BY <1>2, <2>4 DEF Truthful
  <2>6. Truthful'
    BY <1>2, <2>2, <2>3, <2>4, <2>5 DEF Truthful, Grown
  <2>7. \A j \in Rows!Here : row'[j].facts = row[j].facts
    BY <2>3
  <2> QED BY <1>3, <2>6, <2>7, FactsStay DEF Stays
<1> QED BY <1>4, <1>5

LEMMA PurgeRemembered ==
    ASSUME Belonging, Belonging', Remembered, NEW r \in Requests, Rows!Purge(r) PROVE Remembered'
<1>1. /\ at[r] = "write" /\ op[r] = "delete" /\ at' = [at EXCEPT ![r] = "drop"]
      /\ row' = [i \in TenantIds |-> IF i \in wish[r].ids THEN None ELSE row[i]]
      /\ UNCHANGED <<unused, kept, op, id, seen, kids, wish, used>>
  BY DEF Rows!Purge
<1>2. Asked /\ Grown' /\ Truthful
  BY BelongingParts DEF Belonging, Remembered
<1>3. at'[r] = "drop" /\ op'[r] = "delete" /\ \A q \in Requests \ {r} : Stays(q)
  BY <1>1, <1>2 DEF Asked, Stays
<1>4. \A q \in Requests \ {r} : at[q] = "idle"
  BY <1>1, <1>3, AloneStep
<1>5. \A i \in Rows!Here' : i \in Rows!Here /\ row'[i] = row[i]
  BY <1>1 DEF Rows!Here
<1>6. Truthful'
  BY <1>2, <1>5 DEF Truthful, Grown
<1>7. ByItself({"subscribe"})' /\ \A q \in Requests : Recalls(q)'
  BY <1>3, <1>4 DEF ByItself, Recalls, Stays
<1> QED BY <1>6, <1>7 DEF Remembered

LEMMA NextRemembered ==
    ASSUME Belonging, Remembered, [Facts!Next]_tenantRows PROVE Belonging' /\ Remembered'
<1>1. Belonging'
  BY FewerMoves, NextBelonging
<1>2. CASE UNCHANGED tenantRows
  <2>1. UNCHANGED row /\ UNCHANGED <<at, op, id, seen>>
    BY <1>2 DEF tenantRows
  <2> QED BY <1>1, <2>1, RowsStay
<1>3. CASE \/ Facts!Create
           \/ \E i \in TenantIds : Facts!Protect(i)
           \/ \E i \in TenantIds \cup {None} : Facts!SetDefault(i)
  <2>1. CASE \E i \in TenantIds \cup {None} : Facts!SetDefault(i)
    <3>1. UNCHANGED row /\ UNCHANGED <<at, op, id, seen>>
      BY <2>1 DEF Facts!SetDefault, Facts!Request
    <3> QED BY <1>1, <3>1, RowsStay
  <2> QED BY <1>1, <1>3, <2>1, CreateRemembered, ProtectRemembered
<1>4. ASSUME NEW r \in Requests, Facts!Step(r) PROVE Remembered'
  <2>1. CASE Facts!Use(r) \/ Facts!Edit(r) \/ Facts!Subscribe(r) \/ Facts!Delete(r)
    BY <2>1, BegunRemembered
  <2>2. CASE Facts!Query(r)
    BY <2>2, QueryRemembered
  <2>3. CASE Facts!EditCommit(r)
    <3>1. Rows!EditCommit(r)
      <4>1. Facts!Saved(r) = Rows!Saved(r)
        BY DEF Facts!Saved, Rows!Saved, Facts!Written, Rows!Written, Facts!Changed, Rows!Changed
      <4> QED BY <2>3, <4>1 DEF Facts!EditCommit, Rows!EditCommit, Facts!Here, Rows!Here,
                                Facts!Ends, Rows!Ends
    <3> QED BY <3>1, EditCommitRemembered
  <2>4. CASE Facts!AddRegion(r)
    <3>1. Rows!AddRegion(r)
      BY <2>4 DEF Facts!AddRegion, Rows!AddRegion, Facts!Root, Rows!Root, Facts!NotHome, Rows!NotHome,
                  Facts!Here, Rows!Here, Facts!Ends, Rows!Ends
    <3> QED BY <3>1, AddRegionRemembered
  <2>5. CASE Facts!Purge(r)
    <3>1. Rows!Purge(r)
      BY <2>5 DEF Facts!Purge, Rows!Purge, Facts!DefaultAfter, Rows!DefaultAfter
    <3> QED BY <1>1, <3>1, PurgeRemembered
  <2>6. CASE Facts!Used(r) \/ Facts!Drop(r)
    <3>1. UNCHANGED row /\ Rows!Ends(r)
      BY <2>6 DEF Facts!Used, Facts!Drop, Facts!Ends, Rows!Ends
    <3>2. at'[r] = "idle" /\ \A q \in Requests \ {r} : Stays(q)
      BY <3>1, EndsWell, BelongingParts
    <3> QED BY <3>1, <3>2, RowsStay DEF Stays
  <2>7. CASE Facts!UseSession(r) \/ Facts!EditKids(r) \/ Facts!Subscribed(r)
    <3>1. UNCHANGED <<row, op, id, seen>> /\ at[r] # "idle" /\ \A q \in Requests \ {r} : at'[q] = at[q]
      BY <2>7, BelongingParts DEF Facts!UseSession, Facts!EditKids, Facts!Subscribed, Asked
    <3> QED BY <3>1, RowsStay
  <2> QED BY <1>4, <2>1, <2>2, <2>3, <2>4, <2>5, <2>6, <2>7 DEF Facts!Step
<1> QED BY <1>1, <1>2, <1>3, <1>4 DEF Facts!Next

LEMMA RememberedHolds ==
    ASSUME Belonging, Remembered PROVE Facts!FactsAreTheirs /\ Facts!FactsAgree
<1>1. Facts!Here = Rows!Here /\ None \notin Rows!Here
  BY TenantConstants DEF Facts!Here, Rows!Here
<1> QED BY <1>1 DEF Remembered, Truthful, Facts!FactsAreTheirs, Facts!FactsAgree

------------------------------------------------------------------------------
(* Sessions that are used *)

\* What a session is made of is all there is to it.
Shaped(c) == c = [acct |-> c.acct, key |-> c.key, region |-> c.region, facts |-> c.facts]
Sessions ==
    /\ DOMAIN kept = KeptIds /\ \A i \in KeptIds : kept[i] # None => Shaped(kept[i])
    /\ DOMAIN at = Requests /\ DOMAIN id = Requests /\ DOMAIN seen = Requests /\ DOMAIN used = Requests
Works(r) ==
    /\ at[r] = "idle" => used[r] = None
    /\ at[r] # "idle" => id[r] \in KeptIds
    /\ used[r] # None => used[r] = Kept!ConfigOf(seen[r])
Fresh == Sessions /\ \A r \in Requests : Works(r)

LEMMA InitFresh == Kept!Init => Fresh
BY DEF Kept!Init, Fresh, Sessions, Works

\* A request begins with no session.
LEMMA BeginsFresh ==
    ASSUME Fresh, NEW r \in Requests,
           Kept!Use(r) \/ Kept!Edit(r) \/ Kept!Subscribe(r) \/ Kept!Delete(r)
    PROVE  Fresh'
<1>1. PICK o, i, a :
         /\ Kept!Begins(r, o, i) /\ at' = [at EXCEPT ![r] = a] /\ a # "idle" /\ UNCHANGED <<kept, used>>
  BY DEF Kept!Use, Kept!Edit, Kept!Subscribe, Kept!Delete
<1>2. /\ at[r] = "idle" /\ i \in KeptIds /\ id' = [id EXCEPT ![r] = i]
      /\ seen' = [seen EXCEPT ![r] = row[i]]
  BY <1>1 DEF Kept!Begins, Kept!Here
<1>3. /\ Sessions' /\ at'[r] = a /\ id'[r] = i /\ used'[r] = None
      /\ \A q \in Requests \ {r} : at'[q] = at[q] /\ id'[q] = id[q] /\ seen'[q] = seen[q]
  BY <1>1, <1>2 DEF Fresh, Sessions, Works
<1> QED BY <1>1, <1>2, <1>3 DEF Fresh, Works, Kept!ConfigOf

\* One that ends has none any more.
LEMMA EndsFresh ==
    ASSUME Fresh, NEW r \in Requests, Kept!Ends(r),
           DOMAIN kept' = KeptIds, \A i \in KeptIds : kept'[i] \in {None, kept[i]}
    PROVE  Fresh'
<1>1. /\ Sessions' /\ at'[r] = "idle" /\ used'[r] = None
      /\ \A q \in Requests \ {r} : /\ at'[q] = at[q] /\ id'[q] = id[q] /\ seen'[q] = seen[q]
                                   /\ used'[q] = used[q]
  BY DEF Fresh, Sessions, Kept!Ends, Shaped
<1> QED BY <1>1 DEF Fresh, Works, Kept!ConfigOf

\* One that goes on keeps its own.
LEMMA GoesOnFresh ==
    ASSUME Fresh, DOMAIN at' = Requests, UNCHANGED <<kept, id, seen, used>>,
           \A q \in Requests : at'[q] = at[q] \/ (at[q] # "idle" /\ at'[q] # "idle")
    PROVE  Fresh'
BY DEF Fresh, Sessions, Works, Shaped, Kept!ConfigOf

\* The session it gets is of the row it read, whatever was kept.
LEMMA UseSessionFresh ==
    ASSUME Fresh, NEW r \in Requests, Kept!UseSession(r) PROVE Fresh'
<1> DEFINE c == Kept!GetSession(id[r], seen[r])
<1>1. /\ at[r] = "oracle" /\ kept' = [kept EXCEPT ![id[r]] = c] /\ used' = [used EXCEPT ![r] = c]
      /\ UNCHANGED <<at, id, seen>>
  BY DEF Kept!UseSession, Kept!WithSession
<1>2. id[r] \in KeptIds
  BY <1>1 DEF Fresh, Works
<1>3. c = Kept!ConfigOf(seen[r])
  <2>1. CASE kept[id[r]] # None /\ Kept!Fingerprint(kept[id[r]]) = Kept!Fingerprint(seen[r])
    <3>1. Shaped(kept[id[r]])
      BY <1>2, <2>1 DEF Fresh, Sessions
    <3> QED BY <2>1, <3>1 DEF Shaped, Kept!GetSession, Kept!Fingerprint, Kept!ConfigOf
  <2>2. CASE ~(kept[id[r]] # None /\ Kept!Fingerprint(kept[id[r]]) = Kept!Fingerprint(seen[r]))
    BY <2>2 DEF Kept!GetSession
  <2> QED BY <2>1, <2>2
<1>4. Shaped(c)
  BY <1>3 DEF Shaped, Kept!ConfigOf
<1> HIDE DEF c
<1>5. Sessions' /\ used'[r] = c /\ \A q \in Requests \ {r} : used'[q] = used[q]
  BY <1>1, <1>2, <1>4 DEF Fresh, Sessions, Shaped
<1> QED BY <1>1, <1>3, <1>5 DEF Fresh, Works, Kept!ConfigOf

LEMMA NextFresh == ASSUME Fresh, [Kept!Next]_tenantRows PROVE Fresh'
<1>1. CASE UNCHANGED <<kept, at, id, seen, used>>
  BY <1>1, GoesOnFresh DEF Fresh, Sessions
<1>2. CASE UNCHANGED tenantRows
  BY <1>1, <1>2 DEF tenantRows
<1>3. CASE \/ Kept!Create \/ \E i \in KeptIds : Kept!Protect(i)
           \/ \E i \in KeptIds \cup {None} : Kept!SetDefault(i)
  BY <1>1, <1>3 DEF Kept!Create, Kept!Protect, Kept!SetDefault, Kept!Request
<1>4. ASSUME NEW r \in Requests, Kept!Step(r) PROVE Fresh'
  <2>1. CASE Kept!Use(r) \/ Kept!Edit(r) \/ Kept!Subscribe(r) \/ Kept!Delete(r)
    BY <2>1, BeginsFresh
  <2>2. CASE Kept!UseSession(r)
    BY <2>2, UseSessionFresh
  <2>3. CASE Kept!Ends(r) /\ UNCHANGED kept
    BY <2>3, EndsFresh DEF Fresh, Sessions
  <2>4. CASE Kept!Used(r) \/ Kept!Query(r) \/ Kept!AddRegion(r)
    BY <2>3, <2>4 DEF Kept!Used, Kept!Query, Kept!AddRegion
  <2>5. CASE Kept!Drop(r)
    <3>1. Kept!Ends(r) /\ kept' = [i \in KeptIds |-> IF i \in Kept!Targets(r) THEN None ELSE kept[i]]
      BY <2>5 DEF Kept!Drop
    <3> QED BY <3>1, EndsFresh
  <2>6. ASSUME NEW a, at[r] # "idle", a # "idle", at' = [at EXCEPT ![r] = a],
               UNCHANGED <<kept, id, seen, used>>
        PROVE  Fresh'
    BY <2>6, GoesOnFresh DEF Fresh, Sessions
  <2>7. CASE Kept!EditCommit(r)
    BY <2>3, <2>6, <2>7 DEF Kept!EditCommit
  <2>8. CASE Kept!EditKids(r) \/ Kept!Subscribed(r) \/ Kept!Purge(r)
    BY <2>6, <2>8 DEF Kept!EditKids, Kept!Subscribed, Kept!Purge
  <2> QED BY <1>4, <2>1, <2>2, <2>4, <2>5, <2>7, <2>8 DEF Kept!Step
<1> QED BY <1>2, <1>3, <1>4 DEF Kept!Next

------------------------------------------------------------------------------
(* What leaves the file of the desktop program *)

\* What is picked out of a sequence is there once, and nothing else is.
LEMMA PickedWell ==
    ASSUME NEW t, NEW L \in Nat, DOMAIN t = 1..L, NEW S \in SUBSET (1..L)
    PROVE  LET count == Cardinality(S) IN
           /\ count \in Nat /\ DOMAIN Sound!Picked(t, S) = 1..count
           /\ \A k \in 1..count : \E n \in S : Sound!Picked(t, S)[k] = t[n]
           /\ \A n \in S : \E k \in 1..count : Sound!Picked(t, S)[k] = t[n]
           /\ \A k, l \in 1..count : k # l =>
                 \E n, m \in S : n # m /\ Sound!Picked(t, S)[k] = t[n] /\ Sound!Picked(t, S)[l] = t[m]
<1> DEFINE C == Cardinality(S)
           Upto(n) == {m \in S : m <= n}
           rank == [n \in S |-> Cardinality(Upto(n))]
           pos == [k \in 1..C |-> CHOOSE n \in S : Cardinality(Upto(n)) = k]
<1>1. IsFiniteSet(S) /\ C \in Nat /\ \A n : IsFiniteSet(Upto(n)) /\ Cardinality(Upto(n)) \in Nat
  <2>1. IsFiniteSet(1..L)
    BY FS_Interval
  <2>2. IsFiniteSet(S) /\ \A n : Upto(n) \subseteq S
    BY <2>1, FS_Subset
  <2> QED BY <2>2, FS_Subset, FS_CardinalityType
<1>0. \A n \in S : n \in Nat /\ rank[n] = Cardinality(Upto(n))
  OBVIOUS
<1>2. ASSUME NEW n \in S PROVE rank[n] \in 1..C
  <2>1. n \in Upto(n) /\ Upto(n) \subseteq S
    BY <1>0
  <2> HIDE DEF Upto, rank
  <2>2. Cardinality(Upto(n)) <= C /\ Cardinality(Upto(n)) # 0
    BY <1>1, <2>1, FS_Subset, FS_EmptySet
  <2> QED BY <1>0, <1>1, <2>2
<1>3. ASSUME NEW n \in S, NEW m \in S, n < m PROVE rank[n] # rank[m]
  <2> HIDE DEF rank
  <2>1. Upto(n) \subseteq Upto(m) /\ m \in Upto(m) /\ m \notin Upto(n)
    <3>1. n \in Nat /\ m \in Nat /\ \A x \in S : x \in Nat
      BY <1>0
    <3>2. \A x \in S : x <= n => x <= m
      BY <1>3, <3>1
    <3>3. m <= m /\ ~(m <= n)
      BY <1>3, <3>1
    <3> QED BY <3>2, <3>3
  <2> HIDE DEF Upto
  <2>2. Cardinality(Upto(n)) # Cardinality(Upto(m))
    BY <1>1, <2>1, FS_Subset
  <2> QED BY <1>0, <2>2
<1>4. rank \in Surjection(S, 1..C)
  <2>1. rank \in Injection(S, 1..C)
    <3>1. rank \in [S -> 1..C]
      BY <1>2
    <3>2. \A n, m \in S : n # m => n < m \/ m < n
      BY <1>0
    <3> HIDE DEF rank
    <3>3. \A n, m \in S : rank[n] = rank[m] => n = m
      BY <1>3, <3>2
    <3> QED BY <3>1, <3>3 DEF Injection, IsInjective
  <2>2. IsFiniteSet(1..C) /\ Cardinality(1..C) = C
    BY <1>1, FS_Interval
  <2> HIDE DEF rank
  <2> QED BY <2>1, <2>2, FS_Injection
<1>5. \A k \in 1..C : pos[k] \in S /\ rank[pos[k]] = k
  <2>1. \A k \in 1..C : \E n \in S : rank[n] = k
    BY <1>4 DEF Surjection
  <2> HIDE DEF Upto
  <2> QED BY <2>1
<1>6. \A n \in S : rank[n] \in 1..C /\ pos[rank[n]] = n
  <2>1. \A n, m \in S : rank[n] = rank[m] => n = m
    BY <1>0, <1>3
  <2> HIDE DEF rank, pos
  <2> QED BY <1>2, <1>5, <2>1
<1>7. Sound!Picked(t, S) = [k \in 1..C |-> t[pos[k]]]
  BY DEF Sound!Picked, Sound!Cardinality, Cardinality
<1> HIDE DEF rank, pos
<1>8. /\ \A k \in 1..C : pos[k] \in S /\ Sound!Picked(t, S)[k] = t[pos[k]]
      /\ \A n \in S : rank[n] \in 1..C /\ Sound!Picked(t, S)[rank[n]] = t[n]
      /\ \A k, l \in 1..C : k # l => pos[k] # pos[l]
  BY <1>5, <1>6, <1>7
<1>9. Cardinality(S) = C
  OBVIOUS
<1> HIDE DEF C
<1>10. DOMAIN Sound!Picked(t, S) = 1..C
  BY <1>7
<1>11. /\ \A k \in 1..C : \E n \in S : Sound!Picked(t, S)[k] = t[n]
       /\ \A n \in S : \E k \in 1..C : Sound!Picked(t, S)[k] = t[n]
  BY <1>8
<1>12. \A k, l \in 1..C : k # l =>
          \E n, m \in S : n # m /\ Sound!Picked(t, S)[k] = t[n] /\ Sound!Picked(t, S)[l] = t[m]
  <2>1. ASSUME NEW k \in 1..C, NEW l \in 1..C, k # l
        PROVE  \E n, m \in S : n # m /\ Sound!Picked(t, S)[k] = t[n] /\ Sound!Picked(t, S)[l] = t[m]
    <3>1. /\ pos[k] \in S /\ pos[l] \in S /\ pos[k] # pos[l]
          /\ Sound!Picked(t, S)[k] = t[pos[k]] /\ Sound!Picked(t, S)[l] = t[pos[l]]
      BY <1>8, <2>1
    <3> QED BY <3>1
  <2> QED BY <2>1
<1> QED BY <1>1, <1>9, <1>10, <1>11, <1>12

Wanted == [id: FileIds, name: WholeNames, good: BOOLEAN]
Tenant == [id: FileIds, name: WholeNames]

\* The file can be read, all of it.
Filed ==
    /\ file.items \in Seq(Sound!Entry) /\ secret = 1 /\ import \in Seq(Wanted)
    /\ \A n \in DOMAIN file.items : file.items[n].form = "good" /\ file.items[n].seal = 1
    /\ filesUnused \subseteq FileIds /\ Sound!IdsOf(file.items) \cap filesUnused = {}

\* What is in the file is in memory, unless it was deleted, and there no id is taken twice.
Held ==
    up => /\ fernet = 1 /\ tenants \in Seq(Tenant)
          /\ \A n, m \in DOMAIN tenants : tenants[n].id = tenants[m].id => n = m
          /\ Sound!IdsOf(tenants) \cap filesUnused = {}
          /\ Sound!NamesOf(file.items) \subseteq Sound!NamesOf(tenants) \cup deleted

LEMMA StoreConstants ==
    /\ None \notin FileIds /\ WholeFiles \subseteq Seq(Sound!Entry) /\ WholeArchives \subseteq Seq(Wanted)
    /\ \A f \in WholeFiles : \A n \in DOMAIN f : f[n].form = "good" /\ f[n].seal = 1
<1>1. Sound!StoreAssumption
  BY PartsAssumption
<1>2. \A f \in WholeFiles : \A n \in DOMAIN f : f[n].form = "good" /\ f[n].seal = 1
  BY PartsAssumption
<1> QED BY <1>1, <1>2 DEF Sound!StoreAssumption, Wanted

LEMMA InitStored == Sound!Init => Filed /\ Held
<1> SUFFICES ASSUME Sound!Init PROVE Filed /\ Held
  OBVIOUS
<1>1. PICK f \in WholeFiles, a \in FileIds \cup {None} : file = [items |-> f, active |-> a]
  BY DEF Sound!Init
<1>2. /\ file.items = f /\ filesUnused = FileIds \ (Sound!IdsOf(file.items) \cup {file.active})
      /\ secret = 1 /\ up = FALSE /\ import = <<>>
  BY <1>1 DEF Sound!Init
<1> QED BY <1>2, StoreConstants DEF Filed, Held

\* A save writes all that is in memory, or nothing.
LEMMA Saves ==
    ASSUME Filed, tenants' \in Seq(Tenant), NEW a, Sound!Save(tenants', a, 1),
           filesUnused' \subseteq filesUnused, Sound!IdsOf(tenants') \cap filesUnused' = {},
           secret' = secret, import' \in Seq(Wanted)
    PROVE  /\ Filed'
           /\ \/ file' = file
              \/ Sound!NamesOf(file'.items) = Sound!NamesOf(tenants')
<1>1. CASE file' = file
  BY <1>1 DEF Filed, Sound!IdsOf
<1>2. CASE file' # file
  <2> DEFINE s == Sound!Sealed(tenants', 1)
  <2>1. file' = [items |-> s, active |-> a]
    BY <1>2 DEF Sound!Save
  <2>2. /\ DOMAIN s = DOMAIN tenants'
        /\ \A n \in DOMAIN tenants' : /\ s[n].id = tenants'[n].id /\ s[n].name = tenants'[n].name
                                      /\ s[n].form = "good" /\ s[n].seal = 1 /\ s[n] \in Sound!Entry
    <3>1. DOMAIN s = DOMAIN tenants' /\ \A n \in DOMAIN tenants' : tenants'[n] \in Tenant
      BY DEF Sound!Sealed
    <3>2. \A n \in DOMAIN tenants' :
             s[n] = [id |-> tenants'[n].id, name |-> tenants'[n].name, seal |-> 1, form |-> "good"]
      BY DEF Sound!Sealed
    <3> HIDE DEF s
    <3> QED BY <3>1, <3>2 DEF Sound!Entry, Tenant
  <2>3. s \in Seq(Sound!Entry)
    <3>1. Len(tenants') \in Nat /\ DOMAIN tenants' = 1..Len(tenants')
      OBVIOUS
    <3>2. s = [n \in 1..Len(tenants') |-> s[n]]
      BY <3>1 DEF Sound!Sealed
    <3> HIDE DEF s
    <3>3. \A n \in 1..Len(tenants') : s[n] \in Sound!Entry
      BY <2>2, <3>1
    <3> QED BY <3>1, <3>2, <3>3
  <2> HIDE DEF s
  <2>4. /\ Sound!NamesOf(s) = Sound!NamesOf(tenants') /\ Sound!IdsOf(s) = Sound!IdsOf(tenants')
    BY <2>2 DEF Sound!NamesOf, Sound!IdsOf
  <2> QED BY <2>1, <2>2, <2>3, <2>4 DEF Filed
<1> QED BY <1>1, <1>2

\* Nothing that memory has and the user did not delete is lost in a save.
LEMMA SavesAll ==
    ASSUME Filed, up, up', fernet' = 1, tenants' \in Seq(Tenant), NEW a, Sound!Save(tenants', a, 1),
           filesUnused' \subseteq filesUnused, Sound!IdsOf(tenants') \cap filesUnused' = {},
           \A n, m \in DOMAIN tenants' : tenants'[n].id = tenants'[m].id => n = m,
           Sound!NamesOf(file.items) \subseteq Sound!NamesOf(tenants') \cup deleted',
           secret' = secret, import' \in Seq(Wanted)
    PROVE  Filed' /\ Held' /\ Sound!NothingErased
<1>1. Filed' /\ (file' = file \/ Sound!NamesOf(file'.items) = Sound!NamesOf(tenants'))
  BY Saves
<1>2. Sound!NamesOf(file'.items) \subseteq Sound!NamesOf(tenants') \cup deleted'
  BY <1>1
<1> QED BY <1>1, <1>2 DEF Held, Sound!NothingErased, Sound!NamesOf, Sound!IdsOf

LEMMA NamesAmong ==
    ASSUME NEW t, NEW u, \A n \in DOMAIN t : \E k \in DOMAIN u : t[n].name = u[k].name
    PROVE  Sound!NamesOf(t) \subseteq Sound!NamesOf(u)
BY DEF Sound!NamesOf

\* A start has every tenant of the file, each with an id of its own.
LEMMA StartStored == ASSUME Filed, Sound!Start PROVE Filed' /\ Held' /\ Sound!NothingErased
<1> DEFINE items == file.items
           t == Sound!Readable(secret)
           new == Sound!Renewed(t)
<1>1. /\ ~up /\ up' = TRUE /\ fernet' = secret /\ active' = Sound!ActiveOf(tenants', file.active)
      /\ Sound!SaveHealed(tenants', active', \E n \in DOMAIN t : Sound!Collides(t, n))
      /\ import' = <<>> /\ last' = None /\ UNCHANGED <<secret, deleted>>
  BY DEF Sound!Start
<1>2. PICK ids \in [DOMAIN t -> filesUnused \cup {None}] :
         /\ \A n \in DOMAIN t : n \in new <=> ids[n] # None
         /\ \A n, m \in new : ids[n] = ids[m] => n = m
         /\ tenants' = Sound!Healed(t, ids) /\ filesUnused' = filesUnused \ {ids[n] : n \in new}
  BY DEF Sound!Start
<1>3. /\ secret = 1 /\ items \in Seq(Sound!Entry) /\ filesUnused \subseteq FileIds
      /\ Sound!IdsOf(items) \cap filesUnused = {}
      /\ \A n \in DOMAIN items : items[n].form = "good" /\ items[n].seal = 1
  BY DEF Filed
<1>4. PICK L \in Nat : DOMAIN items = 1..L
  BY <1>3
<1>5. PICK C \in Nat :
         /\ DOMAIN t = 1..C /\ \A k \in 1..C : \E n \in 1..L : t[k] = items[n]
         /\ \A n \in 1..L : \E k \in 1..C : t[k] = items[n]
  <2>1. {n \in DOMAIN items : items[n].form = "good" /\ items[n].seal = secret} = 1..L
    BY <1>3, <1>4
  <2>2. PICK S \in SUBSET (1..L) :
           S = {n \in DOMAIN items : items[n].form = "good" /\ items[n].seal = secret}
    BY <2>1
  <2>3. t = Sound!Picked(items, S)
    BY <2>2 DEF Sound!Readable
  <2> HIDE DEF t, items
  <2>4. PICK C \in Nat :
           /\ DOMAIN t = 1..C /\ \A k \in 1..C : \E n \in S : t[k] = items[n]
           /\ \A n \in S : \E k \in 1..C : t[k] = items[n]
    <3>1. /\ Cardinality(S) \in Nat /\ DOMAIN t = 1..Cardinality(S)
          /\ \A k \in 1..Cardinality(S) : \E n \in S : t[k] = items[n]
          /\ \A n \in S : \E k \in 1..Cardinality(S) : t[k] = items[n]
      BY ONLY <1>4, <2>3, PickedWell
    <3> QED BY ONLY <3>1
  <2> QED BY <2>1, <2>2, <2>4
<1>6. \A n \in DOMAIN items : items[n] \in Sound!Entry
  BY <1>3
<1> HIDE DEF t, items
<1>7. /\ \A n \in 1..C : t[n] \in Sound!Entry /\ t[n].id \in Sound!IdsOf(items)
      /\ Sound!NamesOf(items) \subseteq Sound!NamesOf(t)
  <2>1. \A n \in 1..C : t[n] \in Sound!Entry /\ t[n].id \in Sound!IdsOf(items)
    BY <1>4, <1>5, <1>6 DEF Sound!IdsOf
  <2>2. \A n \in DOMAIN items : \E k \in DOMAIN t : items[n].name = t[k].name
    BY <1>4, <1>5
  <2> QED BY <2>1, <2>2, NamesAmong
<1>8. /\ DOMAIN tenants' = 1..C
      /\ \A n \in 1..C : /\ tenants'[n] = [id |-> IF n \in new THEN ids[n] ELSE t[n].id, name |-> t[n].name]
                         /\ tenants'[n].id = (IF n \in new THEN ids[n] ELSE t[n].id)
                         /\ tenants'[n].name = t[n].name
      /\ tenants' = [n \in 1..C |-> tenants'[n]]
  BY <1>2, <1>5 DEF Sound!Healed
<1>9. /\ \A n \in new : ids[n] \in filesUnused
      /\ \A n \in 1..C : n \notin new => /\ t[n].id # None
                                          /\ \A m \in 1..(n - 1) : t[m].id # t[n].id
  BY <1>2, <1>5 DEF Sound!Renewed, Sound!Missing, Sound!Collides
<1>10. \A n \in new : n \in 1..C
  BY <1>5 DEF Sound!Renewed
<1> HIDE DEF new
<1>11. \A n \in 1..C : tenants'[n] \in Tenant
  BY <1>3, <1>7, <1>8, <1>9 DEF Tenant, Sound!Entry
<1>12. tenants' \in Seq(Tenant)
  BY <1>8, <1>11
<1>13. ASSUME NEW n \in 1..C, NEW m \in 1..C, n < m PROVE tenants'[n].id # tenants'[m].id
  <2>1. n \in 1..(m - 1)
    BY <1>13
  <2>2. t[n].id \notin filesUnused /\ t[m].id \notin filesUnused
    BY <1>3, <1>7
  <2> QED BY <1>2, <1>8, <1>9, <1>13, <2>1, <2>2
<1>14. \A n, m \in DOMAIN tenants' : tenants'[n].id = tenants'[m].id => n = m
  <2>1. \A n, m \in 1..C : n # m => n < m \/ m < n
    OBVIOUS
  <2> QED BY <1>8, <1>13, <2>1
<1>15. /\ filesUnused' \subseteq filesUnused
       /\ Sound!IdsOf(tenants') \cap filesUnused' = {}
  <2>1. \A n \in 1..C : tenants'[n].id \notin filesUnused'
    BY <1>2, <1>3, <1>7, <1>8
  <2> QED BY <1>2, <1>8, <2>1 DEF Sound!IdsOf
<1>16. Sound!NamesOf(items) \subseteq Sound!NamesOf(tenants')
  <2>1. \A n \in DOMAIN t : \E k \in DOMAIN tenants' : t[n].name = tenants'[k].name
    BY <1>5, <1>8
  <2> QED BY <1>7, <2>1, NamesAmong
<1>17. import' \in Seq(Wanted) /\ fernet' = 1 /\ secret' = secret /\ up'
  BY <1>1, <1>3
<1>18. CASE Sound!Save(tenants', active', 1)
  <2>1. Filed' /\ (file' = file \/ Sound!NamesOf(file'.items) = Sound!NamesOf(tenants'))
    BY <1>12, <1>15, <1>17, <1>18, Saves
  <2> QED BY <1>12, <1>14, <1>15, <1>16, <1>17, <2>1
          DEF Held, Sound!NothingErased, items, Sound!NamesOf, Sound!IdsOf
<1>19. CASE UNCHANGED file
  BY <1>3, <1>12, <1>14, <1>15, <1>16, <1>17, <1>19
     DEF Filed, Held, Sound!NothingErased, items, Sound!NamesOf, Sound!IdsOf
<1> QED BY <1>1, <1>3, <1>18, <1>19 DEF Sound!SaveHealed

\* A tenant that is added, or put in the place of itself.
LEMMA PutWell ==
    ASSUME NEW t \in Seq(Tenant), NEW e \in Tenant,
           \A n, m \in DOMAIN t : t[n].id = t[m].id => n = m,
           e.id \notin Sound!IdsOf(t) \/ \E n \in DOMAIN t : t[n] = e
    PROVE  LET u == Sound!Put(t, e) IN
           /\ u \in Seq(Tenant) /\ \A n, m \in DOMAIN u : u[n].id = u[m].id => n = m
           /\ Sound!IdsOf(u) = Sound!IdsOf(t) \cup {e.id}
           /\ Sound!NamesOf(u) = Sound!NamesOf(t) \cup {e.name}
<1> DEFINE u == Sound!Put(t, e)
<1>1. CASE e.id \notin Sound!IdsOf(t)
  <2>1. u = Append(t, e)
    BY <1>1 DEF Sound!Put
  <2>2. PICK L \in Nat : DOMAIN t = 1..L /\ L = Len(t)
    OBVIOUS
  <2>3. /\ u \in Seq(Tenant) /\ DOMAIN u = 1..(L + 1) /\ u[L + 1] = e
        /\ \A n \in 1..L : u[n] = t[n]
    BY <2>1, <2>2
  <2> HIDE DEF u
  <2>4. \A n \in 1..(L + 1) : n = L + 1 \/ n \in 1..L
    OBVIOUS
  <2>5. /\ \A n \in 1..L : n \in 1..(L + 1) /\ t[n].id # e.id
        /\ L + 1 \in 1..(L + 1)
    BY <1>1, <2>2 DEF Sound!IdsOf
  <2>6. \A n, m \in DOMAIN u : u[n].id = u[m].id => n = m
    BY <2>2, <2>3, <2>4, <2>5
  <2>7. /\ Sound!IdsOf(u) = Sound!IdsOf(t) \cup {e.id}
        /\ Sound!NamesOf(u) = Sound!NamesOf(t) \cup {e.name}
    BY <2>2, <2>3, <2>4, <2>5 DEF Sound!IdsOf, Sound!NamesOf
  <2> QED BY <2>3, <2>6, <2>7 DEF u
<1>2. CASE \E n \in DOMAIN t : t[n] = e
  <2>1. u = [n \in DOMAIN t |-> IF t[n].id = e.id THEN e ELSE t[n]]
    BY <1>2 DEF Sound!Put, Sound!IdsOf
  <2>2. \A n \in DOMAIN t : t[n].id = e.id => t[n] = e
    BY <1>2
  <2>3. u = t
    BY <2>1, <2>2
  <2> HIDE DEF u
  <2> QED BY <1>2, <2>3 DEF Sound!IdsOf, Sound!NamesOf, u
<1> QED BY <1>1, <1>2

LEMMA UpsertStored ==
    ASSUME Filed, Held, up, NEW e \in Tenant, NEW b, Sound!Upsert(e, b), import' \in Seq(Wanted),
           filesUnused' \subseteq filesUnused, e.id \notin filesUnused',
           e.id \notin Sound!IdsOf(tenants) \/ \E n \in DOMAIN tenants : tenants[n] = e
    PROVE  Filed' /\ Held' /\ Sound!NothingErased
<1>1. /\ tenants' = Sound!Put(tenants, e) /\ Sound!Save(tenants', active', fernet)
      /\ deleted' = deleted \ {e.name} /\ UNCHANGED <<secret, up, fernet>>
  BY DEF Sound!Upsert
<1>2. /\ fernet = 1 /\ tenants \in Seq(Tenant) /\ Sound!IdsOf(tenants) \cap filesUnused = {}
      /\ \A n, m \in DOMAIN tenants : tenants[n].id = tenants[m].id => n = m
      /\ Sound!NamesOf(file.items) \subseteq Sound!NamesOf(tenants) \cup deleted
  BY DEF Held
<1>3. /\ tenants' \in Seq(Tenant)
      /\ \A n, m \in DOMAIN tenants' : tenants'[n].id = tenants'[m].id => n = m
      /\ Sound!IdsOf(tenants') = Sound!IdsOf(tenants) \cup {e.id}
      /\ Sound!NamesOf(tenants') = Sound!NamesOf(tenants) \cup {e.name}
  BY <1>1, <1>2, PutWell
<1>4. Sound!NamesOf(file.items) \subseteq Sound!NamesOf(tenants') \cup deleted'
  BY <1>1, <1>2, <1>3
<1>5. Sound!IdsOf(tenants') \cap filesUnused' = {}
  BY <1>2, <1>3
<1>6. Sound!Save(tenants', active', 1) /\ up' /\ fernet' = 1 /\ secret' = secret
  BY <1>1, <1>2
<1> QED BY <1>3, <1>4, <1>5, <1>6, SavesAll

LEMMA DeleteStored ==
    ASSUME Filed, Held, NEW i \in FileIds, Sound!Delete(i) PROVE Filed' /\ Held' /\ Sound!NothingErased
<1>1. /\ up /\ import = <<>> /\ tenants' = Sound!Without(tenants, i) /\ Sound!Save(tenants', active', fernet)
      /\ deleted' = deleted \cup {tenants[n].name : n \in {m \in DOMAIN tenants : tenants[m].id = i}}
      /\ UNCHANGED <<secret, up, fernet, filesUnused, import>>
  BY DEF Sound!Delete, Sound!Idle
<1>2. /\ fernet = 1 /\ tenants \in Seq(Tenant) /\ Sound!IdsOf(tenants) \cap filesUnused = {}
      /\ \A n, m \in DOMAIN tenants : tenants[n].id = tenants[m].id => n = m
      /\ Sound!NamesOf(file.items) \subseteq Sound!NamesOf(tenants) \cup deleted
  BY <1>1 DEF Held
<1>3. PICK L \in Nat : DOMAIN tenants = 1..L
  BY <1>2
<1>4. PICK S \in SUBSET (1..L) : /\ S = {n \in DOMAIN tenants : tenants[n].id # i}
                                 /\ tenants' = Sound!Picked(tenants, S)
  BY <1>1, <1>3 DEF Sound!Without
<1> DEFINE C == Cardinality(S)
           p == Sound!Picked(tenants, S)
<1>5. /\ C \in Nat /\ DOMAIN p = 1..C
      /\ \A k \in 1..C : \E n \in S : p[k] = tenants[n]
      /\ \A n \in S : \E k \in 1..C : p[k] = tenants[n]
      /\ \A k, l \in 1..C : k # l =>
            \E n, m \in S : n # m /\ p[k] = tenants[n] /\ p[l] = tenants[m]
  BY <1>3, PickedWell
<1>6. tenants' = p /\ p = [k \in 1..C |-> p[k]]
  BY <1>4 DEF Sound!Picked, Sound!Cardinality, Cardinality
<1> HIDE DEF C, p
<1>7. \A n \in S : n \in DOMAIN tenants /\ tenants[n] \in Tenant /\ tenants[n].id # i
  BY <1>2, <1>4
<1>8. tenants' \in Seq(Tenant)
  <2>1. \A k \in 1..C : p[k] \in Tenant
    BY <1>5, <1>7
  <2> QED BY <1>5, <1>6, <2>1
<1>9. \A n, m \in DOMAIN tenants' : tenants'[n].id = tenants'[m].id => n = m
  <2>1. \A n, m \in S : n # m => tenants[n].id # tenants[m].id
    BY <1>2, <1>7
  <2>2. ASSUME NEW k \in 1..C, NEW l \in 1..C, k # l PROVE p[k].id # p[l].id
    <3>1. PICK n \in S, m \in S : n # m /\ p[k] = tenants[n] /\ p[l] = tenants[m]
      BY <1>5, <2>2
    <3> QED BY <2>1, <3>1
  <2>3. \A k, l \in 1..C : p[k].id = p[l].id => k = l
    BY <2>2
  <2> QED BY <1>5, <1>6, <2>3
<1>10. Sound!IdsOf(tenants') \subseteq Sound!IdsOf(tenants)
  BY <1>5, <1>6, <1>7 DEF Sound!IdsOf
<1>11. Sound!NamesOf(tenants) \subseteq Sound!NamesOf(tenants') \cup deleted'
  <2>1. ASSUME NEW n \in DOMAIN tenants PROVE tenants[n].name \in Sound!NamesOf(p) \cup deleted'
    <3>1. tenants[n].id = i \/ n \in S
      BY <1>4
    <3>2. n \in S => \E k \in DOMAIN p : p[k].name = tenants[n].name
      BY <1>5
    <3> QED BY <1>1, <3>1, <3>2 DEF Sound!NamesOf
  <2> QED BY <1>6, <2>1 DEF Sound!NamesOf
<1>12. /\ Sound!NamesOf(file.items) \subseteq Sound!NamesOf(tenants') \cup deleted'
       /\ Sound!IdsOf(tenants') \cap filesUnused' = {} /\ filesUnused' \subseteq filesUnused
       /\ Sound!Save(tenants', active', 1) /\ up' /\ fernet' = 1 /\ secret' = secret
       /\ import' \in Seq(Wanted)
  BY <1>1, <1>2, <1>10, <1>11
<1> QED BY <1>1, <1>9, <1>12, <1>8, SavesAll

LEMMA HeadTail ==
    ASSUME NEW S, NEW s \in Seq(S), s # <<>> PROVE Head(s) \in S /\ Tail(s) \in Seq(S)
OBVIOUS

LEMMA NextStored ==
    ASSUME Filed, Held, [Sound!Next]_files PROVE Filed' /\ Held' /\ Sound!NothingErased
<1>1. CASE /\ UNCHANGED <<file, secret, filesUnused>> /\ import' \in Seq(Wanted)
           /\ (up' => up /\ UNCHANGED <<fernet, tenants, deleted>>)
  <2>1. file' = file /\ secret' = secret /\ filesUnused' = filesUnused
    BY <1>1
  <2>2. Filed'
    BY <1>1, <2>1 DEF Filed, Sound!IdsOf
  <2>3. ~up' => Held'
    BY DEF Held
  <2>4. ASSUME up' PROVE Held'
    <3>1. up /\ fernet' = fernet /\ tenants' = tenants /\ deleted' = deleted
      BY <1>1, <2>4
    <3> QED BY <2>1, <3>1 DEF Held, Sound!NamesOf, Sound!IdsOf
  <2>5. Sound!NothingErased
    BY <2>1 DEF Sound!NothingErased
  <2> QED BY <2>2, <2>3, <2>4, <2>5
<1>2. CASE /\ up /\ Sound!Save(tenants', active', fernet) /\ import' \in Seq(Wanted)
           /\ UNCHANGED <<up, secret, fernet, tenants, filesUnused, deleted>>
  <2>1. /\ fernet = 1 /\ tenants' \in Seq(Tenant) /\ Sound!IdsOf(tenants') \cap filesUnused' = {}
        /\ \A n, m \in DOMAIN tenants' : tenants'[n].id = tenants'[m].id => n = m
        /\ Sound!NamesOf(file.items) \subseteq Sound!NamesOf(tenants') \cup deleted'
    BY <1>2 DEF Held, Sound!IdsOf, Sound!NamesOf
  <2> QED BY <1>2, <2>1, SavesAll
<1>3. import \in Seq(Wanted) /\ <<>> \in Seq(Wanted)
  BY DEF Filed
<1>4. CASE UNCHANGED files
  BY <1>1, <1>3, <1>4 DEF files
<1>5. CASE Sound!Start
  BY <1>5, StartStored
<1>6. CASE Sound!Stop \/ Sound!LoseSecret \/ Sound!ImportFails
  BY <1>1, <1>3, <1>6 DEF Sound!Stop, Sound!LoseSecret, Sound!ImportFails
<1>7. CASE Sound!ImportOne
  <2>1. PICK i \in filesUnused :
           /\ Sound!Upsert([id |-> i, name |-> Head(import).name], FALSE)
           /\ filesUnused' = filesUnused \ {i}
    BY <1>7 DEF Sound!ImportOne, Sound!ImportId
  <2>2. up /\ import # <<>> /\ import' \in {<<>>, Tail(import)}
    BY <1>7 DEF Sound!ImportOne
  <2>3. Head(import) \in Wanted /\ import' \in Seq(Wanted)
    BY <1>3, <2>2, HeadTail
  <2> DEFINE e == [id |-> i, name |-> Head(import).name]
  <2>4. e \in Tenant /\ e.id = i
    BY <2>3 DEF Filed, Wanted, Tenant
  <2>5. e.id \notin filesUnused' /\ e.id \notin Sound!IdsOf(tenants) /\ filesUnused' \subseteq filesUnused
    BY <2>1, <2>2, <2>4 DEF Held
  <2>6. Sound!Upsert(e, FALSE)
    BY <2>1
  <2> HIDE DEF e
  <2> QED BY <2>2, <2>3, <2>4, <2>5, <2>6, UpsertStored
<1>8. CASE Sound!ImportEnds
  <2>1. up /\ import' = import /\ UNCHANGED <<secret, up, fernet, tenants, filesUnused, deleted>>
    BY <1>8 DEF Sound!ImportEnds
  <2>2. CASE UNCHANGED <<active, file, dirty>>
    BY <1>1, <1>3, <2>1, <2>2
  <2>3. CASE active' = last /\ Sound!Save(tenants, last, fernet)
    <3>1. Sound!Save(tenants', active', fernet)
      BY <2>1, <2>3
    <3> QED BY <1>2, <1>3, <2>1, <3>1
  <2> QED BY <1>8, <2>2, <2>3 DEF Sound!ImportEnds
<1>9. ASSUME NEW n \in WholeNames, NEW b \in BOOLEAN, Sound!Create(n, b)
      PROVE  Filed' /\ Held' /\ Sound!NothingErased
  <2>1. PICK i \in filesUnused : /\ Sound!Upsert([id |-> i, name |-> n], b)
                                 /\ filesUnused' = filesUnused \ {i}
    BY <1>9 DEF Sound!Create
  <2>2. up /\ import' = import
    BY <1>9 DEF Sound!Create, Sound!Idle
  <2> DEFINE e == [id |-> i, name |-> n]
  <2>3. e \in Tenant /\ e.id = i /\ Sound!Upsert(e, b)
    BY <2>1 DEF Filed, Tenant
  <2> HIDE DEF e
  <2>4. e.id \notin filesUnused' /\ e.id \notin Sound!IdsOf(tenants) /\ filesUnused' \subseteq filesUnused
    BY <2>1, <2>2, <2>3 DEF Held
  <2> QED BY <1>3, <2>2, <2>3, <2>4, UpsertStored
<1>10. ASSUME NEW i \in FileIds, NEW b, Sound!Edit(i, b)
       PROVE  Filed' /\ Held' /\ Sound!NothingErased
  <2>1. PICK n \in DOMAIN tenants : Sound!Upsert(tenants[n], b)
    BY <1>10 DEF Sound!Edit
  <2>2. up /\ import' = import /\ filesUnused' = filesUnused
    BY <1>10 DEF Sound!Edit, Sound!Idle
  <2>3. tenants[n] \in Tenant /\ tenants[n].id \notin filesUnused'
    BY <2>1, <2>2 DEF Held, Sound!IdsOf
  <2> QED BY <1>3, <2>1, <2>2, <2>3, UpsertStored
<1>11. ASSUME NEW i \in FileIds, Sound!SetActive(i)
       PROVE  Filed' /\ Held' /\ Sound!NothingErased
  <2>1. /\ up /\ active' = i /\ Sound!Save(tenants, i, fernet)
        /\ UNCHANGED <<secret, up, fernet, tenants, filesUnused, import, deleted>>
    BY <1>11 DEF Sound!SetActive, Sound!Idle
  <2>2. Sound!Save(tenants', active', fernet)
    BY <2>1
  <2> QED BY <1>2, <1>3, <2>1, <2>2
<1>12. ASSUME NEW a \in WholeArchives, Sound!Import(a)
       PROVE  Filed' /\ Held' /\ Sound!NothingErased
  <2>1. import' \in Seq(Wanted)
    BY <1>12, StoreConstants DEF Sound!Import
  <2> QED BY <1>1, <1>12, <2>1 DEF Sound!Import, Sound!Idle
<1> QED BY <1>4, <1>5, <1>6, <1>7, <1>8, <1>9, <1>10, <1>11, <1>12, DeleteStored DEF Sound!Next

------------------------------------------------------------------------------
(* What goes, and what is named *)

\* The table has the rows it had, gets one, or loses those that a request has doomed.
LEMMA RowsRemain ==
    ASSUME Belonging, [Rows!Next]_tenantRows
    PROVE  \/ Rows!Here' = Rows!Here
           \/ \E i \in TenantIds, w \in Rows!Row :
                 /\ i \notin Rows!Here /\ row' = [row EXCEPT ![i] = w]
                 /\ w.parent # None => w.region # HomeOf[w.acct]
           \/ \E r \in Requests : Rows!Purge(r)
<1>1. ASSUME row' = row PROVE Rows!Here' = Rows!Here
  BY <1>1 DEF Rows!Here
<1>2. Grown /\ unused \subseteq TenantIds /\ \A i \in unused : i \notin Rows!Here
  BY BelongingParts DEF Grown
<1>3. ASSUME Rows!Create
      PROVE  \E i \in TenantIds, w \in Rows!Row :
                /\ i \notin Rows!Here /\ row' = [row EXCEPT ![i] = w]
                /\ w.parent # None => w.region # HomeOf[w.acct]
  <2>1. PICK i \in unused, w \in Rows!Row : w.parent = None /\ row' = [row EXCEPT ![i] = w]
    BY <1>3 DEF Rows!Create
  <2> QED BY <1>2, <2>1
<1>4. ASSUME NEW i \in TenantIds, Rows!Protect(i) PROVE Rows!Here' = Rows!Here
  <2>1. i \in Rows!Here /\ row' = [row EXCEPT ![i].protected = ~@] /\ row[i] # None
    BY <1>4 DEF Rows!Protect, Rows!Here
  <2>2. row[i] \in Rows!Row /\ DOMAIN row = TenantIds
    BY <1>2, <2>1 DEF Grown, Rows!Here
  <2>3. row'[i] \in Rows!Row
    BY <2>1, <2>2 DEF Rows!Row
  <2>4. \A j \in TenantIds : j # i => row'[j] = row[j]
    BY <2>1, <2>2
  <2> QED BY <2>1, <2>3, <2>4, TenantConstants DEF Rows!Here
<1>5. ASSUME NEW r \in Requests, Rows!Query(r) PROVE Rows!Here' = Rows!Here
  <2> DEFINE answer == used[r].acct
  <2>1. PICK written \in SUBSET Rows!Here :
           row' = [i \in TenantIds |-> IF i \in written THEN [row[i] EXCEPT !.facts = answer] ELSE row[i]]
    BY <1>5 DEF Rows!Query, Rows!FamilyOf
  <2>2. Looks(r) /\ at[r] = "oracle" /\ op[r] = "query" /\ used[r] # None
    BY <1>5, BelongingParts DEF Rows!Query, Fine
  <2>3. answer \in Accounts
    BY <2>2 DEF Looks, Rows!ConfigOf, Rows!Row
  <2> HIDE DEF answer
  <2>4. \A i \in Rows!Here : row[i] \in Rows!Row
    BY <1>2 DEF Grown, Rows!Here
  <2>5. \A i \in Rows!Here : row'[i] \in Rows!Row
    BY <2>1, <2>3, <2>4 DEF Rows!Row, Rows!Here
  <2> QED BY <2>1, <2>5, TenantConstants DEF Rows!Here
<1>6. ASSUME NEW r \in Requests, Rows!EditCommit(r) PROVE Rows!Here' = Rows!Here
  <2>1. row' = row \/ (row' = Rows!Saved(r) /\ at[r] = "oracle" /\ op[r] = "edit")
    BY <1>6 DEF Rows!EditCommit
  <2>2. ASSUME row' = Rows!Saved(r), at[r] = "oracle", op[r] = "edit" PROVE Rows!Here' = Rows!Here
    <3> DEFINE kin == Rows!ChildrenOf(id[r]) \cup {id[r]}
    <3>1. /\ kin \subseteq Rows!Here
          /\ \A i \in TenantIds \ kin : row'[i] = row[i]
          /\ \A i \in kin : row'[i] \in Rows!Row
      BY <2>2, SavedRows
    <3> HIDE DEF kin
    <3> QED BY <3>1, TenantConstants DEF Rows!Here
  <2> QED BY <1>1, <2>1, <2>2
<1>7. ASSUME NEW r \in Requests, Rows!AddRegion(r), row' # row
      PROVE  \E i \in TenantIds, w \in Rows!Row :
                /\ i \notin Rows!Here /\ row' = [row EXCEPT ![i] = w]
                /\ w.parent # None => w.region # HomeOf[w.acct]
  <2>1. PICK i \in unused, w \in Rows!Row : row' = [row EXCEPT ![i] = w] /\ w.region # HomeOf[w.acct]
    BY <1>7, AddedRow
  <2> QED BY <1>2, <2>1
<1>8. ASSUME NEW r \in Requests, Rows!Step(r)
      PROVE  \/ row' = row \/ Rows!Query(r) \/ Rows!EditCommit(r) \/ Rows!AddRegion(r) \/ Rows!Purge(r)
  BY <1>8 DEF Rows!Step, Rows!Use, Rows!Edit, Rows!Subscribe, Rows!Delete, Rows!UseSession, Rows!Used,
              Rows!EditKids, Rows!Drop, Rows!Subscribed
<1>9. ASSUME NEW i, Rows!SetDefault(i) PROVE row' = row
  BY <1>9 DEF Rows!SetDefault
<1>10. CASE UNCHANGED tenantRows
  BY <1>1, <1>10 DEF tenantRows
<1> QED BY <1>1, <1>3, <1>4, <1>5, <1>6, <1>7, <1>8, <1>9, <1>10 DEF Rows!Next

\* The doomed are not protected and have no secondary row that stays.
LEMMA RowsGoRightly ==
    ASSUME Belonging, [Rows!Next]_tenantRows PROVE Rows!ProtectedStays /\ Rows!HomeHasAllowance
<1>1. Grown /\ \A r \in Requests : Dooms(r)
  BY BelongingParts DEF Fine
<1>2. CASE Rows!Here' = Rows!Here
  BY <1>2 DEF Rows!ProtectedStays, Rows!HomeHasAllowance, Rows!Here
<1>3. ASSUME NEW i \in TenantIds, NEW w \in Rows!Row, i \notin Rows!Here,
             row' = [row EXCEPT ![i] = w], w.parent # None => w.region # HomeOf[w.acct]
      PROVE  Rows!ProtectedStays /\ Rows!HomeHasAllowance
  <2>1. row'[i] = w /\ \A j \in TenantIds \ {i} : row'[j] = row[j]
    BY <1>1, <1>3 DEF Grown
  <2> QED BY <1>3, <2>1 DEF Rows!ProtectedStays, Rows!HomeHasAllowance, Rows!Here
<1>4. ASSUME NEW r \in Requests, Rows!Purge(r)
      PROVE  Rows!ProtectedStays /\ Rows!HomeHasAllowance
  <2>1. /\ at[r] = "write" /\ op[r] = "delete"
        /\ row' = [i \in TenantIds |-> IF i \in wish[r].ids THEN None ELSE row[i]]
    BY <1>4 DEF Rows!Purge
  <2>2. \A i \in wish[r].ids :
           i \in Rows!Here /\ row[i].protected = FALSE /\ Rows!ChildrenOf(i) \subseteq wish[r].ids
    BY <1>1, <2>1 DEF Dooms
  <2>3. ASSUME NEW i \in Rows!Here, row[i].protected
        PROVE  row'[i] # None /\ (row[i].parent \in Rows!Here => row'[row[i].parent] # None)
    <3>1. i \notin wish[r].ids /\ i \in TenantIds /\ row[i] # None
      BY <2>2, <2>3 DEF Rows!Here
    <3>2. ASSUME row[i].parent \in Rows!Here PROVE row'[row[i].parent] # None
      <4>1. row[i].parent \notin wish[r].ids
        BY <2>2, <3>1 DEF Rows!ChildrenOf
      <4> QED BY <2>1, <3>2, <4>1 DEF Rows!Here
    <3> QED BY <2>1, <3>1, <3>2
  <2>4. \A i \in TenantIds : row'[i] # None => row[i] # None
    BY <2>1
  <2> QED BY <2>3, <2>4 DEF Rows!ProtectedStays, Rows!HomeHasAllowance
<1> QED BY <1>2, <1>3, <1>4, RowsRemain

\* An export has every row of its user, as an item or by its name.
LEMMA ExportTells == ASSUME Restoring, [Own!Next]_restored PROVE Own!NothingSilent
<1>1. ASSUME NEW u \in Users, Own!Export(u) PROVE Own!NothingSilent
  <2> DEFINE lost == {i \in Own!Owned(u) : restoredRow[i].key = "lost"}
             S == Own!Owned(u) \ lost
             C == Own!Cardinality(S)
  <2>1. PICK order \in Own!SetToSeqs(S) : archive' = [n \in DOMAIN order |-> Own!ItemOf(order[n])]
    BY <1>1 DEF Own!Export
  <2>2. named' = {restoredRow[i].body : i \in lost} /\ user' = u
    BY <1>1 DEF Own!Export, Own!Named
  <2>3. IsFiniteSet(S) /\ lost \subseteq Own!Owned(u)
    <3>1. S \subseteq ArchiveIds
      BY DEF Own!Owned, Own!Here
    <3> QED BY <3>1, RowConstants, FS_Subset
  <2>4. S \cup lost = Own!Owned(u)
    BY <2>3
  <2> HIDE DEF S, lost
  <2>5. C = Cardinality(S)
    BY DEF Own!Cardinality, Cardinality
  <2>6. C \in Nat
    BY <2>3, <2>5, FS_CardinalityType
  <2>7. order \in [1..C -> S] /\ \A k, l \in 1..C : k # l => order[k] # order[l]
    BY <2>1 DEF Own!SetToSeqs
  <2> HIDE DEF C
  <2>8. \A i \in S : \E n \in 1..C : order[n] = i
    <3>1. order \in Injection(1..C, S)
      BY <2>7 DEF Injection, IsInjective
    <3>2. IsFiniteSet(1..C) /\ Cardinality(1..C) = C
      BY <2>6, FS_Interval
    <3>3. order \in Surjection(1..C, S)
      BY <2>3, <2>5, <3>1, <3>2, FS_Injection
    <3> QED BY <3>3 DEF Surjection
  <2>9. /\ DOMAIN archive' = 1..C
        /\ \A n \in 1..C : order[n] \in S /\ archive'[n].body = restoredRow[order[n]].body
    BY <2>1, <2>7 DEF Own!ItemOf
  <2>10. {archive'[n].body : n \in DOMAIN archive'} = {restoredRow[i].body : i \in S}
    BY <2>8, <2>9
  <2>11. {restoredRow[i].body : i \in S \cup lost}
            = {restoredRow[i].body : i \in S} \cup {restoredRow[i].body : i \in lost}
    OBVIOUS
  <2> QED BY <2>2, <2>4, <2>10, <2>11 DEF Own!NothingSilent
<1>2. CASE UNCHANGED archive
  BY <1>2 DEF Own!NothingSilent
<1>3. Own!Next => UNCHANGED archive \/ \E u \in Users : Own!Export(u)
  BY DEF Own!Next, Own!Delete, Own!Import, Own!Begin, Own!NoGood, Own!Refused, Own!Skip, Own!Insert,
         Own!Link, Own!Commit, Own!Crash
<1> QED BY <1>1, <1>2, <1>3 DEF restored

\* A start shows every tenant of the file it can read under its name.
LEMMA StartShows == ASSUME [Ragged!Next]_files PROVE Ragged!NoneShadowed
<1>1. ASSUME Ragged!Start PROVE Ragged!NoneShadowed
  <2> DEFINE t == Ragged!Readable(secret)
  <2>1. PICK ids : tenants' = Ragged!Healed(t, ids)
    BY <1>1 DEF Ragged!Start
  <2> HIDE DEF t
  <2>2. DOMAIN tenants' = DOMAIN t /\ \A n \in DOMAIN t : tenants'[n].name = t[n].name
    BY <2>1 DEF Ragged!Healed
  <2>3. \A x \in TornNames : {n \in DOMAIN tenants' : tenants'[n].name = x} = {n \in DOMAIN t : t[n].name = x}
    BY <2>2
  <2>4. Ragged!BagOfNames(tenants') = Ragged!BagOfNames(t)
    BY <2>3 DEF Ragged!BagOfNames
  <2> QED BY <2>4 DEF Ragged!NoneShadowed, t
<1>2. CASE up' => up
  BY <1>2 DEF Ragged!NoneShadowed
<1>3. UNCHANGED files => (up' => up)
  BY DEF files
<1>4. Ragged!Next => Ragged!Start \/ (up' => up)
  BY DEF Ragged!Next, Ragged!Stop, Ragged!LoseSecret, Ragged!ImportOne, Ragged!ImportFails,
         Ragged!ImportEnds, Ragged!Create, Ragged!Edit, Ragged!SetActive, Ragged!Delete, Ragged!Import,
         Ragged!Upsert, Ragged!Idle
<1> QED BY <1>1, <1>2, <1>3, <1>4

------------------------------------------------------------------------------
(* The parts together *)

PartsKept ==
    /\ part \in {"own archive", "strange archive"} => Restoring
    /\ part = "ticks" => Ticking
    /\ part = "next day" => OnFile
    /\ part = "rows" => Belonging
    /\ part = "facts" => Belonging /\ Remembered
    /\ part = "sessions" => Fresh
    /\ part = "whole" => Filed /\ Held

LEMMA InitPartsKept == PartInit => PartsKept
<1>1. PartInit => /\ part = "own archive" => Own!Init
                  /\ part = "strange archive" => Other!Init
                  /\ part = "ticks" => Ticks!Init
                  /\ part = "next day" => Again!Init
                  /\ part = "rows" => Rows!Init
                  /\ part = "facts" => Facts!Init
                  /\ part = "sessions" => Kept!Init
                  /\ part = "whole" => Sound!Init
  BY DEF PartInit
<1> QED BY <1>1, InitOwn, InitOther, InitTicking, InitOnFile, InitBelonging, InitRemembered, InitFresh,
           InitStored DEF PartsKept

LEMMA PartSteps ==
    ASSUME [PartNext]_all
    PROVE  /\ UNCHANGED part
           /\ part = "own archive" => [Own!Next]_restored
           /\ part = "strange archive" => [Other!Next]_restored
           /\ part = "ticks" => [Ticks!Next]_runner
           /\ part = "next day" => [Again!Next]_runner
           /\ part = "rows" => [Rows!Next]_tenantRows
           /\ part = "facts" => [Facts!Next]_tenantRows
           /\ part = "sessions" => [Kept!Next]_tenantRows
           /\ part = "torn" => [Ragged!Next]_files
           /\ part = "whole" => [Sound!Next]_files
BY DEF PartNext, all

LEMMA NextPartsKept == ASSUME PartsKept, [PartNext]_all PROVE PartsKept'
<1>1. part = "own archive" => Restoring'
  BY PartSteps, NextRestoring DEF PartsKept
<1>2. part = "strange archive" => Restoring'
  BY PartSteps, SameMoves, NextRestoring DEF PartsKept
<1>3. part \in {"rows", "facts", "sessions"} => PartsKept'
  BY PartSteps, NextBelonging, NextRemembered, NextFresh DEF PartsKept
<1>4. UNCHANGED part /\ (part = "ticks" => Ticking') /\ (part = "next day" => OnFile')
  BY PartSteps, NextTicking, NextOnFile DEF PartsKept
<1>5. part = "whole" => Filed' /\ Held'
  BY PartSteps, NextStored DEF PartsKept
<1> QED BY <1>1, <1>2, <1>3, <1>4, <1>5 DEF PartsKept

LEMMA AlwaysPartsKept == PartSpec => []PartsKept
<1>1. PartsKept /\ [PartNext]_all => PartsKept'
  BY NextPartsKept
<1> QED BY <1>1, InitPartsKept, PTL DEF PartSpec

\* The scheduler launches one thing at a time for a tenant, fires a schedule at most once a
\* day, and keeps nothing marked as busy that no thread works on: for any jobs, tenants and
\* schedules, whatever is stopped, deleted, not written, or started again.
THEOREM LaunchesOneAtATime == PartSpec => []OneAtATime
<1>1. PartsKept => OneAtATime
  <2>1. OnFile => Again!OnceADay
    BY DEF OnFile, Recorded, Again!OnceADay
  <2> QED BY <2>1, TickingHolds DEF PartsKept, OneAtATime
<1> QED BY <1>1, AlwaysPartsKept, PTL

\* No attempt begins while the cool-down that the file knows of lasts, nor after the last
\* attempt was recorded, across restarts and failed writes.
THEOREM CooldownsLast == PartSpec => CooldownLasts
<1>1. PartsKept /\ [PartNext]_all => (part = "next day" => Again!CooldownKept)
  BY PartSteps, CallCool DEF PartsKept
<1>2. PartsKept /\ [PartNext]_all => [part = "next day" => Again!CooldownKept]_all
  BY <1>1
<1> QED BY <1>2, AlwaysPartsKept, PTL DEF PartSpec, CooldownLasts

\* A restore gives every item of the archive a row or counts it, makes the links of the archive
\* anew among its own rows, and neither loosens a guard nor loses a protection: for any
\* archive, users and ids, whatever is deleted, refused, or tried again.
THEOREM RestoresAreSound == PartSpec => []RestoredWell
<1>1. PartsKept => RestoredWell
  BY RestoringHolds DEF PartsKept, RestoredWell
<1> QED BY <1>1, AlwaysPartsKept, PTL

\* Rows that are linked have one account and one key and know the same of it, no secondary row
\* is left without its primary one, the default tenant exists, no session is kept of a row
\* that is gone, and none is used that is of an earlier row: for any rows, accounts, keys and
\* requests, in whatever order those that the code lets overlap take their steps.
THEOREM RowsStayTogether == PartSpec => []RowsBelong
<1>1. PartsKept => RowsBelong
  BY BelongingHolds, RememberedHolds DEF PartsKept, Fresh, Works, RowsBelong, Kept!UseIsFresh
<1> QED BY <1>1, AlwaysPartsKept, PTL

\* No step makes a row go silently: a deletion takes no protected row and no primary row of one,
\* an export has every row of its user or names it, a start shows every tenant of the file it
\* can read, and of a file that it can read wholly nothing goes but by a deletion; and no
\* secondary row is added for the home region: for any rows, requests, archives and files.
THEOREM NothingUnseen == PartSpec => NothingGoesSilently
<1> DEFINE Seen == /\ part = "rows" => Rows!ProtectedStays /\ Rows!HomeHasAllowance
                   /\ part = "own archive" => Own!NothingSilent
                   /\ part = "torn" => Ragged!NoneShadowed
                   /\ part = "whole" => Sound!NothingErased
<1>1. PartsKept /\ [PartNext]_all => Seen
  BY PartSteps, RowsGoRightly, ExportTells, StartShows, NextStored DEF PartsKept
<1>2. PartsKept /\ [PartNext]_all => [Seen]_all
  BY <1>1
<1> QED BY <1>2, AlwaysPartsKept, PTL DEF PartSpec, NothingGoesSilently

==============================================================================
