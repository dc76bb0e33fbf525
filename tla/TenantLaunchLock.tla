--------------------------- MODULE TenantLaunchLock ---------------------------
(***************************************************************************)
(* tenant_launch_lock of OCIBot (web/backend/quota_guard.py): the lock the *)
(* launch route and the capacity worker hold from the usage snapshot to    *)
(* LaunchInstance.  It is taken in layers: a thread-local set lets a       *)
(* thread that has it walk in again, a threading.Lock excludes the threads *)
(* of a process, and a PostgreSQL advisory lock on a connection of its own *)
(* (or a lock file beside the SQLite database) excludes other processes.   *)
(* The connection comes from the pool that serves the callers' Sessions.   *)
(***************************************************************************)
EXTENDS Naturals, FiniteSets

CONSTANTS
    Thread,     \* request threads of the API, the loop of the worker
    Process,    \* API processes and worker containers
    ProcessOf,  \* the process each thread runs in
    Tenant,     \* tenant ids, never blank
    Slot,       \* advisory keys, or lock files
    SlotOf,     \* the slot a tenant id hashes to
    Databases,  \* what the panel may be installed on
    PoolSize,   \* pool_size + max_overflow
    MaxDepth,   \* bound: nested entries of one thread
    NoOne,      \* nobody holds it
    Faults      \* the failures this instance lets happen

ASSUME LockAssumption ==
    /\ ProcessOf \in [Thread -> Process]
    /\ SlotOf \in [Tenant -> Slot]
    /\ Databases \subseteq {"postgresql", "sqlite"}
    /\ PoolSize \in Nat /\ MaxDepth \in Nat
    /\ NoOne \notin Thread /\ IsFiniteSet(Thread)
    /\ Faults \subseteq {"kill", "connect", "drop", "nofile"}

VARIABLES
    db,     \* the database of this installation
    pc,     \* where each thread is in tenant_launch_lock
    want,   \* the tenant it launches for
    late,   \* its deadline has passed
    depth,  \* entries nested inside its own
    held,   \* _HELD.keys of the thread
    plock,  \* holder of _PROCESS_LOCKS[tenant], per process
    xlock,  \* holder of the advisory lock or of the file lock
    pool    \* connections checked out of each process's pool

vars == <<db, pc, want, late, depth, held, plock, xlock, pool>>
locks == <<held, plock, xlock>>

TypeOK ==
    /\ db \in Databases
    /\ pc \in [Thread -> {"out", "ask", "connect", "try", "in", "leave",
                          "unlock", "answer"}]
    /\ want \in [Thread -> Tenant]
    /\ late \in [Thread -> BOOLEAN]
    /\ depth \in [Thread -> Nat]
    /\ held \in [Thread -> SUBSET Tenant]
    /\ plock \in [Process -> [Tenant -> Thread \cup {NoOne}]]
    /\ xlock \in [Slot -> Thread \cup {NoOne}]
    /\ pool \in [Process -> Nat]

------------------------------------------------------------------------------

Pg == db = "postgresql"

SlotFor(t) == SlotOf[want[t]]
Go(t, there) == pc' = [pc EXCEPT ![t] = there]

CheckOut(t) ==
    /\ pool[ProcessOf[t]] < PoolSize
    /\ pool' = [pool EXCEPT ![ProcessOf[t]] = @ + 1]
CheckIn(t) == pool' = [pool EXCEPT ![ProcessOf[t]] = @ - 1]

\* The handler has read its rows: its Session holds a connection from here on.
Arrive(t, k) ==
    /\ pc[t] = "out" /\ CheckOut(t) /\ Go(t, "ask")
    /\ want' = [want EXCEPT ![t] = k]
    /\ late' = [late EXCEPT ![t] = FALSE]
    /\ UNCHANGED <<db, depth, locks>>

\* LAUNCH_LOCK_TIMEOUT_SEC after the call
DeadlinePasses(t) ==
    /\ pc[t] \in {"ask", "connect", "try"} /\ ~late[t]
    /\ late' = [late EXCEPT ![t] = TRUE]
    /\ UNCHANGED <<db, pc, want, depth, locks, pool>>

\* Mutant: two threads look the lock up at once and each makes its own.
TakeOwnProcessLock(t) ==
    /\ pc[t] = "ask" /\ want[t] \notin held[t]
    /\ plock' = [plock EXCEPT ![ProcessOf[t]][want[t]] = t]
    /\ held' = [held EXCEPT ![t] = @ \cup {want[t]}]
    /\ Go(t, "connect")
    /\ UNCHANGED <<db, want, late, depth, xlock, pool>>

TakeProcessLock(t) ==
    LET p == ProcessOf[t]  k == want[t] IN
    /\ pc[t] = "ask" /\ k \notin held[t] /\ plock[p][k] = NoOne
    /\ plock' = [plock EXCEPT ![p][k] = t]
    /\ held' = [held EXCEPT ![t] = @ \cup {k}]
    /\ Go(t, "connect")
    /\ UNCHANGED <<db, want, late, depth, xlock, pool>>

\* TenantLaunchLockBusy from the process lock: nothing is held yet.
ProcessLockBusy(t) ==
    /\ pc[t] = "ask" /\ late[t] /\ want[t] \notin held[t]
    /\ plock[ProcessOf[t]][want[t]] # NoOne
    /\ Go(t, "answer")
    /\ UNCHANGED <<db, want, late, depth, locks, pool>>

\* engine.connect(): the dedicated connection of the advisory lock
Connect(t) ==
    /\ Pg /\ pc[t] = "connect" /\ CheckOut(t) /\ Go(t, "try")
    /\ UNCHANGED <<db, want, late, depth, locks>>

\* Mutants: the wait has no end, or gives back what it never got.
PoolWaitsOn(t) ==
    /\ Pg /\ pc[t] = "connect" /\ pool[ProcessOf[t]] = PoolSize
    /\ UNCHANGED vars
PoolTimeoutReturns(t) ==
    /\ Pg /\ pc[t] = "connect" /\ pool[ProcessOf[t]] = PoolSize
    /\ CheckIn(t) /\ Go(t, "unlock")
    /\ UNCHANGED <<db, want, late, depth, locks>>

\* Nobody returned a connection within pool_timeout.
PoolTimeout(t) ==
    /\ Pg /\ pc[t] = "connect" /\ pool[ProcessOf[t]] = PoolSize
    /\ Go(t, "unlock")
    /\ UNCHANGED <<db, want, late, depth, locks, pool>>

\* The database is away when the connection is opened or used.
DatabaseAway(t) ==
    /\ Pg /\ "connect" \in Faults
    /\ \/ pc[t] = "connect" /\ Go(t, "unlock")
       \/ pc[t] = "try" /\ Go(t, "leave")
    /\ UNCHANGED <<db, want, late, depth, locks, pool>>

OpenLockFile(t) ==
    /\ ~Pg /\ pc[t] = "connect" /\ Go(t, "try")
    /\ UNCHANGED <<db, want, late, depth, locks, pool>>

\* No path, the file cannot be opened, or the platform has no file locks: the
\* caller goes in with the process lock alone.
InProcessOnly(t) ==
    /\ ~Pg /\ "nofile" \in Faults /\ pc[t] \in {"connect", "try"}
    /\ Go(t, "in")
    /\ UNCHANGED <<db, want, late, depth, locks, pool>>

\* Mutant: an answer of "taken" is read as "no lock here".
TryTakesAnyway(t) ==
    /\ pc[t] = "try"
    /\ xlock' = [xlock EXCEPT ![SlotFor(t)] = IF @ = NoOne THEN t ELSE @]
    /\ Go(t, "in")
    /\ UNCHANGED <<db, want, late, depth, held, plock, pool>>

\* pg_try_advisory_xact_lock or flock(LOCK_NB); a refusal is polled again.
TryTakes(t) ==
    /\ pc[t] = "try" /\ xlock[SlotFor(t)] = NoOne
    /\ xlock' = [xlock EXCEPT ![SlotFor(t)] = t]
    /\ Go(t, "in")
    /\ UNCHANGED <<db, want, late, depth, held, plock, pool>>

\* TenantLaunchLockBusy from the cross-process lock
TryBusy(t) ==
    /\ pc[t] = "try" /\ late[t] /\ xlock[SlotFor(t)] # NoOne
    /\ Go(t, "leave")
    /\ UNCHANGED <<db, want, late, depth, locks, pool>>

\* The same thread asks again: it walks in.
Reenter(t) ==
    /\ pc[t] \in {"ask", "in"} /\ want[t] \in held[t] /\ depth[t] < MaxDepth
    /\ depth' = [depth EXCEPT ![t] = @ + 1]
    /\ Go(t, "in")
    /\ UNCHANGED <<db, want, late, locks, pool>>

LeaveNested(t) ==
    /\ pc[t] = "in" /\ depth[t] > 0
    /\ depth' = [depth EXCEPT ![t] = @ - 1]
    /\ UNCHANGED <<db, pc, want, late, locks, pool>>

\* LaunchInstance has been answered, or anything in between raised.
BodyEnds(t) ==
    /\ pc[t] = "in" /\ depth[t] = 0 /\ Go(t, "leave")
    /\ UNCHANGED <<db, want, late, depth, locks, pool>>

\* Mutant: the connection is rolled back but not closed.
LeaveCrossUnclosed(t) ==
    /\ pc[t] = "leave" /\ Go(t, "unlock")
    /\ xlock' = [xlock EXCEPT ![SlotFor(t)] = IF @ = t THEN NoOne ELSE @]
    /\ UNCHANGED <<db, want, late, depth, held, plock, pool>>

\* rollback and close of the connection, or unlock and close of the file
LeaveCross(t) ==
    /\ pc[t] = "leave" /\ Go(t, "unlock")
    /\ xlock' = [xlock EXCEPT ![SlotFor(t)] = IF @ = t THEN NoOne ELSE @]
    /\ IF Pg THEN CheckIn(t) ELSE UNCHANGED pool
    /\ UNCHANGED <<db, want, late, depth, held, plock>>

\* Mutant: the thread-local entry survives.
UnlockKeepsHeld(t) ==
    LET p == ProcessOf[t]  k == want[t] IN
    /\ pc[t] = "unlock" /\ Go(t, "answer")
    /\ plock' = [plock EXCEPT ![p][k] = NoOne]
    /\ UNCHANGED <<db, want, late, depth, held, xlock, pool>>

Unlock(t) ==
    LET p == ProcessOf[t]  k == want[t] IN
    /\ pc[t] = "unlock" /\ Go(t, "answer")
    /\ held' = [held EXCEPT ![t] = @ \ {k}]
    /\ plock' = [plock EXCEPT ![p][k] = NoOne]
    /\ UNCHANGED <<db, want, late, depth, xlock, pool>>

\* get_db closes the Session.
Answer(t) ==
    /\ pc[t] = "answer" /\ CheckIn(t) /\ Go(t, "out")
    /\ UNCHANGED <<db, want, late, depth, locks>>

\* The server or the network drops the dedicated connection; the caller does
\* not notice before it leaves.
ConnectionDrops(t) ==
    /\ Pg /\ "drop" \in Faults /\ pc[t] = "in" /\ xlock[SlotFor(t)] = t
    /\ xlock' = [xlock EXCEPT ![SlotFor(t)] = NoOne]
    /\ UNCHANGED <<db, pc, want, late, depth, held, plock, pool>>

\* A process dies: its memory, its connections and its file locks go with it.
Kill(p) ==
    LET dead == {t \in Thread : ProcessOf[t] = p} IN
    /\ "kill" \in Faults
    /\ pc' = [t \in Thread |-> IF t \in dead THEN "out" ELSE pc[t]]
    /\ late' = [t \in Thread |-> t \notin dead /\ late[t]]
    /\ depth' = [t \in Thread |-> IF t \in dead THEN 0 ELSE depth[t]]
    /\ held' = [t \in Thread |-> IF t \in dead THEN {} ELSE held[t]]
    /\ plock' = [plock EXCEPT ![p] = [k \in Tenant |-> NoOne]]
    /\ xlock' = [s \in Slot |-> IF xlock[s] \in dead THEN NoOne ELSE xlock[s]]
    /\ pool' = [pool EXCEPT ![p] = 0]
    /\ UNCHANGED <<db, want>>

Init ==
    /\ db \in Databases
    /\ pc = [t \in Thread |-> "out"]
    /\ want \in [Thread -> Tenant]
    /\ late = [t \in Thread |-> FALSE]
    /\ depth = [t \in Thread |-> 0]
    /\ held = [t \in Thread |-> {}]
    /\ plock = [p \in Process |-> [k \in Tenant |-> NoOne]]
    /\ xlock = [s \in Slot |-> NoOne]
    /\ pool = [p \in Process |-> 0]

\* What a thread does by itself once it has arrived
Proceeds(t) ==
    \/ TakeProcessLock(t) \/ ProcessLockBusy(t)
    \/ Connect(t) \/ PoolTimeout(t) \/ OpenLockFile(t)
    \/ TryTakes(t) \/ TryBusy(t)
    \/ LeaveNested(t) \/ BodyEnds(t) \/ LeaveCross(t) \/ Unlock(t) \/ Answer(t)

Next ==
    \/ \E t \in Thread :
          \/ \E k \in Tenant : Arrive(t, k)
          \/ Proceeds(t) \/ DeadlinePasses(t) \/ Reenter(t)
          \/ DatabaseAway(t) \/ InProcessOnly(t) \/ ConnectionDrops(t)
    \/ \E p \in Process : Kill(p)

Spec == Init /\ [][Next]_vars

\* Threads are scheduled, the body's calls to Oracle time out, deadlines pass.
FairSpec ==
    /\ Spec
    /\ \A t \in Thread : WF_vars(Proceeds(t)) /\ WF_vars(DeadlinePasses(t))

------------------------------------------------------------------------------
(* Properties *)

Inside(k) == {t \in Thread : pc[t] = "in" /\ want[t] = k}
InsideTenant == [k \in Tenant |-> Inside(k)]
InsideProcess ==
    [r \in Process \X Tenant |-> {t \in Inside(r[2]) : ProcessOf[t] = r[1]}]

Mutex == INSTANCE LaunchMutex WITH
            Caller <- Thread, Resource <- Tenant, inside <- InsideTenant

ProcessMutex == INSTANCE LaunchMutex WITH
            Caller <- Thread, Resource <- Process \X Tenant, inside <- InsideProcess

\* Of all processes at most one thread is between the usage snapshot and
\* LaunchInstance of a tenant: the layers together are one lock.
IsMutex == Mutex!Spec

\* Degraded to the process lock, or with its connection gone, the lock still
\* keeps the threads of one process apart.
IsProcessMutex == ProcessMutex!Spec

\* The thread-local entry and the process lock agree: a thread left with an
\* entry it does not own would walk into every later launch of that tenant.
HeldIsOwned ==
    \A t \in Thread, k \in Tenant :
       k \in held[t] <=> plock[ProcessOf[t]][k] = t

\* Every connection the pool counts as checked out belongs to a Session or to
\* an advisory lock still in use: refusals and failures leak none.
Sessions(p) == {t \in Thread : ProcessOf[t] = p /\ pc[t] # "out"}
Dedicated(p) ==
    {t \in Thread : Pg /\ ProcessOf[t] = p /\ pc[t] \in {"try", "in", "leave"}}
PoolBalanced ==
    \A p \in Process : pool[p] = Cardinality(Sessions(p)) + Cardinality(Dedicated(p))

\* Whoever asks goes in or is answered, however the others behave.
Answered ==
    \A t \in Thread : pc[t] = "ask" ~> pc[t] \in {"in", "answer", "out"}

\* The layers are taken in one order, so the callers do not deadlock: never do
\* all callers of a process wait for a connection that only they could return.
\* TLC refutes it for PoolSize = 2.
NoStandoff ==
    \A p \in Process :
       pool[p] = PoolSize => \E t \in Sessions(p) : pc[t] # "connect"
==============================================================================
