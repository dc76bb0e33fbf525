------------------------ MODULE TenantLaunchLockProofs ------------------------
(***************************************************************************)
(* Theorems about tenant_launch_lock, for any threads, processes, tenants, *)
(* slots and pool size.                                                    *)
(***************************************************************************)
EXTENDS TenantLaunchLock, FiniteSetTheorems, TLAPS

------------------------------------------------------------------------------
(* Types, and who owns the process lock *)

Holding == {"connect", "try", "in", "leave", "unlock"}

Domains ==
    /\ db \in Databases
    /\ pc \in [Thread -> {"out", "ask", "connect", "try", "in", "leave",
                          "unlock", "answer"}]
    /\ want \in [Thread -> Tenant]
    /\ late \in [Thread -> BOOLEAN]
    /\ depth \in [Thread -> Nat]
    /\ held \in [Thread -> SUBSET Tenant]
    /\ plock \in [Process -> [Tenant -> Thread \cup {NoOne}]]
    /\ xlock \in [Slot -> Thread \cup {NoOne}]

\* A process lock is held by the thread that wants its tenant, from
\* TakeProcessLock to Unlock.
Owned ==
    \A t \in Thread, p \in Process, k \in Tenant :
       plock[p][k] = t <=> p = ProcessOf[t] /\ k = want[t] /\ pc[t] \in Holding

Inv == Domains /\ HeldIsOwned /\ Owned

LEMMA InitInv == Init => Inv
  BY LockAssumption DEF Init, Inv, Domains, HeldIsOwned, Owned, Holding

LEMMA NextInv == Inv /\ [Next]_vars => Inv'
  <1> SUFFICES ASSUME Inv, [Next]_vars PROVE Inv'
    OBVIOUS
  <1> USE LockAssumption DEF Inv, Domains, HeldIsOwned, Owned, Holding, Go, locks
  <1>1. ASSUME NEW t \in Thread, NEW k \in Tenant, Arrive(t, k) PROVE Inv'
    BY <1>1 DEF Arrive, CheckOut
  <1>2. ASSUME NEW t \in Thread, TakeProcessLock(t) PROVE Inv'
    BY <1>2 DEF TakeProcessLock
  <1>3. ASSUME NEW t \in Thread, ProcessLockBusy(t) PROVE Inv'
    BY <1>3 DEF ProcessLockBusy
  <1>4. ASSUME NEW t \in Thread, Connect(t) PROVE Inv'
    BY <1>4 DEF Connect, CheckOut
  <1>5. ASSUME NEW t \in Thread, PoolTimeout(t) PROVE Inv'
    BY <1>5 DEF PoolTimeout
  <1>6. ASSUME NEW t \in Thread, OpenLockFile(t) PROVE Inv'
    BY <1>6 DEF OpenLockFile
  <1>7. ASSUME NEW t \in Thread, TryTakes(t) PROVE Inv'
    BY <1>7 DEF TryTakes, SlotFor
  <1>8. ASSUME NEW t \in Thread, TryBusy(t) PROVE Inv'
    BY <1>8 DEF TryBusy, SlotFor
  <1>9. ASSUME NEW t \in Thread, LeaveNested(t) PROVE Inv'
    BY <1>9 DEF LeaveNested
  <1>10. ASSUME NEW t \in Thread, BodyEnds(t) PROVE Inv'
    BY <1>10 DEF BodyEnds
  <1>11. ASSUME NEW t \in Thread, LeaveCross(t) PROVE Inv'
    BY <1>11 DEF LeaveCross, SlotFor
  <1>12. ASSUME NEW t \in Thread, Unlock(t) PROVE Inv'
    BY <1>12 DEF Unlock
  <1>13. ASSUME NEW t \in Thread, Answer(t) PROVE Inv'
    BY <1>13 DEF Answer
  <1>14. ASSUME NEW t \in Thread, DeadlinePasses(t) PROVE Inv'
    BY <1>14 DEF DeadlinePasses
  <1>15. ASSUME NEW t \in Thread, Reenter(t) PROVE Inv'
    BY <1>15 DEF Reenter
  <1>16. ASSUME NEW t \in Thread, DatabaseAway(t) PROVE Inv'
    <2>1. CASE pc[t] = "connect"
      BY <1>16, <2>1 DEF DatabaseAway
    <2>2. CASE pc[t] = "try"
      BY <1>16, <2>2 DEF DatabaseAway
    <2> QED
      BY <1>16, <2>1, <2>2 DEF DatabaseAway
  <1>17. ASSUME NEW t \in Thread, InProcessOnly(t) PROVE Inv'
    BY <1>17 DEF InProcessOnly
  <1>18. ASSUME NEW t \in Thread, ConnectionDrops(t) PROVE Inv'
    BY <1>18 DEF ConnectionDrops, SlotFor
  <1>19. ASSUME NEW p \in Process, Kill(p) PROVE Inv'
    BY <1>19 DEF Kill
  <1>20. CASE UNCHANGED vars
    BY <1>20 DEF vars
  <1> QED
    BY <1>1, <1>2, <1>3, <1>4, <1>5, <1>6, <1>7, <1>8, <1>9, <1>10,
       <1>11, <1>12, <1>13, <1>14, <1>15, <1>16, <1>17, <1>18, <1>19, <1>20
    DEF Next, Proceeds

LEMMA InvHolds == Spec => []Inv
  BY InitInv, NextInv, PTL DEF Spec

\* The thread-local set and the process locks never disagree, whatever fails.
THEOREM HeldIsOwnedHolds == Spec => []HeldIsOwned
  <1>1. Inv => HeldIsOwned
    BY DEF Inv
  <1> QED
    BY <1>1, InvHolds, PTL

------------------------------------------------------------------------------
(* The lock is a mutex *)

\* Under these a thread that is inside holds the slot of its tenant.
Sound == Faults \cap {"drop", "nofile"} = {}
Crossed == \A t \in Thread : pc[t] = "in" => xlock[SlotFor(t)] = t

\* Only a thread that is inside has an entry to walk in on again.
LEMMA ReenterInside ==
  ASSUME Inv, NEW t \in Thread, Reenter(t) PROVE pc[t] = "in"
  <1>1. want[t] \in Tenant /\ ProcessOf[t] \in Process
    BY LockAssumption DEF Inv, Domains
  <1>2. plock[ProcessOf[t]][want[t]] = t
    BY <1>1 DEF Reenter, Inv, HeldIsOwned
  <1> QED
    BY <1>1, <1>2 DEF Reenter, Inv, Owned, Holding

LEMMA NextCrossed ==
  ASSUME Sound, Inv, Crossed, [Next]_vars PROVE Crossed'
  <1> USE LockAssumption DEF Sound, Inv, Domains, HeldIsOwned, Owned, Holding,
                             Crossed, SlotFor, Go, locks
  <1>1. CASE \E t \in Thread : Proceeds(t)
    <2> PICK t \in Thread : Proceeds(t)
      BY <1>1
    <2>1. CASE TakeProcessLock(t) \/ ProcessLockBusy(t)
      BY <2>1 DEF TakeProcessLock, ProcessLockBusy
    <2>2. CASE Connect(t) \/ PoolTimeout(t) \/ OpenLockFile(t)
      BY <2>2 DEF Connect, PoolTimeout, OpenLockFile
    <2>3. CASE TryTakes(t)
      BY <2>3 DEF TryTakes
    <2>4. CASE TryBusy(t)
      BY <2>4 DEF TryBusy
    <2>5. CASE LeaveNested(t) \/ BodyEnds(t)
      BY <2>5 DEF LeaveNested, BodyEnds
    <2>6. CASE LeaveCross(t)
      BY <2>6 DEF LeaveCross
    <2>7. CASE Unlock(t) \/ Answer(t)
      BY <2>7 DEF Unlock, Answer
    <2> QED
      BY <2>1, <2>2, <2>3, <2>4, <2>5, <2>6, <2>7 DEF Proceeds
  <1>2. ASSUME NEW t \in Thread, NEW k \in Tenant, Arrive(t, k) PROVE Crossed'
    BY <1>2 DEF Arrive
  <1>3. ASSUME NEW t \in Thread, DeadlinePasses(t) PROVE Crossed'
    BY <1>3 DEF DeadlinePasses
  <1>4. ASSUME NEW t \in Thread, Reenter(t) PROVE Crossed'
    <2>1. pc[t] = "in"
      BY <1>4, ReenterInside
    <2> QED
      BY <1>4, <2>1 DEF Reenter
  <1>5. ASSUME NEW t \in Thread, DatabaseAway(t) PROVE Crossed'
    BY <1>5 DEF DatabaseAway
  <1>6. ASSUME NEW t \in Thread, InProcessOnly(t) \/ ConnectionDrops(t) PROVE FALSE
    BY <1>6 DEF InProcessOnly, ConnectionDrops
  <1>7. ASSUME NEW p \in Process, Kill(p) PROVE Crossed'
    BY <1>7 DEF Kill
  <1>8. CASE UNCHANGED vars
    BY <1>8 DEF vars
  <1> QED
    BY <1>1, <1>2, <1>3, <1>4, <1>5, <1>6, <1>7, <1>8 DEF Next

\* What an action does to the threads inside: nothing, one goes in, some leave.
Still ==
    \A t \in Thread : /\ (pc[t] = "in")' <=> (pc[t] = "in")
                      /\ pc[t] = "in" => want'[t] = want[t]

GoesIn(t) ==
    pc[t] \in {"connect", "try"} /\ pc' = [pc EXCEPT ![t] = "in"] /\ want' = want

Leaves(gone) ==
    /\ want' = want
    /\ \A t \in Thread : (pc[t] = "in")' <=> pc[t] = "in" /\ t \notin gone

\* Two functions that differ in one place
LEMMA DifferAt ==
  ASSUME NEW S, NEW f, NEW g, NEW r \in S, NEW v,
         f = [q \in S |-> f[q]], g = [q \in S |-> g[q]],
         g[r] = v, \A q \in S : q # r => g[q] = f[q]
  PROVE  g = [f EXCEPT ![r] = v]
  OBVIOUS

\* An action that moves no thread in or out shows the mutex no change.
LEMMA Unmoved ==
  ASSUME Still
  PROVE  InsideTenant' = InsideTenant /\ InsideProcess' = InsideProcess
  <1>1. ASSUME NEW k PROVE Inside(k)' = Inside(k)
    BY DEF Still, Inside
  <1> QED
    BY <1>1 DEF InsideTenant, InsideProcess

LEMMA Moves ==
  ASSUME Inv, [Next]_vars
  PROVE  \/ Still
         \/ \E t \in Thread : (TryTakes(t) \/ InProcessOnly(t)) /\ GoesIn(t)
         \/ \E gone \in SUBSET Thread : Leaves(gone)
  <1> USE LockAssumption DEF Inv, Domains, HeldIsOwned, Owned, Holding, Go, locks
  <1>1. CASE \E t \in Thread : Proceeds(t)
    <2> PICK t \in Thread : Proceeds(t)
      BY <1>1
    <2>1. CASE TakeProcessLock(t) \/ ProcessLockBusy(t)
      BY <2>1 DEF TakeProcessLock, ProcessLockBusy, Still
    <2>2. CASE Connect(t) \/ PoolTimeout(t) \/ OpenLockFile(t)
      BY <2>2 DEF Connect, PoolTimeout, OpenLockFile, Still
    <2>3. CASE TryTakes(t)
      BY <2>3 DEF TryTakes, GoesIn
    <2>4. CASE TryBusy(t) \/ LeaveNested(t)
      BY <2>4 DEF TryBusy, LeaveNested, Still
    <2>5. CASE BodyEnds(t)
      <3>1. Leaves({t})
        BY <2>5 DEF BodyEnds, Leaves
      <3> QED
        BY <3>1
    <2>6. CASE LeaveCross(t)
      BY <2>6 DEF LeaveCross, Still
    <2>7. CASE Unlock(t) \/ Answer(t)
      BY <2>7 DEF Unlock, Answer, Still
    <2> QED
      BY <2>1, <2>2, <2>3, <2>4, <2>5, <2>6, <2>7 DEF Proceeds
  <1>2. ASSUME NEW t \in Thread, NEW k \in Tenant, Arrive(t, k) PROVE Still
    BY <1>2 DEF Arrive, Still
  <1>3. ASSUME NEW t \in Thread, DeadlinePasses(t) \/ DatabaseAway(t) PROVE Still
    BY <1>3 DEF DeadlinePasses, DatabaseAway, Still
  <1>4. ASSUME NEW t \in Thread, Reenter(t) PROVE Still
    <2>1. pc[t] = "in"
      BY <1>4, ReenterInside
    <2> QED
      BY <1>4, <2>1 DEF Reenter, Still
  <1>5. ASSUME NEW t \in Thread, InProcessOnly(t) PROVE GoesIn(t)
    BY <1>5 DEF InProcessOnly, GoesIn
  <1>6. ASSUME NEW t \in Thread, ConnectionDrops(t) PROVE Still
    BY <1>6 DEF ConnectionDrops, Still
  <1>7. ASSUME NEW p \in Process, Kill(p) PROVE \E gone \in SUBSET Thread : Leaves(gone)
    <2> WITNESS {t \in Thread : ProcessOf[t] = p} \in SUBSET Thread
    <2> QED
      BY <1>7 DEF Kill, Leaves
  <1>8. CASE UNCHANGED vars
    BY <1>8 DEF vars, Still
  <1> QED
    BY <1>1, <1>2, <1>3, <1>4, <1>5, <1>6, <1>7, <1>8 DEF Next

\* The lock with its cross-process layer in working order: at most one thread
\* of all processes is between the usage snapshot and LaunchInstance.
THEOREM MutexImplemented == Sound => (Spec => IsMutex)
  <1> SUFFICES ASSUME Sound PROVE Spec => IsMutex
    OBVIOUS
  <1>1. Init => Mutex!Init /\ Crossed
    BY DEF Init, Mutex!Init, InsideTenant, Inside, Crossed
  <1>2. ASSUME Inv, Crossed, [Next]_vars PROVE [Mutex!Next]_InsideTenant
    <2>1. CASE Still
      BY <2>1, Unmoved
    <2>2. ASSUME NEW t \in Thread, TryTakes(t) \/ InProcessOnly(t), GoesIn(t)
          PROVE  Mutex!Enter(t, want[t])
      <3>1. PICK k \in Tenant : k = want[t]
        BY <1>2 DEF Inv, Domains
      <3>2. TryTakes(t)
        BY <2>2 DEF Sound, InProcessOnly
      <3>3. Inside(k) = {}
        BY <1>2, <3>1, <3>2, LockAssumption DEF TryTakes, Inside, Crossed, SlotFor
      <3>4. Inside(k)' = {t}
        BY <1>2, <2>2, <3>1, <3>3 DEF Inside, Inv, Domains, GoesIn
      <3>5. ASSUME NEW q \in Tenant, q # k PROVE Inside(q)' = Inside(q)
        BY <1>2, <2>2, <3>1, <3>5 DEF Inside, Inv, Domains, GoesIn
      <3>6. /\ InsideTenant[k] = {} /\ InsideTenant'[k] = {t}
            /\ \A q \in Tenant : q # k => InsideTenant'[q] = InsideTenant[q]
        <4>1. \A q \in Tenant : InsideTenant[q] = Inside(q) /\ InsideTenant'[q] = Inside(q)'
          BY DEF InsideTenant
        <4> QED
          BY <3>1, <3>3, <3>4, <3>5, <4>1
      <3>7. InsideTenant' = [InsideTenant EXCEPT ![k] = {t}]
        <4>1. /\ InsideTenant = [q \in Tenant |-> InsideTenant[q]]
              /\ InsideTenant' = [q \in Tenant |-> InsideTenant'[q]]
          BY DEF InsideTenant
        <4> QED
          BY <3>1, <3>6, <4>1, DifferAt
      <3> QED
        BY <3>1, <3>6, <3>7 DEF Mutex!Enter
    <2>3. ASSUME NEW gone \in SUBSET Thread, Leaves(gone) PROVE Mutex!Leave(gone)
      <3>1. \A k \in Tenant : Inside(k)' = Inside(k) \ gone
        BY <2>3 DEF Inside, Leaves
      <3> QED
        BY <3>1 DEF InsideTenant, Mutex!Leave
    <2>4. \A t \in Thread : want[t] \in Tenant
      BY <1>2 DEF Inv, Domains
    <2> QED
      BY <1>2, <2>1, <2>2, <2>3, <2>4, Moves DEF Mutex!Next
  <1>3. Inv /\ Crossed /\ [Next]_vars => Crossed'
    BY NextCrossed
  <1> QED
    BY <1>1, <1>2, <1>3, InvHolds, PTL DEF Spec, IsMutex, Mutex!Spec

\* With the cross-process layer missing, or lost in the middle, the threads of
\* one process still exclude each other.
THEOREM ProcessMutexImplemented == Spec => IsProcessMutex
  <1>1. Init => ProcessMutex!Init
    BY DEF Init, ProcessMutex!Init, InsideProcess, Inside
  <1>2. ASSUME Inv, [Next]_vars PROVE [ProcessMutex!Next]_InsideProcess
    <2>1. CASE Still
      BY <2>1, Unmoved
    <2>2. ASSUME NEW t \in Thread, GoesIn(t)
          PROVE  ProcessMutex!Enter(t, <<ProcessOf[t], want[t]>>)
      <3> DEFINE In(q) == {u \in Inside(q[2]) : ProcessOf[u] = q[1]}
      <3>1. PICK r \in Process \X Tenant : r = <<ProcessOf[t], want[t]>>
        BY <1>2, LockAssumption DEF Inv, Domains
      <3>2. In(r) = {}
        <4> SUFFICES ASSUME NEW u \in In(r) PROVE FALSE
          OBVIOUS
        <4>1. u \in Thread /\ pc[u] = "in" /\ want[u] = want[t] /\ ProcessOf[u] = ProcessOf[t]
          BY <3>1 DEF Inside
        <4>2. plock[ProcessOf[t]][want[t]] = u
          BY <1>2, <4>1, <3>1 DEF Inv, Owned, Holding
        <4>3. plock[ProcessOf[t]][want[t]] = t
          BY <1>2, <2>2, <3>1 DEF Inv, Owned, Holding, GoesIn
        <4> QED
          BY <2>2, <4>1, <4>2, <4>3 DEF GoesIn
      <3>3. In(r)' = {t}
        BY <1>2, <2>2, <3>1, <3>2 DEF Inside, Inv, Domains, GoesIn
      <3>4. ASSUME NEW q \in Process \X Tenant, q # r PROVE In(q)' = In(q)
        BY <1>2, <2>2, <3>1, <3>4, LockAssumption DEF Inside, Inv, Domains, GoesIn
      <3>5. \A q \in Process \X Tenant : InsideProcess[q] = In(q)
        BY DEF InsideProcess
      <3>6. \A q \in Process \X Tenant : InsideProcess'[q] = In(q)'
        BY DEF InsideProcess
      <3> HIDE DEF In
      <3>7. /\ InsideProcess[r] = {} /\ InsideProcess'[r] = {t}
            /\ \A q \in Process \X Tenant : q # r => InsideProcess'[q] = InsideProcess[q]
        BY <3>1, <3>2, <3>3, <3>4, <3>5, <3>6
      <3>8. InsideProcess' = [InsideProcess EXCEPT ![r] = {t}]
        <4>1. /\ InsideProcess = [q \in Process \X Tenant |-> InsideProcess[q]]
              /\ InsideProcess' = [q \in Process \X Tenant |-> InsideProcess'[q]]
          BY DEF InsideProcess
        <4> QED
          BY <3>1, <3>7, <4>1, DifferAt
      <3> QED
        BY <3>1, <3>7, <3>8 DEF ProcessMutex!Enter
    <2>3. ASSUME NEW gone \in SUBSET Thread, Leaves(gone) PROVE ProcessMutex!Leave(gone)
      <3>1. \A k : Inside(k)' = Inside(k) \ gone
        BY <2>3 DEF Inside, Leaves
      <3> QED
        BY <3>1 DEF InsideProcess, ProcessMutex!Leave
    <2>4. \A t \in Thread : <<ProcessOf[t], want[t]>> \in Process \X Tenant
      BY <1>2, LockAssumption DEF Inv, Domains
    <2> QED
      BY <1>2, <2>1, <2>2, <2>3, <2>4, Moves DEF ProcessMutex!Next
  <1> QED
    BY <1>1, <1>2, InvHolds, PTL DEF Spec, IsProcessMutex, ProcessMutex!Spec

------------------------------------------------------------------------------
(* The pool *)

Balanced == pool \in [Process -> Nat] /\ PoolBalanced

LEMMA Counted ==
  ASSUME NEW p \in Process
  PROVE  /\ IsFiniteSet(Sessions(p)) /\ Cardinality(Sessions(p)) \in Nat
         /\ IsFiniteSet(Dedicated(p)) /\ Cardinality(Dedicated(p)) \in Nat
  <1>1. Sessions(p) \subseteq Thread /\ Dedicated(p) \subseteq Thread
    BY DEF Sessions, Dedicated
  <1> QED
    BY <1>1, LockAssumption, FS_Subset, FS_CardinalityType

\* An action that opens and closes no connection
LEMMA BalanceKept ==
  ASSUME Balanced, pool' = pool,
         \A p \in Process : Sessions(p)' = Sessions(p) /\ Dedicated(p)' = Dedicated(p)
  PROVE  Balanced'
  BY DEF Balanced, PoolBalanced

\* An action that opens or closes connections of one process
LEMMA BalanceShifted ==
  ASSUME Balanced, NEW q \in Process, NEW n \in Nat,
         pool' = [pool EXCEPT ![q] = n],
         n = Cardinality(Sessions(q)') + Cardinality(Dedicated(q)'),
         \A p \in Process \ {q} : /\ Sessions(p)' = Sessions(p)
                                  /\ Dedicated(p)' = Dedicated(p)
  PROVE  Balanced'
  <1>1. pool' \in [Process -> Nat]
    BY DEF Balanced
  <1>2. ASSUME NEW p \in Process
        PROVE  pool'[p] = Cardinality(Sessions(p)') + Cardinality(Dedicated(p)')
    <2>1. CASE p = q
      BY <2>1 DEF Balanced
    <2>2. CASE p # q
      <3>1. pool'[p] = pool[p]
        BY <2>2 DEF Balanced
      <3>2. pool[p] = Cardinality(Sessions(p)) + Cardinality(Dedicated(p))
        BY DEF Balanced, PoolBalanced
      <3> QED
        BY <2>2, <3>1, <3>2
    <2> QED
      BY <2>1, <2>2
  <1> QED
    BY <1>1, <1>2 DEF Balanced, PoolBalanced

LEMMA NextBalanced ==
  ASSUME Inv, Balanced, [Next]_vars PROVE Balanced'
  <1> DEFINE Kept == /\ pool' = pool
                     /\ \A p \in Process : /\ Sessions(p)' = Sessions(p)
                                           /\ Dedicated(p)' = Dedicated(p)
  <1> USE LockAssumption DEF Inv, Domains, Go, locks, Pg
  <1>1. ASSUME NEW t \in Thread, NEW k \in Tenant, Arrive(t, k) PROVE Balanced'
    <2>1. PICK q \in Process : q = ProcessOf[t]
      OBVIOUS
    <2>2. /\ t \notin Sessions(q) /\ Sessions(q)' = Sessions(q) \cup {t}
          /\ Dedicated(q)' = Dedicated(q)
          /\ pool' = [pool EXCEPT ![q] = @ + 1]
          /\ \A p \in Process \ {q} : /\ Sessions(p)' = Sessions(p)
                                      /\ Dedicated(p)' = Dedicated(p)
      BY <1>1, <2>1 DEF Arrive, CheckOut, Sessions, Dedicated
    <2>3. /\ Cardinality(Sessions(q)') = Cardinality(Sessions(q)) + 1
          /\ Cardinality(Sessions(q)') \in Nat
      <3>1. /\ Cardinality(Sessions(q) \cup {t}) = Cardinality(Sessions(q)) + 1
            /\ Cardinality(Sessions(q) \cup {t}) \in Nat
        BY <2>2, Counted, FS_AddElement, FS_CardinalityType
      <3> QED
        BY <2>2, <3>1
    <2>4. Cardinality(Dedicated(q)') = Cardinality(Dedicated(q))
      BY <2>2
    <2>5. pool[q] = Cardinality(Sessions(q)) + Cardinality(Dedicated(q))
      BY DEF Balanced, PoolBalanced
    <2>6. Cardinality(Sessions(q)) \in Nat /\ Cardinality(Dedicated(q)) \in Nat
      BY Counted
    <2>7. /\ pool[q] + 1 = Cardinality(Sessions(q)') + Cardinality(Dedicated(q)')
          /\ pool[q] + 1 \in Nat
      BY ONLY <2>3, <2>4, <2>5, <2>6
    <2> QED
      BY <2>2, <2>7, BalanceShifted
  <1>2. ASSUME NEW t \in Thread, Connect(t) PROVE Balanced'
    <2>1. PICK q \in Process : q = ProcessOf[t]
      OBVIOUS
    <2>2. /\ t \notin Dedicated(q) /\ Dedicated(q)' = Dedicated(q) \cup {t}
          /\ Sessions(q)' = Sessions(q)
          /\ pool' = [pool EXCEPT ![q] = @ + 1]
          /\ \A p \in Process \ {q} : /\ Sessions(p)' = Sessions(p)
                                      /\ Dedicated(p)' = Dedicated(p)
      BY <1>2, <2>1 DEF Connect, CheckOut, Sessions, Dedicated
    <2>3. /\ Cardinality(Dedicated(q)') = Cardinality(Dedicated(q)) + 1
          /\ Cardinality(Dedicated(q)') \in Nat
      <3>1. /\ Cardinality(Dedicated(q) \cup {t}) = Cardinality(Dedicated(q)) + 1
            /\ Cardinality(Dedicated(q) \cup {t}) \in Nat
        BY <2>2, Counted, FS_AddElement, FS_CardinalityType
      <3> QED
        BY <2>2, <3>1
    <2>4. Cardinality(Sessions(q)') = Cardinality(Sessions(q))
      BY <2>2
    <2>5. pool[q] = Cardinality(Sessions(q)) + Cardinality(Dedicated(q))
      BY DEF Balanced, PoolBalanced
    <2>6. Cardinality(Sessions(q)) \in Nat /\ Cardinality(Dedicated(q)) \in Nat
      BY Counted
    <2>7. /\ pool[q] + 1 = Cardinality(Sessions(q)') + Cardinality(Dedicated(q)')
          /\ pool[q] + 1 \in Nat
      BY ONLY <2>3, <2>4, <2>5, <2>6
    <2> QED
      BY <2>2, <2>7, BalanceShifted
  <1>3. ASSUME NEW t \in Thread, LeaveCross(t), Pg PROVE Balanced'
    <2>1. PICK q \in Process : q = ProcessOf[t]
      OBVIOUS
    <2>2. /\ t \in Dedicated(q) /\ Dedicated(q)' = Dedicated(q) \ {t}
          /\ Sessions(q)' = Sessions(q)
          /\ pool' = [pool EXCEPT ![q] = @ - 1]
          /\ \A p \in Process \ {q} : /\ Sessions(p)' = Sessions(p)
                                      /\ Dedicated(p)' = Dedicated(p)
      BY <1>3, <2>1 DEF LeaveCross, CheckIn, Sessions, Dedicated
    <2>3. /\ Cardinality(Dedicated(q)') = Cardinality(Dedicated(q)) - 1
          /\ Cardinality(Dedicated(q)') \in Nat
      <3>1. /\ Cardinality(Dedicated(q) \ {t}) = Cardinality(Dedicated(q)) - 1
            /\ Cardinality(Dedicated(q) \ {t}) \in Nat
        BY <2>2, Counted, FS_RemoveElement, FS_CardinalityType
      <3> QED
        BY <2>2, <3>1
    <2>4. Cardinality(Sessions(q)') = Cardinality(Sessions(q))
      BY <2>2
    <2>5. pool[q] = Cardinality(Sessions(q)) + Cardinality(Dedicated(q))
      BY DEF Balanced, PoolBalanced
    <2>6. Cardinality(Sessions(q)) \in Nat /\ Cardinality(Dedicated(q)) \in Nat
      BY Counted
    <2>7. /\ pool[q] - 1 = Cardinality(Sessions(q)') + Cardinality(Dedicated(q)')
          /\ pool[q] - 1 \in Nat
      BY ONLY <2>3, <2>4, <2>5, <2>6
    <2> QED
      BY <2>2, <2>7, BalanceShifted
  <1>4. ASSUME NEW t \in Thread, Answer(t) PROVE Balanced'
    <2>1. PICK q \in Process : q = ProcessOf[t]
      OBVIOUS
    <2>2. /\ t \in Sessions(q) /\ Sessions(q)' = Sessions(q) \ {t}
          /\ Dedicated(q)' = Dedicated(q)
          /\ pool' = [pool EXCEPT ![q] = @ - 1]
          /\ \A p \in Process \ {q} : /\ Sessions(p)' = Sessions(p)
                                      /\ Dedicated(p)' = Dedicated(p)
      BY <1>4, <2>1 DEF Answer, CheckIn, Sessions, Dedicated
    <2>3. /\ Cardinality(Sessions(q)') = Cardinality(Sessions(q)) - 1
          /\ Cardinality(Sessions(q)') \in Nat
      <3>1. /\ Cardinality(Sessions(q) \ {t}) = Cardinality(Sessions(q)) - 1
            /\ Cardinality(Sessions(q) \ {t}) \in Nat
        BY <2>2, Counted, FS_RemoveElement, FS_CardinalityType
      <3> QED
        BY <2>2, <3>1
    <2>4. Cardinality(Dedicated(q)') = Cardinality(Dedicated(q))
      BY <2>2
    <2>5. pool[q] = Cardinality(Sessions(q)) + Cardinality(Dedicated(q))
      BY DEF Balanced, PoolBalanced
    <2>6. Cardinality(Sessions(q)) \in Nat /\ Cardinality(Dedicated(q)) \in Nat
      BY Counted
    <2>7. /\ pool[q] - 1 = Cardinality(Sessions(q)') + Cardinality(Dedicated(q)')
          /\ pool[q] - 1 \in Nat
      BY ONLY <2>3, <2>4, <2>5, <2>6
    <2> QED
      BY <2>2, <2>7, BalanceShifted
  <1>5. ASSUME NEW q \in Process, Kill(q) PROVE Balanced'
    <2>1. /\ pool' = [pool EXCEPT ![q] = 0]
          /\ Sessions(q)' = {} /\ Dedicated(q)' = {}
          /\ \A p \in Process \ {q} : /\ Sessions(p)' = Sessions(p)
                                      /\ Dedicated(p)' = Dedicated(p)
      BY <1>5 DEF Kill, Sessions, Dedicated
    <2>2. PICK n \in Nat : n = 0
      OBVIOUS
    <2>3. Cardinality(Sessions(q)') = 0 /\ Cardinality(Dedicated(q)') = 0
      BY <2>1, FS_EmptySet
    <2>4. n = Cardinality(Sessions(q)') + Cardinality(Dedicated(q)')
      BY ONLY <2>2, <2>3
    <2>5. pool' = [pool EXCEPT ![q] = n]
      BY ONLY <2>1, <2>2
    <2> QED
      BY <2>1, <2>4, <2>5, BalanceShifted
  <1>6. ASSUME NEW t \in Thread, TakeProcessLock(t) \/ ProcessLockBusy(t) PROVE Kept
    BY <1>6 DEF TakeProcessLock, ProcessLockBusy, Sessions, Dedicated
  <1>7. ASSUME NEW t \in Thread, PoolTimeout(t) \/ OpenLockFile(t) PROVE Kept
    BY <1>7 DEF PoolTimeout, OpenLockFile, Sessions, Dedicated
  <1>8. ASSUME NEW t \in Thread, TryTakes(t) \/ TryBusy(t) PROVE Kept
    BY <1>8 DEF TryTakes, TryBusy, Sessions, Dedicated
  <1>9. ASSUME NEW t \in Thread, LeaveNested(t) \/ BodyEnds(t) PROVE Kept
    BY <1>9 DEF LeaveNested, BodyEnds, Sessions, Dedicated
  <1>10. ASSUME NEW t \in Thread, LeaveCross(t), ~Pg PROVE Kept
    BY <1>10 DEF LeaveCross, Sessions, Dedicated
  <1>11. ASSUME NEW t \in Thread, Unlock(t) \/ DeadlinePasses(t) PROVE Kept
    BY <1>11 DEF Unlock, DeadlinePasses, Sessions, Dedicated
  <1>12. ASSUME NEW t \in Thread, Reenter(t) PROVE Kept
    <2>1. pc[t] = "in"
      BY <1>12, ReenterInside
    <2> QED
      BY <1>12, <2>1 DEF Reenter, Sessions, Dedicated
  <1>13. ASSUME NEW t \in Thread, DatabaseAway(t) PROVE Kept
    BY <1>13 DEF DatabaseAway, Sessions, Dedicated
  <1>14. ASSUME NEW t \in Thread, InProcessOnly(t) \/ ConnectionDrops(t) PROVE Kept
    BY <1>14 DEF InProcessOnly, ConnectionDrops, Sessions, Dedicated
  <1>15. CASE UNCHANGED vars
    BY <1>15 DEF vars, Sessions, Dedicated, Balanced, PoolBalanced
  <1>16. Kept => Balanced'
    BY BalanceKept
  <1> HIDE DEF Kept
  <1> QED
    BY <1>1, <1>2, <1>3, <1>4, <1>5, <1>6, <1>7, <1>8, <1>9, <1>10, <1>11,
       <1>12, <1>13, <1>14, <1>15, <1>16
    DEF Next, Proceeds

LEMMA BalancedHolds == Spec => []Balanced
  <1>1. Init => Balanced
    <2> SUFFICES ASSUME Init PROVE Balanced
      OBVIOUS
    <2>1. \A p \in Process : pool[p] = 0 /\ Sessions(p) = {} /\ Dedicated(p) = {}
      BY DEF Init, Sessions, Dedicated
    <2>2. \A p \in Process : Cardinality(Sessions(p)) = 0 /\ Cardinality(Dedicated(p)) = 0
      BY <2>1, FS_EmptySet
    <2>3. pool \in [Process -> Nat]
      BY DEF Init
    <2> QED
      BY <2>1, <2>2, <2>3 DEF Balanced, PoolBalanced
  <1> QED
    BY <1>1, NextBalanced, InvHolds, PTL DEF Spec

\* Refusals, timeouts, failures and kills leak no connection of the pool.
THEOREM PoolBalancedHolds == Spec => []PoolBalanced
  <1>1. Balanced => PoolBalanced
    BY DEF Balanced
  <1> QED
    BY <1>1, BalancedHolds, PTL

\* Every variable keeps its domain; the pool count never falls below zero.
THEOREM LockTypesHold == Spec => []TypeOK
  <1>1. Inv /\ Balanced => TypeOK
    BY DEF Inv, Domains, Balanced, TypeOK
  <1> QED
    BY <1>1, InvHolds, BalancedHolds, PTL
==============================================================================
