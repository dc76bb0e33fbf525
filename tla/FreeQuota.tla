----------------------------- MODULE FreeQuota -----------------------------
(***************************************************************************)
(* The guard of the Always Free allowance: app/free_quota.py and           *)
(* web/backend/quota_guard.py, as the routes that launch an instance,      *)
(* resize one, grow a volume or create one use it. Every route looks at    *)
(* what is in use, judges, and acts; only launches hold the tenant's lock  *)
(* from the look to the act (module TenantLaunchLock has the lock). A read *)
(* may lose a part of what is in use, and the read of the home region may  *)
(* fail. Oracle is external.                                               *)
(*                                                                         *)
(* Amounts are scaled. The CPUs and the memory of a Flex machine are       *)
(* compared alike: one size stands for both. A disk of 1 is a boot volume  *)
(* nobody gave a size, 4 of which fit in the free storage.                 *)
(***************************************************************************)
EXTENDS Naturals, FiniteSets, FiniteSetsExt

CONSTANTS
    Slots, Blocks, Requests, None,
    FreeA1, PaidA1, FreeE2, FreeDisk,   \* the allowance
    Ops,            \* what is asked for in a run
    Settings,       \* the tenants of a run
    RegionReads,    \* what becomes of reads of the home region: TRUE if they succeed
    Alone,          \* kinds of requests that overlap no other (an assumption of a run)
    MaxDisk,        \* bound: the size of a volume
    MaxBegun        \* bound: requests in a run

Parts == {"instances", "boot", "block", "object"}

FreeQuotaAssumption ==
    /\ Slots \cup Blocks \subseteq Nat /\ Slots \cap Blocks = {}
    /\ {FreeA1, PaidA1, FreeE2, FreeDisk, MaxDisk, MaxBegun} \subseteq Nat
    /\ FreeA1 <= PaidA1 /\ RegionReads \subseteq BOOLEAN
    /\ Settings \subseteq [tier: {"free", "paid", "unknown", ""}, freeOnly: BOOLEAN,
                           home: BOOLEAN, child: BOOLEAN]

VARIABLES
    t,          \* the tenant: tier, free_only_mode, whether it is in the home region, child row
    vm,         \* the machine in each slot: its shape and size, or None
    disk,       \* the size of each volume, 0 if there is none; a slot's is its boot volume
    at, op,     \* of each request: its next step, and what it asks for
    cur,        \* the present size it read of what it changes
    known,      \* whether it could read the home region
    left,       \* how many of a batch are not made yet
    lock,       \* who holds the tenant's launch lock
    begun       \* requests so far

vars == <<t, vm, disk, at, op, cur, known, left, lock, begun>>

-----------------------------------------------------------------------------
(* The rules *)

Hard == t.freeOnly \/ t.tier \in {"", "free", "unknown"}

Cap == IF t.tier = "paid" THEN PaidA1 ELSE FreeA1

Free(shape) == shape \in {"a1", "e2"}

Less(a, b) == IF a > b THEN a - b ELSE 0

Machines(shape) == {i \in Slots: vm[i] # None /\ vm[i].shape = shape}

Sizes(ids) == MapThenSumSet(LAMBDA i: disk[i], ids)

Usage(lost) ==
    [a1 |-> IF "instances" \in lost THEN 0
            ELSE MapThenSumSet(LAMBDA i: vm[i].size, Machines("a1")),
     e2 |-> IF "instances" \in lost THEN 0 ELSE Cardinality(Machines("e2")),
     disk |-> Sizes((IF "boot" \in lost THEN {} ELSE Slots) \cup
                    (IF "block" \in lost THEN {} ELSE Blocks)),
     incomplete |-> lost # {}]

LaunchOk(o, size, u) ==
    /\ t.freeOnly => Free(o.shape)
    /\ o.shape = "a1" /\ Hard =>
           o.n * size <= Cap /\ o.n * size <= Less(Cap, u.a1)
    /\ o.shape = "e2" /\ Hard => o.n <= Less(FreeE2, u.e2)
    /\ Hard /\ (t.freeOnly \/ Free(o.shape)) => u.disk + o.n * o.boot <= FreeDisk

ResizeOk(o, c, u) ==
    IF vm[o.on] = None \/ vm[o.on].shape # "a1"
    THEN t.freeOnly => vm[o.on] # None /\ Free(vm[o.on].shape)
    ELSE Hard => o.size <= Cap /\ Less(u.a1, c) + o.size <= Cap

GrowOk(o, c, u) == o.size <= c \/ (Hard => Less(u.disk, c) + o.size <= FreeDisk)

BlockedByIncomplete(u) == u.incomplete /\ Hard

Enforce(o, c, u) ==
    /\ ~BlockedByIncomplete(u)
    /\ CASE o.kind = "launch" -> LaunchOk(o, o.size, u) /\ \A s \in o.fallbacks: LaunchOk(o, s, u)
         [] o.kind = "resize" -> ResizeOk(o, c, u)
         [] o.kind \in {"grow", "create"} -> GrowOk(o, c, u)

-----------------------------------------------------------------------------
(* The region: k says whether the two regions can be read *)

Secondary(k) == IF k THEN ~t.home ELSE t.child

\* Mutant: what the row says outweighs what was read.
GateHintFirst(k, hint) ==
    CASE ~hint /\ (~k \/ t.home) -> "judge"
      [] OTHER -> IF t.freeOnly THEN "refuse" ELSE "bill"

Gate(k, hint) ==
    CASE k /\ t.home -> "judge"
      [] ~hint /\ (~k \/ t.home) -> "judge"
      [] OTHER -> IF t.freeOnly THEN "refuse" ELSE "bill"

(* What a launch is told, what the dry run of it says, and what the worker does *)

Answer(o, k, lost) ==
    CASE Gate(k, t.child) = "judge" -> Enforce(o, 0, Usage(lost))
      [] OTHER -> Gate(k, t.child) = "bill"

\* Mutant: the dry run does not mind an incomplete read.
PreflightLax(o, k, lost) ==
    IF Secondary(k) THEN Gate(k, TRUE) = "bill"
    ELSE LaunchOk(o, o.size, Usage(lost))

Preflight(o, k, lost) ==
    IF Secondary(k) THEN Gate(k, TRUE) = "bill"
    ELSE LaunchOk(o, o.size, Usage(lost)) /\ ~(Usage(lost).incomplete /\ Hard)

Attempts(o, k, lost) ==
    IF Secondary(k) THEN ~t.freeOnly
    ELSE /\ Hard => ~Usage(lost).incomplete
         /\ LaunchOk(o, o.size, Usage(lost))

-----------------------------------------------------------------------------
(* The account, and the requests *)

Vms == [shape: {"a1", "e2", "other"}, size: 0..MaxDisk]

Init ==
    /\ t \in Settings
    /\ \E n \in 0..1: \E s \in {"a1", "e2"}:
           vm = [i \in Slots |-> IF i <= n THEN [shape |-> s, size |-> IF s = "a1" THEN 1 ELSE 0]
                                 ELSE None]
    /\ disk = [i \in Slots \cup Blocks |-> IF i \in Slots /\ vm[i] # None THEN 1 ELSE 0]
    /\ at = [r \in Requests |-> "idle"]
    /\ op = [r \in Requests |-> None]
    /\ cur = [r \in Requests |-> 0]
    /\ known = [r \in Requests |-> FALSE]
    /\ left = [r \in Requests |-> 0]
    /\ lock = None /\ begun = 0

Busy == {r \in Requests: at[r] # "idle"}

Apart(o) == \A r \in Busy: o.kind \notin Alone /\ op[r].kind \notin Alone

Present(o) ==
    CASE o.kind = "grow" -> {disk[o.on], 0}
      [] o.kind = "resize" -> {vm[o.on].size}
      [] OTHER -> {0}

Ask(r, o) ==
    /\ at[r] = "idle" /\ begun < MaxBegun /\ Apart(o)
    /\ o.kind = "launch" => lock = None
    /\ o.kind = "resize" => vm[o.on] # None /\ vm[o.on].shape \in {"a1", "other"}
    /\ op' = [op EXCEPT ![r] = o]
    /\ \E c \in Present(o): cur' = [cur EXCEPT ![r] = c]
    /\ lock' = IF o.kind = "launch" THEN r ELSE lock
    /\ at' = [at EXCEPT ![r] = "gate"]
    /\ left' = [left EXCEPT ![r] = IF o.kind = "launch" THEN o.n ELSE 1]
    /\ begun' = begun + 1
    /\ UNCHANGED <<t, vm, disk, known>>

End(r) ==
    /\ at' = [at EXCEPT ![r] = "idle"]
    /\ op' = [op EXCEPT ![r] = None]
    /\ cur' = [cur EXCEPT ![r] = 0]
    /\ known' = [known EXCEPT ![r] = FALSE]
    /\ left' = [left EXCEPT ![r] = 0]
    /\ lock' = IF lock = r THEN None ELSE lock

Region(r) ==
    /\ at[r] = "gate"
    /\ \E k \in RegionReads:
           IF Gate(k, t.child) = "refuse" THEN End(r)
           ELSE /\ known' = [known EXCEPT ![r] = k]
                /\ at' = [at EXCEPT ![r] = IF Gate(k, t.child) = "bill" THEN "act" ELSE "look"]
                /\ UNCHANGED <<op, cur, left, lock>>
    /\ UNCHANGED <<t, vm, disk, begun>>

Look(r) ==
    /\ at[r] = "look"
    /\ \E lost \in SUBSET Parts:
           IF Enforce(op[r], cur[r], Usage(lost))
           THEN at' = [at EXCEPT ![r] = "act"] /\ UNCHANGED <<op, cur, known, left, lock>>
           ELSE End(r)
    /\ UNCHANGED <<t, vm, disk, begun>>

Unused == {i \in Slots: vm[i] = None /\ disk[i] = 0}

One(r) ==
    IF left[r] = 1 THEN End(r)
    ELSE left' = [left EXCEPT ![r] = @ - 1] /\ UNCHANGED <<at, op, cur, known, lock>>

Launch(r) ==
    /\ at[r] = "act" /\ op[r].kind = "launch" /\ Unused # {}
    /\ vm' = [vm EXCEPT ![Min(Unused)] = [shape |-> op[r].shape, size |-> op[r].size]]
    /\ disk' = [disk EXCEPT ![Min(Unused)] = op[r].boot]
    /\ One(r)
    /\ UNCHANGED <<t, begun>>

Resize(r) ==
    /\ at[r] = "act" /\ op[r].kind = "resize" /\ vm[op[r].on] # None
    /\ vm' = [vm EXCEPT ![op[r].on] = [@ EXCEPT !.size = op[r].size]]
    /\ End(r)
    /\ UNCHANGED <<t, disk, begun>>

Grow(r) ==
    /\ at[r] = "act" /\ op[r].kind = "grow"
    /\ disk[op[r].on] # 0 /\ op[r].size >= disk[op[r].on]
    /\ disk' = [disk EXCEPT ![op[r].on] = op[r].size]
    /\ End(r)
    /\ UNCHANGED <<t, vm, begun>>

Create(r) ==
    /\ at[r] = "act" /\ op[r].kind = "create"
    /\ \E j \in Blocks:
           disk[j] = 0 /\ disk' = [disk EXCEPT ![j] = op[r].size]
    /\ End(r)
    /\ UNCHANGED <<t, vm, begun>>

Fails(r) ==     \* Oracle refuses: a batch stops at its first failure
    /\ at[r] = "act" /\ End(r)
    /\ UNCHANGED <<t, vm, disk, begun>>

Terminate(i, keep) ==
    /\ vm[i] # None
    /\ vm' = [vm EXCEPT ![i] = None]
    /\ disk' = [disk EXCEPT ![i] = IF keep THEN @ ELSE 0]
    /\ UNCHANGED <<t, at, op, cur, known, left, lock, begun>>

DeleteVolume(v) ==
    /\ disk[v] # 0 /\ (v \in Slots => vm[v] = None)
    /\ disk' = [disk EXCEPT ![v] = 0]
    /\ UNCHANGED <<t, vm, at, op, cur, known, left, lock, begun>>

Next ==
    \/ \E r \in Requests:
           \/ \E o \in Ops: Ask(r, o)
           \/ Region(r) \/ Look(r)
           \/ Launch(r) \/ Resize(r) \/ Grow(r) \/ Create(r) \/ Fails(r)
    \/ \E i \in Slots: \E keep \in BOOLEAN: Terminate(i, keep)
    \/ \E v \in Slots \cup Blocks: DeleteVolume(v)

Spec == Init /\ [][Next]_vars

-----------------------------------------------------------------------------
(* Properties *)

\* Requests carry what they asked for until they are done, and only a launch that is
\* under way holds the lock.
TypeOK ==
    /\ t \in Settings
    /\ vm \in [Slots -> Vms \cup {None}]
    /\ disk \in [Slots \cup Blocks -> 0..MaxDisk]
    /\ at \in [Requests -> {"idle", "gate", "look", "act"}]
    /\ op \in [Requests -> Ops \cup {None}]
    /\ known \in [Requests -> BOOLEAN]
    /\ \A r \in Requests: (at[r] = "idle") = (op[r] = None)
    /\ \A r \in Requests: (lock = r) = (at[r] # "idle" /\ op[r].kind = "launch")

All == Usage({})

\* Whatever is launched, resized, grown, created or given back, by hand or by the worker,
\* in batches, and with parts of the usage unread, an account that must not pay stays
\* within the allowance of its home region: machines, and with free_only_mode on disks
\* too. (A row of a secondary region whose region cannot be read is not held to it.)
WithinFree ==
    t.home /\ Hard /\ ~t.child =>
        /\ All.a1 <= Cap /\ All.e2 <= FreeE2
        /\ t.freeOnly => All.disk <= FreeDisk

\* The same for a row that is linked to another but is in the home region, as long as the
\* regions can be read: an answer of Oracle's outweighs what the database says.
HomeChildToo ==
    t.home /\ Hard /\ RegionReads = {TRUE} =>
        All.a1 <= Cap /\ All.e2 <= FreeE2 /\ (t.freeOnly => All.disk <= FreeDisk)

More == \/ \E i \in Slots: vm[i] = None /\ vm'[i] # None
        \/ \E v \in Slots \cup Blocks: disk'[v] > disk[v]
        \/ \E i \in Slots: vm[i] # None /\ vm'[i] # None /\ vm'[i].size > vm[i].size

\* Nothing that is billed is made for a tenant that only wants what is free: not in a
\* secondary region (as far as the region or the row tells), not of a paid shape.
NothingBilled ==
    More /\ t.freeOnly =>
           /\ ~t.home => \E r \in Requests: at[r] = "act" /\ ~known[r] /\ ~t.child
           /\ \A i \in Slots: vm'[i] # None /\ vm[i] = None => Free(vm'[i].shape)

\* A read that lost something never lets through what a complete read refuses: a
\* throttled Oracle is no way around the allowance.
LossIsStricter ==
    \A o \in Ops: (o.kind = "resize" => vm[o.on] # None) =>
        \A lost \in SUBSET Parts: \A c \in Present(o):
            Enforce(o, c, Usage(lost)) => Enforce(o, c, All)

\* The dry run says of a launch without fallbacks what the launch is then told, and the
\* worker's own check of an attempt comes to the same, wherever the tenant is and whatever
\* could not be read.
VerdictsAgree ==
    \A o \in Ops: o.kind = "launch" /\ o.fallbacks = {} =>
        \A k \in RegionReads: \A lost \in SUBSET Parts:
            /\ Preflight(o, k, lost) = Answer(o, k, lost)
            /\ Attempts(o, k, lost) = Answer(o, k, lost)

\* "the panel's pre-submit verdict cannot drift from the server's" (routers/instances.py).
\* TLC refutes it: the dry run does not look at fallback_configs.
DryRunNeverDrifts ==
    \A o \in Ops: o.kind = "launch" =>
        \A k \in RegionReads: \A lost \in SUBSET Parts:
            Preflight(o, k, lost) = Answer(o, k, lost)
=============================================================================
