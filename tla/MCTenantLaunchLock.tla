-------------------------- MODULE MCTenantLaunchLock --------------------------
(***************************************************************************)
(* Small instances of TenantLaunchLock for TLC: two request threads of one *)
(* API process and the loop of the worker.                                 *)
(***************************************************************************)
EXTENDS TenantLaunchLock

CONSTANTS a1, a2, w, api, worker, k1, k2, s1, s2

Where == [t \in Thread |-> IF t = w THEN worker ELSE api]

\* Each tenant has a slot of its own, or their ids collide in the 32-bit key.
OwnSlots == [k \in Tenant |-> IF k = k1 THEN s1 ELSE s2]
OneSlot == [k \in Tenant |-> s1]
==============================================================================
