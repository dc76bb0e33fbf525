----------------------------- MODULE LaunchMutex -----------------------------
(***************************************************************************)
(* What a lock of OCIBot promises: of all the threads that want a resource *)
(* at most one is at work on it at a time.  tenant_launch_lock promises it *)
(* for a tenant's free allowance (quota_guard.py), the status row with its *)
(* two locks for the checkout and the compose project (self_update.py).  A *)
(* caller enters only where nobody is inside; any number of callers may    *)
(* leave at once, as when their process is killed.                         *)
(***************************************************************************)
CONSTANTS Caller, Resource

VARIABLE inside  \* who is inside the critical section of each resource

Init == inside = [k \in Resource |-> {}]

Enter(c, k) == inside[k] = {} /\ inside' = [inside EXCEPT ![k] = {c}]

Leave(gone) == inside' = [k \in Resource |-> inside[k] \ gone]

Next ==
    \/ \E c \in Caller, k \in Resource : Enter(c, k)
    \/ \E gone \in SUBSET Caller : Leave(gone)

Spec == Init /\ [][Next]_inside

Exclusive == \A k \in Resource : \A c, d \in inside[k] : c = d
==============================================================================
