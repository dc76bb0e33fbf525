---------------------------- MODULE MCSelfUpdate ----------------------------
(***************************************************************************)
(* Small instances of SelfUpdate for TLC: two requests, in one API process *)
(* or in two.  Requests of one process may be exchanged for one another.   *)
(***************************************************************************)
EXTENDS SelfUpdate, TLC

CONSTANTS r1, r2, p1, p2

Together == [r \in Request |-> p1]
Interchangeable == Permutations({r1, r2})
==============================================================================
