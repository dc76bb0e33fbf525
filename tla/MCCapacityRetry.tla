--------------------------- MODULE MCCapacityRetry ---------------------------
(***************************************************************************)
(* Small instances of CapacityRetry for TLC.  Time is in units of half the *)
(* minimum retry interval, so an attempt may outlast part of an interval.  *)
(***************************************************************************)
EXTENDS CapacityRetry

CONSTANT t1

\* Every job belongs to the one tenant.
OneTenant == [j \in Job |-> t1]
==============================================================================
