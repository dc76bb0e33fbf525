----------------------------- MODULE MCLaunches -----------------------------
(***************************************************************************)
(* Launches of several callers: a worker whose lease runs out and a        *)
(* browser, two workers of one table, and one worker under every fault.    *)
(* Each needs bounds of its own, so a behaviour is of one part, which      *)
(* never changes.                                                          *)
(***************************************************************************)
EXTENDS CapacityRetry

CONSTANTS t1, c1, w1

VARIABLE part  \* the part this behaviour is of

\* Every job belongs to the one tenant.
OneTenant == [j \in Job |-> t1]

\* Two worker processes poll one table while a user stops or deletes the job.
TwoWorkers == INSTANCE CapacityRetry WITH
    Browser <- {}, Client <- {c1}, ClientOps <- {"stop", "delete"}, Faults <- {"prep"},
    MaxAttempts <- 2, MinInterval <- 2, Interval <- 2, BaseBackoff <- 2, MaxBackoff <- 3,
    Lease <- 4, HardCap <- FALSE, MaxBatch <- 1, MaxUsed <- 0, Horizon <- 1

\* One worker under every fault, and a user who never resumes the job; delays are of
\* two lengths.
Spacing == INSTANCE CapacityRetry WITH
    Worker <- {w1}, Browser <- {}, Client <- {c1}, ClientOps <- {"stop", "delete"},
    Faults <- {"crash", "prep", "raise", "lost", "db", "nolock"}, MaxAttempts <- 2,
    Target <- 2, MinInterval <- 2, Interval <- 2, Jitter <- 1, BaseBackoff <- 2,
    MaxBackoff <- 3, Lease <- 4, MaxBatch <- 1, MaxUsed <- 0, Horizon <- 1

launches == <<row, wk, br, cl, lock, made, used, failures, calls, sinceCall, stopCalls>>

all == <<part, launches>>

PartInit ==
    \/ part = "apart" /\ Init
    \/ part = "two workers" /\ TwoWorkers!Init
    \/ part = "spacing" /\ Spacing!Init

PartNext ==
    \/ part = "apart" /\ Next /\ UNCHANGED part
    \/ part = "two workers" /\ TwoWorkers!Next /\ UNCHANGED part
    \/ part = "spacing" /\ Spacing!Next /\ UNCHANGED part

PartSpec == PartInit /\ [][PartNext]_all

-----------------------------------------------------------------------------
ASSUME PartsAssumption == TwoWorkers!ConstantsAssumption /\ Spacing!ConstantsAssumption

\* Workers and browser launches together use tenant_launch_lock as the mutex it promises to
\* be: from the usage snapshot to the answer of LaunchInstance nobody else is at the tenant.
LaunchesExclude ==
    (part = "apart" => Mutex!Init) /\ [][part = "apart" => Mutex!Next \/ UNCHANGED Launching]_all

\* The row tells the truth to whoever polls it: one worker attempts the job at a time, no
\* more machines are made than were asked for, and a job the user has stopped never reads
\* as waiting or running between two attempts (worker.py, _stopped_during_attempt).
RowsTrue ==
    part = "two workers" =>
        TwoWorkers!SingleFlight /\ TwoWorkers!TargetKept /\ TwoWorkers!StoppedLooksStopped

\* Two LaunchInstance calls of a job are at least MIN_RETRY_INTERVAL_SEC apart, whatever
\* fails or dies in between, unless the user resumes the job meanwhile.
LaunchFloor == [][part = "spacing" => Spacing!CallsApart]_all
=============================================================================
