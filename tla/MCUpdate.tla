------------------------------ MODULE MCUpdate ------------------------------
(***************************************************************************)
(* Two administrators of one API process or of two, and one who polls.     *)
(* Each needs bounds of its own, so a behaviour is of one part, which      *)
(* never changes.  r1 and r2, of one process, may be exchanged for one     *)
(* another.                                                                *)
(***************************************************************************)
EXTENDS SelfUpdate, TLC

CONSTANTS r1, r2, p1, p2

VARIABLE part  \* the part this behaviour is of

Together == [r \in Request |-> p1]
Apart == ("a1" :> p1) @@ ("a2" :> p2)

\* Two processes, no row yet, docker not always answering: the threads and their records.
TwoProcesses == INSTANCE SelfUpdate WITH
    Process <- {p1, p2}, Request <- {"a1", "a2"}, ProcessOf <- Apart, Pg <- TRUE,
    Kinds <- {"apply"}, FirstRow <- {"absent"}, Faults <- {"unknown"}

\* One administrator who polls; failures of every step but docker that does not answer.
Polled == INSTANCE SelfUpdate WITH
    Request <- {"a1"}, ProcessOf <- ("a1" :> p1), Pg <- TRUE,
    Kinds <- {"apply", "status", "check"}, FirstRow <- {"absent", "settled", "unreported"},
    Faults <- {"prepare", "detach", "created", "prune"}

update == <<row, req, job, worker, locked, box, code, build, crashes>>

all == <<part, update>>

PartInit ==
    \/ part = "together" /\ Init
    \/ part = "apart" /\ TwoProcesses!Init
    \/ part = "polled" /\ Polled!Init

PartNext ==
    \/ part = "together" /\ Next /\ UNCHANGED part
    \/ part = "apart" /\ TwoProcesses!Next /\ UNCHANGED part
    \/ part = "polled" /\ Polled!Next /\ UNCHANGED part

PartSpec == PartInit /\ [][PartNext]_all

-----------------------------------------------------------------------------
ASSUME PartsAssumption == TwoProcesses!UpdateAssumption /\ Polled!UpdateAssumption

\* One update at a time touches the checkout and the compose project, and none of them
\* resets the checkout or removes the helper while a helper is at work: that would kill it
\* in the middle of compose up.
OneUpdate ==
    /\ part = "together" => Mutex!Init
    /\ [][part = "together" => (Mutex!Next \/ UNCHANGED Updating) /\ HelperUndisturbed]_all

\* What is on record of an update is true: its thread is known to its process until the
\* outcome is saved, a helper at work can be told from the row for 20 minutes, and
\* "finished" is only said when the API runs the commit that was applied.
StatusTrue ==
    /\ part = "apart" => TwoProcesses!TypeOK /\ TwoProcesses!WorkerKnown
    /\ part = "polled" => Polled!HelperShown /\ Polled!SuccessIsTrue

Interchangeable == Permutations({r1, r2})
=============================================================================
