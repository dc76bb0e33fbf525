----------------------------- MODULE AuditTrail -----------------------------
(***************************************************************************)
(* The audit table and what the worker prunes from it once an hour         *)
(* (web/backend/audit.py, worker.py).  A prune is several statements of    *)
(* one transaction, each of which sees the rows that others have committed *)
(* meanwhile; what it deletes is gone for others when it commits.  Rows    *)
(* have different times (microseconds).                                    *)
(***************************************************************************)
EXTENDS Integers, FiniteSets, FiniteSetsExt

CONSTANTS
    Kinds,      \* what is written: "history" by somebody signed in; by anybody "noise",
                \* the two actions of _UNAUTHENTICATED_ACTIONS, and "other": auth.login_locked
                \* and auth.unlock_failed, which the prune does not tell from history
    MaxRows,    \* audit_max_rows
    Retention,  \* audit_retention_days
    Horizon     \* bound: time

AuditTrailAssumption ==
    /\ Kinds \subseteq {"history", "noise", "other"}
    /\ MaxRows \in Nat \ {0} /\ Retention \in Nat \ {0}
    /\ Horizon \in Nat \ {0}

VARIABLES
    now,
    rows,    \* committed rows: [at, kind]
    pc, gone, \* the worker's transaction, and the rows it has deleted
    began, excess,
    aged     \* history: those of them that were older than the retention

vars == <<now, rows, pc, gone, began, excess, aged>>

Row == [at: 1..Horizon, kind: Kinds]

TypeOK ==
    /\ now \in 1..Horizon /\ rows \subseteq Row /\ gone \subseteq rows /\ aged \subseteq gone
    /\ \A r, s \in rows : r.at = s.at => r = s
    /\ pc \in {"idle", "count", "noise", "all", "commit"}
    /\ began \in 0..Horizon /\ excess \in Nat

Init ==
    /\ now = 1 /\ rows = {} /\ pc = "idle" /\ gone = {} /\ aged = {}
    /\ began = 0 /\ excess = 0

\* write_audit
Write(kind) ==
    /\ now < Horizon /\ now' = now + 1
    /\ rows' = rows \cup {[at |-> now, kind |-> kind]}
    /\ UNCHANGED <<pc, gone, began, excess, aged>>

Seen == rows \ gone
Noise == {r \in Seen : r.kind = "noise"}

\* _trim_oldest: the time of the oldest row that is worth keeping, and what is older.
Cut(S, keep) == CHOOSE t \in {r.at : r \in S} : Cardinality({r \in S : r.at >= t}) = keep

Older(S, keep) ==
    IF keep <= 0 THEN S
    ELSE IF Cardinality(S) < keep THEN {}
    ELSE {r \in S : r.at < Cut(S, keep)}

\* retention_cutoff: everything past the window goes, of whatever kind.
PruneAge ==
    /\ pc = "idle" /\ pc' = "count" /\ began' = now
    /\ gone' = {r \in rows : r.at < now - Retention} /\ aged' = gone'
    /\ UNCHANGED <<now, rows, excess>>
Count ==
    /\ pc = "count"
    /\ excess' = IF Cardinality(Seen) > MaxRows THEN Cardinality(Seen) - MaxRows ELSE 0
    /\ pc' = IF Cardinality(Seen) > MaxRows THEN "noise" ELSE "commit"
    /\ UNCHANGED <<now, rows, gone, began, aged>>

TrimNoise ==
    LET n == Cardinality(Noise)
        D == IF n > 0 THEN Older(Noise, n - excess) ELSE {}
    IN
    /\ pc = "noise"
    /\ gone' = gone \cup D
    /\ excess' = IF Cardinality(D) < excess THEN excess - Cardinality(D) ELSE 0
    /\ pc' = IF Cardinality(D) < excess THEN "all" ELSE "commit"
    /\ UNCHANGED <<now, rows, began, aged>>

TrimAll ==
    /\ pc = "all" /\ pc' = "commit"
    /\ gone' = gone \cup Older(Seen, MaxRows)
    /\ UNCHANGED <<now, rows, began, excess, aged>>
Commit ==
    /\ pc = "commit" /\ pc' = "idle"
    /\ rows' = rows \ gone /\ gone' = {} /\ aged' = {} /\ excess' = 0 /\ began' = 0
    /\ UNCHANGED now

\* A statement fails, or the worker dies: the transaction is rolled back.
Abort ==
    /\ pc # "idle" /\ pc' = "idle" /\ gone' = {} /\ aged' = {} /\ excess' = 0 /\ began' = 0
    /\ UNCHANGED <<now, rows>>

Next ==
    \/ \E k \in Kinds : Write(k)
    \/ PruneAge \/ Count \/ TrimNoise \/ TrimAll \/ Commit \/ Abort
Spec == Init /\ [][Next]_vars

-----------------------------------------------------------------------------

\* Whatever is not noise is forgotten before its time only when there is no noise left,
\* but for what came during the prune.
HistoryLast ==
    \A h \in gone \ aged : h.kind # "noise" =>
        \A r \in Seen : r.kind = "noise" => r.at >= began

\* What people who are signed in have done is forgotten last: TLC refutes it where
\* strangers write more than the two actions.
StrangersFirst ==
    \A h \in gone \ aged : h.kind = "history" =>
        \A r \in Seen : r.kind # "history" => r.at >= began

\* Of two rows of a kind the older is forgotten first.
OldestFirst ==
    \A d \in gone, r \in Seen : r.kind = d.kind => d.at < r.at

\* A prune leaves no more rows than there may be, and one for each that came during it.
CapHolds ==
    pc = "commit" =>
        Cardinality(Seen) <= MaxRows + Cardinality({r \in rows : r.at >= began})
==============================================================================
