----------------------------- MODULE InstanceOps -----------------------------
(***************************************************************************)
(* One instance under the requests of the panel: the marks kept in its     *)
(* freeform tags (protection from termination, the password note, and tags *)
(* others made), power actions, termination, and captures of its serial    *)
(* console. Oracle replaces the tags whole and knows no etag for them, so  *)
(* a change of one is a read, a merge and a write. Oracle is external.     *)
(***************************************************************************)
EXTENDS Naturals, FiniteSets

CONSTANTS
    Requests, None,
    Captures,       \* ids of console captures
    Ops,            \* what is asked for in a run
    Apart,          \* kinds of requests of which one is under way at a time (an assumption)
    Answers,        \* whether Oracle's answer to a write may be lost: a set of Booleans
    Polls           \* bound: how often a capture is looked at before its deadline

Kinds == {"note", "clear note", "protect", "release", "start", "stop", "terminate", "capture"}

InstanceOpsAssumption ==
    /\ Ops \subseteq Kinds /\ Apart \subseteq Kinds
    /\ TRUE \in Answers /\ Answers \subseteq BOOLEAN /\ Polls \in Nat \ {0}

VARIABLES
    state,      \* the instance's life cycle
    tags,       \* its freeform tags
    shots,      \* the console captures there are: their state, or None
    at, op,     \* of each request: its next step, and what it asks for
    had,        \* the tags it read
    shot,       \* its capture
    polls,      \* how often it may still look
    shield,     \* history: protection was switched on, so it was answered, and not released since
    under       \* history: requests begun under it

vars == <<state, tags, shots, at, op, had, shot, polls, shield, under>>

Marks == {"protected", "note", "managed"}

-----------------------------------------------------------------------------

Init ==
    /\ state \in {"RUNNING", "STOPPED"}
    /\ tags \in {{"managed"}, {"managed", "protected"}, {}}
    /\ shots = [c \in Captures |-> None]
    /\ at = [r \in Requests |-> "idle"] /\ op = [r \in Requests |-> None]
    /\ had = [r \in Requests |-> {}] /\ shot = [r \in Requests |-> None]
    /\ polls = [r \in Requests |-> 0]
    /\ shield = FALSE /\ under = {}

TagKinds == {"note", "clear note", "protect", "release"}

\* Where a request of each kind starts.
First(kind) ==
    CASE kind \in TagKinds -> "tags" [] kind \in {"start", "stop"} -> "power"
      [] kind = "terminate" -> "guard" [] kind = "capture" -> "clean"

Busy == {r \in Requests: at[r] \notin {"idle", "end"}}

Begin(r, kind) ==
    /\ at[r] = "idle"
    /\ kind \in Apart => ~ \E q \in Busy: op[q] \in Apart
    /\ at' = [at EXCEPT ![r] = First(kind)] /\ op' = [op EXCEPT ![r] = kind]
    /\ under' = IF shield THEN under \cup {r} ELSE under
    /\ UNCHANGED <<state, tags, shots, had, shot, polls, shield>>

Go(r, step) == at' = [at EXCEPT ![r] = step]

\* Any call to Oracle may fail before it does anything.
Fails(r) ==
    /\ r \in Busy /\ Go(r, "end")
    /\ UNCHANGED <<state, tags, shots, op, had, shot, polls, shield, under>>

-----------------------------------------------------------------------------
(* Tags *)

ReadTags(r) ==
    /\ at[r] = "tags" /\ Go(r, "merge")
    /\ had' = [had EXCEPT ![r] = tags]
    /\ UNCHANGED <<state, tags, shots, op, shot, polls, shield, under>>

Merged(kind, old) ==
    CASE kind = "note" -> old \cup {"note"} [] kind = "clear note" -> old \ {"note"}
      [] kind = "protect" -> old \cup {"protected"} [] kind = "release" -> old \ {"protected"}

\* Protection counts as on once that is answered, and as off once it is asked for.
WriteTags(r) ==
    /\ at[r] = "merge" /\ state # "TERMINATED"
    /\ tags' = Merged(op[r], had[r]) /\ Go(r, "end")
    /\ \E answered \in Answers:
        shield' = IF op[r] = "protect" THEN shield \/ answered
                  ELSE shield /\ op[r] # "release"
    /\ under' = IF op[r] = "release" THEN {} ELSE under
    /\ UNCHANGED <<state, shots, op, had, shot, polls>>

-----------------------------------------------------------------------------
(* Power and termination *)

Allowed(s) == CASE s = "RUNNING" -> {"stop"} [] s = "STOPPED" -> {"start"} [] OTHER -> {}

CheckPower(r) ==
    /\ at[r] = "power"
    /\ Go(r, IF op[r] \in Allowed(state) THEN "switch" ELSE "end")
    /\ UNCHANGED <<state, tags, shots, op, had, shot, polls, shield, under>>

Switch(r) ==
    /\ at[r] = "switch" /\ op[r] \in Allowed(state)
    /\ state' = (IF op[r] = "start" THEN "RUNNING" ELSE "STOPPED") /\ Go(r, "end")
    /\ UNCHANGED <<tags, shots, op, had, shot, polls, shield, under>>

\* The server reads the instance's own tags, whatever the browser sent.
Guard(r) ==
    /\ at[r] = "guard" /\ Go(r, IF "protected" \in tags THEN "end" ELSE "kill")
    /\ UNCHANGED <<state, tags, shots, op, had, shot, polls, shield, under>>

Terminate(r) ==
    /\ at[r] = "kill" /\ state # "TERMINATED"
    /\ state' = "TERMINATED" /\ Go(r, "end")
    /\ UNCHANGED <<tags, shots, op, had, shot, polls, shield, under>>

-----------------------------------------------------------------------------
(* Capturing the console *)

Finished == {c \in Captures: shots[c] \in {"SUCCEEDED", "FAILED"}}

\* Captures that are finished are deleted; that may fail, for each of them.
Clean(r) ==
    /\ at[r] = "clean" /\ Go(r, "capture")
    /\ \E kept \in SUBSET Finished:
        /\ FALSE \notin Answers => kept = {}
        /\ shots' = [c \in Captures |-> IF c \in Finished \ kept THEN None ELSE shots[c]]
    /\ UNCHANGED <<state, tags, op, had, shot, polls, shield, under>>

Capture(r) ==
    /\ at[r] = "capture" /\ state # "TERMINATED"
    /\ \E c \in Captures:
        /\ shots[c] = None /\ shots' = [shots EXCEPT ![c] = "REQUESTED"]
        /\ shot' = [shot EXCEPT ![r] = c]
    /\ polls' = [polls EXCEPT ![r] = Polls] /\ Go(r, "poll")
    /\ UNCHANGED <<state, tags, op, had, shield, under>>

\* It is looked at until it is finished, gone, or the deadline has passed.
Poll(r) ==
    /\ at[r] = "poll"
    /\ LET s == shots[shot[r]]
       IN  /\ Go(r, CASE s = "SUCCEEDED" -> "read" [] s = "REQUESTED" /\ polls[r] > 1 -> "poll"
                      [] OTHER -> "end")
           /\ polls' = [polls EXCEPT ![r] = @ - 1]
    /\ UNCHANGED <<state, tags, shots, op, had, shot, shield, under>>

ReadShot(r) ==
    /\ at[r] = "read" /\ Go(r, "end")
    /\ UNCHANGED <<state, tags, shots, op, had, shot, polls, shield, under>>

\* Oracle finishes a capture, or never does.
Finish(c) ==
    /\ shots[c] = "REQUESTED"
    /\ \E s \in {"SUCCEEDED", "FAILED"}: shots' = [shots EXCEPT ![c] = s]
    /\ UNCHANGED <<state, tags, at, op, had, shot, polls, shield, under>>

-----------------------------------------------------------------------------

Step(r) ==
    \/ ReadTags(r) \/ WriteTags(r) \/ CheckPower(r) \/ Switch(r) \/ Guard(r) \/ Terminate(r)
    \/ Clean(r) \/ Capture(r) \/ Poll(r) \/ ReadShot(r)

Next ==
    \/ \E r \in Requests: Step(r) \/ Fails(r) \/ \E kind \in Ops: Begin(r, kind)
    \/ \E c \in Captures: Finish(c)

Spec == Init /\ [][Next]_vars

\* A request that has begun goes on; Oracle need not finish a capture.
FairSpec == Spec /\ \A r \in Requests: WF_vars(Step(r))

-----------------------------------------------------------------------------
(* Properties *)

\* Types. A request that looks at a capture has one.
TypeOK ==
    /\ state \in {"RUNNING", "STOPPED", "TERMINATED"} /\ tags \subseteq Marks
    /\ shots \in [Captures -> {None, "REQUESTED", "SUCCEEDED", "FAILED"}]
    /\ \A r \in Requests: /\ polls[r] \in 0..Polls
                          /\ at[r] \in {"poll", "read"} => shot[r] \in Captures

\* A tag is changed by a request about it and no other: a password note takes
\* away neither the protection nor the tags others made.
\* TLC refutes it for changes that overlap (Apart = {}): both write back what they read.
OthersKept ==
    \A r \in Requests: at[r] = "merge" /\ at'[r] = "end" /\ tags' # tags =>
        LET own == IF op[r] \in {"note", "clear note"} THEN "note" ELSE "protected"
        IN  tags' \ {own} = tags \ {own}

\* While protection is on as far as the user was told, no termination that is
\* asked for is carried out.
ShieldHolds ==
    state # "TERMINATED" /\ state' = "TERMINATED" =>
        \A r \in Requests: at[r] = "kill" /\ at'[r] = "end" => r \notin under

\* What is read is a finished capture, never one that was given up (captures one
\* at a time: a later one deletes what an earlier one has not read yet).
ReadsFinished ==
    \A r \in Requests: at[r] = "read" => shots[shot[r]] = "SUCCEEDED"

\* A capture ends, whether Oracle finishes it or not. (RequestsEnd of MCEnds.)
CapturesEnd ==
    \A r \in Requests: at[r] = "poll" ~> at[r] = "end"

=============================================================================
