------------------------------- MODULE WebSsh -------------------------------
(***************************************************************************)
(* Browser terminals (web/backend/routers/webssh.py): the handshake that   *)
(* reserves a slot of the user, proves that he owns the instance and       *)
(* reserves a slot of the instance, the live session with its loop and its *)
(* watchdog, and the clean-up that gives both slots back.  The sessions    *)
(* are coroutines of one process.  What the host key decides is module     *)
(* HostKey; the throttle on handshakes is module RateLimit.                *)
(***************************************************************************)
EXTENDS Naturals, FiniteSets

CONSTANTS
    Sessions, Users, Instances,
    Owned,          \* Owned[u]: the instances of the tenants of u
    MaxPerUser, MaxPerInstance,
    MayStall,       \* whether a remote shell may stop reading its input
    Reads           \* whether one that did reads again in the end

WebSshAssumption ==
    /\ IsFiniteSet(Sessions)
    /\ Owned \in [Users -> SUBSET Instances]
    /\ MaxPerUser \in Nat \ {0} /\ MaxPerInstance \in Nat \ {0}
    /\ MayStall \in BOOLEAN /\ Reads \in BOOLEAN

VARIABLES
    userSlots, instanceSlots,   \* _user_sessions, _instance_sessions
    session,                    \* [at, user, inst, userHeld, instanceHeld, ssh]
    gone,                       \* sessions whose browser has left
    told,                       \* sessions whose browser was told that they ended
    remote,                     \* of each session: "reads", "stalled" or "exited"
    revoked                     \* users whose sign-ins were revoked

vars == <<userSlots, instanceSlots, session, gone, told, remote, revoked>>

Steps == {"none", "accepted", "admitted", "prepare", "owned", "ready", "host", "connect",
          "live", "drain", "cleanup", "finally", "release", "releaseInstance", "done"}

Record == [at: Steps, user: Users, inst: Instances,
           userHeld: BOOLEAN, instanceHeld: BOOLEAN, ssh: BOOLEAN]

TypeOK ==
    /\ userSlots \in [Users -> 0..MaxPerUser]
    /\ instanceSlots \in [Instances -> 0..MaxPerInstance]
    /\ session \in [Sessions -> Record]
    /\ gone \subseteq Sessions /\ told \subseteq Sessions /\ revoked \subseteq Users
    /\ remote \in [Sessions -> {"reads", "stalled", "exited"}]

Init ==
    /\ userSlots = [u \in Users |-> 0] /\ instanceSlots = [i \in Instances |-> 0]
    /\ session \in [Sessions -> {r \in Record :
           r.at = "none" /\ ~r.userHeld /\ ~r.instanceHeld /\ ~r.ssh}]
    /\ gone = {} /\ told = {} /\ revoked = {} /\ remote = [s \in Sessions |-> "reads"]

At(s, step) == session[s].at = step
Goes(s, step) == session' = [session EXCEPT ![s].at = step]
Slots == <<userSlots, instanceSlots>>
World == <<gone, told, remote, revoked>>

Accept(s) == At(s, "none") /\ Goes(s, "accepted") /\ UNCHANGED <<Slots, World>>

\* _user_from_websocket
SignedIn(u) == u \notin revoked

\* The sign-in, then the throttle on handshakes, which may refuse.
Authenticate(s) ==
    /\ At(s, "accepted")
    /\ \/ SignedIn(session[s].user) /\ Goes(s, "admitted")
       \/ Goes(s, "finally")
    /\ UNCHANGED <<Slots, World>>

AcquireUserSlot(s) ==
    LET u == session[s].user IN
    /\ At(s, "admitted")
    /\ \/ /\ userSlots[u] < MaxPerUser
          /\ userSlots' = [userSlots EXCEPT ![u] = @ + 1]
          /\ session' = [session EXCEPT ![s].at = "prepare", ![s].userHeld = TRUE]
       \/ userSlots[u] >= MaxPerUser /\ Goes(s, "finally") /\ UNCHANGED userSlots
    /\ UNCHANGED <<instanceSlots, World>>

\* _prepare: the tenant is the user's and the instance is found in it, and it runs.
Prepare(s) ==
    /\ At(s, "prepare")
    /\ \/ session[s].inst \in Owned[session[s].user] /\ Goes(s, "owned")
       \/ Goes(s, "finally")
    /\ UNCHANGED <<Slots, World>>

AcquireInstanceSlot(s) ==
    LET i == session[s].inst IN
    /\ At(s, "owned")
    /\ \/ /\ instanceSlots[i] < MaxPerInstance
          /\ instanceSlots' = [instanceSlots EXCEPT ![i] = @ + 1]
          /\ session' = [session EXCEPT ![s].at = "ready", ![s].instanceHeld = TRUE]
       \/ instanceSlots[i] >= MaxPerInstance /\ Goes(s, "finally") /\ UNCHANGED instanceSlots
    /\ UNCHANGED <<userSlots, World>>

\* The first frame, or none for _AUTH_TIMEOUT_SEC, or a frame that is refused.
FirstFrame(s) ==
    /\ At(s, "ready")
    /\ \/ s \notin gone /\ Goes(s, "host")
       \/ Goes(s, "finally")
    /\ UNCHANGED <<Slots, World>>

\* probe_host_key, then verify_host_key in a thread.
CheckHost(s) ==
    At(s, "host") /\ (Goes(s, "connect") \/ Goes(s, "finally")) /\ UNCHANGED <<Slots, World>>

\* The connection may open and its process fail to start.
Connect(s) ==
    /\ At(s, "connect")
    /\ \/ session' = [session EXCEPT ![s].at = "live", ![s].ssh = TRUE]
       \/ \E opened \in BOOLEAN :
              session' = [session EXCEPT ![s].at = "finally", ![s].ssh = opened]
    /\ UNCHANGED <<Slots, World>>

Linked(s) == session[s].at \in {"live", "drain"}

\* _write_stdin: what a browser sends is written, and the loop waits until enough is read.
Input(s) ==
    /\ At(s, "live") /\ s \notin gone \cup told
    /\ \/ remote[s] = "stalled" /\ Goes(s, "drain") /\ UNCHANGED told
       \/ remote[s] = "exited" /\ Goes(s, "cleanup") /\ told' = told \cup {s}
    /\ UNCHANGED <<Slots, gone, remote, revoked>>

Drained(s) ==
    /\ At(s, "drain")
    /\ \/ remote[s] = "reads" /\ Goes(s, "live") /\ UNCHANGED told
       \/ remote[s] = "exited" /\ Goes(s, "cleanup") /\ told' = told \cup {s}
    /\ UNCHANGED <<Slots, gone, remote, revoked>>

\* A frame over _MAX_FRAME_BYTES ends the session.
BigFrame(s) ==
    /\ At(s, "live") /\ s \notin gone \cup told
    /\ Goes(s, "cleanup") /\ told' = told \cup {s}
    /\ UNCHANGED <<Slots, gone, remote, revoked>>

\* receive() of a socket that either side has closed.
Disconnected(s) ==
    At(s, "live") /\ s \in gone \cup told /\ Goes(s, "cleanup") /\ UNCHANGED <<Slots, World>>

\* _pump_ssh_to_ws at the end of the output, or when it fails.
PumpEnds(s) ==
    /\ Linked(s) /\ s \notin told /\ remote[s] = "exited"
    /\ told' = told \cup {s} /\ UNCHANGED <<Slots, session, gone, remote, revoked>>

EndSession(s) ==
    /\ Linked(s) /\ s \notin told /\ told' = told \cup {s}
    /\ UNCHANGED <<Slots, session, gone, remote, revoked>>

WatchNever(s) == FALSE /\ UNCHANGED vars \* mutant: the user is the snapshot of the handshake

\* _idle_watch: a revoked sign-in; a row that cannot be read waits for the next round.
WatchRevoked(s) == session[s].user \in revoked /\ EndSession(s)

\* ... or nothing came from either side for _IDLE_TIMEOUT_SEC.
WatchIdle(s) == EndSession(s)

\* The tasks are cancelled, the process is closed; then the connection.
Cleanup(s) == At(s, "cleanup") /\ Goes(s, "finally") /\ UNCHANGED <<Slots, World>>
Finally(s) ==
    /\ At(s, "finally") /\ session' = [session EXCEPT ![s].at = "release", ![s].ssh = FALSE]
    /\ UNCHANGED <<Slots, World>>

ReleaseIfBoth(s) == \* mutant: given back only by a session that got both
    /\ At(s, "release") /\ Goes(s, "releaseInstance")
    /\ IF session[s].userHeld /\ session[s].instanceHeld
       THEN userSlots' = [userSlots EXCEPT ![session[s].user] = @ - 1]
       ELSE UNCHANGED userSlots
    /\ UNCHANGED <<instanceSlots, World>>

ReleaseUserSlot(s) ==
    /\ At(s, "release") /\ Goes(s, "releaseInstance")
    /\ IF session[s].userHeld
       THEN userSlots' = [userSlots EXCEPT ![session[s].user] = @ - 1]
       ELSE UNCHANGED userSlots
    /\ UNCHANGED <<instanceSlots, World>>

ReleaseInstanceSlot(s) ==
    /\ At(s, "releaseInstance") /\ Goes(s, "done")
    /\ IF session[s].instanceHeld
       THEN instanceSlots' = [instanceSlots EXCEPT ![session[s].inst] = @ - 1]
       ELSE UNCHANGED instanceSlots
    /\ UNCHANGED <<userSlots, World>>

\* A send to a browser that left fails, and any step of a handshake may.
Fails(s) ==
    /\ session[s].at \in {"admitted", "owned", "ready", "host", "connect"} /\ s \in gone
    /\ Goes(s, "finally") /\ UNCHANGED <<Slots, World>>

(***************************************************************************)
(* The browser, the remote shell, and who revokes a sign-in.               *)
(***************************************************************************)
Leaves(s) ==
    /\ session[s].at \notin {"none", "done"} /\ s \notin gone /\ gone' = gone \cup {s}
    /\ UNCHANGED <<Slots, session, told, remote, revoked>>

Stalls(s) ==
    /\ MayStall /\ Linked(s) /\ remote[s] = "reads" /\ remote' = [remote EXCEPT ![s] = "stalled"]
    /\ UNCHANGED <<Slots, session, gone, told, revoked>>
Resumes(s) ==
    /\ remote[s] = "stalled" /\ remote' = [remote EXCEPT ![s] = "reads"]
    /\ UNCHANGED <<Slots, session, gone, told, revoked>>
Exits(s) ==
    /\ Linked(s) /\ remote[s] # "exited" /\ remote' = [remote EXCEPT ![s] = "exited"]
    /\ UNCHANGED <<Slots, session, gone, told, revoked>>

Revoke(u) ==
    /\ u \notin revoked /\ revoked' = revoked \cup {u}
    /\ UNCHANGED <<Slots, session, gone, told, remote>>

Own(s) ==
    \/ Authenticate(s) \/ AcquireUserSlot(s) \/ Prepare(s) \/ AcquireInstanceSlot(s)
    \/ FirstFrame(s) \/ CheckHost(s) \/ Connect(s)
    \/ Disconnected(s) \/ Cleanup(s) \/ Finally(s) \/ ReleaseUserSlot(s) \/ ReleaseInstanceSlot(s)

Next ==
    \/ \E s \in Sessions :
           \/ Accept(s) \/ Own(s) \/ Input(s) \/ Drained(s) \/ BigFrame(s)
           \/ PumpEnds(s) \/ WatchRevoked(s) \/ WatchIdle(s) \/ Fails(s)
           \/ Leaves(s) \/ Stalls(s) \/ Resumes(s) \/ Exits(s)
    \/ \E u \in Users : Revoke(u)

\* Every await of the handshake has a limit of its own (the first frame 60 s, the probe
\* 20 s, the sign-in 30 s), the tasks of a session run, and a writer is woken when the
\* remote side makes room.
Fairness ==
    \A s \in Sessions :
        /\ WF_vars(Own(s)) /\ WF_vars(PumpEnds(s)) /\ WF_vars(WatchRevoked(s))
        /\ SF_vars(Drained(s))
        /\ Reads => WF_vars(Resumes(s))

Spec == Init /\ [][Next]_vars /\ Fairness
(***************************************************************************)
(* Properties.                                                             *)
(***************************************************************************)
HoldsUser(s) == session[s].userHeld /\ session[s].at \notin {"releaseInstance", "done"}
HoldsInstance(s) == session[s].instanceHeld /\ session[s].at # "done"

\* The counters are the sessions that hold a slot, on every path out of a handshake:
\* nothing leaks and nothing is given back twice (webssh_endpoint's finally).
SlotsAreHeld ==
    /\ \A u \in Users :
           userSlots[u] = Cardinality({s \in Sessions : HoldsUser(s) /\ session[s].user = u})
    /\ \A i \in Instances :
           instanceSlots[i] = Cardinality({s \in Sessions : HoldsInstance(s) /\ session[s].inst = i})

\* Who does not own an instance never takes one of its slots, so nobody can lock its
\* owner out (_acquire_instance_slot is after _prepare).
OwnersOnly == \A s \in Sessions : HoldsInstance(s) => session[s].inst \in Owned[session[s].user]

\* Lookups at Oracle in flight for one user, and shells open on one instance, are bounded.
Caps ==
    /\ \A u \in Users :
           Cardinality({s \in Sessions : At(s, "prepare") /\ session[s].user = u}) <= MaxPerUser
    /\ \A i \in Instances :
           Cardinality({s \in Sessions : session[s].ssh /\ session[s].inst = i}) <= MaxPerInstance

\* The user's sign-in was revoked, the browser left or the shell exited.
Doomed(s) == Linked(s) /\ (session[s].user \in revoked \/ s \in gone \/ remote[s] = "exited")

\* Such a session ends and gives its slots back. (RequestsEnd of MCEnds.)
Ends == \A s \in Sessions : Doomed(s) ~> At(s, "done")

\* A terminal that is said to be disconnected is: its connection to the host is closed.
\* (NobodyWaits of MCEnds; refuted when a stalled shell never reads again.)
ToldIsClosed == \A s \in Sessions : (s \in told) ~> ~session[s].ssh
=============================================================================
