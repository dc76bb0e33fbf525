----------------------------- MODULE LaunchMeta ------------------------------
(***************************************************************************)
(* The metadata of the launch form (web/backend/launch_service.py): a copy *)
(* in every API process, a copy in the database that they share, and a row *)
(* with the state of the refresh.  The page posts a click, which starts a  *)
(* thread, and polls the state; every call may reach another process.      *)
(*                                                                         *)
(* A document is known by the order in which documents were finished.      *)
(* Time passes in ticks; a document and a state live TTL ticks (15 minutes)*)
(* and the page gives up after one (10 minutes).  A page polls every two   *)
(* seconds, so it has polled since the last tick when time passes, and no  *)
(* call or database write is under way then.                               *)
(***************************************************************************)
EXTENDS Integers, FiniteSets

CONSTANTS
    Process, Page,
    Key,         \* tenant, region, compartment and tier (meta_cache_key)
    TTL,         \* _META_TTL and _STATUS_STALE_SEC in ticks
    MaxEntries,  \* _META_MAX_ENTRIES
    MaxClicks,   \* bound: clicks of all pages
    MaxFaults,   \* bound: faults
    Forced,      \* what the force of a click may be
    Faults       \* "fetch": Oracle fails; "share", "status": a row is not written;
                 \* "crash"; "clear": the tenant is edited; "slow": longer than TTL

LaunchMetaAssumption ==
    /\ TTL \in Nat \ {0} /\ MaxEntries \in Nat \ {0} /\ MaxClicks \in Nat /\ MaxFaults \in Nat
    /\ IsFiniteSet(Key) /\ IsFiniteSet(Process) /\ Forced \subseteq BOOLEAN
    /\ Faults \subseteq {"fetch", "share", "status", "crash", "clear", "slow"}

VARIABLES
    mem,     \* _META_CACHE of each process
    shared,  \* the documents in the database
    status,  \* [state, age]: the states in the database
    run,     \* the refresh thread of each process for each key, which is in
             \* _REFRESHING as long as there is one
    made,    \* meta of that thread: what it has read and not yet stored for all
    page,    \* [pc, key, proc, force, since, st, idles, polled, age, got]
    done,    \* documents finished so far
    clicks, faults

vars == <<mem, shared, status, run, made, page, done, clicks, faults>>

Doc == [n: 0..(MaxClicks * Cardinality(Process)), age: 0..TTL]
NoDoc == [n |-> 0, age |-> TTL]
Fresh(d) == d.age < TTL
State == {"absent", "running", "error"}
RunPc == {"none", "mark", "fetch", "evict", "share", "clear", "fail", "leave"}
PagePc == {"idle", "cached", "look", "join", "posted", "poll", "peek", "ready", "error", "unfinished"}

TypeOK ==
    /\ mem \in [Process -> [Key -> Doc]] /\ shared \in [Key -> Doc]
    /\ status \in [Key -> [state: State, age: 0..TTL]]
    /\ run \in [Process -> [Key -> RunPc]] /\ made \in [Process -> [Key -> Nat]]
    /\ page \in [Page -> [pc: PagePc, key: Key, proc: Process, force: BOOLEAN, since: Nat,
                          st: State, idles: 0..2, polled: BOOLEAN, age: 0..1, got: Nat]]
    /\ done \in Nat /\ clicks \in 0..MaxClicks /\ faults \in 0..MaxFaults
    /\ \A k \in Key : status[k].state = "running" /\ ~Fresh(status[k]) /\ "slow" \notin Faults
          => \A p \in Process : run[p][k] \notin {"fetch", "evict", "share"}

Init ==
    /\ mem = [p \in Process |-> [k \in Key |-> NoDoc]] /\ shared = [k \in Key |-> NoDoc]
    /\ status = [k \in Key |-> [state |-> "absent", age |-> 0]]
    /\ run = [p \in Process |-> [k \in Key |-> "none"]]
    /\ made = [p \in Process |-> [k \in Key |-> 0]]
    /\ \E p \in Process, k \in Key :
          page = [b \in Page |-> [pc |-> "idle", key |-> k, proc |-> p, force |-> FALSE, since |-> 0,
                     st |-> "absent", idles |-> 0, polled |-> TRUE, age |-> 0, got |-> 0]]
    /\ done = 0 /\ clicks = 0 /\ faults = 0

Fault(kind) == kind \in Faults /\ faults < MaxFaults /\ faults' = faults + 1
NoFault == UNCHANGED faults
At(b, pc) == page[b].pc = pc
Go(b, pc) == page' = [page EXCEPT ![b].pc = pc]
Ends(b, pc, n) == page' = [page EXCEPT ![b] =
    [@ EXCEPT !.pc = pc, !.got = n, !.st = "absent", !.idles = 0, !.polled = TRUE, !.age = 0]]

\* _read_status: one that is too old counts as none
Read(k) == IF Fresh(status[k]) THEN status[k].state ELSE "absent"

\* _write_status; a row that cannot be written is only logged
Writes(k, state) ==
    \/ /\ NoFault
       /\ status' = [status EXCEPT ![k] = [state |-> state, age |-> 0]]
    \/ Fault("status") /\ UNCHANGED status

\* peek_launch_meta: the copy of this process, else the shared one
Peek(p, k) == IF Fresh(mem[p][k]) THEN mem[p][k] ELSE shared[k]

\* The shared copy is promoted with the age it has.
Promote(p, k) == mem' = [mem EXCEPT ![p][k] = IF Fresh(Peek(p, k)) THEN Peek(p, k) ELSE @]

----------------------------------------------------------------------------
(* The page: a click *)

Click(b, p, k, force) ==
    /\ page[b].pc \in {"idle", "ready", "error", "unfinished"} /\ clicks < MaxClicks
    /\ clicks' = clicks + 1
    /\ page' = [page EXCEPT ![b] = [@ EXCEPT !.pc = IF force THEN "look" ELSE "cached",
                   !.key = k, !.proc = p, !.force = force, !.since = done,
                   !.st = "absent", !.idles = 0, !.polled = FALSE, !.age = 0, !.got = 0]]
    /\ UNCHANGED <<mem, shared, status, run, made, done, faults>>

\* start_meta_refresh with force=False
PostPeeks(b) ==
    LET p == page[b].proc  k == page[b].key IN
    /\ At(b, "cached") /\ Promote(p, k)
    /\ IF Fresh(Peek(p, k)) THEN Ends(b, "ready", Peek(p, k).n) ELSE Go(b, "look")
    /\ UNCHANGED <<shared, status, run, made, done, clicks, faults>>

PostLooks(b) ==
    /\ At(b, "look")
    /\ Go(b, IF Read(page[b].key) = "running" THEN "posted" ELSE "join")
    /\ UNCHANGED <<mem, shared, status, run, made, done, clicks, faults>>

\* under _REFRESH_LOCK: a refresh of this process is joined, else one begins
PostJoins(b) ==
    LET p == page[b].proc  k == page[b].key IN
    /\ At(b, "join") /\ Go(b, "posted")
    /\ run' = [run EXCEPT ![p][k] = IF @ = "none" THEN "mark" ELSE @]
    /\ UNCHANGED <<mem, shared, status, made, done, clicks, faults>>

\* Mutant: the thread does not say that it runs.
MarkRunningUnsaid(p, k) ==
    /\ run[p][k] = "mark" /\ run' = [run EXCEPT ![p][k] = "fetch"]
    /\ UNCHANGED <<mem, shared, status, made, page, done, clicks, faults>>

\* The request that has begun one says so in the database before its thread runs.
MarkRunning(p, k) ==
    /\ run[p][k] = "mark" /\ run' = [run EXCEPT ![p][k] = "fetch"]
    /\ Writes(k, "running")
    /\ UNCHANGED <<mem, shared, made, page, done, clicks>>

----------------------------------------------------------------------------
(* The page: a poll, which any process may serve *)

Poll(b, p) ==
    /\ At(b, "posted") /\ (page[b].age = 1 => ~page[b].polled)
    /\ \A q \in Process : run[q][page[b].key] # "mark"    \* two seconds are enough
    /\ page' = [page EXCEPT ![b].pc = "poll", ![b].proc = p, ![b].polled = TRUE]
    /\ UNCHANGED <<mem, shared, status, run, made, done, clicks, faults>>

\* launch_meta_state
PollReads(b) ==
    /\ At(b, "poll")
    /\ IF Read(page[b].key) = "error" THEN Ends(b, "error", 0)
       ELSE page' = [page EXCEPT ![b].st = Read(page[b].key), ![b].pc = "peek"]
    /\ UNCHANGED <<mem, shared, status, run, made, done, clicks, faults>>

PollPeeks(b) ==
    LET p == page[b].proc  k == page[b].key IN
    /\ At(b, "peek") /\ Promote(p, k)
    /\ \/ Fresh(Peek(p, k)) /\ Ends(b, "ready", Peek(p, k).n)
       \/ ~Fresh(Peek(p, k)) /\ page[b].st = "running"
          /\ page' = [page EXCEPT ![b].pc = "posted", ![b].idles = 0, ![b].st = "absent"]
       \/ ~Fresh(Peek(p, k)) /\ page[b].st = "absent"
          /\ IF page[b].idles = 2 THEN Ends(b, "unfinished", 0)
             ELSE page' = [page EXCEPT ![b].pc = "posted", ![b].idles = @ + 1]
    /\ UNCHANGED <<shared, status, run, made, done, clicks, faults>>

GiveUp(b) ==
    /\ At(b, "posted") /\ page[b].age = 1 /\ page[b].polled /\ Ends(b, "error", 0)
    /\ UNCHANGED <<mem, shared, status, run, made, done, clicks, faults>>

----------------------------------------------------------------------------
(* The refresh thread *)

\* fetch_launch_meta: the reads of Oracle, side by side
Fetch(p, k) ==
    /\ run[p][k] = "fetch"
    /\ \/ run' = [run EXCEPT ![p][k] = "evict"] /\ NoFault
       \/ Fault("fetch") /\ run' = [run EXCEPT ![p][k] = "fail"]
    /\ UNCHANGED <<mem, shared, status, made, page, done, clicks>>

Entries(p) == {k \in Key : mem[p][k] # NoDoc}

\* Expired entries go, then the oldest until there is room; the new one may take
\* the place of the old one of the same key, which counts as well.
Evicted(p) ==
    LET live == {k \in Key : Fresh(mem[p][k])} IN
    {gone \in SUBSET live :
        /\ Cardinality(live \ gone) < MaxEntries
        /\ gone # {} => Cardinality(live \ gone) = MaxEntries - 1
        /\ \A k \in gone, l \in live \ gone : mem[p][k].age >= mem[p][l].age}

Insert(p, k) ==
    /\ run[p][k] = "evict" /\ done' = done + 1
    /\ \E gone \in Evicted(p) :
          mem' = [mem EXCEPT ![p] = [l \in Key |->
                     IF l = k THEN [n |-> done + 1, age |-> 0]
                     ELSE IF l \in gone \/ ~Fresh(mem[p][l]) THEN NoDoc ELSE mem[p][l]]]
    /\ run' = [run EXCEPT ![p][k] = "share"] /\ made' = [made EXCEPT ![p][k] = done + 1]
    /\ UNCHANGED <<shared, status, page, clicks, faults>>

\* _store_shared_meta, of what the thread holds: its entry in mem may have made room for
\* another by now; a document that is too large or cannot be written stays out
Share(p, k) ==
    /\ run[p][k] = "share" /\ run' = [run EXCEPT ![p][k] = "clear"]
    /\ made' = [made EXCEPT ![p][k] = 0]
    /\ \/ shared' = [shared EXCEPT ![k] = [n |-> made[p][k], age |-> 0]] /\ NoFault
       \/ Fault("share") /\ UNCHANGED shared
    /\ UNCHANGED <<mem, status, page, done, clicks>>

Report(p, k) ==
    /\ run[p][k] \in {"clear", "fail"}
    /\ Writes(k, IF run[p][k] = "clear" THEN "absent" ELSE "error")
    /\ run' = [run EXCEPT ![p][k] = "leave"]
    /\ UNCHANGED <<mem, shared, made, page, done, clicks>>

\* the finally block takes the key out of _REFRESHING
Leave(p, k) ==
    /\ run[p][k] = "leave" /\ run' = [run EXCEPT ![p][k] = "none"]
    /\ UNCHANGED <<mem, shared, status, made, page, done, clicks, faults>>

----------------------------------------------------------------------------
(* The rest of the system *)

\* The tenant is edited: clear_launch_meta_cache in the process that serves it.
Clear(p, k) ==
    /\ Fault("clear")
    /\ mem' = [mem EXCEPT ![p][k] = NoDoc] /\ shared' = [shared EXCEPT ![k] = NoDoc]
    /\ status' = [status EXCEPT ![k] = [state |-> "absent", age |-> 0]]
    /\ UNCHANGED <<run, made, page, done, clicks>>

\* A process is killed and started again; pages get an error from what it served.
Crash(p) ==
    /\ Fault("crash")
    /\ mem' = [mem EXCEPT ![p] = [k \in Key |-> NoDoc]]
    /\ run' = [run EXCEPT ![p] = [k \in Key |-> "none"]]
    /\ made' = [made EXCEPT ![p] = [k \in Key |-> 0]]
    /\ page' = [b \in Page |->
          IF page[b].proc = p /\ page[b].pc \in {"cached", "look", "join", "poll", "peek"}
          THEN [page[b] EXCEPT !.pc = "error", !.polled = TRUE, !.age = 0] ELSE page[b]]
    /\ UNCHANGED <<shared, status, done, clicks>>

Older(d) == [d EXCEPT !.age = IF @ < TTL THEN @ + 1 ELSE @]

Aged(d) == IF d.age < TTL - 1 THEN Older(d) ELSE NoDoc

Tick ==
    /\ \A b \in Page : page[b].pc \notin {"cached", "look", "join", "poll", "peek"}
    /\ \A b \in Page : At(b, "posted") => page[b].polled /\ page[b].age = 0
    /\ \A p \in Process, k \in Key :
          /\ run[p][k] \in {"none", "fetch"}
          /\ run[p][k] = "fetch" => "slow" \in Faults \/ status[k].age + 1 < TTL
    /\ mem' = [p \in Process |-> [k \in Key |-> Aged(mem[p][k])]]
    /\ shared' = [k \in Key |-> Aged(shared[k])]
    /\ status' = [k \in Key |-> Older(status[k])]
    /\ page' = [b \in Page |-> IF At(b, "posted")
                               THEN [page[b] EXCEPT !.polled = FALSE, !.age = 1] ELSE page[b]]
    /\ UNCHANGED <<run, made, done, clicks, faults>>

Work(p, k) ==
    MarkRunning(p, k) \/ Fetch(p, k) \/ Insert(p, k) \/ Share(p, k) \/ Report(p, k) \/ Leave(p, k)
Asks(b) ==
    PostPeeks(b) \/ PostLooks(b) \/ PostJoins(b) \/ PollReads(b) \/ PollPeeks(b) \/ GiveUp(b)
    \/ \E p \in Process : Poll(b, p)

Next ==
    \/ \E p \in Process, k \in Key : Work(p, k) \/ Clear(p, k)
    \/ \E b \in Page : Asks(b) \/ \E p \in Process, k \in Key, f \in Forced : Click(b, p, k, f)
    \/ \E p \in Process : Crash(p)
    \/ Tick

Spec == Init /\ [][Next]_vars

\* Threads and pages go on, and time passes.
Fairness ==
    /\ \A p \in Process, k \in Key : WF_vars(Work(p, k))
    /\ \A b \in Page : WF_vars(Asks(b))
    /\ SF_vars(Tick)
FairSpec == Spec /\ Fairness

----------------------------------------------------------------------------
(* Properties *)

\* The page never calls a load unfinished that is still running or has ended well
\* (the error after the first click of 0.4.75): the document is there before the
\* state goes, and the state before the thread.
NeverUnfinished == \A b \in Page : ~At(b, "unfinished")

\* What one process has, all have: a launch that the proxy sends to the other
\* process finds the metadata too, once the thread that made it has stored it.
WarmEverywhere ==
    \A p \in Process, k \in Key :
        Fresh(mem[p][k]) /\ (\A q \in Process : run[q][k] # "share")
           => \A q \in Process : Fresh(Peek(q, k))

\* "A second click while one is in flight joins the existing run": one page at a
\* time never has Oracle read twice at once, whichever process it reaches.
OneRefresh ==
    \A k \in Key : Cardinality({p \in Process : run[p][k] \in {"fetch", "evict", "share"}}) <= 1

\* "running" without a thread (its process died) does not last: the page is told so
\* and the next click starts anew. (NobodyWaits of MCEnds.)
Forsaken(k) == Read(k) = "running" /\ \A p \in Process : run[p][k] = "none"
Recovers == \A k \in Key : Forsaken(k) ~> ~Forsaken(k)

\* "Kick off the refresh, then poll until it is ready" (LaunchView.vue): a click
\* that forces a refresh shows a document that was finished after the click.
\* TLC refutes it: a poll reads the cache before it looks whether a refresh runs.
ForcedIsNew ==
    \A b \in Page : At(b, "ready") /\ page[b].force => page[b].got > page[b].since

\* A process keeps at most _META_MAX_ENTRIES documents.
\* TLC refutes it: a promotion inserts without evicting.
CacheBounded == \A p \in Process : Cardinality(Entries(p)) <= MaxEntries
=============================================================================
